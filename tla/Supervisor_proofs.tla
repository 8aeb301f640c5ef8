-------------------------- MODULE Supervisor_proofs --------------------------
(***************************************************************************)
(* Proofs about Supervisor and the ownership of the runtime it rests on,   *)
(* for any number of server processes, deployments and sessions: the types *)
(* (TypesAlways), one owner (OneOwnerAlways), one child (OneChildAlways),  *)
(* that a kill holds (KillAlwaysHolds), and that the table says of a       *)
(* deployment what is true of its child (StatusAlwaysAgrees).              *)
(***************************************************************************)
EXTENDS Supervisor, SequenceTheorems, TLAPS

\* What keeps a second owner away.  The lock does so only until the marker is
\* written, as the database may drop a session at any time; from then on it is
\* the marker, which nobody overwrites whose owner is not gone.
MarkedBy(p) ==
  /\ Operating(p) => marker = p
  /\ Pending(p) => Up(p) /\ marker = p /\ ~own[p].clean
  /\ (own[p].session = "open" /\ own[p].acq \in {"reading", "writing"}) => holder = p
  /\ Querying(p, "writing") => marker \in {NoProc, own[p].ack}
  /\ own[p].ack # NoProc => own[own[p].ack].run = "dead"

Marked == \A p \in Procs : MarkedBy(p)

\* A process begins with nothing, and its shutdown is never undone.
Onward ==
  \A p \in Procs :
    /\ own[p].run = "unborn" => own[p] = Unborn
    /\ own[p].status \in {"acquiring", "recovering", "ready"} => own[p].shut = "no"
    /\ own[p].clean => own[p].shut \in {"releasing", "done"}

OwnerInv ==
  /\ OwnerTypeOK
  /\ at \in [Procs -> [Subjects -> Steps]]
  /\ Marked
  /\ Onward
-----------------------------------------------------------------------------
LEMMA InitOwner == Init => OwnerInv
BY DEF Init, OwnerInit, OwnerInv, OwnerTypeOK, Owner, Unborn, Fresh, Steps, Marked, MarkedBy, Onward,
       Operating, Up, Pending, Querying

\* A record of an owner stays one when an operation writes the fields it writes.
LEMMA EndingMoves ==
  ASSUME NEW o \in Owner,
         NEW st \in {"idle", "acquiring", "recovering", "ready", "draining", "blocked", "lost", "stopped"},
         NEW sh \in {"no", "stopping", "sweeping", "draining", "releasing", "done"}
  PROVE  [o EXCEPT !.status = st, !.shut = sh] \in Owner
<1>1. PICK a : a = [o EXCEPT !.status = st]
  OBVIOUS
<1>2. a \in Owner
  BY <1>1 DEF Owner
<1>3. [a EXCEPT !.shut = sh] \in Owner
  BY <1>2 DEF Owner
<1>4. [o EXCEPT !.status = st, !.shut = sh] = [a EXCEPT !.shut = sh]
  BY <1>1
<1> QED BY <1>3, <1>4, Zenon

LEMMA AbortMoves ==
  ASSUME NEW o \in Owner, NEW b \in BOOLEAN,
         NEW sh \in {"no", "stopping", "sweeping", "draining", "releasing", "done"}
  PROVE  [o EXCEPT !.shut = sh, !.uncertain = b, !.aborted = b] \in Owner
<1>1. PICK a : a = [o EXCEPT !.shut = sh]
  OBVIOUS
<1>2. PICK e : e = [a EXCEPT !.uncertain = b]
  OBVIOUS
<1>3. a \in Owner
  BY <1>1 DEF Owner
<1>4. e \in Owner
  BY <1>2, <1>3 DEF Owner
<1>5. [e EXCEPT !.aborted = b] \in Owner
  BY <1>4 DEF Owner
<1>6. [o EXCEPT !.shut = sh, !.uncertain = b, !.aborted = b] = [e EXCEPT !.aborted = b]
  BY <1>1, <1>2
<1> QED BY <1>5, <1>6, Zenon

LEMMA DrainMoves ==
  ASSUME NEW o \in Owner, NEW b \in BOOLEAN,
         NEW sh \in {"no", "stopping", "sweeping", "draining", "releasing", "done"}
  PROVE  [o EXCEPT !.shut = sh, !.clean = b] \in Owner
<1>1. PICK a : a = [o EXCEPT !.shut = sh]
  OBVIOUS
<1>2. a \in Owner
  BY <1>1 DEF Owner
<1>3. [a EXCEPT !.clean = b] \in Owner
  BY <1>2 DEF Owner
<1>4. [o EXCEPT !.shut = sh, !.clean = b] = [a EXCEPT !.clean = b]
  BY <1>1
<1> QED BY <1>3, <1>4, Zenon

LEMMA ReleaseMoves ==
  ASSUME NEW o \in Owner,
         NEW sh \in {"no", "stopping", "sweeping", "draining", "releasing", "done"},
         NEW se \in {"none", "open", "broken"},
         NEW st \in {"idle", "acquiring", "recovering", "ready", "draining", "blocked", "lost", "stopped"}
  PROVE  [o EXCEPT !.shut = sh, !.session = se, !.status = st] \in Owner
<1>1. PICK a : a = [o EXCEPT !.shut = sh]
  OBVIOUS
<1>2. PICK e : e = [a EXCEPT !.session = se]
  OBVIOUS
<1>3. a \in Owner
  BY <1>1 DEF Owner
<1>4. e \in Owner
  BY <1>2, <1>3 DEF Owner
<1>5. [e EXCEPT !.status = st] \in Owner
  BY <1>4 DEF Owner
<1>6. [o EXCEPT !.shut = sh, !.session = se, !.status = st] = [e EXCEPT !.status = st]
  BY <1>1, <1>2
<1> QED BY <1>5, <1>6, Zenon

LEMMA BirthMoves ==
  ASSUME NEW o \in Owner, NEW a \in Procs \cup {NoProc}
  PROVE  [o EXCEPT !.run = "up", !.status = "acquiring", !.acq = "connecting", !.ack = a] \in Owner
<1>1. PICK e : e = [o EXCEPT !.run = "up"]
  OBVIOUS
<1>2. PICK f : f = [e EXCEPT !.status = "acquiring"]
  OBVIOUS
<1>3. PICK g : g = [f EXCEPT !.acq = "connecting"]
  OBVIOUS
<1>4. e \in Owner
  BY <1>1 DEF Owner
<1>5. f \in Owner
  BY <1>2, <1>4 DEF Owner
<1>6. g \in Owner
  BY <1>3, <1>5 DEF Owner
<1>7. [g EXCEPT !.ack = a] \in Owner
  BY <1>6 DEF Owner
<1>8. [o EXCEPT !.run = "up", !.status = "acquiring", !.acq = "connecting", !.ack = a] = [g EXCEPT !.ack = a]
  BY <1>1, <1>2, <1>3
<1> QED BY <1>7, <1>8, Zenon

\* What the three endings make of the state of an owner.
LEMMA ShuttingType ==
  ASSUME NEW o \in Owner
  PROVE  Shutting(o) \in Owner
<1>1. [o EXCEPT !.status = "lost", !.shut = "stopping"] \in Owner
  BY EndingMoves
<1>2. [o EXCEPT !.status = "draining", !.shut = "stopping"] \in Owner
  BY EndingMoves
<1> QED
  BY <1>1, <1>2 DEF Shutting

LEMMA EndingType ==
  ASSUME NEW o \in Owner
  PROVE  Losing(o) \in Owner /\ Failing(o) \in Owner
<1>1. [o EXCEPT !.status = "lost", !.uncertain = TRUE, !.aborted = TRUE] \in Owner
  BY DEF Owner
<1>2. [o EXCEPT !.acq = "failed", !.uncertain = TRUE,
                !.status = IF o.aborted THEN o.status ELSE "blocked"] \in Owner
  BY DEF Owner
<1> QED
  BY <1>1, <1>2, ShuttingType DEF Losing, Failing

\* They are for good, and take nothing but what concerns the status.
LEMMA EndingEnds ==
  ASSUME NEW o \in Owner,
         o.status \in {"acquiring", "recovering", "ready"} => o.shut = "no",
         o.clean => o.shut \in {"releasing", "done"},
         NEW e \in {Shutting(o), Losing(o), Failing(o)}
  PROVE  /\ e.run = o.run /\ e.ack = o.ack /\ e.session = o.session /\ e.clean = o.clean
         /\ e.acq \in {o.acq, "failed"}
         /\ e.status \notin {"acquiring", "recovering", "ready"}
         /\ e.clean => e.shut \in {"releasing", "done"}
         /\ o.shut = "done" => e.shut = "done"
<1>1. CASE e = Shutting(o)
  BY <1>1 DEF Owner, Shutting
<1>2. CASE e = Losing(o)
  BY <1>2 DEF Owner, Losing, Shutting
<1>3. CASE e = Failing(o)
  BY <1>3 DEF Owner, Failing, Shutting
<1> QED
  BY <1>1, <1>2, <1>3

LEMMA BecomeDef ==
  ASSUME own \in [Procs -> Owner], NEW p \in Procs, NEW o \in Owner, Become(p, o)
  PROVE  /\ own' \in [Procs -> Owner]
         /\ own'[p] = o
         /\ \A q \in Procs \ {p} : own'[q] = own[q]
BY DEF Become

\* A process that is up goes on, and neither begins to operate nor to write.
LEMMA GoesOn ==
  ASSUME OwnerInv, NEW p \in Procs, NEW o \in Owner, Become(p, o), Up(p),
         UNCHANGED <<holder, marker, at>>,
         o.run = "up", o.ack = own[p].ack,
         o.status \in {"recovering", "ready"} => own[p].status \in {"recovering", "ready"},
         (o.session = "open" /\ o.acq \in {"reading", "writing"}) => holder = p,
         (o.session = "open" /\ o.acq = "writing") => marker \in {NoProc, o.ack},
         o.clean => ~Pending(p),
         o.status \in {"acquiring", "recovering", "ready"} => o.shut = "no",
         o.clean => o.shut \in {"releasing", "done"}
  PROVE  OwnerInv'
<1> USE DEF OwnerInv
<1>1. /\ own' \in [Procs -> Owner]
      /\ own'[p] = o
      /\ \A q \in Procs \ {p} : own'[q] = own[q]
  BY BecomeDef DEF OwnerTypeOK
<1>2. OwnerTypeOK' /\ (at \in [Procs -> [Subjects -> Steps]])'
  BY <1>1 DEF OwnerTypeOK
<1>3. Onward'
  BY <1>1 DEF Onward, Unborn
<1>4. \A q \in Procs : Up(q)' <=> Up(q)
  BY <1>1 DEF Up
<1>5. \A q \in Procs : Pending(q)' <=> Pending(q)
  BY DEF Pending
<1>6. Marked'
  <2> SUFFICES ASSUME NEW q \in Procs
               PROVE  MarkedBy(q)'
    BY DEF Marked, MarkedBy
  <2>1. (Operating(q) => marker = q)'
    BY <1>1, <1>4 DEF Marked, MarkedBy, Operating
  <2>2. (Pending(q) => Up(q) /\ marker = q /\ ~own[q].clean)'
    BY <1>1, <1>4, <1>5 DEF Marked, MarkedBy
  <2>3. ((own[q].session = "open" /\ own[q].acq \in {"reading", "writing"}) => holder = q)'
    BY <1>1 DEF Marked, MarkedBy
  <2>4. (Querying(q, "writing") => marker \in {NoProc, own[q].ack})'
    BY <1>1, <1>4 DEF Marked, MarkedBy, Querying
  <2>5. (own[q].ack # NoProc => own[own[q].ack].run = "dead")'
    <3> SUFFICES ASSUME own'[q].ack # NoProc
                 PROVE  own'[own'[q].ack].run = "dead"
      OBVIOUS
    <3>1. own'[q].ack = own[q].ack
      BY <1>1
    <3>2. own[q].ack \in Procs
      BY <3>1 DEF OwnerTypeOK, Owner
    <3>3. own[own[q].ack].run = "dead"
      BY <3>1 DEF Marked, MarkedBy
    <3> QED
      BY <1>1, <3>1, <3>2, <3>3 DEF Up
  <2> QED
    BY <2>1, <2>2, <2>3, <2>4, <2>5, Zenon DEF MarkedBy
<1> QED
  BY <1>2, <1>3, <1>6

LEMMA EndsWell ==
  ASSUME OwnerInv, NEW p \in Procs, Up(p), UNCHANGED <<holder, marker, at>>,
         NEW e \in {Shutting(own[p]), Losing(own[p]), Failing(own[p])}, Become(p, e)
  PROVE  OwnerInv'
<1>1. own[p] \in Owner /\ own[p].run = "up"
  BY DEF OwnerInv, OwnerTypeOK, Up
<1>2. /\ own[p].status \in {"acquiring", "recovering", "ready"} => own[p].shut = "no"
      /\ own[p].clean => own[p].shut \in {"releasing", "done"}
  BY DEF OwnerInv, Onward
<1>3. e \in Owner
  BY <1>1, ShuttingType, EndingType
<1>4. /\ e.run = "up" /\ e.ack = own[p].ack /\ e.session = own[p].session /\ e.clean = own[p].clean
      /\ e.acq \in {own[p].acq, "failed"}
      /\ e.status \notin {"acquiring", "recovering", "ready"}
      /\ e.clean => e.shut \in {"releasing", "done"}
  BY <1>1, <1>2, EndingEnds
<1>5. MarkedBy(p)
  BY DEF OwnerInv, Marked
<1> QED
  BY <1>3, <1>4, <1>5, GoesOn DEF MarkedBy, Querying

LEMMA OwnerStepInv ==
  ASSUME OwnerInv, NEW p \in Procs, UNCHANGED at,
         \/ Connect(p) \/ ReadMarker(p) \/ QueryFails(p) \/ Notice(p) \/ Signal(p)
         \/ BecomeReady(p) \/ RecoveryFails(p)
         \/ /\ Up(p) /\ own[p].shut \in {"stopping", "sweeping"}
            /\ StopEnds(p, TRUE) \/ StopEnds(p, FALSE)
         \/ Drain(p, Pending(p))
  PROVE  OwnerInv'
<1>1. own[p] \in Owner
  BY DEF OwnerInv, OwnerTypeOK
<1>2. MarkedBy(p)
  BY DEF OwnerInv, Marked
<1>3. /\ own[p].status \in {"acquiring", "recovering", "ready"} => own[p].shut = "no"
      /\ own[p].clean => own[p].shut \in {"releasing", "done"}
  BY DEF OwnerInv, Onward
<1>4. CASE Connect(p)
  <2> DEFINE o == [own[p] EXCEPT !.acq = "locking", !.session = "open"]
  <2>1. o \in Owner
    BY <1>1 DEF Owner
  <2>2. /\ o.run = own[p].run /\ o.ack = own[p].ack /\ o.status = own[p].status
        /\ o.shut = own[p].shut /\ o.clean = own[p].clean /\ o.acq = "locking"
    BY <1>1 DEF Owner
  <2>3. Become(p, o) /\ Up(p) /\ UNCHANGED <<holder, marker>>
    BY <1>4 DEF Connect
  <2> HIDE DEF o
  <2> QED
    BY <1>2, <1>3, <2>1, <2>2, <2>3, GoesOn DEF MarkedBy, Up
<1>5. CASE ReadMarker(p)
  <2>1. CASE Accepts(p)
    <3> DEFINE o == [own[p] EXCEPT !.acq = "writing"]
    <3>1. o \in Owner
      BY <1>1 DEF Owner
    <3>2. /\ o.run = own[p].run /\ o.ack = own[p].ack /\ o.status = own[p].status
          /\ o.shut = own[p].shut /\ o.clean = own[p].clean /\ o.session = own[p].session
      BY <1>1 DEF Owner
    <3>3. Become(p, o) /\ Up(p) /\ UNCHANGED <<holder, marker>> /\ own[p].acq = "reading"
      BY <1>5, <2>1 DEF ReadMarker, Querying
    <3> HIDE DEF o
    <3> QED
      BY <1>2, <1>3, <2>1, <3>1, <3>2, <3>3, GoesOn DEF Accepts, MarkedBy, Up
  <2>2. CASE ~Accepts(p)
    BY <1>5, <2>2, EndsWell DEF ReadMarker, Querying
  <2> QED
    BY <2>1, <2>2
<1>6. CASE QueryFails(p) \/ Notice(p) \/ Signal(p) \/ RecoveryFails(p)
  BY <1>6, EndsWell DEF QueryFails, Notice, Signal, RecoveryFails
<1>7. CASE BecomeReady(p)
  <2>1. CASE own[p].status = "recovering"
    <3> DEFINE o == [own[p] EXCEPT !.acq = "done", !.status = "ready"]
    <3>1. o \in Owner
      BY <1>1 DEF Owner
    <3>2. /\ o.run = own[p].run /\ o.ack = own[p].ack /\ o.acq = "done"
          /\ o.shut = own[p].shut /\ o.clean = own[p].clean
      BY <1>1 DEF Owner
    <3>3. Become(p, o) /\ Up(p) /\ UNCHANGED <<holder, marker>>
      BY <1>7, <2>1 DEF BecomeReady
    <3> HIDE DEF o
    <3> QED
      BY <1>2, <1>3, <2>1, <3>1, <3>2, <3>3, GoesOn DEF MarkedBy, Up
  <2>2. CASE own[p].status # "recovering"
    BY <1>7, <2>2, EndsWell DEF BecomeReady
  <2> QED
    BY <2>1, <2>2
<1>8. CASE /\ Up(p) /\ own[p].shut \in {"stopping", "sweeping"}
           /\ StopEnds(p, TRUE) \/ StopEnds(p, FALSE)
  <2>1. PICK o \in {[own[p] EXCEPT !.shut = "draining"],
                    [own[p] EXCEPT !.shut = "draining", !.uncertain = TRUE, !.aborted = TRUE]} :
          Become(p, o) /\ UNCHANGED <<holder, marker>>
    BY <1>8 DEF StopEnds
  <2>2. o \in Owner
    <3>1. [own[p] EXCEPT !.shut = "draining"] \in Owner
      BY <1>1 DEF Owner
    <3>2. [own[p] EXCEPT !.shut = "draining", !.uncertain = TRUE, !.aborted = TRUE] \in Owner
      BY <1>1, AbortMoves, Zenon
    <3> QED
      BY <3>1, <3>2
  <2>3. /\ o.run = own[p].run /\ o.ack = own[p].ack /\ o.acq = own[p].acq
        /\ o.session = own[p].session /\ o.status = own[p].status /\ o.clean = own[p].clean
    BY <1>1 DEF Owner
  <2> QED
    BY <1>2, <1>3, <1>8, <2>1, <2>2, <2>3, GoesOn DEF MarkedBy, Up, Querying
<1>9. CASE Drain(p, Pending(p))
  <2>1. PICK o \in {[own[p] EXCEPT !.shut = "releasing", !.uncertain = TRUE, !.aborted = TRUE],
                    [own[p] EXCEPT !.shut = "releasing", !.clean = ~own[p].uncertain]} :
          /\ Become(p, o) /\ UNCHANGED <<holder, marker>>
          /\ Pending(p) => o.clean = own[p].clean
    BY <1>1, <1>9 DEF Drain, Owner
  <2>2. o \in Owner
    <3>1. [own[p] EXCEPT !.shut = "releasing", !.uncertain = TRUE, !.aborted = TRUE] \in Owner
      BY <1>1, AbortMoves, Zenon
    <3>2. [own[p] EXCEPT !.shut = "releasing", !.clean = ~own[p].uncertain] \in Owner
      <4>1. PICK c \in BOOLEAN : c = ~own[p].uncertain
        OBVIOUS
      <4>2. [own[p] EXCEPT !.shut = "releasing", !.clean = c] \in Owner
        BY <1>1, DrainMoves
      <4> QED
        BY <4>1, <4>2, Zenon
    <3> QED
      BY <3>1, <3>2
  <2>3. /\ o.run = own[p].run /\ o.ack = own[p].ack /\ o.acq = own[p].acq
        /\ o.session = own[p].session /\ o.status = own[p].status /\ o.shut = "releasing"
    <3>1. CASE o = [own[p] EXCEPT !.shut = "releasing", !.uncertain = TRUE, !.aborted = TRUE]
      BY <1>1, <3>1 DEF Owner
    <3>2. CASE o = [own[p] EXCEPT !.shut = "releasing", !.clean = ~own[p].uncertain]
      BY <1>1, <3>2 DEF Owner
    <3> QED BY <3>1, <3>2
  <2>4. Up(p) /\ own[p].shut = "draining"
    BY <1>9 DEF Drain
  <2> QED
    BY <1>2, <1>3, <2>1, <2>2, <2>3, <2>4, GoesOn DEF MarkedBy, Up, Querying
<1> QED
  BY <1>4, <1>5, <1>6, <1>7, <1>8, <1>9

-----------------------------------------------------------------------------
\* What changes who holds the lock, or the marker, at one process.
LEMMA BecomesMarked ==
  ASSUME OwnerInv, NEW p \in Procs, NEW o \in Owner, Become(p, o),
         at' \in [Procs -> [Subjects -> Steps]],
         \A q \in Procs : Pending(q)' => Pending(q),
         {holder', marker'} \subseteq Procs \cup {NoProc},
         o.run # "unborn",
         o.ack # NoProc => own[o.ack].run = "dead",
         own[p].run = "dead" => o.run = "dead",
         o.status \in {"acquiring", "recovering", "ready"} => o.shut = "no",
         o.clean => o.shut \in {"releasing", "done"},
         (o.run = "up" /\ o.status \in {"recovering", "ready"}) => marker' = p,
         Pending(p)' => o.run = "up" /\ marker' = p /\ ~o.clean,
         (o.session = "open" /\ o.acq \in {"reading", "writing"}) => holder' = p,
         (o.run = "up" /\ o.session = "open" /\ o.acq = "writing") => marker' \in {NoProc, o.ack},
         \A q \in Procs \ {p} :
           /\ Operating(q) \/ Pending(q) => marker' = marker
           /\ (own[q].session = "open" /\ own[q].acq \in {"reading", "writing"}) => holder' = holder
           /\ Querying(q, "writing") => marker' \in {NoProc, marker}
  PROVE  OwnerInv'
<1>1. /\ own' \in [Procs -> Owner]
      /\ own'[p] = o
      /\ \A q \in Procs \ {p} : own'[q] = own[q]
  BY BecomeDef DEF OwnerInv, OwnerTypeOK
<1>2. OwnerTypeOK' /\ (at \in [Procs -> [Subjects -> Steps]])'
  BY <1>1 DEF OwnerInv, OwnerTypeOK
<1>3. Onward'
  BY <1>1 DEF OwnerInv, Onward, Unborn
<1>4. \A q \in Procs : own[q].run = "dead" => own'[q].run = "dead"
  BY <1>1
<1>5. \A q \in Procs : own'[q].ack # NoProc => own[own'[q].ack].run = "dead"
  BY <1>1 DEF OwnerInv, Marked, MarkedBy
<1>6. \A q \in Procs : (own[q].ack # NoProc => own[q].ack \in Procs) /\ (o.ack # NoProc => o.ack \in Procs)
  BY DEF OwnerInv, OwnerTypeOK, Owner
<1>7. \A q \in Procs : (own[q].ack # NoProc => own[own[q].ack].run = "dead")'
  BY <1>1, <1>4, <1>5, <1>6
<1>9. MarkedBy(p)'
  BY <1>1, <1>7 DEF MarkedBy, Operating, Querying, Up
<1>10. ASSUME NEW q \in Procs \ {p}
       PROVE  MarkedBy(q)'
  <2>1. own'[q] = own[q] /\ MarkedBy(q)
    BY <1>1 DEF OwnerInv, Marked
  <2> QED
    BY <1>7, <2>1 DEF MarkedBy, Operating, Querying, Up
<1> QED
  BY <1>2, <1>3, <1>9, <1>10 DEF OwnerInv, Marked

LEMMA BootInv ==
  ASSUME OwnerInv, NEW p \in Procs, UNCHANGED at, Boot(p)
  PROVE  OwnerInv'
<1>1. PICK a \in {NoProc} \cup {q \in {marker} : Acknowledged(q)} : BootWith(p, a)
  BY DEF Boot
<1> DEFINE o == [own[p] EXCEPT !.run = "up", !.status = "acquiring", !.acq = "connecting", !.ack = a]
<1>2. a \in Procs \cup {NoProc} /\ (a # NoProc => own[a].run = "dead")
  BY <1>1 DEF Acknowledged, OwnerInv, OwnerTypeOK
<1>3. own[p] \in Owner
  BY DEF OwnerInv, OwnerTypeOK
<1>4. o \in Owner
  BY <1>2, <1>3, BirthMoves
<1>5. Become(p, o) /\ own[p].run = "unborn" /\ UNCHANGED <<holder, marker>>
  BY <1>1 DEF BootWith
<1>6. own[p] = Unborn
  BY <1>5 DEF OwnerInv, Onward
<1>7. /\ o.run = "up" /\ o.status = "acquiring" /\ o.acq = "connecting" /\ o.ack = a
      /\ o.shut = "no" /\ o.clean = FALSE
  BY <1>6 DEF Unborn
<1> HIDE DEF o
<1>8. MarkedBy(p)
  BY DEF OwnerInv, Marked
<1>9. ~Pending(p)
  BY <1>5, <1>8 DEF MarkedBy, Up
<1>10. /\ {holder', marker'} \subseteq Procs \cup {NoProc}
       /\ at' \in [Procs -> [Subjects -> Steps]]
       /\ \A q \in Procs : Pending(q)' => Pending(q)
  BY <1>5 DEF OwnerInv, OwnerTypeOK, Pending
<1> QED
  BY <1>2, <1>4, <1>5, <1>7, <1>9, <1>10, BecomesMarked

LEMMA TryLockInv ==
  ASSUME OwnerInv, NEW p \in Procs, UNCHANGED at, TryLock(p)
  PROVE  OwnerInv'
<1>1. CASE holder # NoProc
  BY <1>1, EndsWell DEF TryLock, Querying
<1>2. CASE holder = NoProc
  <2> DEFINE o == [own[p] EXCEPT !.acq = "reading"]
  <2>1. own[p] \in Owner
    BY DEF OwnerInv, OwnerTypeOK
  <2>2. o \in Owner
    BY <2>1 DEF Owner
  <2>3. /\ o.run = own[p].run /\ o.status = own[p].status /\ o.acq = "reading" /\ o.ack = own[p].ack
        /\ o.shut = own[p].shut /\ o.clean = own[p].clean
    BY <2>1 DEF Owner
  <2>4. Become(p, o) /\ holder' = p /\ marker' = marker /\ own[p].run = "up"
    BY <1>2 DEF TryLock, Querying, Up
  <2> HIDE DEF o
  <2>5. \A q \in Procs : MarkedBy(q)
    BY DEF OwnerInv, Marked
  <2>6. /\ {holder', marker'} \subseteq Procs \cup {NoProc}
        /\ at' \in [Procs -> [Subjects -> Steps]]
        /\ \A q \in Procs : Pending(q)' <=> Pending(q)
    BY <2>4 DEF OwnerInv, OwnerTypeOK, Pending
  <2>7. \A q \in Procs : ~(own[q].session = "open" /\ own[q].acq \in {"reading", "writing"})
    BY <1>2, <2>5, ProcsAssumption DEF MarkedBy, ProcsAssumption
  <2>8. /\ own[p].status \in {"acquiring", "recovering", "ready"} => own[p].shut = "no"
        /\ own[p].clean => own[p].shut \in {"releasing", "done"}
    BY DEF OwnerInv, Onward
  <2> QED
    BY <2>2, <2>3, <2>4, <2>5, <2>6, <2>7, <2>8, BecomesMarked DEF MarkedBy, Operating, Up
<1> QED
  BY <1>1, <1>2

\* Nobody who operates is overwritten: the marker was absent, or its owner gone.
LEMMA WriteMarkerInv ==
  ASSUME OwnerInv, NEW p \in Procs, UNCHANGED at, WriteMarker(p)
  PROVE  OwnerInv'
<1>1. PICK o \in {[own[p] EXCEPT !.acq = "recovering", !.status = "recovering"], Failing(own[p])} :
        /\ Become(p, o)
        /\ o = Failing(own[p]) \/ own[p].status = "acquiring"
  BY DEF WriteMarker
<1>2. own[p] \in Owner /\ own[p].run = "up" /\ own[p].session = "open" /\ own[p].acq = "writing"
  BY DEF WriteMarker, Querying, Up, OwnerInv, OwnerTypeOK
<1>3. /\ own[p].status \in {"acquiring", "recovering", "ready"} => own[p].shut = "no"
      /\ own[p].clean => own[p].shut \in {"releasing", "done"}
  BY DEF OwnerInv, Onward
<1>4. o \in Owner
  <2>1. [own[p] EXCEPT !.acq = "recovering", !.status = "recovering"] \in Owner
    BY <1>2 DEF Owner
  <2> QED
    BY <1>1, <1>2, <2>1, EndingType
<1>5. /\ o.run = "up" /\ o.ack = own[p].ack /\ o.clean = own[p].clean
      /\ o.acq \in {"recovering", "failed"}
      /\ o.status \in {"acquiring", "recovering", "ready"} => o.shut = "no"
      /\ o.clean => o.shut \in {"releasing", "done"}
  <2>1. CASE o = Failing(own[p])
    <3>1. o.acq = "failed"
      BY <1>2, <2>1 DEF Owner, Failing, Shutting
    <3> QED
      BY <1>2, <1>3, <2>1, <3>1, EndingEnds
  <2>2. CASE o # Failing(own[p])
    BY <1>1, <1>2, <1>3, <2>2 DEF Owner
  <2> QED
    BY <2>1, <2>2
<1>6. marker' = p /\ holder' = holder
  BY DEF WriteMarker
<1>7. \A q \in Procs : MarkedBy(q)
  BY DEF OwnerInv, Marked
<1>8. holder = p /\ marker \in {NoProc, own[p].ack}
  BY <1>2, <1>7, Zenon DEF MarkedBy, Querying, Up
<1>9. marker # NoProc => own[marker].run = "dead"
  BY <1>7, <1>8 DEF MarkedBy
<1>10. ASSUME NEW q \in Procs \ {p}
       PROVE  /\ ~Operating(q) /\ ~Pending(q)
              /\ ~Querying(q, "writing")
  <2>1. marker = q => FALSE \/ own[q].run = "dead"
    BY <1>9, ProcsAssumption DEF ProcsAssumption
  <2> QED
    BY <1>7, <1>8, <2>1 DEF MarkedBy, Operating, Querying, Up
<1>11. /\ {holder', marker'} \subseteq Procs \cup {NoProc}
       /\ at' \in [Procs -> [Subjects -> Steps]]
       /\ \A q \in Procs : Pending(q)' <=> Pending(q)
  BY <1>6 DEF OwnerInv, OwnerTypeOK, Pending
<1>12. o.ack # NoProc => own[o.ack].run = "dead"
  BY <1>5, <1>7 DEF MarkedBy
<1>13. Pending(p) => ~o.clean
  BY <1>5, <1>7 DEF MarkedBy
<1> QED
  BY <1>1, <1>2, <1>4, <1>5, <1>6, <1>8, <1>10, <1>11, <1>12, <1>13, BecomesMarked

LEMMA SessionBreaksInv ==
  ASSUME OwnerInv, NEW p \in Procs, UNCHANGED at, SessionBreaks(p)
  PROVE  OwnerInv'
<1> DEFINE o == [own[p] EXCEPT !.session = "broken"]
<1>1. own[p] \in Owner
  BY DEF OwnerInv, OwnerTypeOK
<1>2. o \in Owner
  BY <1>1 DEF Owner
<1>3. /\ o.run = own[p].run /\ o.status = own[p].status /\ o.acq = own[p].acq /\ o.ack = own[p].ack
      /\ o.shut = own[p].shut /\ o.clean = own[p].clean /\ o.session = "broken"
  BY <1>1 DEF Owner
<1>4. /\ Become(p, o) /\ marker' = marker /\ own[p].run = "up"
      /\ holder' = IF holder = p THEN NoProc ELSE holder
  BY DEF SessionBreaks, FreeLock, Up
<1> HIDE DEF o
<1>5. \A q \in Procs : MarkedBy(q)
  BY DEF OwnerInv, Marked
<1>6. /\ {holder', marker'} \subseteq Procs \cup {NoProc}
      /\ at' \in [Procs -> [Subjects -> Steps]]
      /\ \A q \in Procs : Pending(q)' <=> Pending(q)
  BY <1>4 DEF OwnerInv, OwnerTypeOK, Pending
<1>7. \A q \in Procs \ {p} :
        (own[q].session = "open" /\ own[q].acq \in {"reading", "writing"}) => holder' = holder
  BY <1>4, <1>5 DEF MarkedBy
<1>8. /\ own[p].status \in {"acquiring", "recovering", "ready"} => own[p].shut = "no"
      /\ own[p].clean => own[p].shut \in {"releasing", "done"}
  BY DEF OwnerInv, Onward
<1> QED
  BY <1>2, <1>3, <1>4, <1>5, <1>6, <1>7, <1>8, BecomesMarked DEF MarkedBy, Operating, Up

\* Only an owner without anything under way removes its marker.
LEMMA ReleaseInv ==
  ASSUME OwnerInv, NEW p \in Procs, UNCHANGED at, Release(p)
  PROVE  OwnerInv'
<1> DEFINE s == IF own[p].clean /\ own[p].session = "broken" THEN own[p].status ELSE "stopped"
           o == [own[p] EXCEPT !.shut = "done", !.session = "none", !.status = s]
<1>1. own[p] \in Owner
  BY DEF OwnerInv, OwnerTypeOK
<1>2. o \in Owner
  <2>1. s \in {"idle", "acquiring", "recovering", "ready", "draining", "blocked", "lost", "stopped"}
    BY <1>1 DEF Owner
  <2> HIDE DEF s
  <2> QED
    BY <1>1, <2>1, ReleaseMoves
<1>3. /\ o.run = own[p].run /\ o.acq = own[p].acq /\ o.ack = own[p].ack
      /\ o.shut = "done" /\ o.clean = own[p].clean /\ o.session = "none"
      /\ o.status \in {own[p].status, "stopped"}
  BY <1>1 DEF Owner
<1>4. /\ Become(p, o) /\ own[p].run = "up" /\ own[p].shut = "releasing"
      /\ marker' \in {NoProc, marker} /\ (marker' # marker => own[p].clean /\ marker = p)
      /\ holder' = IF holder = p THEN NoProc ELSE holder
  BY DEF Release, FreeLock, Up
<1> HIDE DEF o
<1>5. \A q \in Procs : MarkedBy(q)
  BY DEF OwnerInv, Marked
<1>6. /\ {holder', marker'} \subseteq Procs \cup {NoProc}
      /\ at' \in [Procs -> [Subjects -> Steps]]
      /\ \A q \in Procs : Pending(q)' <=> Pending(q)
  BY <1>4 DEF OwnerInv, OwnerTypeOK, Pending
<1>7. \A q \in Procs \ {p} :
        /\ Operating(q) \/ Pending(q) => marker' = marker
        /\ (own[q].session = "open" /\ own[q].acq \in {"reading", "writing"}) => holder' = holder
        /\ Querying(q, "writing") => marker' \in {NoProc, marker}
  BY <1>4, <1>5 DEF MarkedBy
<1>8. own[p].status \notin {"acquiring", "recovering", "ready"}
  BY <1>4 DEF OwnerInv, Onward
<1>9. Pending(p) => marker' = p /\ ~o.clean
  BY <1>3, <1>4, <1>5 DEF MarkedBy
<1> QED
  BY <1>2, <1>3, <1>4, <1>5, <1>6, <1>7, <1>8, <1>9, BecomesMarked DEF MarkedBy

LEMMA ProcessEndsInv ==
  ASSUME OwnerInv, NEW p \in Procs, ProcessEnds(p)
  PROVE  OwnerInv'
<1> DEFINE o == [Unborn EXCEPT !.run = "dead", !.shut = "done",
                               !.clean = own[p].clean /\ own[p].shut = "done"]
<1>1. own[p] \in Owner
  BY DEF OwnerInv, OwnerTypeOK
<1>2. o \in Owner /\ o.run = "dead" /\ o.status = "idle" /\ o.shut = "done" /\ o.ack = NoProc /\ o.session = "none"
  <2>1. PICK c \in BOOLEAN : c = (own[p].clean /\ own[p].shut = "done")
    OBVIOUS
  <2>2. /\ [Unborn EXCEPT !.run = "dead", !.shut = "done", !.clean = c] \in Owner
        /\ [Unborn EXCEPT !.run = "dead", !.shut = "done", !.clean = c].run = "dead"
        /\ [Unborn EXCEPT !.run = "dead", !.shut = "done", !.clean = c].status = "idle"
        /\ [Unborn EXCEPT !.run = "dead", !.shut = "done", !.clean = c].shut = "done"
        /\ [Unborn EXCEPT !.run = "dead", !.shut = "done", !.clean = c].ack = NoProc
        /\ [Unborn EXCEPT !.run = "dead", !.shut = "done", !.clean = c].session = "none"
    BY DEF Unborn, Owner
  <2>3. o = [Unborn EXCEPT !.run = "dead", !.shut = "done", !.clean = c]
    BY <2>1, Zenon
  <2> QED
    BY <2>2, <2>3, Zenon
<1>3. /\ Become(p, o) /\ own[p].run = "up" /\ marker' = marker
      /\ holder' = IF holder = p THEN NoProc ELSE holder
      /\ at' = [at EXCEPT ![p] = [s \in Subjects |-> "idle"]]
  BY DEF ProcessEnds, Exit, FreeLock, Up
<1> HIDE DEF o
<1>4. \A q \in Procs : MarkedBy(q)
  BY DEF OwnerInv, Marked
<1>5. /\ {holder', marker'} \subseteq Procs \cup {NoProc}
      /\ at' \in [Procs -> [Subjects -> Steps]]
  BY <1>3 DEF OwnerInv, OwnerTypeOK, Steps
<1>6. ~Pending(p)' /\ \A q \in Procs : Pending(q)' => Pending(q)
  BY <1>3 DEF Pending, OwnerInv
<1>7. \A q \in Procs \ {p} :
        (own[q].session = "open" /\ own[q].acq \in {"reading", "writing"}) => holder' = holder
  BY <1>3, <1>4 DEF MarkedBy
<1> QED
  BY <1>2, <1>3, <1>5, <1>6, <1>7, BecomesMarked
-----------------------------------------------------------------------------
\* The operations: they begin while the process owns the runtime, and go on.
LEMMA CalmInv ==
  ASSUME OwnerInv, UNCHANGED ownerVars,
         at' \in [Procs -> [Subjects -> Steps]],
         \A q \in Procs : Pending(q)' => Pending(q) \/ (Up(q) /\ own[q].status \in {"recovering", "ready"})
  PROVE  OwnerInv'
<1>1. OwnerTypeOK' /\ Onward'
  BY DEF OwnerInv, OwnerTypeOK, Onward, ownerVars
<1>2. ASSUME NEW q \in Procs
      PROVE  MarkedBy(q)'
  <2>1. MarkedBy(q) /\ (own[q].clean => own[q].shut \in {"releasing", "done"})
        /\ (own[q].status \in {"acquiring", "recovering", "ready"} => own[q].shut = "no")
    BY DEF OwnerInv, Marked, Onward
  <2>2. Pending(q)' => Up(q) /\ marker = q /\ ~own[q].clean
    BY <2>1 DEF MarkedBy, Operating
  <2> QED
    BY <2>1, <2>2 DEF MarkedBy, Operating, Querying, Up, ownerVars
<1> QED
  BY <1>1, <1>2 DEF OwnerInv, Marked

\* One operation ends, goes a step further, or begins.
LEMMA StepInv ==
  ASSUME OwnerInv, UNCHANGED ownerVars, NEW p \in Procs, NEW s \in Subjects, NEW step \in Steps,
         at' = [at EXCEPT ![p][s] = step] \/ at' = at,
         \/ at' = at \/ step = "idle" \/ at[p][s] # "idle"
         \/ Up(p) /\ own[p].status \in {"recovering", "ready"}
  PROVE  OwnerInv'
<1>1. at' \in [Procs -> [Subjects -> Steps]]
  BY DEF OwnerInv
<1>2. \A q \in Procs, x \in Subjects :
        at'[q][x] = at[q][x] \/ (q = p /\ x = s /\ at'[q][x] = step)
  BY DEF OwnerInv
<1>3. \A q \in Procs : Pending(q)' => Pending(q) \/ (Up(q) /\ own[q].status \in {"recovering", "ready"})
  BY <1>2 DEF Pending
<1> QED
  BY <1>1, <1>3, CalmInv

LEMMA OperateInv ==
  ASSUME OwnerInv, NEW p \in Procs, NEW s \in Subjects,
         Operate(p, s) \/ OperationFails(p, s)
  PROVE  OwnerInv'
<1>1. UNCHANGED ownerVars
  BY DEF Operate, TurnRefused, BeginStart, Check, Prepare, Spawn, BeginStop, StopOther, Terminated, Failed, Stopped,
         ReleaseSource, Relaunch, OperationFails, CheckFails, PrepareFails, SpawnFails,
         TerminateFails, ReleaseFails
<1>2. CASE TurnRefused(p, s)
  <2>1. at' = [at EXCEPT ![p][s] = "idle"]
    BY <1>2 DEF TurnRefused, FinishFailed
  <2> QED
    BY <1>1, <2>1, StepInv DEF Steps
<1>3. CASE ~TurnRefused(p, s)
  <2>1. PICK step \in Steps : at' = [at EXCEPT ![p][s] = step] \/ at' = at
    BY DEF Operate, TurnRefused, BeginStart, Check, Prepare, Spawn, BeginStop, StopOther, Terminated, Failed, Stopped,
           ReleaseSource, Relaunch, OperationFails, CheckFails, PrepareFails, SpawnFails,
           TerminateFails, ReleaseFails, Goto, Finish, FinishFailed, EnterLaunch, Steps
  <2>2. CASE BeginStart(p, s) \/ BeginStop(p, s)
    <3>1. Up(p) /\ own[p].status = "ready"
      BY <2>2 DEF BeginStart, BeginStop, Underway, CanOperate
    <3> QED
      BY <1>1, <2>1, <3>1, StepInv
  <2>3. CASE ~(BeginStart(p, s) \/ BeginStop(p, s))
    <3>1. at[p][s] # "idle"
      BY <1>3, <2>3 DEF Operate, Check, Prepare, Spawn, StopOther, Terminated, Failed, Stopped,
         ReleaseSource, Relaunch, OperationFails, CheckFails, PrepareFails, SpawnFails,
         TerminateFails, ReleaseFails, Underway
    <3> QED
      BY <1>1, <2>1, <3>1, StepInv
  <2> QED
    BY <2>2, <2>3
<1> QED
  BY <1>2, <1>3

\* A start of the recovery begins while the process recovers.
LEMMA RecoverInv ==
  ASSUME OwnerInv, NEW p \in Procs, Recover(p)
  PROVE  OwnerInv'
<1>1. UNCHANGED ownerVars /\ Up(p)
  BY DEF Recover, Recovering
<1>2. PICK d \in todo[p] :
        \/ at' = at
        \/ CanOperate(p, FALSE, TRUE) /\ at' = [at EXCEPT ![p][d] = "checking"]
  BY Zenon DEF Recover
<1>3. CASE at' = at
  BY <1>1, <1>3, CalmInv DEF OwnerInv, Pending
<1>4. CASE CanOperate(p, FALSE, TRUE) /\ at' = [at EXCEPT ![p][d] = "checking"]
  <2>1. own[p].status \in {"recovering", "ready"}
    BY <1>4 DEF CanOperate
  <2>2. at' \in [Procs -> [Subjects -> Steps]]
    BY <1>4 DEF OwnerInv, Steps
  <2>3. \A q \in Procs : q = p \/ at'[q] = at[q]
    BY <1>4 DEF OwnerInv
  <2>4. \A q \in Procs : Pending(q)' => Pending(q) \/ (Up(q) /\ own[q].status \in {"recovering", "ready"})
    BY <1>1, <2>1, <2>3 DEF Pending
  <2> QED
    BY <1>1, <2>2, <2>4, CalmInv
<1> QED
  BY <1>2, <1>3, <1>4

LEMMA SweepInv ==
  ASSUME OwnerInv, NEW p \in Procs, Sweep(p)
  PROVE  OwnerInv'
<1>1. PICK shut \in {"draining", "sweeping"} : Become(p, [own[p] EXCEPT !.shut = shut])
  BY DEF Sweep
<1> DEFINE o == [own[p] EXCEPT !.shut = shut]
<1>2. own[p] \in Owner /\ own[p].run = "up" /\ own[p].shut = "stopping"
  BY DEF Sweep, Up, OwnerInv, OwnerTypeOK
<1>3. o \in Owner
  BY <1>2 DEF Owner
<1>4. /\ o.run = "up" /\ o.ack = own[p].ack /\ o.status = own[p].status
      /\ o.session = own[p].session /\ o.acq = own[p].acq /\ o.clean = own[p].clean
  BY <1>2 DEF Owner
<1>5. own[p].status \notin {"acquiring", "recovering", "ready"} /\ ~own[p].clean
  BY <1>2 DEF OwnerInv, Onward
<1>6. Become(p, o) /\ Up(p) /\ UNCHANGED <<holder, marker, at>>
  BY <1>1 DEF Sweep
<1> HIDE DEF o
<1>7. MarkedBy(p)
  BY DEF OwnerInv, Marked
<1> QED
  BY <1>2, <1>3, <1>4, <1>5, <1>6, <1>7, GoesOn DEF MarkedBy, Querying
-----------------------------------------------------------------------------
\* Steps of an owner, or of the operations that it has begun.
LEMMA ProcessInv ==
  ASSUME OwnerInv, NEW p \in Procs,
         \/ Boot(p) \/ OwnerStep(p) \/ ReleaseOwner(p) \/ StartRecovery(p) \/ Recover(p) \/ Recovered(p)
         \/ RecoveryGivesUp(p) \/ SessionEnds(p) \/ Sweep(p) \/ EndSweep(p) \/ StopGivesUp(p)
         \/ DrainOperations(p) \/ ProcessEnds(p) \/ RecoverySkips(p)
  PROVE  OwnerInv'
<1>1. CASE Boot(p)
  BY <1>1, BootInv DEF Boot, memoryVars
<1>2. CASE OwnerStep(p)
  BY <1>2, OwnerStepInv, TryLockInv DEF OwnerStep, memoryVars
<1>3. CASE ReleaseOwner(p)
  BY <1>3, ReleaseInv DEF ReleaseOwner, memoryVars
<1>4. CASE StartRecovery(p)
  BY <1>4, WriteMarkerInv DEF StartRecovery
<1>5. CASE Recovered(p) \/ RecoveryGivesUp(p)
  BY <1>5, OwnerStepInv DEF Recovered, RecoveryGivesUp, memoryVars
<1>6. CASE SessionEnds(p)
  BY <1>6, SessionBreaksInv DEF SessionEnds, memoryVars
<1>7. CASE EndSweep(p) \/ StopGivesUp(p)
  BY <1>7, OwnerStepInv DEF EndSweep, StopGivesUp, memoryVars
<1>8. CASE DrainOperations(p)
  BY <1>8, OwnerStepInv DEF DrainOperations, memoryVars
<1>9. CASE RecoverySkips(p)
  BY <1>9, CalmInv DEF RecoverySkips, OwnerInv, Pending
<1> QED
  BY <1>1, <1>2, <1>3, <1>4, <1>5, <1>6, <1>7, <1>8, <1>9, RecoverInv, SweepInv, ProcessEndsInv

LEMMA NextInv ==
  ASSUME OwnerInv, [Next]_vars
  PROVE  OwnerInv'
<1>1. ASSUME UNCHANGED <<ownerVars, at>>
      PROVE  OwnerInv'
  BY <1>1, CalmInv DEF OwnerInv, Pending
<1>2. ASSUME NEW p \in Procs,
             \/ Boot(p) \/ OwnerStep(p) \/ ReleaseOwner(p) \/ StartRecovery(p) \/ Recover(p) \/ Recovered(p)
             \/ RecoveryGivesUp(p) \/ SessionEnds(p) \/ Sweep(p) \/ EndSweep(p) \/ StopGivesUp(p)
             \/ DrainOperations(p) \/ ProcessEnds(p) \/ RecoverySkips(p)
      PROVE  OwnerInv'
  BY <1>2, ProcessInv
<1>3. ASSUME NEW p \in Procs, NEW s \in Subjects,
             \/ StartProcess(p, s) \/ StopProcess(p, s)
             \/ Operate(p, s) \/ OperationFails(p, s)
      PROVE  OwnerInv'
  <2>1. CASE StartProcess(p, s) \/ StopProcess(p, s)
    BY <1>1, <2>1 DEF StartProcess, StopProcess
  <2> QED
    BY <1>3, <2>1, OperateInv
<1>4. ASSUME NEW p \in Procs, NEW d \in Deployments,
             RestartProcess(p, d) \/ KillProcess(p, d) \/ AllowProcessRestart(p, d) \/ Persist(p, d)
      PROVE  OwnerInv'
  BY <1>1, <1>4 DEF RestartProcess, KillProcess, AllowProcessRestart, Persist
<1>5. ASSUME NEW c \in DOMAIN children,
             \/ Announces(c) \/ Killed(c) \/ Crashes(c) \/ Listening(c) \/ Exited(c) \/ OperatorEnds(c)
      PROVE  OwnerInv'
  BY <1>1, <1>5 DEF Announces, Killed, Crashes, Dies, Listening, Exited, OperatorEnds, memoryVars
<1>6. CASE UNCHANGED vars \/ \E s \in Subjects : LockExpires(s)
  BY <1>1, <1>6 DEF vars, LockExpires, memoryVars
<1> QED
  BY <1>2, <1>3, <1>4, <1>5, <1>6, Zenon DEF Next

LEMMA InvImpliesOneOwner == OwnerInv => OneOwner
<1> SUFFICES ASSUME OwnerInv, NEW p \in Procs, NEW q \in Procs, p # q, Operating(q)
             PROVE  ~Operating(p) /\ ~(Up(p) /\ Pending(p))
  BY DEF OneOwner
<1>1. MarkedBy(p) /\ MarkedBy(q)
  BY DEF OwnerInv, Marked
<1> QED
  BY <1>1 DEF MarkedBy

\* Whoever recovers or runs the domain is the only one, and no operation that an
\* earlier owner has begun is still under way: for any number of processes and
\* deployments, and whenever the database drops a session (runtime/owner.ts).
THEOREM OneOwnerAlways == Spec => []OneOwner
<1>1. OwnerInv /\ [Next]_vars => OwnerInv'
  BY NextInv
<1> QED
  BY <1>1, InitOwner, InvImpliesOneOwner, PTL DEF Spec

\* The state of the owners, the lock and the marker is what its types say.
THEOREM OwnerTypesAlways == Spec => []OwnerTypeOK
<1>1. OwnerInv /\ [Next]_vars => OwnerInv'
  BY NextInv
<1>2. OwnerInv => OwnerTypeOK
  BY DEF OwnerInv
<1> QED
  BY <1>1, <1>2, InitOwner, PTL DEF Spec
-----------------------------------------------------------------------------
(* One child: who has launched what, and what is known of it *)

Kid == [of : Subjects, by : Procs, alive : BOOLEAN, killed : BOOLEAN,
        line : {"none", "printed", "read"}, seen : BOOLEAN]

Stored ==
  /\ children \in Seq(Kid) /\ left \subseteq DOMAIN children
  /\ registry \in [Subjects -> [child : Nat, status : Statuses \cup {"none"}]]
  /\ entry \in [Procs -> [Subjects -> [child : Nat, stopping : BOOLEAN]]]

Of(c) == children[c].of
By(c) == children[c].by

\* A process that launches nothing any more.
Over(p) == own[p].run = "dead" \/ own[p].clean

OneLauncher(s) ==
  \A x, y \in DOMAIN children : Of(x) = s /\ Of(y) = s => By(x) = By(y)

\* Who has launched it, and whether it is alive without anybody to answer for it.
Attributed(c) ==
  /\ own[By(c)].run # "unborn"
  /\ children[c].alive => By(c) = marker \/ c \in left
  /\ By(c) # marker => Over(By(c))

\* The store of its process has it.
Held(c) ==
  Up(By(c)) =>
    /\ Live(c) => entry[By(c)][Of(c)].child = c /\ ~entry[By(c)][Of(c)].stopping
    /\ children[c].seen => ~children[c].alive

\* The registry has it, as long as one process has launched all of its kind.
Filed(c) ==
  Live(c) /\ OneLauncher(Of(c)) =>
    registry[Of(c)].child = c /\ registry[Of(c)].status \in {"running", "provisioning"}

\* c was launched before e.
Ordered(c, e) ==
  /\ By(c) = By(e) /\ Of(c) = Of(e) => ~(Live(c) /\ Live(e))
  /\ By(c) # By(e) => Over(By(c))
  /\ By(c) # By(e) /\ Of(c) = Of(e) /\ Live(c) => ThirdLauncher(c, e)

\* Between the look at the registry and the launch, and while it stops its own.
Clearing(p, s) == at[p][s] \in {"preparing", "spawning", "terminating"}

Cleared(p, s) ==
  Clearing(p, s) =>
    \A c \in DOMAIN children : Live(c) /\ Of(c) = s => By(c) # p /\ ~OneLauncher(s)

\* What the operator has promised of an owner.
Promised(p) ==
  own[p].ack # NoProc =>
    \A c \in DOMAIN children : By(c) = own[p].ack => ~children[c].alive

KidsInv ==
  /\ OwnerInv /\ Stored
  /\ \A c \in DOMAIN children : Attributed(c) /\ Held(c) /\ Filed(c)
  /\ \A c, e \in DOMAIN children : c < e => Ordered(c, e)
  /\ \A p \in Procs : Promised(p) /\ \A s \in Subjects : Cleared(p, s)

\* What the store and the registry file of a subject speak of is a child of it.
Fitting ==
  \A s \in Subjects :
    /\ registry[s].child # 0 => registry[s].child \in {c \in DOMAIN children : Of(c) = s}
    /\ \A p \in Procs : entry[p][s].child # 0 =>
         entry[p][s].child \in {c \in DOMAIN children : Of(c) = s /\ By(c) = p}

-----------------------------------------------------------------------------
(* Nobody begins again *)

Ages(p) ==
  /\ own[p].run = "dead" => own'[p].run = "dead"
  /\ own[p].run # "unborn" => own'[p].run # "unborn"
  /\ Over(p) => Over(p)'
  /\ Up(p)' => Up(p) \/ own[p].run = "unborn"

\* Nobody is given an acknowledgement.
NoNewAcks == \A p \in Procs : own'[p].ack \in {own[p].ack, NoProc}

LEMMA BecomesAged ==
  ASSUME OwnerInv, NEW p \in Procs, NEW o \in Owner, Become(p, o), Up(p),
         o.run \in {"up", "dead"}, o.run = "up" => o.clean \/ ~own[p].clean,
         o.ack \in {own[p].ack, NoProc}
  PROVE  NoNewAcks /\ \A q \in Procs : Ages(q)
<1>1. own' \in [Procs -> Owner] /\ own'[p] = o /\ \A q \in Procs \ {p} : own'[q] = own[q]
  BY BecomeDef DEF OwnerInv, OwnerTypeOK
<1>2. ASSUME NEW q \in Procs PROVE Ages(q)
  <2>1. CASE q = p
    BY <2>1, <1>1 DEF Ages, Over, Up
  <2>2. CASE q # p
    BY <2>2, <1>1 DEF Ages, Over, Up
  <2> QED BY <2>1, <2>2
<1>3. NoNewAcks
  BY <1>1 DEF NoNewAcks
<1> QED BY <1>2, <1>3

LEMMA EndsAged ==
  ASSUME OwnerInv, NEW p \in Procs, Up(p),
         NEW e \in {Shutting(own[p]), Losing(own[p]), Failing(own[p])}, Become(p, e)
  PROVE  NoNewAcks /\ \A q \in Procs : Ages(q)
<1>1. own[p] \in Owner /\ own[p].run = "up"
  BY DEF OwnerInv, OwnerTypeOK, Up
<1>2. /\ own[p].status \in {"acquiring", "recovering", "ready"} => own[p].shut = "no"
      /\ own[p].clean => own[p].shut \in {"releasing", "done"}
  BY DEF OwnerInv, Onward
<1>3. e \in Owner
  BY <1>1, ShuttingType, EndingType
<1>4. e.run = "up" /\ e.ack = own[p].ack /\ e.clean = own[p].clean
  BY <1>1, <1>2, EndingEnds
<1> QED BY <1>1, <1>3, <1>4, BecomesAged

\* It goes on without an ending, and without beginning anything again.
Goes(p, o) ==
  /\ o \in Owner /\ o.run = "up" /\ o.ack = own[p].ack /\ (o.clean \/ ~own[p].clean)
  /\ own[p].shut = "done" => o.shut = "done"
  /\ o.status \in {"acquiring", "recovering", "ready"} =>
       o.status = own[p].status /\ (o.acq = "recovering" => own[p].acq = "recovering")

\* It takes over, or has recovered.
Rises(p, o) ==
  /\ o \in Owner /\ o.run = "up" /\ o.ack = own[p].ack /\ o.clean = own[p].clean /\ o.shut = own[p].shut
  /\ \/ own[p].status = "acquiring" /\ o.status = "recovering"
     \/ own[p].status = "recovering" /\ o.status = "ready" /\ o.acq = "done"

\* What the steps of an owner make of it.
LEMMA OwnerMoves ==
  ASSUME OwnerInv, NEW p \in Procs,
         \/ Connect(p) \/ TryLock(p) \/ ReadMarker(p) \/ QueryFails(p) \/ Notice(p) \/ Signal(p)
         \/ RecoveryFails(p) \/ SessionBreaks(p)
         \/ /\ Up(p) /\ own[p].shut \in {"stopping", "sweeping"}
            /\ StopEnds(p, TRUE) \/ StopEnds(p, FALSE)
         \/ Drain(p, Pending(p)) \/ Release(p)
  PROVE  /\ Up(p)
         /\ \/ \E e \in {Shutting(own[p]), Losing(own[p]), Failing(own[p])} : Become(p, e)
            \/ \E o \in Owner : Goes(p, o) /\ Become(p, o)
<1> DEFINE Same(o) == /\ o.run = own[p].run /\ o.ack = own[p].ack /\ o.shut = own[p].shut
                      /\ o.clean = own[p].clean /\ o.status = own[p].status
                      /\ (o.acq = own[p].acq \/ o.acq # "recovering")
<1>1. own[p] \in Owner
  BY DEF OwnerInv, OwnerTypeOK
<1>2. Up(p)
  BY DEF Connect, TryLock, ReadMarker, QueryFails, Notice, Signal, RecoveryFails, SessionBreaks,
     Drain, Release, Querying
<1>3. \/ \E e \in {Shutting(own[p]), Losing(own[p]), Failing(own[p])} : Become(p, e)
      \/ \E o \in Owner : Goes(p, o) /\ Become(p, o)
  <2>1. CASE Connect(p) \/ SessionBreaks(p)
    <3>1. CASE Connect(p)
      <4>1. PICK a : a = [own[p] EXCEPT !.acq = "locking"]
        OBVIOUS
      <4>2. PICK o : o = [a EXCEPT !.session = "open"]
        OBVIOUS
      <4>3. a \in Owner /\ Same(a)
        BY <1>1, <4>1 DEF Owner
      <4>4. o \in Owner /\ Same(o)
        BY <4>2, <4>3 DEF Owner
      <4>5. Become(p, o)
        BY <3>1, <4>1, <4>2 DEF Connect
      <4> QED BY <1>2, <4>4, <4>5 DEF Up, Goes
    <3>2. CASE SessionBreaks(p)
      BY <1>1, <1>2, <3>2 DEF SessionBreaks, Owner, Up, Goes
    <3> QED BY <2>1, <3>1, <3>2
  <2>2. CASE TryLock(p) \/ ReadMarker(p)
    <3>1. CASE TryLock(p)
      BY <1>1, <1>2, <3>1 DEF TryLock, Owner, Up, Goes
    <3>2. CASE ReadMarker(p)
      BY <1>1, <1>2, <3>2 DEF ReadMarker, Owner, Up, Goes
    <3> QED BY <2>2, <3>1, <3>2
  <2>3. CASE QueryFails(p) \/ Notice(p) \/ Signal(p) \/ RecoveryFails(p)
    BY <2>3 DEF QueryFails, Notice, Signal, RecoveryFails
  <2>4. CASE own[p].shut \in {"stopping", "sweeping"} /\ (StopEnds(p, TRUE) \/ StopEnds(p, FALSE))
    <3>1. PICK o \in {[own[p] EXCEPT !.shut = "draining"],
                      [own[p] EXCEPT !.shut = "draining", !.uncertain = TRUE, !.aborted = TRUE]} :
            Become(p, o)
      BY <2>4 DEF StopEnds
    <3>2. CASE o = [own[p] EXCEPT !.shut = "draining"]
      <4>1. o \in Owner /\ o.shut = "draining" /\ o.run = own[p].run /\ o.ack = own[p].ack
            /\ o.clean = own[p].clean /\ o.status = own[p].status /\ o.acq = own[p].acq
        BY <1>1, <3>2 DEF Owner
      <4> QED BY <1>2, <2>4, <3>1, <4>1 DEF Up, Goes
    <3>3. CASE o = [own[p] EXCEPT !.shut = "draining", !.uncertain = TRUE, !.aborted = TRUE]
      <4>1. o \in Owner
        BY <1>1, <3>3, AbortMoves, Zenon
      <4>2. /\ o.run = own[p].run /\ o.ack = own[p].ack /\ o.clean = own[p].clean
            /\ o.status = own[p].status /\ o.acq = own[p].acq
        BY <1>1, <3>3 DEF Owner
      <4> QED BY <1>2, <2>4, <3>1, <4>1, <4>2 DEF Up, Goes
    <3> QED BY <3>1, <3>2, <3>3
  <2>5. CASE Drain(p, Pending(p))
    <3>1. ~own[p].clean /\ own[p].run = "up" /\ own[p].shut # "done"
      BY <1>2, <2>5 DEF Drain, OwnerInv, Onward, Up
    <3>2. CASE Become(p, [own[p] EXCEPT !.shut = "releasing", !.uncertain = TRUE, !.aborted = TRUE])
      <4>1. PICK o : o = [own[p] EXCEPT !.shut = "releasing", !.uncertain = TRUE, !.aborted = TRUE]
        OBVIOUS
      <4>2. o \in Owner
        BY <1>1, <4>1, AbortMoves, Zenon
      <4>3. o.run = own[p].run /\ o.ack = own[p].ack /\ o.status = own[p].status /\ o.acq = own[p].acq
        BY <1>1, <4>1 DEF Owner
      <4>4. Become(p, o)
        BY <3>2, <4>1, Zenon
      <4> QED BY <3>1, <4>2, <4>3, <4>4 DEF Goes
    <3>3. CASE Become(p, [own[p] EXCEPT !.shut = "releasing", !.clean = ~own[p].uncertain])
      <4>1. PICK b \in BOOLEAN : b = ~own[p].uncertain
        OBVIOUS
      <4>2. PICK o : o = [own[p] EXCEPT !.shut = "releasing", !.clean = b]
        OBVIOUS
      <4>3. o \in Owner /\ o.run = "up" /\ o.ack = own[p].ack /\ o.status = own[p].status /\ o.acq = own[p].acq
        BY <1>1, <3>1, <4>2 DEF Owner
      <4>4. Become(p, o)
        BY <3>3, <4>1, <4>2, Zenon
      <4> QED BY <3>1, <4>3, <4>4 DEF Goes
    <3> QED BY <2>5, <3>2, <3>3, Zenon DEF Drain
  <2>6. CASE Release(p)
    <3>1. PICK st : st = IF own[p].clean /\ own[p].session = "broken" THEN own[p].status ELSE "stopped"
      OBVIOUS
    <3>2. PICK o : o = [own[p] EXCEPT !.shut = "done", !.session = "none", !.status = st]
      OBVIOUS
    <3>3. st \in {own[p].status, "stopped"} /\ Become(p, o)
      BY <2>6, <3>1, <3>2 DEF Release
    <3>4. st \in {"idle", "acquiring", "recovering", "ready", "draining", "blocked", "lost", "stopped"}
      BY <1>1, <3>3 DEF Owner
    <3>5. o \in Owner
      BY <1>1, <3>2, <3>4, ReleaseMoves
    <3>6. o.run = own[p].run /\ o.ack = own[p].ack /\ o.clean = own[p].clean /\ o.status = st
          /\ o.shut = "done" /\ o.acq = own[p].acq
      BY <1>1, <3>2 DEF Owner
    <3> QED BY <1>2, <3>3, <3>5, <3>6 DEF Up, Goes
  <2> QED BY <2>1, <2>2, <2>3, <2>4, <2>5, <2>6
<1> QED BY <1>2, <1>3

LEMMA OwnerRises ==
  ASSUME OwnerInv, NEW p \in Procs, WriteMarker(p) \/ BecomeReady(p)
  PROVE  /\ Up(p)
         /\ \/ \E e \in {Shutting(own[p]), Losing(own[p]), Failing(own[p])} : Become(p, e)
            \/ \E o \in Owner : Rises(p, o) /\ Become(p, o)
<1>1. own[p] \in Owner
  BY DEF OwnerInv, OwnerTypeOK
<1>2. Up(p)
  BY DEF WriteMarker, BecomeReady, Querying
<1>3. CASE WriteMarker(p)
  BY <1>1, <1>2, <1>3 DEF WriteMarker, Owner, Up, Rises
<1>4. CASE BecomeReady(p)
  BY <1>1, <1>2, <1>4 DEF BecomeReady, Owner, Up, Rises
<1> QED BY <1>2, <1>3, <1>4

\* A step of an owner that leaves the marker to whom it belongs.
LEMMA OwnerAges ==
  ASSUME OwnerInv, NEW p \in Procs,
         \/ Connect(p) \/ TryLock(p) \/ ReadMarker(p) \/ QueryFails(p) \/ Notice(p) \/ Signal(p)
         \/ BecomeReady(p) \/ RecoveryFails(p) \/ WriteMarker(p) \/ SessionBreaks(p)
         \/ /\ Up(p) /\ own[p].shut \in {"stopping", "sweeping"}
            /\ StopEnds(p, TRUE) \/ StopEnds(p, FALSE)
         \/ Drain(p, Pending(p)) \/ Release(p)
  PROVE  NoNewAcks /\ \A q \in Procs : Ages(q)
<1>1. Up(p)
  BY OwnerMoves, OwnerRises
<1>2. CASE \E e \in {Shutting(own[p]), Losing(own[p]), Failing(own[p])} : Become(p, e)
  BY <1>1, <1>2, EndsAged
<1>3. CASE \E o \in Owner : (Goes(p, o) \/ Rises(p, o)) /\ Become(p, o)
  BY <1>1, <1>3, BecomesAged DEF Goes, Rises
<1> QED BY <1>2, <1>3, OwnerMoves, OwnerRises

-----------------------------------------------------------------------------
(* Steps that launch nothing *)

\* What was alive may not be, what was to go still is to go, and no process begins
\* again.
Wane ==
  /\ children' \in Seq(Kid) /\ Len(children') = Len(children)
  /\ left \subseteq left' /\ left' \subseteq DOMAIN children
  /\ \A c \in DOMAIN children :
       /\ Of(c)' = Of(c) /\ By(c)' = By(c)
       /\ children'[c].alive => children[c].alive
       /\ Live(c)' => Live(c)
  /\ \A p \in Procs : Ages(p)

LEMMA Waned ==
  ASSUME KidsInv, Wane
  PROVE  /\ DOMAIN children' = DOMAIN children
         /\ \A c \in DOMAIN children : Of(c) \in Subjects /\ By(c) \in Procs
         /\ \A s : OneLauncher(s)' <=> OneLauncher(s)
         /\ \A c, e \in DOMAIN children : ThirdLauncher(c, e)' <=> ThirdLauncher(c, e)
         /\ \A c, e \in DOMAIN children : c < e => Ordered(c, e)'
<1>1. DOMAIN children' = DOMAIN children /\ \A c \in DOMAIN children : children[c] \in Kid
  BY DEF KidsInv, Stored, Wane
<1>2. \A c \in DOMAIN children : Of(c) \in Subjects /\ By(c) \in Procs
  BY <1>1 DEF Of, By, Kid
<1>3. \A s : OneLauncher(s)' <=> OneLauncher(s)
  BY <1>1 DEF OneLauncher, Wane
<1>4. \A c, e \in DOMAIN children : ThirdLauncher(c, e)' <=> ThirdLauncher(c, e)
  BY <1>1 DEF ThirdLauncher, Of, By, Wane
<1>5. ASSUME NEW c \in DOMAIN children, NEW e \in DOMAIN children, c < e
      PROVE  Ordered(c, e)'
  <2>1. Ordered(c, e)
    BY <1>5 DEF KidsInv
  <2>2. Over(By(c)) => Over(By(c))'
    <3>1. PICK q \in Procs : q = By(c)
      BY <1>2, <1>5
    <3>2. Over(q) => Over(q)'
      BY <3>1 DEF Wane, Ages
    <3> QED BY <3>1, <3>2, <1>5 DEF Wane
  <2> QED BY <2>1, <2>2, <1>4, <1>5 DEF Ordered, Wane
<1> QED BY <1>1, <1>2, <1>3, <1>4, <1>5

\* The marker stays, and no owner is given an acknowledgement.
LEMMA SameMarker ==
  ASSUME KidsInv, Wane, marker' = marker, NoNewAcks
  PROVE  /\ \A c \in DOMAIN children : Attributed(c)'
         /\ \A p \in Procs : Promised(p)'
<1>1. ASSUME NEW c \in DOMAIN children PROVE Attributed(c)'
  <2>1. PICK q \in Procs : q = By(c)
    BY <1>1, Waned
  <2>2. Attributed(c) /\ q = By(c)' /\ Ages(q)
    BY <1>1, <2>1 DEF KidsInv, Wane
  <2> QED BY <1>1, <2>1, <2>2 DEF Attributed, Ages, Wane
<1>2. ASSUME NEW p \in Procs PROVE Promised(p)'
  BY <1>2, Waned DEF KidsInv, Wane, Promised, NoNewAcks
<1> QED BY <1>1, <1>2

\* Nothing is launched, and the store, the registry and the operations keep
\* what is there: so does the invariant.
LEMMA WaneInv ==
  ASSUME KidsInv, OwnerInv', Wane, Stored',
         \A c \in DOMAIN children : Attributed(c)',
         \A p \in Procs : Promised(p)',
         \A c \in DOMAIN children, p \in Procs :
           p = By(c) /\ Up(p) /\ Up(p)' /\ Held(c) =>
             /\ Live(c)' => entry'[p][Of(c)] = entry[p][Of(c)]
             /\ children'[c].seen => ~children'[c].alive,
         \A c \in DOMAIN children, s \in Subjects :
           s = Of(c) /\ Live(c)' /\ OneLauncher(s) /\ registry[s].child = c =>
             registry'[s].child = c /\ registry'[s].status \in {"running", "provisioning", registry[s].status},
         \A p \in Procs, s \in Subjects : Clearing(p, s)' => Clearing(p, s) \/ Cleared(p, s)'
  PROVE  KidsInv'
<1>1. DOMAIN children' = DOMAIN children
  BY Waned
<1>2. ASSUME NEW c \in DOMAIN children PROVE Held(c)'
  <2>1. PICK q \in Procs : q = By(c)
    BY <1>2, Waned
  <2>2. q = By(c)' /\ Of(c)' = Of(c) /\ Held(c) /\ Attributed(c) /\ Ages(q)
    BY <1>2, <2>1 DEF KidsInv, Wane
  <2>3. Up(q)' => Up(q)
    BY <2>1, <2>2 DEF Attributed, Ages
  <2> QED BY <1>2, <2>1, <2>2, <2>3 DEF Held, Wane
<1>3. ASSUME NEW c \in DOMAIN children PROVE Filed(c)'
  <2>1. PICK s \in Subjects : s = Of(c)
    BY <1>3, Waned
  <2>2. s = Of(c)' /\ Filed(c) /\ (OneLauncher(s)' <=> OneLauncher(s))
    BY <1>3, <2>1, Waned DEF KidsInv, Wane
  <2> QED BY <1>3, <2>1, <2>2 DEF Filed, Wane
<1>4. ASSUME NEW p \in Procs, NEW s \in Subjects PROVE Cleared(p, s)'
  <2>1. Cleared(p, s)
    BY <1>4 DEF KidsInv
  <2> QED BY <1>1, <1>4, <2>1, Waned DEF Cleared, Wane
<1>5. \A c, e \in DOMAIN children : c < e => Ordered(c, e)'
  BY Waned
<1> QED BY <1>1, <1>2, <1>3, <1>4, <1>5 DEF KidsInv

-----------------------------------------------------------------------------
(* Steps that leave the children alone *)

LEMMA StillInv ==
  ASSUME KidsInv, OwnerInv', UNCHANGED <<children, registry, entry, left, marker>>,
         NoNewAcks, \A p \in Procs : Ages(p),
         \A p \in Procs, s \in Subjects : Clearing(p, s)' => Clearing(p, s) \/ Cleared(p, s)'
  PROVE  KidsInv'
<1>1. Wane
  BY DEF KidsInv, Stored, Wane, Of, By, Live, Alive
<1>2. Stored'
  BY DEF KidsInv, Stored
<1>3. /\ \A c \in DOMAIN children : Attributed(c)'
      /\ \A p \in Procs : Promised(p)'
  BY <1>1, SameMarker
<1>4. \A c \in DOMAIN children, p \in Procs :
        p = By(c) /\ Up(p) /\ Up(p)' /\ Held(c) =>
          /\ Live(c)' => entry'[p][Of(c)] = entry[p][Of(c)]
          /\ children'[c].seen => ~children'[c].alive
  BY DEF Held
<1> QED BY <1>1, <1>2, <1>3, <1>4, WaneInv

LEMMA SameOwners ==
  ASSUME UNCHANGED own
  PROVE  NoNewAcks /\ \A p \in Procs : Ages(p)
BY DEF NoNewAcks, Ages, Over, Up

LEMMA OwnersInv ==
  ASSUME KidsInv, OwnerInv', NEW p \in Procs,
         \/ OwnerStep(p) \/ Recovered(p) \/ RecoveryGivesUp(p) \/ SessionEnds(p)
         \/ StopGivesUp(p) \/ DrainOperations(p)
  PROVE  KidsInv'
<1>1. UNCHANGED <<children, registry, entry, left, at>>
  BY DEF OwnerStep, Recovered, RecoveryGivesUp, SessionEnds, StopGivesUp, DrainOperations,
     subjectVars, memoryVars
<1>2. marker' = marker
  BY DEF OwnerStep, Recovered, RecoveryGivesUp, SessionEnds, StopGivesUp, DrainOperations, Connect, TryLock,
     ReadMarker, QueryFails, Notice, Signal, BecomeReady, RecoveryFails, SessionBreaks, StopEnds, Drain
<1>3. NoNewAcks /\ \A q \in Procs : Ages(q)
  BY OwnerAges DEF KidsInv, OwnerStep, Recovered, RecoveryGivesUp, SessionEnds, StopGivesUp, DrainOperations
<1>4. \A q \in Procs, s \in Subjects : Clearing(q, s)' => Clearing(q, s)
  BY <1>1 DEF Clearing
<1> QED BY <1>1, <1>2, <1>3, <1>4, StillInv

LEMMA AskedInv ==
  ASSUME KidsInv, OwnerInv', NEW p \in Procs, NEW s \in Subjects,
         \/ StartProcess(p, s) \/ StopProcess(p, s) \/ RestartProcess(p, s) \/ KillProcess(p, s)
         \/ AllowProcessRestart(p, s) \/ Persist(p, s)
  PROVE  KidsInv'
<1>1. UNCHANGED <<children, registry, entry, left, at, marker, own>>
  BY DEF StartProcess, StopProcess, RestartProcess, KillProcess, AllowProcessRestart, Persist,
     subjectVars, ownerVars
<1>2. \A q \in Procs, x \in Subjects : Clearing(q, x)' => Clearing(q, x)
  BY <1>1 DEF Clearing
<1> QED BY <1>1, <1>2, SameOwners, StillInv

\* The steps of an operation that neither launch nor stop.
LEMMA PassingInv ==
  ASSUME KidsInv, OwnerInv', NEW p \in Procs, NEW s \in Subjects,
         \/ TurnRefused(p, s) \/ BeginStart(p, s) \/ Prepare(p, s)
         \/ CheckFails(p, s) \/ PrepareFails(p, s) \/ SpawnFails(p, s) \/ ReleaseFails(p, s)
         \/ Failed(p, s) \/ Stopped(p, s) \/ ReleaseSource(p, s) \/ Relaunch(p, s)
  PROVE  KidsInv'
<1>1. UNCHANGED <<children, registry, entry, left, marker, own>>
  BY DEF TurnRefused, BeginStart, Prepare, CheckFails, PrepareFails, SpawnFails, ReleaseFails, Failed, Stopped,
     ReleaseSource, Relaunch, subjectVars, ownerVars
<1>2. PICK step \in {"idle", "checking", "failing", "releasing", "waiting", "spawning"} :
        at' = [at EXCEPT ![p][s] = step] /\ (step = "spawning" => at[p][s] = "preparing")
  <2>1. CASE Prepare(p, s)
    BY <2>1 DEF Prepare, Underway, Goto, Finish
  <2>2. CASE ~Prepare(p, s)
    <3>1. PICK step \in {"idle", "checking", "failing", "releasing", "waiting"} :
            at' = [at EXCEPT ![p][s] = step]
      BY <2>2 DEF TurnRefused, BeginStart, CheckFails, PrepareFails, SpawnFails, ReleaseFails, Failed, Stopped,
         ReleaseSource, Relaunch, EnterLaunch, Goto, Finish, FinishFailed
    <3> QED BY <3>1
  <2> QED BY <2>1, <2>2
<1>3. \A q \in Procs, x \in Subjects : Clearing(q, x)' => Clearing(q, x)
  BY <1>2 DEF Clearing, KidsInv, OwnerInv
<1> QED BY <1>1, <1>3, SameOwners, StillInv

LEMMA RecoverKidsInv ==
  ASSUME KidsInv, OwnerInv', NEW p \in Procs, Recover(p) \/ RecoverySkips(p)
  PROVE  KidsInv'
<1>1. UNCHANGED <<children, registry, entry, left, marker, own>>
  BY DEF Recover, RecoverySkips, subjectVars, ownerVars
<1>2. PICK d \in todo[p] : at' = at \/ at' = [at EXCEPT ![p][d] = "checking"]
  BY Zenon DEF Recover, RecoverySkips
<1>3. \A q \in Procs, x \in Subjects : Clearing(q, x)' => Clearing(q, x)
  BY <1>2 DEF Clearing, KidsInv, OwnerInv
<1> QED BY <1>1, <1>3, SameOwners, StillInv

\* The look at the store and the registry: nothing it may not launch beside.
LEMMA CheckInv ==
  ASSUME KidsInv, OwnerInv', NEW p \in Procs, NEW s \in Subjects, Check(p, s)
  PROVE  KidsInv'
<1>1. UNCHANGED <<children, registry, entry, left, marker, own>> /\ Up(p)
  BY DEF Check, subjectVars, ownerVars, Underway
<1>2. PICK step \in {"idle", "preparing"} :
        /\ at' = [at EXCEPT ![p][s] = step]
        /\ step = "preparing" => ~HasEntry(p, s) /\ ~LaunchedAlready(s)
  BY DEF Check, MayLaunch, Goto, Finish
<1>3. ASSUME step = "preparing", NEW c \in DOMAIN children, Live(c), Of(c) = s
      PROVE  By(c) # p /\ ~OneLauncher(s)
  <2>1. Held(c) /\ Filed(c)
    BY <1>3 DEF KidsInv
  <2>2. ~OneLauncher(s)
    BY <1>2, <1>3, <2>1 DEF Filed, LaunchedAlready, Live
  <2>3. By(c) # p
    BY <1>1, <1>2, <1>3, <2>1 DEF Held, HasEntry, HasExitCode, Live, Alive
  <2> QED BY <2>2, <2>3
<1>4. \A q \in Procs, x \in Subjects : Clearing(q, x)' => Clearing(q, x) \/ (q = p /\ x = s /\ step = "preparing")
  BY <1>2 DEF Clearing, KidsInv, OwnerInv
<1>5. step = "preparing" => Cleared(p, s)'
  BY <1>1, <1>3 DEF Cleared, Live, Alive, Of, By, OneLauncher
<1> QED BY <1>1, <1>4, <1>5, SameOwners, StillInv

-----------------------------------------------------------------------------
(* What a child does, and what is heard of it *)

LEMMA KidType ==
  ASSUME Stored, NEW c \in DOMAIN children
  PROVE  children[c] \in Kid /\ Of(c) \in Subjects /\ By(c) \in Procs /\ c \in Nat \ {0}
<1>1. children[c] \in Kid
  BY DEF Stored
<1>2. Of(c) \in Subjects /\ By(c) \in Procs
  BY <1>1 DEF Of, By, Kid
<1>3. Len(children) \in Nat /\ DOMAIN children = 1..Len(children)
  BY LenProperties DEF Stored
<1>4. c \in Nat \ {0}
  BY <1>3
<1> QED BY <1>1, <1>2, <1>4

LEMMA KidsSeq ==
  ASSUME Stored, NEW f \in [DOMAIN children -> Kid]
  PROVE  f \in Seq(Kid) /\ Len(f) = Len(children) /\ DOMAIN f = DOMAIN children
<1>1. Len(children) \in Nat /\ DOMAIN children = 1..Len(children)
  BY LenProperties DEF Stored
<1>2. f \in Seq(Kid)
  BY <1>1, SeqDef
<1>3. DOMAIN f = 1..Len(children) /\ DOMAIN f = 1..Len(f) /\ Len(f) \in Nat
  BY <1>1, <1>2, LenProperties
<1> QED BY <1>1, <1>2, <1>3

\* Its record becomes k.
KidMove(c, k) ==
  /\ c \in DOMAIN children /\ k \in Kid
  /\ children' = [children EXCEPT ![c] = k]
  /\ k.of = Of(c) /\ k.by = By(c)
  /\ k.alive => children[c].alive
  /\ k.alive /\ ~k.killed => Live(c)
  /\ k.seen => children[c].seen \/ ~k.alive
  /\ UNCHANGED <<own, marker, left, entry, at>>
  /\ registry' \in [Subjects -> [child : Nat, status : Statuses \cup {"none"}]]

LEMMA KidMoveInv ==
  ASSUME KidsInv, OwnerInv', NEW c, NEW k, KidMove(c, k),
         \A e \in DOMAIN children, s \in Subjects :
           s = Of(e) /\ Live(e)' /\ OneLauncher(s) /\ registry[s].child = e =>
             registry'[s].child = e /\ registry'[s].status \in {"running", "provisioning", registry[s].status}
  PROVE  KidsInv'
<1>1. Stored /\ children \in [DOMAIN children -> Kid]
  BY LenProperties DEF KidsInv, Stored
<1>2. children' \in [DOMAIN children -> Kid]
  BY <1>1 DEF KidMove
<1>3. children' \in Seq(Kid) /\ Len(children') = Len(children) /\ DOMAIN children' = DOMAIN children
  BY <1>1, <1>2, KidsSeq
<1>4. children'[c] = k /\ \A e \in DOMAIN children \ {c} : children'[e] = children[e]
  BY <1>1 DEF KidMove
<1>5. c # 0 /\ \A e \in DOMAIN children : e # 0
  BY <1>1, LenProperties DEF KidMove, Stored
<1>6. Wane
  <2>1. ASSUME NEW e \in DOMAIN children
        PROVE  /\ Of(e)' = Of(e) /\ By(e)' = By(e)
               /\ children'[e].alive => children[e].alive
               /\ Live(e)' => Live(e)
    <3>1. CASE e = c
      BY <1>4, <1>5, <3>1 DEF KidMove, Of, By, Live, Alive
    <3>2. CASE e # c
      BY <1>4, <2>1, <3>2 DEF Of, By, Live, Alive
    <3> QED BY <3>1, <3>2
  <2> QED BY <1>1, <1>3, <2>1, SameOwners DEF Wane, KidMove, Stored
<1>7. Stored'
  BY <1>1, <1>3 DEF Stored, KidMove
<1>8. /\ \A e \in DOMAIN children : Attributed(e)'
      /\ \A p \in Procs : Promised(p)'
  BY <1>6, SameMarker, SameOwners DEF KidMove
<1>9. ASSUME NEW e \in DOMAIN children, NEW p \in Procs, p = By(e), Up(p), Held(e)
      PROVE  /\ entry'[p][Of(e)] = entry[p][Of(e)]
             /\ children'[e].seen => ~children'[e].alive
  <2>1. CASE e = c
    BY <1>4, <1>9, <2>1 DEF KidMove, Held
  <2>2. CASE e # c
    BY <1>4, <1>9, <2>2 DEF KidMove, Held
  <2> QED BY <2>1, <2>2
<1>10. \A p \in Procs, s \in Subjects : Clearing(p, s)' => Clearing(p, s)
  BY DEF Clearing, KidMove
<1> QED BY <1>6, <1>7, <1>8, <1>9, <1>10, WaneInv

\* It speaks, or ends.
LEMMA KidActsInv ==
  ASSUME KidsInv, OwnerInv', NEW c \in DOMAIN children,
         Announces(c) \/ Killed(c) \/ Crashes(c) \/ OperatorEnds(c)
  PROVE  KidsInv'
<1>1. children[c] \in Kid
  BY DEF KidsInv, Stored
<1>2. UNCHANGED <<own, marker, left, entry, at, registry>>
  BY DEF Announces, Killed, Crashes, OperatorEnds, Dies, ownerVars, memoryVars
<1>3. PICK k :
        /\ \E b \in BOOLEAN :
             k \in {[children[c] EXCEPT !.line = "printed"], [children[c] EXCEPT !.alive = FALSE, !.killed = b]}
        /\ children' = [children EXCEPT ![c] = k]
  <2>1. CASE Announces(c)
    BY <2>1 DEF Announces
  <2>2. CASE Killed(c) \/ Crashes(c) \/ OperatorEnds(c)
    <3>1. PICK b \in BOOLEAN : children' = [children EXCEPT ![c].alive = FALSE, ![c].killed = b]
      BY <2>2 DEF Killed, Crashes, OperatorEnds, Dies
    <3>2. children' = [children EXCEPT ![c] = [children[c] EXCEPT !.alive = FALSE, !.killed = b]]
      BY <3>1
    <3> QED BY <3>2
  <2> QED BY <2>1, <2>2
<1>4. /\ k \in Kid /\ k.of = Of(c) /\ k.by = By(c) /\ (k.alive => children[c].alive)
      /\ (k.alive /\ ~k.killed => children[c].alive /\ ~children[c].killed) /\ k.seen = children[c].seen
  BY <1>1, <1>3 DEF Kid, Of, By
<1>5. c # 0
  BY LenProperties DEF KidsInv, Stored
<1>6. KidMove(c, k)
  BY <1>2, <1>3, <1>4, <1>5 DEF KidMove, Live, Alive, KidsInv, Stored
<1> QED BY <1>2, <1>6, KidMoveInv

\* A late line of a child writes the registry only if the store has that child.
LEMMA ListeningInv ==
  ASSUME KidsInv, OwnerInv', NEW c \in DOMAIN children, Listening(c)
  PROVE  KidsInv'
<1>1. children[c] \in Kid /\ Of(c) \in Subjects /\ By(c) \in Procs /\ c \in Nat \ {0}
  BY KidType DEF KidsInv
<1>2. UNCHANGED <<own, marker, left, entry, at>> /\ Up(By(c))
  BY DEF Listening, ownerVars, By
<1>3. PICK k : k = [children[c] EXCEPT !.line = "read"]
  OBVIOUS
<1>4. /\ k \in Kid /\ k.of = Of(c) /\ k.by = By(c) /\ k.alive = children[c].alive
      /\ k.killed = children[c].killed /\ k.seen = children[c].seen
  BY <1>1, <1>3 DEF Kid, Of, By
<1>5. children' = [children EXCEPT ![c] = k]
  BY <1>3 DEF Listening
<1>6. PICK g : g = [child |-> c, status |-> "running"]
  OBVIOUS
<1>7. g \in [child : Nat, status : Statuses \cup {"none"}] /\ g.child = c /\ g.status = "running"
  BY <1>1, <1>6 DEF Statuses
<1>8. \/ registry' = registry
      \/ Current(c) /\ registry' = [registry EXCEPT ![Of(c)] = g]
  <2>1. CASE Current(c) /\ ~HasExitCode(c)
    BY <1>6, <2>1 DEF Listening, Of
  <2>2. CASE ~(Current(c) /\ ~HasExitCode(c))
    BY <2>2, Zenon DEF Listening
  <2> QED BY <2>1, <2>2
<1>9. KidMove(c, k)
  BY <1>1, <1>2, <1>4, <1>5, <1>7, <1>8 DEF KidMove, Live, Alive, KidsInv, Stored
<1>10. ASSUME NEW e \in DOMAIN children, NEW s \in Subjects,
              s = Of(e), Live(e)', OneLauncher(s), registry[s].child = e
       PROVE  registry'[s].child = e /\ registry'[s].status \in {"running", "provisioning", registry[s].status}
  <2>1. CASE registry' = registry
    BY <1>10, <2>1
  <2>2. CASE s # Of(c) /\ registry' = [registry EXCEPT ![Of(c)] = g]
    BY <1>10, <2>2 DEF KidsInv, Stored
  <2>3. CASE s = Of(c) /\ Current(c) /\ registry' = [registry EXCEPT ![Of(c)] = g]
    <3>1. By(e) = By(c) /\ Live(e) /\ Held(e)
      <4>1. Live(e)
        BY <1>4, <1>5, <1>10 DEF Live, Alive, KidsInv, Stored
      <4> QED BY <4>1, <1>10, <2>3 DEF OneLauncher, KidsInv
    <3>2. entry[By(c)][s].child = e
      BY <1>2, <1>10, <3>1 DEF Held
    <3>3. entry[By(c)][s].child = c
      BY <2>3 DEF Current, Of, By
    <3> QED BY <1>1, <1>7, <2>3, <3>2, <3>3 DEF KidsInv, Stored
  <2> QED BY <1>8, <2>1, <2>2, <2>3
<1> QED BY <1>9, <1>10, KidMoveInv

\* The exit of a child removes its own registry file only.
LEMMA ExitedInv ==
  ASSUME KidsInv, OwnerInv', NEW c \in DOMAIN children, Exited(c)
  PROVE  KidsInv'
<1>1. children[c] \in Kid /\ Of(c) \in Subjects /\ By(c) \in Procs /\ c \in Nat \ {0}
  BY KidType DEF KidsInv
<1>2. UNCHANGED <<own, marker, left, entry, at>> /\ ~children[c].alive
  BY DEF Exited, ownerVars
<1>3. PICK k : k = [children[c] EXCEPT !.seen = TRUE]
  OBVIOUS
<1>4. /\ k \in Kid /\ k.of = Of(c) /\ k.by = By(c) /\ k.alive = children[c].alive
      /\ k.killed = children[c].killed
  BY <1>1, <1>3 DEF Kid, Of, By
<1>5. children' = [children EXCEPT ![c] = k]
  BY <1>3 DEF Exited
<1>6. NoRegistry \in [child : Nat, status : Statuses \cup {"none"}]
  BY DEF NoRegistry
<1>7. PICK g : /\ g \in {registry[Of(c)], NoRegistry} /\ registry' = [registry EXCEPT ![Of(c)] = g]
               /\ g # registry[Of(c)] => registry[Of(c)].child = c
  BY DEF Exited, Of
<1>8. KidMove(c, k)
  BY <1>1, <1>2, <1>4, <1>5, <1>6, <1>7 DEF KidMove, Live, Alive, KidsInv, Stored
<1>9. ASSUME NEW e \in DOMAIN children, NEW s \in Subjects,
             s = Of(e), Live(e)', OneLauncher(s), registry[s].child = e
      PROVE  registry'[s].child = e /\ registry'[s].status \in {"running", "provisioning", registry[s].status}
  <2>1. e # c
    BY <1>2, <1>4, <1>5, <1>9 DEF Live, Alive, KidsInv, Stored
  <2>2. registry'[s] = registry[s]
    BY <1>1, <1>7, <1>9, <2>1 DEF KidsInv, Stored
  <2> QED BY <1>9, <2>2
<1> QED BY <1>8, <1>9, KidMoveInv

-----------------------------------------------------------------------------
(* Stopping *)

LEMMA KillWanes ==
  ASSUME KidsInv, NEW S, Kill(S), left' = left, \A q \in Procs : Ages(q)
  PROVE  /\ Wane /\ DOMAIN children' = DOMAIN children
         /\ \A c \in DOMAIN children : children'[c].seen = children[c].seen /\ (Live(c)' => c \notin S)
<1>1. Stored
  BY DEF KidsInv
<1>2. ASSUME NEW c \in DOMAIN children
      PROVE  /\ children'[c] \in Kid /\ Of(c)' = Of(c) /\ By(c)' = By(c)
             /\ children'[c].alive = children[c].alive /\ children'[c].seen = children[c].seen
             /\ children'[c].killed = children[c].killed \/ (children'[c].killed /\ c \in S)
             /\ c \in S => children'[c].killed
             /\ c # 0
  <2>1. children[c] \in Kid /\ c # 0
    BY <1>1, <1>2, KidType
  <2>2. CASE c \in S
    <3>1. children'[c] = [children[c] EXCEPT !.killed = TRUE]
      BY <1>2, <2>2 DEF Kill
    <3> QED BY <2>1, <2>2, <3>1 DEF Kid, Of, By
  <2>3. CASE c \notin S
    <3>1. children'[c] = children[c]
      BY <1>2, <2>3 DEF Kill
    <3> QED BY <2>1, <2>3, <3>1 DEF Of, By
  <2> QED BY <2>2, <2>3
<1>3. children' \in [DOMAIN children -> Kid]
  BY <1>2 DEF Kill
<1>4. children' \in Seq(Kid) /\ Len(children') = Len(children) /\ DOMAIN children' = DOMAIN children
  BY <1>1, <1>3, KidsSeq
<1>5. Wane
  BY <1>1, <1>2, <1>4 DEF Wane, Live, Alive, Stored
<1>6. \A c \in DOMAIN children : Live(c)' => c \notin S
  BY <1>2 DEF Live
<1> QED BY <1>2, <1>4, <1>5, <1>6

LEMMA KillInv ==
  ASSUME KidsInv, OwnerInv', NEW S, Kill(S), UNCHANGED <<left, marker, registry>>,
         NoNewAcks, \A q \in Procs : Ages(q),
         entry' \in [Procs -> [Subjects -> [child : Nat, stopping : BOOLEAN]]],
         \A c \in DOMAIN children, q \in Procs :
           q = By(c) /\ Up(q) /\ Live(c) /\ entry[q][Of(c)].child = c =>
             c \in S \/ entry'[q][Of(c)] = entry[q][Of(c)],
         \A q \in Procs, s \in Subjects : Clearing(q, s)' => Clearing(q, s) \/ Cleared(q, s)'
  PROVE  KidsInv'
<1>1. /\ Wane /\ DOMAIN children' = DOMAIN children
      /\ \A c \in DOMAIN children : children'[c].seen = children[c].seen /\ (Live(c)' => c \notin S)
  BY KillWanes
<1>2. Stored'
  BY <1>1 DEF KidsInv, Stored, Wane
<1>3. /\ \A c \in DOMAIN children : Attributed(c)'
      /\ \A p \in Procs : Promised(p)'
  BY <1>1, SameMarker
<1>4. ASSUME NEW c \in DOMAIN children, NEW p \in Procs, p = By(c), Up(p), Held(c)
      PROVE  /\ Live(c)' => entry'[p][Of(c)] = entry[p][Of(c)]
             /\ children'[c].seen => ~children'[c].alive
  <2>1. children'[c].alive => children[c].alive
    BY <1>1, <1>4 DEF Wane
  <2>2. children'[c].seen => ~children'[c].alive
    BY <1>1, <1>4, <2>1, KidType DEF Held, KidsInv, Stored, Kid, Wane
  <2>3. Live(c)' => Live(c) /\ c \notin S
    BY <1>1, <1>4 DEF Wane
  <2> QED BY <1>4, <2>2, <2>3 DEF Held
<1> QED BY <1>1, <1>2, <1>3, <1>4, WaneInv

LEMMA BeginStopInv ==
  ASSUME KidsInv, Fitting, OwnerInv', NEW p \in Procs, NEW s \in Subjects, BeginStop(p, s)
  PROVE  KidsInv'
<1>1. UNCHANGED <<left, marker, registry, own>> /\ Up(p)
  BY DEF BeginStop, ownerVars, Underway
<1>2. PICK S : /\ Alive(entry[p][s].child) => S = {entry[p][s].child}
               /\ ~Alive(entry[p][s].child) => S = {c \in {registry[s].child} : Alive(c)}
               /\ Kill(S)
  BY DEF BeginStop
<1>3. Kill(S)
  BY <1>2
<1>4. entry \in [Procs -> [Subjects -> [child : Nat, stopping : BOOLEAN]]]
  BY DEF KidsInv, Stored
<1>5. PICK b \in BOOLEAN : b = (entry[p][s].stopping \/ entry[p][s].child # 0)
  OBVIOUS
<1>6. PICK x : x = [entry[p][s] EXCEPT !.stopping = b]
  OBVIOUS
<1>7. x \in [child : Nat, stopping : BOOLEAN]
  BY <1>4, <1>6
<1>8. entry' = [entry EXCEPT ![p][s] = x]
  BY <1>5, <1>6 DEF BeginStop
<1>9. ASSUME NEW c \in DOMAIN children, NEW q \in Procs, q = By(c), Live(c), entry[q][Of(c)].child = c
      PROVE  c \in S \/ entry'[q][Of(c)] = entry[q][Of(c)]
  <2>1. Of(c) \in Subjects
    BY <1>9, KidType DEF KidsInv
  <2>2. CASE q = p /\ Of(c) = s
    BY <1>2, <1>9, <2>2 DEF Live
  <2>3. CASE ~(q = p /\ Of(c) = s)
    BY <1>4, <1>8, <1>9, <2>1, <2>3
  <2> QED BY <2>2, <2>3
<1>10. at' = [at EXCEPT ![p][s] = "terminating"]
  BY DEF BeginStop, Goto
<1>11. \A q \in Procs, r \in Subjects : Clearing(q, r)' => Clearing(q, r) \/ (q = p /\ r = s)
  BY <1>10 DEF Clearing, KidsInv, OwnerInv
<1>12. NoNewAcks /\ \A q \in Procs : Ages(q)
  BY <1>1, SameOwners
<1>13. /\ Wane /\ DOMAIN children' = DOMAIN children
       /\ \A c \in DOMAIN children : Live(c)' => c \notin S
  BY <1>1, <1>3, <1>12, KillWanes
<1>14. Cleared(p, s)'
  <2>1. ASSUME NEW c \in DOMAIN children, Live(c)', Of(c)' = s
        PROVE  By(c)' # p /\ ~OneLauncher(s)'
    <3>1. Live(c) /\ Of(c) = s /\ By(c)' = By(c) /\ c \notin S
      BY <1>13, <2>1 DEF Wane
    <3>2. Held(c) /\ Filed(c) /\ c # entry[p][s].child
      BY <1>2, <2>1, <3>1 DEF KidsInv, Live
    <3>3. By(c) # p
      BY <1>1, <3>1, <3>2 DEF Held
    <3>4. ~OneLauncher(s)
      <4>1. CASE Alive(entry[p][s].child)
        <5>1. entry[p][s].child \in {e \in DOMAIN children : Of(e) = s /\ By(e) = p}
          BY <4>1 DEF Fitting, Alive
        <5> QED BY <3>1, <3>3, <5>1 DEF OneLauncher
      <4>2. CASE ~Alive(entry[p][s].child)
        <5>1. c # registry[s].child
          BY <1>2, <3>1, <4>2 DEF Live
        <5> QED BY <3>1, <3>2, <5>1 DEF Filed
      <4> QED BY <4>1, <4>2
    <3> QED BY <1>13, <3>1, <3>3, <3>4, Waned
  <2> QED BY <1>13, <2>1 DEF Cleared
<1>15. entry' \in [Procs -> [Subjects -> [child : Nat, stopping : BOOLEAN]]]
  BY <1>4, <1>7, <1>8
<1> QED BY <1>1, <1>3, <1>9, <1>11, <1>12, <1>14, <1>15, KillInv

LEMMA StopOtherInv ==
  ASSUME KidsInv, OwnerInv', NEW p \in Procs, NEW s \in Subjects, StopOther(p, s)
  PROVE  KidsInv'
<1>1. UNCHANGED <<left, marker, registry, entry, at, own>>
  BY DEF StopOther, ownerVars
<1>2. PICK S : Kill(S)
  BY DEF StopOther
<1>3. NoNewAcks /\ \A q \in Procs : Ages(q)
  BY <1>1, SameOwners
<1>4. entry' \in [Procs -> [Subjects -> [child : Nat, stopping : BOOLEAN]]]
  BY <1>1 DEF KidsInv, Stored
<1>5. \A q \in Procs, r \in Subjects : Clearing(q, r)' => Clearing(q, r)
  BY <1>1 DEF Clearing
<1> QED BY <1>1, <1>2, <1>3, <1>4, <1>5, KillInv

\* At a shutdown, all of its own.
LEMMA SweepKidsInv ==
  ASSUME KidsInv, OwnerInv', NEW p \in Procs, Sweep(p)
  PROVE  KidsInv'
<1>1. UNCHANGED <<left, marker, registry, at>> /\ Up(p)
  BY DEF Sweep
<1>2. PICK S : S = {c \in DOMAIN children : \E s \in Subjects : entry[p][s].child = c /\ Alive(c)}
  OBVIOUS
<1>3. Kill(S)
  BY <1>2 DEF Sweep
<1>4. entry \in [Procs -> [Subjects -> [child : Nat, stopping : BOOLEAN]]]
  BY DEF KidsInv, Stored
<1>5. PICK x : x = [s \in Subjects |->
                     [child |-> entry[p][s].child, stopping |-> entry[p][s].stopping \/ entry[p][s].child # 0]]
  OBVIOUS
<1>6. x \in [Subjects -> [child : Nat, stopping : BOOLEAN]]
  <2>1. ASSUME NEW s \in Subjects PROVE x[s] \in [child : Nat, stopping : BOOLEAN]
    <3>1. PICK b \in BOOLEAN : b = (entry[p][s].stopping \/ entry[p][s].child # 0)
      OBVIOUS
    <3>2. x[s] = [child |-> entry[p][s].child, stopping |-> b]
      BY <1>5, <3>1
    <3> QED BY <1>4, <3>2
  <2>2. x = [s \in Subjects |-> x[s]]
    BY <1>5
  <2> QED BY <2>1, <2>2
<1>7. entry' = [entry EXCEPT ![p] = x]
  BY <1>4, <1>5 DEF Sweep
<1>8. entry' \in [Procs -> [Subjects -> [child : Nat, stopping : BOOLEAN]]]
  BY <1>4, <1>6, <1>7
<1>9. ASSUME NEW c \in DOMAIN children, NEW q \in Procs, q = By(c), Live(c), entry[q][Of(c)].child = c
      PROVE  c \in S \/ entry'[q][Of(c)] = entry[q][Of(c)]
  <2>1. Of(c) \in Subjects
    BY <1>9, KidType DEF KidsInv
  <2>2. CASE q = p
    BY <1>2, <1>9, <2>1, <2>2 DEF Live
  <2>3. CASE q # p
    BY <1>4, <1>7, <1>9, <2>3
  <2> QED BY <2>2, <2>3
<1>10. NoNewAcks /\ \A q \in Procs : Ages(q)
  <2>1. PICK shut \in {"draining", "sweeping"} : Become(p, [own[p] EXCEPT !.shut = shut])
    BY DEF Sweep
  <2>2. PICK o : o = [own[p] EXCEPT !.shut = shut]
    OBVIOUS
  <2>3. own[p] \in Owner /\ own[p].run = "up"
    BY <1>1 DEF KidsInv, OwnerInv, OwnerTypeOK, Up
  <2>4. o \in Owner /\ o.run = "up" /\ o.ack = own[p].ack /\ o.clean = own[p].clean
    BY <2>2, <2>3 DEF Owner
  <2> QED BY <1>1, <2>1, <2>2, <2>4, BecomesAged DEF KidsInv
<1>11. \A q \in Procs, r \in Subjects : Clearing(q, r)' => Clearing(q, r)
  BY <1>1 DEF Clearing
<1> QED BY <1>1, <1>3, <1>8, <1>9, <1>10, <1>11, KillInv

\* The children stay what they are.
LEMMA TidyInv ==
  ASSUME KidsInv, OwnerInv', UNCHANGED <<children, left, marker>>,
         NoNewAcks, \A q \in Procs : Ages(q),
         entry' \in [Procs -> [Subjects -> [child : Nat, stopping : BOOLEAN]]],
         registry' \in [Subjects -> [child : Nat, status : Statuses \cup {"none"}]],
         \A c \in DOMAIN children, q \in Procs, s \in Subjects :
           q = By(c) /\ s = Of(c) /\ Up(q) /\ Live(c) /\ entry[q][s] = [child |-> c, stopping |-> FALSE] =>
             entry'[q][s] = entry[q][s],
         \A c \in DOMAIN children, s \in Subjects :
           s = Of(c) /\ Live(c) /\ OneLauncher(s) /\ registry[s].child = c =>
             registry'[s].child = c /\ registry'[s].status \in {"running", "provisioning", registry[s].status},
         \A q \in Procs, s \in Subjects : Clearing(q, s)' => Clearing(q, s)
  PROVE  KidsInv'
<1>1. Wane
  BY DEF KidsInv, Stored, Wane, Of, By, Live, Alive
<1>2. Stored'
  BY DEF KidsInv, Stored
<1>3. /\ \A c \in DOMAIN children : Attributed(c)'
      /\ \A p \in Procs : Promised(p)'
  BY <1>1, SameMarker
<1>4. ASSUME NEW c \in DOMAIN children, NEW p \in Procs, p = By(c), Up(p), Held(c)
      PROVE  /\ Live(c)' => entry'[p][Of(c)] = entry[p][Of(c)]
             /\ children'[c].seen => ~children'[c].alive
  <2>1. PICK s \in Subjects : s = Of(c)
    BY <1>4, KidType DEF KidsInv
  <2>2. Live(c)' => Live(c)
    BY <1>1 DEF Wane
  <2>3. Live(c) => entry[p][s] = [child |-> c, stopping |-> FALSE]
    <3>1. entry[p][s] \in [child : Nat, stopping : BOOLEAN]
      BY DEF KidsInv, Stored
    <3> QED BY <1>4, <2>1, <3>1 DEF Held
  <2> QED BY <1>4, <2>1, <2>2, <2>3 DEF Held
<1>5. ASSUME NEW c \in DOMAIN children, NEW s \in Subjects,
             s = Of(c), Live(c)', OneLauncher(s), registry[s].child = c
      PROVE  registry'[s].child = c /\ registry'[s].status \in {"running", "provisioning", registry[s].status}
  BY <1>1, <1>5 DEF Wane
<1> QED BY <1>1, <1>2, <1>3, <1>4, <1>5, WaneInv

\* While its own is put to an end, no other is filed.
LEMMA TerminatedInv ==
  ASSUME KidsInv, OwnerInv', NEW p \in Procs, NEW s \in Subjects,
         Terminated(p, s) \/ TerminateFails(p, s)
  PROVE  KidsInv'
<1>1. UNCHANGED <<children, left, marker, own>> /\ Up(p) /\ at[p][s] = "terminating"
  BY DEF Terminated, TerminateFails, ownerVars, Underway
<1>2. /\ entry \in [Procs -> [Subjects -> [child : Nat, stopping : BOOLEAN]]]
      /\ registry \in [Subjects -> [child : Nat, status : Statuses \cup {"none"}]]
  BY DEF KidsInv, Stored
<1>3. PICK g \in [child : Nat, status : Statuses \cup {"none"}] : registry' = [registry EXCEPT ![s] = g]
  <2>1. CASE Terminated(p, s)
    <3>1. NoRegistry \in [child : Nat, status : Statuses \cup {"none"}]
      BY DEF NoRegistry
    <3> QED BY <2>1, <3>1 DEF Terminated
  <2>2. CASE TerminateFails(p, s)
    <3>1. PICK x : /\ registry' = [registry EXCEPT ![s] = x]
                   /\ x \in {registry[s], [child |-> entry[p][s].child, status |-> "error"]}
      BY <2>2 DEF TerminateFails
    <3>2. x \in [child : Nat, status : Statuses \cup {"none"}]
      BY <1>2, <3>1 DEF Statuses
    <3> QED BY <3>1, <3>2
  <2> QED BY <2>1, <2>2
<1>4. PICK x \in {entry[p][s], NoEntry} : entry' = [entry EXCEPT ![p][s] = x]
  <2>1. CASE Terminated(p, s)
    BY <2>1 DEF Terminated
  <2>2. CASE TerminateFails(p, s)
    BY <1>2, <2>2 DEF TerminateFails
  <2> QED BY <2>1, <2>2
<1>5. entry' \in [Procs -> [Subjects -> [child : Nat, stopping : BOOLEAN]]]
  <2>1. x \in [child : Nat, stopping : BOOLEAN]
    <3>1. NoEntry \in [child : Nat, stopping : BOOLEAN]
      BY DEF NoEntry
    <3>2. entry[p][s] \in [child : Nat, stopping : BOOLEAN]
      BY <1>2
    <3> QED BY <3>1, <3>2
  <2> QED BY <1>2, <1>4, <2>1
<1>6. ASSUME NEW c \in DOMAIN children, Live(c), Of(c) = s
      PROVE  By(c) # p /\ ~OneLauncher(s)
  BY <1>1, <1>6 DEF KidsInv, Cleared, Clearing
<1>7. PICK step \in {"persisting", "failing"} : at' = [at EXCEPT ![p][s] = step]
  BY DEF Terminated, TerminateFails, Goto
<1>8. \A q \in Procs, r \in Subjects : Clearing(q, r)' => Clearing(q, r)
  BY <1>7 DEF Clearing, KidsInv, OwnerInv
<1>9. ASSUME NEW c \in DOMAIN children, NEW q \in Procs, NEW r \in Subjects,
             q = By(c), r = Of(c), Live(c)
      PROVE  entry'[q][r] = entry[q][r]
  <2>1. ~(q = p /\ r = s)
    BY <1>6, <1>9
  <2> QED BY <1>2, <1>4, <2>1
<1>10. ASSUME NEW c \in DOMAIN children, NEW r \in Subjects, r = Of(c), Live(c), OneLauncher(r)
       PROVE  registry'[r] = registry[r]
  <2>1. r # s
    BY <1>6, <1>10
  <2> QED BY <1>2, <1>3, <2>1
<1>11. registry' \in [Subjects -> [child : Nat, status : Statuses \cup {"none"}]]
  BY <1>2, <1>3
<1> QED BY <1>1, <1>5, <1>8, <1>9, <1>10, <1>11, SameOwners, TidyInv

\* What the shutdown has stopped is gone.
LEMMA EndSweepInv ==
  ASSUME KidsInv, OwnerInv', NEW p \in Procs, EndSweep(p)
  PROVE  KidsInv'
<1>1. UNCHANGED <<children, left, marker, at>> /\ Up(p) /\ own[p].shut = "sweeping" /\ StopEnds(p, TRUE)
      /\ \A s \in Swept(p) : ~Alive(entry[p][s].child)
  BY DEF EndSweep, StopEnds
<1>2. /\ entry \in [Procs -> [Subjects -> [child : Nat, stopping : BOOLEAN]]]
      /\ registry \in [Subjects -> [child : Nat, status : Statuses \cup {"none"}]]
  BY DEF KidsInv, Stored
<1>3. NoRegistry \in [child : Nat, status : Statuses \cup {"none"}]
      /\ NoEntry \in [child : Nat, stopping : BOOLEAN]
  BY DEF NoRegistry, NoEntry
<1>4. registry' = [s \in Subjects |-> IF s \in Swept(p) /\ registry[s].child = entry[p][s].child
                                      THEN NoRegistry ELSE registry[s]]
  BY DEF EndSweep
<1>5. PICK x : x = [s \in Subjects |-> IF s \in Swept(p) THEN NoEntry ELSE entry[p][s]]
  OBVIOUS
<1>6. entry' = [entry EXCEPT ![p] = x]
  BY <1>2, <1>5 DEF EndSweep
<1>7. x \in [Subjects -> [child : Nat, stopping : BOOLEAN]]
  BY <1>2, <1>3, <1>5
<1>8. entry' \in [Procs -> [Subjects -> [child : Nat, stopping : BOOLEAN]]]
  BY <1>2, <1>6, <1>7
<1>9. registry' \in [Subjects -> [child : Nat, status : Statuses \cup {"none"}]]
  BY <1>2, <1>3, <1>4
<1>10. ASSUME NEW c \in DOMAIN children, NEW q \in Procs, NEW r \in Subjects,
              entry[q][r] = [child |-> c, stopping |-> FALSE]
       PROVE  entry'[q][r] = entry[q][r]
  <2>1. CASE q = p
    <3>1. r \notin Swept(p)
      BY <1>10, <2>1 DEF Swept
    <3> QED BY <1>2, <1>5, <1>6, <2>1, <3>1
  <2>2. CASE q # p
    BY <1>2, <1>6, <2>2
  <2> QED BY <2>1, <2>2
<1>11. ASSUME NEW c \in DOMAIN children, NEW r \in Subjects, Live(c), registry[r].child = c
       PROVE  registry'[r] = registry[r]
  <2>1. r \in Swept(p) => registry[r].child # entry[p][r].child
    BY <1>1, <1>11 DEF Live
  <2> QED BY <1>4, <2>1
<1>12. NoNewAcks /\ \A q \in Procs : Ages(q)
  BY <1>1, OwnerAges DEF KidsInv
<1>13. \A q \in Procs, r \in Subjects : Clearing(q, r)' => Clearing(q, r)
  BY <1>1 DEF Clearing
<1> QED BY <1>1, <1>8, <1>9, <1>10, <1>11, <1>12, <1>13, TidyInv

\* The process is gone, and its children are nobody's.
LEMMA ProcessGone ==
  ASSUME KidsInv, NEW p \in Procs, ProcessEnds(p)
  PROVE  NoNewAcks /\ (\A q \in Procs : Ages(q)) /\ own'[p].run = "dead" /\ own' \in [Procs -> Owner]
<1>1. PICK b \in BOOLEAN : b = (own[p].clean /\ own[p].shut = "done")
  OBVIOUS
<1>2. PICK o : o = [Unborn EXCEPT !.run = "dead", !.shut = "done", !.clean = b]
  OBVIOUS
<1>3. o \in Owner /\ o.run = "dead" /\ o.ack = NoProc
  BY <1>2 DEF Unborn, Owner
<1>4. Become(p, [Unborn EXCEPT !.run = "dead", !.shut = "done", !.clean = own[p].clean /\ own[p].shut = "done"])
      /\ Up(p)
  BY DEF ProcessEnds, Exit
<1>5. Become(p, o)
  BY <1>1, <1>2, <1>4, Zenon
<1>6. own[p] \in Owner /\ own \in [Procs -> Owner] /\ OwnerInv
  BY DEF KidsInv, OwnerInv, OwnerTypeOK
<1>7. own' = [own EXCEPT ![p] = o]
  BY <1>5 DEF Become
<1>8. own' \in [Procs -> Owner] /\ own'[p].run = "dead"
  BY <1>3, <1>6, <1>7
<1> QED BY <1>3, <1>4, <1>5, <1>6, <1>8, BecomesAged

LEMMA ProcessEndsKidsInv ==
  ASSUME KidsInv, OwnerInv', NEW p \in Procs, ProcessEnds(p)
  PROVE  KidsInv'
<1>1. UNCHANGED <<left, marker, registry>>
  BY DEF ProcessEnds, Exit
<1>2. NoNewAcks /\ (\A q \in Procs : Ages(q)) /\ own'[p].run = "dead"
  BY ProcessGone
<1>3. Stored
  BY DEF KidsInv
<1>4. entry \in [Procs -> [Subjects -> [child : Nat, stopping : BOOLEAN]]]
  BY <1>3 DEF Stored
<1>5. children' = [c \in DOMAIN children |->
                     IF By(c) = p THEN [children[c] EXCEPT !.line = "read", !.seen = TRUE] ELSE children[c]]
  BY DEF ProcessEnds, By
<1>6. ASSUME NEW c \in DOMAIN children
      PROVE  /\ children'[c] \in Kid /\ Of(c)' = Of(c) /\ By(c)' = By(c)
             /\ children'[c].alive = children[c].alive /\ children'[c].killed = children[c].killed
             /\ By(c) # p => children'[c] = children[c]
  <2>1. children[c] \in Kid
    BY <1>3, <1>6, KidType
  <2>2. CASE By(c) = p
    <3>1. children'[c] = [children[c] EXCEPT !.line = "read", !.seen = TRUE]
      BY <1>5, <1>6, <2>2
    <3> QED BY <2>1, <2>2, <3>1 DEF Kid, Of, By
  <2>3. CASE By(c) # p
    <3>1. children'[c] = children[c]
      BY <1>5, <1>6, <2>3
    <3> QED BY <2>1, <2>3, <3>1 DEF Of, By
  <2> QED BY <2>2, <2>3
<1>7. children' \in [DOMAIN children -> Kid]
  BY <1>5, <1>6
<1>8. children' \in Seq(Kid) /\ Len(children') = Len(children) /\ DOMAIN children' = DOMAIN children
  BY <1>3, <1>7, KidsSeq
<1>9. Wane
  BY <1>1, <1>2, <1>3, <1>6, <1>8 DEF Wane, Live, Alive, Stored
<1>10. PICK x : x = [s \in Subjects |-> NoEntry]
  OBVIOUS
<1>11. x \in [Subjects -> [child : Nat, stopping : BOOLEAN]]
  BY <1>10 DEF NoEntry
<1>12. entry' = [entry EXCEPT ![p] = x]
  BY <1>10 DEF ProcessEnds
<1>13. Stored'
  BY <1>1, <1>3, <1>4, <1>8, <1>11, <1>12 DEF Stored
<1>14. /\ \A c \in DOMAIN children : Attributed(c)'
       /\ \A q \in Procs : Promised(q)'
  BY <1>1, <1>2, <1>9, SameMarker
<1>15. ASSUME NEW c \in DOMAIN children, NEW q \in Procs, q = By(c), Up(q)', Held(c), Up(q)
       PROVE  /\ entry'[q][Of(c)] = entry[q][Of(c)]
              /\ children'[c].seen => ~children'[c].alive
  <2>1. q # p
    BY <1>2, <1>15 DEF Up
  <2> QED BY <1>4, <1>6, <1>12, <1>15, <2>1 DEF Held
<1>16. at' = [at EXCEPT ![p] = [s \in Subjects |-> "idle"]]
  BY DEF ProcessEnds
<1>17. \A q \in Procs, r \in Subjects : Clearing(q, r)' => Clearing(q, r)
  BY <1>16 DEF Clearing, KidsInv, OwnerInv
<1> QED BY <1>1, <1>9, <1>13, <1>14, <1>15, <1>17, WaneInv

-----------------------------------------------------------------------------
(* A process begins, takes the domain over, and lets go of it *)

\* The operator is believed: what the owner it names has launched is gone.
LEMMA BootKidsInv ==
  ASSUME KidsInv, OwnerInv', NEW p \in Procs, Boot(p)
  PROVE  KidsInv'
<1>1. UNCHANGED <<children, registry, entry, left, marker, at>>
  BY DEF Boot, BootWith, subjectVars, memoryVars
<1>2. PICK a \in {NoProc} \cup {q \in {marker} : Acknowledged(q)} : BootWith(p, a)
  BY DEF Boot
<1>3. PICK o : o = [own[p] EXCEPT !.run = "up", !.status = "acquiring", !.acq = "connecting", !.ack = a]
  OBVIOUS
<1>4. Become(p, o) /\ own[p].run = "unborn"
  BY <1>2, <1>3 DEF BootWith
<1>5. own[p] = Unborn /\ own \in [Procs -> Owner] /\ marker \in Procs \cup {NoProc}
  BY <1>4 DEF KidsInv, OwnerInv, Onward, OwnerTypeOK
<1>6. a \in Procs \cup {NoProc}
  BY <1>2, <1>5
<1>7. o \in Owner /\ o.run = "up" /\ o.ack = a
  BY <1>3, <1>5, <1>6 DEF Owner, Unborn
<1>8. own' = [own EXCEPT ![p] = o]
  BY <1>4 DEF Become
<1>9. own'[p] = o /\ \A q \in Procs \ {p} : own'[q] = own[q]
  BY <1>5, <1>7, <1>8
<1>10. ASSUME NEW q \in Procs PROVE Ages(q)
  <2>1. CASE q = p
    BY <1>4, <1>5, <1>7, <1>9, <2>1 DEF Ages, Over, Up, Unborn
  <2>2. CASE q # p
    BY <1>9, <2>2 DEF Ages, Over, Up
  <2> QED BY <2>1, <2>2
<1>11. Wane
  BY <1>1, <1>10 DEF KidsInv, Stored, Wane, Of, By, Live, Alive
<1>12. Stored'
  BY <1>1 DEF KidsInv, Stored
<1>13. ASSUME NEW c \in DOMAIN children PROVE Attributed(c)'
  <2>1. Attributed(c) /\ By(c) \in Procs /\ By(c)' = By(c)
    BY <1>1, <1>13, KidType DEF KidsInv, By
  <2>2. By(c) # p
    BY <1>4, <2>1 DEF Attributed
  <2>3. own'[By(c)] = own[By(c)]
    BY <1>9, <2>1, <2>2
  <2> QED BY <1>1, <2>1, <2>3 DEF Attributed, Over
<1>14. ASSUME NEW q \in Procs PROVE Promised(q)'
  <2>1. CASE q = p
    BY <1>1, <1>2, <1>7, <1>9, <2>1 DEF Promised, Acknowledged, By
  <2>2. CASE q # p
    BY <1>1, <1>9, <1>14, <2>2 DEF KidsInv, Promised, By
  <2> QED BY <2>1, <2>2
<1>15. \A c \in DOMAIN children, q \in Procs : q = By(c) /\ Up(q) /\ Up(q)' /\ Held(c) =>
          /\ Live(c)' => entry'[q][Of(c)] = entry[q][Of(c)]
          /\ children'[c].seen => ~children'[c].alive
  BY <1>1 DEF Held
<1>16. \A q \in Procs, s \in Subjects : Clearing(q, s)' => Clearing(q, s)
  BY <1>1 DEF Clearing
<1> QED BY <1>1, <1>11, <1>12, <1>13, <1>14, <1>15, <1>16, WaneInv

\* It writes its marker over that of an owner whose children are gone.
LEMMA StartRecoveryInv ==
  ASSUME KidsInv, OwnerInv', NEW p \in Procs, StartRecovery(p)
  PROVE  KidsInv'
<1>1. UNCHANGED <<children, registry, entry, left, at>> /\ WriteMarker(p) /\ marker' = p /\ Querying(p, "writing")
  BY DEF StartRecovery, WriteMarker, subjectVars
<1>2. NoNewAcks /\ \A q \in Procs : Ages(q)
  BY <1>1, OwnerAges DEF KidsInv
<1>3. MarkedBy(p) /\ Promised(p) /\ NoProc \notin Procs
  BY ProcsAssumption DEF KidsInv, OwnerInv, Marked
<1>4. Wane
  BY <1>1, <1>2 DEF KidsInv, Stored, Wane, Of, By, Live, Alive
<1>5. Stored'
  BY <1>1 DEF KidsInv, Stored
<1>6. ASSUME NEW c \in DOMAIN children PROVE Attributed(c)'
  <2>1. PICK q \in Procs : q = By(c)
    BY <1>6, KidType DEF KidsInv
  <2>2. Attributed(c) /\ By(c)' = q /\ Ages(q)
    BY <1>1, <1>2, <1>6, <2>1 DEF KidsInv, By
  <2>3. q = marker => ~children[c].alive /\ own[q].run = "dead"
    BY <1>1, <1>3, <1>6, <2>1 DEF MarkedBy, Promised
  <2>4. children[c].alive => c \in left
    BY <2>1, <2>2, <2>3 DEF Attributed
  <2>5. Over(q)
    BY <2>1, <2>2, <2>3 DEF Attributed, Over
  <2> QED BY <1>1, <2>1, <2>2, <2>4, <2>5 DEF Attributed, Ages
<1>7. ASSUME NEW q \in Procs PROVE Promised(q)'
  BY <1>1, <1>2, <1>7 DEF KidsInv, Promised, NoNewAcks, By
<1>8. \A c \in DOMAIN children, q \in Procs : q = By(c) /\ Up(q) /\ Up(q)' /\ Held(c) =>
          /\ Live(c)' => entry'[q][Of(c)] = entry[q][Of(c)]
          /\ children'[c].seen => ~children'[c].alive
  BY <1>1 DEF Held
<1>9. \A q \in Procs, s \in Subjects : Clearing(q, s)' => Clearing(q, s)
  BY <1>1 DEF Clearing
<1> QED BY <1>1, <1>4, <1>5, <1>6, <1>7, <1>8, <1>9, WaneInv

\* What is alive when the owner has shut down cleanly is left behind.
LEMMA ReleaseOwnerInv ==
  ASSUME KidsInv, OwnerInv', NEW p \in Procs, ReleaseOwner(p)
  PROVE  KidsInv'
<1>1. UNCHANGED <<children, registry, entry, at>> /\ Release(p)
  BY DEF ReleaseOwner, memoryVars
<1>2. /\ left' = IF own[p].clean THEN left \cup {c \in DOMAIN children : By(c) = p /\ Alive(c)} ELSE left
      /\ marker' \in {marker, NoProc} /\ (marker' # marker => own[p].clean /\ marker = p)
  BY DEF ReleaseOwner, Release, By
<1>3. NoNewAcks /\ \A q \in Procs : Ages(q)
  BY <1>1, OwnerAges DEF KidsInv
<1>4. Stored' /\ left \subseteq left' /\ left' \subseteq DOMAIN children
  BY <1>1, <1>2 DEF KidsInv, Stored
<1>5. Wane
  BY <1>1, <1>3, <1>4 DEF KidsInv, Stored, Wane, Of, By, Live, Alive
<1>6. ASSUME NEW c \in DOMAIN children PROVE Attributed(c)'
  <2>1. PICK q \in Procs : q = By(c)
    BY <1>6, KidType DEF KidsInv
  <2>2. Attributed(c) /\ By(c)' = q /\ Ages(q) /\ c # 0
    BY <1>1, <1>3, <1>6, <2>1, KidType DEF KidsInv, By
  <2>3. CASE q # marker \/ marker' = marker
    BY <1>1, <1>2, <1>4, <2>1, <2>2, <2>3 DEF Attributed, Ages
  <2>4. CASE q = marker /\ marker' # marker
    <3>1. own[p].clean /\ q = p
      BY <1>2, <2>4
    <3>2. children[c].alive => c \in left'
      BY <1>2, <1>6, <2>1, <2>2, <3>1 DEF Alive
    <3>3. Over(q)
      BY <3>1 DEF Over
    <3> QED BY <1>1, <2>1, <2>2, <3>2, <3>3 DEF Attributed, Ages
  <2> QED BY <2>3, <2>4
<1>7. ASSUME NEW q \in Procs PROVE Promised(q)'
  BY <1>1, <1>3, <1>7 DEF KidsInv, Promised, NoNewAcks, By
<1>8. \A c \in DOMAIN children, q \in Procs : q = By(c) /\ Up(q) /\ Up(q)' /\ Held(c) =>
          /\ Live(c)' => entry'[q][Of(c)] = entry[q][Of(c)]
          /\ children'[c].seen => ~children'[c].alive
  BY <1>1 DEF Held
<1>9. \A q \in Procs, s \in Subjects : Clearing(q, s)' => Clearing(q, s)
  BY <1>1 DEF Clearing
<1> QED BY <1>1, <1>4, <1>5, <1>6, <1>7, <1>8, <1>9, WaneInv

-----------------------------------------------------------------------------
(* A child is launched *)

\* No other process may, and none of its own is there: whoever else has left one
\* there has been followed by a third.
LEMMA LaunchOrdered ==
  ASSUME KidsInv, NEW p \in Procs, NEW s \in Subjects, Pending(p), Clearing(p, s),
         NEW c \in DOMAIN children
  PROVE  /\ Up(p) /\ marker = p /\ ~Over(p)
         /\ By(c) = p /\ Of(c) = s => ~Live(c)
         /\ By(c) # p => Over(By(c))
         /\ By(c) # p /\ Of(c) = s /\ Live(c) =>
              \E x \in DOMAIN children : Of(x) = s /\ By(x) \notin {By(c), p}
<1>1. Up(p) /\ marker = p /\ ~own[p].clean
  BY DEF KidsInv, OwnerInv, Marked, MarkedBy
<1>2. ~Over(p)
  BY <1>1 DEF Over, Up
<1>3. Live(c) /\ Of(c) = s => By(c) # p /\ ~OneLauncher(s)
  BY DEF KidsInv, Cleared
<1>4. By(c) # p => Over(By(c))
  BY <1>1 DEF KidsInv, Attributed
<1>5. ASSUME By(c) # p, Of(c) = s, Live(c)
      PROVE  \E x \in DOMAIN children : Of(x) = s /\ By(x) \notin {By(c), p}
  <2>1. PICK x \in DOMAIN children : Of(x) = s /\ By(x) # By(c)
    BY <1>3, <1>5 DEF OneLauncher
  <2>2. CASE By(x) # p
    BY <2>1, <2>2
  <2>3. CASE By(x) = p
    <3>1. c \in Nat /\ x \in Nat /\ x # c
      BY <1>5, <2>1, KidType DEF KidsInv
    <3>2. CASE c < x
      <4>1. ThirdLauncher(c, x)
        BY <1>5, <2>1, <2>3, <3>2 DEF KidsInv, Ordered
      <4> QED BY <1>5, <2>3, <4>1 DEF ThirdLauncher, Of, By
    <3>3. CASE x < c
      BY <1>2, <1>5, <2>1, <2>3, <3>3 DEF KidsInv, Ordered
    <3> QED BY <3>1, <3>2, <3>3
  <2> QED BY <2>2, <2>3
<1> QED BY <1>1, <1>2, <1>3, <1>4, <1>5

LEMMA SpawnInv ==
  ASSUME KidsInv, OwnerInv', NEW p \in Procs, NEW s \in Subjects, Spawn(p, s)
  PROVE  KidsInv'
<1>1. UNCHANGED <<own, marker, left>> /\ Pending(p) /\ Clearing(p, s) /\ at[p][s] = "spawning"
  BY DEF Spawn, ownerVars, Underway, Pending, Clearing
<1>2. PICK n : n = Len(children) + 1
  OBVIOUS
<1>3. Len(children) \in Nat /\ DOMAIN children = 1..Len(children) /\ Stored
  BY LenProperties DEF KidsInv, Stored
<1>4. PICK k : k = [of |-> s, by |-> p, alive |-> TRUE, killed |-> FALSE, line |-> "none", seen |-> FALSE]
  OBVIOUS
<1>5. k \in Kid /\ k.of = s /\ k.by = p /\ k.alive = TRUE /\ k.killed = FALSE /\ k.seen = FALSE
  BY <1>4 DEF Kid
<1>6. children' = Append(children, k)
  BY <1>4 DEF Spawn
<1>7. /\ children' \in Seq(Kid) /\ Len(children') = n
      /\ \A i \in 1..Len(children) : children'[i] = children[i]
      /\ children'[n] = k
  BY <1>2, <1>3, <1>5, <1>6, AppendProperties DEF Stored
<1>8. DOMAIN children' = DOMAIN children \cup {n} /\ n \notin DOMAIN children /\ n \in Nat \ {0}
  <2>1. DOMAIN children' = 1..n
    BY <1>7, LenProperties
  <2> QED BY <1>2, <1>3, <2>1
<1>9. /\ \A c \in DOMAIN children : Of(c)' = Of(c) /\ By(c)' = By(c) /\ children'[c] = children[c]
                                    /\ (Live(c)' <=> Live(c))
      /\ Of(n)' = s /\ By(n)' = p /\ children'[n] = k
  BY <1>3, <1>5, <1>7 DEF Of, By, Live, Alive
<1>10. PICK x : x = [child |-> n, stopping |-> FALSE]
  OBVIOUS
<1>11. x \in [child : Nat, stopping : BOOLEAN] /\ x.child = n /\ x.stopping = FALSE
  BY <1>8, <1>10
<1>12. entry' = [entry EXCEPT ![p][s] = x]
  BY <1>2, <1>10 DEF Spawn
<1>13. PICK g : g = [child |-> n, status |-> "provisioning"]
  OBVIOUS
<1>14. g \in [child : Nat, status : Statuses \cup {"none"}] /\ g.child = n /\ g.status = "provisioning"
  BY <1>8, <1>13 DEF Statuses
<1>15. registry' = [registry EXCEPT ![s] = g]
  BY <1>2, <1>13 DEF Spawn
<1>16. /\ entry \in [Procs -> [Subjects -> [child : Nat, stopping : BOOLEAN]]]
       /\ registry \in [Subjects -> [child : Nat, status : Statuses \cup {"none"}]]
  BY <1>3 DEF Stored
<1>17. /\ entry' \in [Procs -> [Subjects -> [child : Nat, stopping : BOOLEAN]]]
       /\ registry' \in [Subjects -> [child : Nat, status : Statuses \cup {"none"}]]
       /\ entry'[p][s] = x /\ registry'[s] = g
       /\ \A q \in Procs, r \in Subjects : ~(q = p /\ r = s) => entry'[q][r] = entry[q][r]
       /\ \A r \in Subjects \ {s} : registry'[r] = registry[r]
  BY <1>11, <1>12, <1>14, <1>15, <1>16
<1>18. Stored'
  BY <1>1, <1>3, <1>7, <1>8, <1>17 DEF Stored
<1>19. \A r : OneLauncher(r)' => OneLauncher(r)
  BY <1>8, <1>9 DEF OneLauncher
<1>20. \A c, e \in DOMAIN children : ThirdLauncher(c, e) => ThirdLauncher(c, e)'
  BY <1>8, <1>9 DEF ThirdLauncher, Of, By
<1>21. Up(p) /\ marker = p /\ ~Over(p)
  BY <1>1 DEF KidsInv, OwnerInv, Marked, MarkedBy, Over, Up
<1>22. ASSUME NEW c \in DOMAIN children'
       PROVE  Attributed(c)' /\ Held(c)' /\ Filed(c)'
  <2>1. CASE c = n
    <3>1. Attributed(c)'
      BY <1>1, <1>9, <1>21, <2>1 DEF Attributed, Up
    <3>2. Held(c)'
      BY <1>5, <1>9, <1>11, <1>17, <2>1 DEF Held
    <3>3. Filed(c)'
      BY <1>9, <1>14, <1>17, <2>1 DEF Filed
    <3> QED BY <3>1, <3>2, <3>3
  <2>2. CASE c # n
    <3>1. c \in DOMAIN children /\ Of(c) \in Subjects /\ By(c) \in Procs
      BY <1>3, <1>8, <1>22, <2>2, KidType
    <3>2. Attributed(c) /\ Held(c) /\ Filed(c)
      BY <3>1 DEF KidsInv
    <3>3. Live(c) /\ Of(c) = s => By(c) # p /\ ~OneLauncher(s)
      BY <1>1, <3>1 DEF KidsInv, Cleared
    <3>4. Attributed(c)'
      BY <1>1, <1>9, <3>1, <3>2 DEF Attributed, Over
    <3>5. Held(c)'
      BY <1>1, <1>9, <1>17, <3>1, <3>2, <3>3 DEF Held, Up
    <3>6. Filed(c)'
      BY <1>9, <1>17, <1>19, <3>1, <3>2, <3>3 DEF Filed
    <3> QED BY <3>4, <3>5, <3>6
  <2> QED BY <2>1, <2>2
<1>23. ASSUME NEW c \in DOMAIN children', NEW e \in DOMAIN children', c < e
       PROVE  Ordered(c, e)'
  <2>1. c \in DOMAIN children
    BY <1>2, <1>3, <1>8, <1>23
  <2>2. CASE e \in DOMAIN children
    <3>1. Ordered(c, e)
      BY <1>23, <2>1, <2>2 DEF KidsInv
    <3> QED BY <1>1, <1>9, <1>20, <2>1, <2>2, <3>1 DEF Ordered, Over
  <2>3. CASE e = n
    <3>1. /\ By(c) = p /\ Of(c) = s => ~Live(c)
          /\ By(c) # p => Over(By(c))
          /\ By(c) # p /\ Of(c) = s /\ Live(c) =>
               \E y \in DOMAIN children : Of(y) = s /\ By(y) \notin {By(c), p}
      BY <1>1, <2>1, LaunchOrdered
    <3>2. By(c) # p /\ Of(c) = s /\ Live(c) => ThirdLauncher(c, e)'
      BY <1>8, <1>9, <2>1, <2>3, <3>1 DEF ThirdLauncher, Of, By
    <3> QED BY <1>1, <1>9, <2>1, <2>3, <3>1, <3>2 DEF Ordered, Over
  <2> QED BY <1>8, <2>2, <2>3
<1>24. at' = [at EXCEPT ![p][s] = "idle"]
  BY DEF Spawn, Finish
<1>25. ASSUME NEW q \in Procs PROVE Promised(q)'
  <2>1. own[q].ack # NoProc => own[q].ack # p
    BY <1>21 DEF KidsInv, OwnerInv, Marked, MarkedBy, Up
  <2> QED BY <1>1, <1>8, <1>9, <2>1 DEF KidsInv, Promised
<1>26. ASSUME NEW q \in Procs, NEW r \in Subjects PROVE Cleared(q, r)'
  <2>1. Clearing(q, r)' => Clearing(q, r) /\ r # s
    <3>1. Clearing(q, r)' => Clearing(q, r) /\ ~(q = p /\ r = s)
      BY <1>24 DEF Clearing, KidsInv, OwnerInv
    <3>2. Clearing(q, r) => q = p
      <4>1. Clearing(q, r) => Pending(q)
        BY DEF Clearing, Pending
      <4> QED BY <1>21, <4>1 DEF KidsInv, OwnerInv, Marked, MarkedBy
    <3> QED BY <3>1, <3>2
  <2> QED BY <1>8, <1>9, <1>19, <2>1 DEF KidsInv, Cleared
<1> QED BY <1>18, <1>22, <1>23, <1>25, <1>26 DEF KidsInv

-----------------------------------------------------------------------------
\* A launch comes last, and leaves the others what they are.
LEMMA Launched ==
  ASSUME Stored, NEW p \in Procs, NEW s \in Subjects, Spawn(p, s), NEW n, n = Len(children) + 1
  PROVE  /\ DOMAIN children' = DOMAIN children \cup {n} /\ n \notin DOMAIN children /\ n \in Nat \ {0}
         /\ \A c \in DOMAIN children : children'[c] = children[c]
         /\ children'[n] \in Kid /\ Of(n)' = s /\ By(n)' = p /\ children'[n].alive
         /\ ~children'[n].killed /\ children'[n].line = "none" /\ ~children'[n].seen
<1>1. PICK k : k = [of |-> s, by |-> p, alive |-> TRUE, killed |-> FALSE, line |-> "none", seen |-> FALSE]
  OBVIOUS
<1>2. children' = Append(children, k)
  BY <1>1 DEF Spawn
<1>3. k \in Kid /\ k.of = s /\ k.by = p /\ k.alive /\ ~k.killed /\ k.line = "none" /\ ~k.seen
  BY <1>1 DEF Kid
<1>4. Len(children) \in Nat /\ DOMAIN children = 1..Len(children)
  BY LenProperties DEF Stored
<1>5. /\ children' \in Seq(Kid) /\ Len(children') = n /\ children'[n] = k
      /\ \A c \in 1..Len(children) : children'[c] = children[c]
  BY <1>2, <1>3, AppendProperties DEF Stored
<1>6. DOMAIN children' = 1..n
  BY <1>5, LenProperties
<1> QED BY <1>3, <1>4, <1>5, <1>6 DEF Of, By

\* What the registry and a store come to refer to is a child of the subject.
LEMMA RegistryNext ==
  ASSUME KidsInv, KidsInv', Fitting, [Next]_vars, NEW x \in Subjects
  PROVE  registry'[x].child \in {registry[x].child, 0} \cup {e \in DOMAIN children' : Of(e)' = x}
<1>1. /\ Stored /\ registry \in [Subjects -> [child : Nat, status : Statuses \cup {"none"}]]
      /\ registry' \in [Subjects -> [child : Nat, status : Statuses \cup {"none"}]]
  BY DEF KidsInv, Stored
<1>2. NoRegistry.child = 0
  BY DEF NoRegistry
<1>3. ASSUME NEW p \in Procs,
             \/ Boot(p) \/ OwnerStep(p) \/ ReleaseOwner(p) \/ StartRecovery(p) \/ Recover(p) \/ Recovered(p)
             \/ RecoveryGivesUp(p) \/ SessionEnds(p) \/ Sweep(p) \/ EndSweep(p) \/ StopGivesUp(p)
             \/ DrainOperations(p) \/ ProcessEnds(p) \/ RecoverySkips(p)
      PROVE  registry'[x] \in {registry[x], NoRegistry}
  <2>1. CASE EndSweep(p)
    BY <2>1 DEF EndSweep
  <2>2. CASE ~EndSweep(p)
    BY <1>3, <2>2 DEF Boot, OwnerStep, ReleaseOwner, StartRecovery, Recover, Recovered, RecoveryGivesUp,
       SessionEnds, Sweep, StopGivesUp, DrainOperations, RecoverySkips, ProcessEnds, subjectVars
  <2> QED BY <2>1, <2>2
<1>4. ASSUME NEW p \in Procs, NEW s \in Subjects,
             \/ StartProcess(p, s) \/ StopProcess(p, s)
             \/ Operate(p, s) \/ OperationFails(p, s)
      PROVE  registry'[x].child \in {registry[x].child, 0} \cup {e \in DOMAIN children' : Of(e)' = x}
  <2>1. CASE Spawn(p, s)
    <3>1. PICK n : n = Len(children) + 1
      OBVIOUS
    <3>2. n \in DOMAIN children' /\ Of(n)' = s
      BY <1>1, <2>1, <3>1, Launched
    <3>3. registry' = [registry EXCEPT ![s] = [child |-> n, status |-> "provisioning"]]
      BY <2>1, <3>1 DEF Spawn
    <3>4. CASE x = s
      BY <1>1, <3>2, <3>3, <3>4
    <3>5. CASE x # s
      BY <1>1, <3>3, <3>5
    <3> QED BY <3>4, <3>5
  <2>2. CASE Terminated(p, s)
    BY <1>1, <1>2, <2>2 DEF Terminated
  <2>3. CASE TerminateFails(p, s)
    <3>1. PICK r : /\ registry' = [registry EXCEPT ![s] = r]
                   /\ r \in {registry[s], [child |-> entry[p][s].child, status |-> "error"]}
      BY <2>3 DEF TerminateFails
    <3>2. entry[p][s].child \in {0} \cup {e \in DOMAIN children' : Of(e)' = s}
      BY <2>3 DEF TerminateFails, Fitting, Of
    <3> QED BY <1>1, <3>1, <3>2
  <2>4. CASE ~(Spawn(p, s) \/ Terminated(p, s) \/ TerminateFails(p, s))
    <3>1. registry' = registry
      BY <1>4, <2>4 DEF StartProcess, StopProcess, Operate, TurnRefused, BeginStart, Check, Prepare, BeginStop,
         StopOther, Failed, Stopped, ReleaseSource, Relaunch, OperationFails, CheckFails, PrepareFails, SpawnFails,
         ReleaseFails, subjectVars
    <3> QED BY <3>1
  <2> QED BY <2>1, <2>2, <2>3, <2>4
<1>5. ASSUME NEW p \in Procs, NEW d \in Deployments,
             RestartProcess(p, d) \/ KillProcess(p, d) \/ AllowProcessRestart(p, d) \/ Persist(p, d)
      PROVE  registry' = registry
  BY <1>5 DEF RestartProcess, KillProcess, AllowProcessRestart, Persist, subjectVars
<1>6. ASSUME NEW c \in DOMAIN children,
             \/ Announces(c) \/ Killed(c) \/ Crashes(c) \/ Listening(c) \/ Exited(c) \/ OperatorEnds(c)
      PROVE  registry'[x].child \in {registry[x].child, 0} \cup {e \in DOMAIN children' : Of(e)' = x}
  <2>1. CASE Listening(c)
    <3>1. c \in DOMAIN children'
      BY <2>1 DEF Listening
    <3>2. PICK s : /\ s = Of(c)
                   /\ \/ registry' = registry
                      \/ registry' = [registry EXCEPT ![s] = [child |-> c, status |-> "running"]]
      BY <2>1 DEF Listening, Of
    <3>3. CASE s = x
      <4>1. Of(c)' = Of(c)
        <5>1. children[c] \in Kid /\ children' = [children EXCEPT ![c].line = "read"]
          BY <1>1, <2>1, KidType DEF Listening
        <5> QED BY <5>1 DEF Of, Kid
      <4> QED BY <1>1, <3>1, <3>2, <3>3, <4>1
    <3>4. CASE s # x
      BY <1>1, <3>2, <3>4
    <3> QED BY <3>3, <3>4
  <2>2. CASE Exited(c)
    <3>1. PICK s, r : registry' = [registry EXCEPT ![s] = r] /\ r \in {registry[s], NoRegistry}
      BY <2>2 DEF Exited
    <3> QED BY <1>1, <1>2, <3>1
  <2>3. CASE ~(Listening(c) \/ Exited(c))
    <3>1. registry' = registry
      BY <1>6, <2>3 DEF Announces, Killed, Crashes, Dies, OperatorEnds
    <3> QED BY <3>1
  <2> QED BY <2>1, <2>2, <2>3
<1>7. CASE UNCHANGED vars \/ \E s \in Subjects : LockExpires(s)
  BY <1>7 DEF vars, LockExpires, subjectVars
<1> QED BY <1>2, <1>3, <1>4, <1>5, <1>6, <1>7, Zenon DEF Next

LEMMA EntryNext ==
  ASSUME KidsInv, KidsInv', [Next]_vars, NEW q \in Procs, NEW x \in Subjects
  PROVE  entry'[q][x].child \in {entry[q][x].child, 0} \cup {e \in DOMAIN children' : Of(e)' = x /\ By(e)' = q}
<1>1. /\ Stored /\ entry \in [Procs -> [Subjects -> [child : Nat, stopping : BOOLEAN]]]
      /\ entry' \in [Procs -> [Subjects -> [child : Nat, stopping : BOOLEAN]]]
  BY DEF KidsInv, Stored
<1>2. NoEntry.child = 0
  BY DEF NoEntry
<1>3. ASSUME NEW p \in Procs,
             \/ Boot(p) \/ OwnerStep(p) \/ ReleaseOwner(p) \/ StartRecovery(p) \/ Recover(p) \/ Recovered(p)
             \/ RecoveryGivesUp(p) \/ SessionEnds(p) \/ Sweep(p) \/ EndSweep(p) \/ StopGivesUp(p)
             \/ DrainOperations(p) \/ ProcessEnds(p) \/ RecoverySkips(p)
      PROVE  entry'[q][x].child \in {entry[q][x].child, 0}
  <2>1. CASE Sweep(p)
    <3>1. entry' = [entry EXCEPT ![p] = [s \in Subjects |->
                      [child |-> entry[p][s].child, stopping |-> entry[p][s].stopping \/ entry[p][s].child # 0]]]
      BY <2>1 DEF Sweep
    <3>2. CASE q = p
      <4>1. entry'[q][x] = [child |-> entry[p][x].child, stopping |-> entry[p][x].stopping \/ entry[p][x].child # 0]
        BY <1>1, <3>1, <3>2
      <4> QED BY <3>2, <4>1
    <3>3. CASE q # p
      BY <1>1, <3>1, <3>3
    <3> QED BY <3>2, <3>3
  <2>2. CASE EndSweep(p)
    <3>1. entry' = [entry EXCEPT ![p] = [s \in Subjects |-> IF s \in Swept(p) THEN NoEntry ELSE entry[p][s]]]
      BY <2>2 DEF EndSweep
    <3>2. entry'[q][x] \in {entry[q][x], NoEntry}
      BY <1>1, <3>1
    <3> QED BY <1>2, <3>2
  <2>3. CASE ProcessEnds(p)
    <3>1. entry' = [entry EXCEPT ![p] = [s \in Subjects |-> NoEntry]]
      BY <2>3 DEF ProcessEnds
    <3>2. entry'[q][x] \in {entry[q][x], NoEntry}
      BY <1>1, <3>1
    <3> QED BY <1>2, <3>2
  <2>4. CASE ~(Sweep(p) \/ EndSweep(p) \/ ProcessEnds(p))
    BY <1>3, <2>4 DEF Boot, OwnerStep, ReleaseOwner, StartRecovery, Recover, Recovered, RecoveryGivesUp,
       SessionEnds, StopGivesUp, DrainOperations, RecoverySkips, memoryVars
  <2> QED BY <2>1, <2>2, <2>3, <2>4
<1>4. ASSUME NEW p \in Procs, NEW s \in Subjects,
             \/ StartProcess(p, s) \/ StopProcess(p, s)
             \/ Operate(p, s) \/ OperationFails(p, s)
      PROVE  entry'[q][x].child \in {entry[q][x].child, 0} \cup {e \in DOMAIN children' : Of(e)' = x /\ By(e)' = q}
  <2>1. CASE Spawn(p, s)
    <3>1. PICK n : n = Len(children) + 1
      OBVIOUS
    <3>2. n \in DOMAIN children' /\ Of(n)' = s /\ By(n)' = p
      BY <1>1, <2>1, <3>1, Launched
    <3>3. PICK e : e = [child |-> n, stopping |-> FALSE]
      OBVIOUS
    <3>4. entry' = [entry EXCEPT ![p][s] = e] /\ e.child = n
      BY <2>1, <3>1, <3>3 DEF Spawn
    <3>5. entry'[q][x] = entry[q][x] \/ (entry'[q][x] = e /\ q = p /\ x = s)
      BY <1>1, <3>4
    <3> QED BY <3>2, <3>4, <3>5
  <2>2. CASE Terminated(p, s)
    <3>1. entry' = [entry EXCEPT ![p][s] = NoEntry]
      BY <2>2 DEF Terminated
    <3>2. entry'[q][x] \in {entry[q][x], NoEntry}
      BY <1>1, <3>1
    <3> QED BY <1>2, <3>2
  <2>3. CASE BeginStop(p, s)
    <3>1. PICK b : entry' = [entry EXCEPT ![p][s].stopping = b]
      BY <2>3 DEF BeginStop
    <3> QED BY <1>1, <3>1
  <2>4. CASE ~(Spawn(p, s) \/ Terminated(p, s) \/ BeginStop(p, s))
    <3>1. entry' = entry
      BY <1>4, <2>4 DEF StartProcess, StopProcess, Operate, TurnRefused, BeginStart, Check, Prepare,
         StopOther, Failed, Stopped, ReleaseSource, Relaunch, OperationFails, CheckFails, PrepareFails, SpawnFails,
         TerminateFails, ReleaseFails
    <3> QED BY <3>1
  <2> QED BY <2>1, <2>2, <2>3, <2>4
<1>5. ASSUME NEW p \in Procs, NEW d \in Deployments,
             RestartProcess(p, d) \/ KillProcess(p, d) \/ AllowProcessRestart(p, d) \/ Persist(p, d)
      PROVE  entry' = entry
  BY <1>5 DEF RestartProcess, KillProcess, AllowProcessRestart, Persist
<1>6. ASSUME NEW c \in DOMAIN children,
             \/ Announces(c) \/ Killed(c) \/ Crashes(c) \/ Listening(c) \/ Exited(c) \/ OperatorEnds(c)
      PROVE  entry' = entry
  BY <1>6 DEF Announces, Killed, Crashes, Dies, Listening, Exited, OperatorEnds, memoryVars
<1>7. CASE UNCHANGED vars \/ \E s \in Subjects : LockExpires(s)
  BY <1>7 DEF vars, LockExpires, memoryVars
<1> QED BY <1>3, <1>4, <1>5, <1>6, <1>7, Zenon DEF Next

LEMMA KillLasts ==
  ASSUME Stored, NEW S, Kill(S)
  PROVE  /\ DOMAIN children' = DOMAIN children
         /\ \A c \in DOMAIN children :
              /\ children'[c] \in Kid /\ Of(c)' = Of(c) /\ By(c)' = By(c)
              /\ children'[c].alive = children[c].alive /\ children'[c].seen = children[c].seen
              /\ children'[c].line = children[c].line
              /\ children'[c].killed <=> children[c].killed \/ c \in S
              /\ c \notin S => children'[c] = children[c]
<1>1. ASSUME NEW c \in DOMAIN children
      PROVE  /\ children'[c] \in Kid /\ Of(c)' = Of(c) /\ By(c)' = By(c)
             /\ children'[c].alive = children[c].alive /\ children'[c].seen = children[c].seen
             /\ children'[c].line = children[c].line
             /\ children'[c].killed <=> children[c].killed \/ c \in S
             /\ c \notin S => children'[c] = children[c]
  <2>1. children[c] \in Kid
    BY <1>1, KidType
  <2>2. CASE c \in S
    <3>1. children'[c] = [children[c] EXCEPT !.killed = TRUE]
      BY <1>1, <2>2 DEF Kill
    <3> QED BY <2>1, <2>2, <3>1 DEF Kid, Of, By
  <2>3. CASE c \notin S
    <3>1. children'[c] = children[c]
      BY <1>1, <2>3 DEF Kill
    <3> QED BY <2>1, <2>3, <3>1 DEF Kid, Of, By
  <2> QED BY <2>2, <2>3
<1> QED BY <1>1 DEF Kill

\* What a child does, and what is heard of it, concerns its own record.
LEMMA ChildLasts ==
  ASSUME Stored, NEW c \in DOMAIN children,
         \/ Announces(c) \/ Killed(c) \/ Crashes(c) \/ Listening(c) \/ Exited(c) \/ OperatorEnds(c)
  PROVE  /\ DOMAIN children' = DOMAIN children
         /\ \A e \in DOMAIN children \ {c} : children'[e] = children[e]
         /\ children'[c] \in Kid
         /\ Of(c)' = Of(c) /\ By(c)' = By(c)
         /\ \/ Announces(c) \/ Listening(c) \/ Exited(c)
            \/ ~children'[c].alive /\ children'[c].line = children[c].line /\ children'[c].seen = children[c].seen
         /\ Announces(c) \/ Listening(c) \/ Exited(c) =>
              children'[c].alive = children[c].alive /\ children'[c].killed = children[c].killed
         /\ Announces(c) \/ Listening(c) => children'[c].seen = children[c].seen
         /\ Exited(c) => children'[c].seen /\ children'[c].line = children[c].line
         /\ Listening(c) => children'[c].line = "read"
         /\ Announces(c) => children'[c].line = "printed" /\ children[c].line = "none"
<1>1. children[c] \in Kid
  BY KidType
<1>2. CASE Announces(c) \/ Listening(c) \/ Exited(c)
  <2>1. CASE Announces(c)
    <3>1. /\ children' = [children EXCEPT ![c] = [children[c] EXCEPT !.line = "printed"]]
          /\ children[c].line = "none" /\ Live(c)
      BY <2>1 DEF Announces
    <3>2. ~Listening(c) /\ ~Exited(c)
      BY <3>1 DEF Listening, Exited, Live, Alive
    <3> QED BY <1>1, <2>1, <3>1, <3>2 DEF Kid, Of, By
  <2>2. CASE Listening(c)
    <3>1. children' = [children EXCEPT ![c] = [children[c] EXCEPT !.line = "read"]] /\ children[c].line = "printed"
      BY <2>2 DEF Listening
    <3>2. ~Announces(c)
      BY <3>1 DEF Announces
    <3>3. ~Exited(c)
      <4>1. children'[c].line = "read"
        BY <1>1, <3>1 DEF Kid
      <4>2. Exited(c) => children'[c].line = children[c].line
        BY <1>1 DEF Exited, Kid
      <4> QED BY <3>1, <4>1, <4>2
    <3> QED BY <1>1, <2>2, <3>1, <3>2, <3>3 DEF Kid, Of, By
  <2>3. CASE Exited(c) /\ ~Announces(c) /\ ~Listening(c)
    <3>1. children' = [children EXCEPT ![c] = [children[c] EXCEPT !.seen = TRUE]]
      BY <2>3 DEF Exited
    <3> QED BY <1>1, <2>3, <3>1 DEF Kid, Of, By
  <2> QED BY <1>2, <2>1, <2>2, <2>3
<1>3. CASE ~(Announces(c) \/ Listening(c) \/ Exited(c))
  <2>1. PICK b \in BOOLEAN : children' = [children EXCEPT ![c].alive = FALSE, ![c].killed = b]
    BY <1>3 DEF Killed, Crashes, OperatorEnds, Dies
  <2>2. PICK k : k = [children[c] EXCEPT !.alive = FALSE, !.killed = b]
    OBVIOUS
  <2>3. children' = [children EXCEPT ![c] = k]
    BY <2>1, <2>2
  <2>4. /\ k \in Kid /\ ~k.alive /\ k.line = children[c].line /\ k.seen = children[c].seen
        /\ k.of = children[c].of /\ k.by = children[c].by
    BY <1>1, <2>2 DEF Kid
  <2> QED BY <1>3, <2>3, <2>4 DEF Of, By
<1> QED BY <1>2, <1>3

LEMMA EndLasts ==
  ASSUME Stored, NEW p \in Procs, ProcessEnds(p)
  PROVE  /\ DOMAIN children' = DOMAIN children
         /\ \A c \in DOMAIN children : /\ Of(c)' = Of(c) /\ By(c)' = By(c)
                                       /\ By(c) # p => children'[c] = children[c]
<1>1. children' = [c \in DOMAIN children |->
                    IF By(c) = p THEN [children[c] EXCEPT !.line = "read", !.seen = TRUE] ELSE children[c]]
  BY DEF ProcessEnds, By
<1>2. ASSUME NEW c \in DOMAIN children, By(c) = p
      PROVE  Of(c)' = Of(c) /\ By(c)' = By(c)
  <2>1. children'[c] = [children[c] EXCEPT !.line = "read", !.seen = TRUE]
    BY <1>1, <1>2
  <2>2. children[c] \in Kid
    BY <1>2, KidType
  <2> QED BY <2>1, <2>2 DEF Of, By, Kid
<1>3. ASSUME NEW c \in DOMAIN children, By(c) # p
      PROVE  children'[c] = children[c]
  BY <1>1, <1>3
<1> QED BY <1>1, <1>2, <1>3 DEF Of, By

\* Nobody makes of a child another one.
LEMMA KidsLast ==
  ASSUME KidsInv, [Next]_vars
  PROVE  /\ \A c \in DOMAIN children : c \in DOMAIN children' /\ Of(c)' = Of(c) /\ By(c)' = By(c)
         /\ \/ DOMAIN children' = DOMAIN children
            \/ \E p \in Procs, s \in Subjects : Spawn(p, s)
<1> DEFINE Goal == /\ \A c \in DOMAIN children : c \in DOMAIN children' /\ Of(c)' = Of(c) /\ By(c)' = By(c)
                   /\ \/ DOMAIN children' = DOMAIN children
                      \/ \E p \in Procs, s \in Subjects : Spawn(p, s)
<1>1. Stored
  BY DEF KidsInv
<1>2. ASSUME UNCHANGED children
      PROVE  Goal
  BY <1>2 DEF Of, By
<1>3. ASSUME NEW S, Kill(S)
      PROVE  Goal
  BY <1>1, <1>3, KillLasts
<1> HIDE DEF Goal
<1>4. ASSUME NEW p \in Procs,
             \/ Boot(p) \/ OwnerStep(p) \/ ReleaseOwner(p) \/ StartRecovery(p) \/ Recover(p) \/ Recovered(p)
             \/ RecoveryGivesUp(p) \/ SessionEnds(p) \/ Sweep(p) \/ EndSweep(p) \/ StopGivesUp(p)
             \/ DrainOperations(p) \/ ProcessEnds(p) \/ RecoverySkips(p)
      PROVE  Goal
  <2>1. CASE Sweep(p)
    <3>1. \E S : Kill(S)
      BY <2>1 DEF Sweep
    <3> QED BY <1>3, <3>1
  <2>2. CASE ProcessEnds(p)
    BY <1>1, <2>2, EndLasts DEF Goal
  <2>3. CASE ~(Sweep(p) \/ ProcessEnds(p))
    <3> QED BY <1>2, <1>4, <2>3 DEF Boot, OwnerStep, ReleaseOwner, StartRecovery, Recover, Recovered,
       RecoveryGivesUp, SessionEnds, EndSweep, StopGivesUp, DrainOperations, RecoverySkips, subjectVars
  <2> QED BY <2>1, <2>2, <2>3
<1>5. ASSUME NEW p \in Procs, NEW s \in Subjects,
             \/ StartProcess(p, s) \/ StopProcess(p, s)
             \/ Operate(p, s) \/ OperationFails(p, s)
      PROVE  Goal
  <2>1. CASE Spawn(p, s)
    BY <1>1, <2>1, Launched DEF Goal, Of, By
  <2>2. CASE BeginStop(p, s) \/ StopOther(p, s)
    <3>1. \E S : Kill(S)
      BY <2>2 DEF BeginStop, StopOther
    <3> QED BY <1>3, <3>1
  <2>3. CASE ~(Spawn(p, s) \/ BeginStop(p, s) \/ StopOther(p, s))
    <3> QED BY <1>2, <1>5, <2>3 DEF StartProcess, StopProcess, Operate, TurnRefused, BeginStart, Check, Prepare,
       Terminated, Failed, Stopped, ReleaseSource, Relaunch, OperationFails, CheckFails, PrepareFails, SpawnFails,
       TerminateFails, ReleaseFails, subjectVars
  <2> QED BY <2>1, <2>2, <2>3
<1>6. ASSUME NEW p \in Procs, NEW d \in Deployments,
             RestartProcess(p, d) \/ KillProcess(p, d) \/ AllowProcessRestart(p, d) \/ Persist(p, d)
      PROVE  Goal
  <2> QED BY <1>2, <1>6 DEF RestartProcess, KillProcess, AllowProcessRestart, Persist, subjectVars
<1>7. ASSUME NEW c \in DOMAIN children,
             \/ Announces(c) \/ Killed(c) \/ Crashes(c) \/ Listening(c) \/ Exited(c) \/ OperatorEnds(c)
      PROVE  Goal
  <2>1. /\ DOMAIN children' = DOMAIN children
        /\ \A e \in DOMAIN children \ {c} : children'[e] = children[e]
        /\ Of(c)' = Of(c) /\ By(c)' = By(c)
    BY <1>1, <1>7, ChildLasts
  <2>2. \A e \in DOMAIN children \ {c} : Of(e)' = Of(e) /\ By(e)' = By(e)
    BY <2>1 DEF Of, By
  <2> QED BY <2>1, <2>2 DEF Goal
<1>8. ASSUME UNCHANGED vars \/ \E s \in Subjects : LockExpires(s)
      PROVE  Goal
  BY <1>2, <1>8 DEF vars, LockExpires, subjectVars
<1>9. Goal
  BY <1>4, <1>5, <1>6, <1>7, <1>8, Zenon DEF Next
<1> QED BY <1>9 DEF Goal

LEMMA FittingNext ==
  ASSUME KidsInv, KidsInv', Fitting, [Next]_vars
  PROVE  Fitting'
<1> SUFFICES ASSUME NEW s \in Subjects
             PROVE  /\ registry'[s].child # 0 => registry'[s].child \in {c \in DOMAIN children' : Of(c)' = s}
                    /\ \A p \in Procs : entry'[p][s].child # 0 =>
                         entry'[p][s].child \in {c \in DOMAIN children' : Of(c)' = s /\ By(c)' = p}
  BY DEF Fitting
<1>1. \A c \in DOMAIN children : c \in DOMAIN children' /\ Of(c)' = Of(c) /\ By(c)' = By(c)
  BY KidsLast
<1>2. registry'[s].child \in {registry[s].child, 0} \cup {e \in DOMAIN children' : Of(e)' = s}
  BY RegistryNext
<1>3. registry[s].child # 0 => registry[s].child \in {c \in DOMAIN children : Of(c) = s}
  BY DEF Fitting
<1>4. ASSUME NEW p \in Procs, entry'[p][s].child # 0
      PROVE  entry'[p][s].child \in {c \in DOMAIN children' : Of(c)' = s /\ By(c)' = p}
  <2>1. entry'[p][s].child \in {entry[p][s].child, 0} \cup {e \in DOMAIN children' : Of(e)' = s /\ By(e)' = p}
    BY EntryNext
  <2>2. entry[p][s].child # 0 => entry[p][s].child \in {c \in DOMAIN children : Of(c) = s /\ By(c) = p}
    BY DEF Fitting
  <2> QED BY <1>1, <1>4, <2>1, <2>2
<1> QED BY <1>1, <1>2, <1>3, <1>4

LEMMA InitKids == Init => KidsInv /\ Fitting
<1> SUFFICES ASSUME Init PROVE KidsInv /\ Fitting
  OBVIOUS
<1>1. children = <<>> /\ DOMAIN children = {} /\ children \in Seq(Kid)
  BY EmptySeq DEF Init
<1>2. NoEntry \in [child : Nat, stopping : BOOLEAN]
  BY DEF NoEntry
<1>3. NoRegistry \in [child : Nat, status : Statuses \cup {"none"}]
  BY DEF NoRegistry
<1>4. Stored
  BY <1>1, <1>2, <1>3 DEF Init, Stored, Fresh
<1>5. Fitting
  BY DEF Init, Fitting, Fresh, NoEntry, NoRegistry
<1> QED BY <1>1, <1>4, <1>5, InitOwner DEF KidsInv, Promised, Cleared

LEMMA KidsNext ==
  ASSUME KidsInv, Fitting, [Next]_vars
  PROVE  KidsInv'
<1>1. OwnerInv'
  BY NextInv DEF KidsInv
<1>2. ASSUME NEW p \in Procs,
             \/ Boot(p) \/ OwnerStep(p) \/ ReleaseOwner(p) \/ StartRecovery(p) \/ Recover(p) \/ Recovered(p)
             \/ RecoveryGivesUp(p) \/ SessionEnds(p) \/ Sweep(p) \/ EndSweep(p) \/ StopGivesUp(p)
             \/ DrainOperations(p) \/ ProcessEnds(p) \/ RecoverySkips(p)
      PROVE  KidsInv'
  BY <1>1, <1>2, BootKidsInv, OwnersInv, ReleaseOwnerInv, StartRecoveryInv, RecoverKidsInv, SweepKidsInv,
     EndSweepInv, ProcessEndsKidsInv
<1>3. ASSUME NEW p \in Procs, NEW s \in Subjects,
             \/ StartProcess(p, s) \/ StopProcess(p, s)
             \/ Operate(p, s) \/ OperationFails(p, s)
      PROVE  KidsInv'
  BY <1>1, <1>3, AskedInv, PassingInv, CheckInv, SpawnInv, BeginStopInv, StopOtherInv, TerminatedInv
     DEF Operate, OperationFails
<1>4. ASSUME NEW p \in Procs, NEW d \in Deployments,
             RestartProcess(p, d) \/ KillProcess(p, d) \/ AllowProcessRestart(p, d) \/ Persist(p, d)
      PROVE  KidsInv'
  BY <1>1, <1>4, AskedInv DEF Subjects
<1>5. ASSUME NEW c \in DOMAIN children,
             \/ Announces(c) \/ Killed(c) \/ Crashes(c) \/ Listening(c) \/ Exited(c) \/ OperatorEnds(c)
      PROVE  KidsInv'
  BY <1>1, <1>5, KidActsInv, ListeningInv, ExitedInv
<1>6. CASE UNCHANGED vars \/ \E s \in Subjects : LockExpires(s)
  <2>1. UNCHANGED <<children, registry, entry, left, marker, own, at>>
    BY <1>6 DEF vars, LockExpires, ownerVars, subjectVars, memoryVars
  <2>2. \A q \in Procs, x \in Subjects : Clearing(q, x)' => Clearing(q, x)
    BY <2>1 DEF Clearing
  <2> QED BY <1>1, <2>1, <2>2, SameOwners, StillInv
<1> QED BY <1>2, <1>3, <1>4, <1>5, <1>6, Zenon DEF Next

LEMMA KidsAreOne == KidsInv => OneChild
<1> SUFFICES ASSUME KidsInv, NEW c \in DOMAIN children, NEW e \in DOMAIN children,
                    Live(c), Live(e), Of(c) = Of(e), c # e
             PROVE  {c, e} \cap left # {} /\ ThirdLauncher(c, e)
  BY DEF OneChild, Of
<1>1. c \in Nat /\ e \in Nat
  BY KidType DEF KidsInv
<1>2. ASSUME NEW x \in DOMAIN children, NEW y \in DOMAIN children, x < y, Live(x), Live(y), Of(x) = Of(y)
      PROVE  By(x) # By(y) /\ ThirdLauncher(x, y)
  BY <1>2 DEF KidsInv, Ordered
<1>3. By(c) # By(e) /\ ThirdLauncher(c, e)
  <2>1. CASE c < e
    BY <1>2, <2>1
  <2>2. CASE e < c
    BY <1>2, <2>2 DEF ThirdLauncher, Of
  <2> QED BY <1>1, <2>1, <2>2
<1>4. {c, e} \cap left # {}
  <2>1. Attributed(c) /\ Attributed(e) /\ children[c].alive /\ children[e].alive
    BY DEF KidsInv, Live, Alive
  <2> QED BY <1>3, <2>1 DEF Attributed
<1> QED BY <1>3, <1>4

\* No deployment and no session has two children that nobody has told to stop,
\* whichever process has launched them and however many have, unless one is an
\* orphan of a shutdown and a third process has launched one as well
\* (process/supervisor.ts, runtime/owner.ts).
THEOREM OneChildAlways == Spec => []OneChild
<1>1. (KidsInv /\ Fitting) /\ [Next]_vars => (KidsInv /\ Fitting)'
  BY KidsNext, FittingNext
<1> QED BY <1>1, InitKids, KidsAreOne, PTL DEF Spec
-----------------------------------------------------------------------------
(* Types: what a process remembers, and the bounds *)

QueueTypes ==
  /\ queue \in [Procs -> [Subjects -> Seq(Operations)]]
  /\ at \in [Procs -> [Subjects -> Steps]]
  /\ \A p \in Procs, s \in Subjects : at[p][s] # "idle" => queue[p][s] # <<>>

MemoryTypes ==
  /\ tomb \in [Procs -> SUBSET Subjects]
  /\ source \in [Procs -> SUBSET Private]
  /\ failed \in [Procs -> SUBSET Nat]
  /\ todo \in [Procs -> SUBSET Deployments]

WriteTypes ==
  /\ db \in [Deployments -> Statuses]
  /\ writes \in [Procs -> [Subjects -> Seq(Statuses)]]

BoundTypes ==
  /\ Len(children) <= MaxChildren
  /\ \A s \in Subjects : registry[s].child <= MaxChildren
  /\ \A p \in Procs, s \in Subjects : entry[p][s].child <= MaxChildren
  /\ asked \in [Procs -> Nat] /\ \A p \in Procs : asked[p] <= MaxAsks[p]
  /\ faults \in 0..MaxFaults

LaunchTypes ==
  /\ lock \in [Subjects -> Procs \cup {NoProc}]
  /\ second \in [Procs -> [Subjects -> 0..MaxChildren]]
  /\ untold \in [Procs -> SUBSET Deployments]

TypesInv ==
  KidsInv /\ Fitting /\ QueueTypes /\ MemoryTypes /\ WriteTypes /\ BoundTypes /\ LaunchTypes

\* An operation that is asked for is a record of one.
LEMMA AskType ==
  ASSUME QueueTypes, BoundTypes, NEW p \in Procs, NEW kind \in {"start", "stop", "restart"}
  PROVE  Ask(p, kind) \in Operations
<1>1. PICK n \in Nat : n = asked[p] + 1
  BY DEF BoundTypes
<1>2. PICK b \in BOOLEAN : b = FALSE
  OBVIOUS
<1>3. [kind |-> kind, id |-> n, maintenance |-> b] \in Operations
  BY DEF Operations
<1> QED BY <1>1, <1>2, <1>3, Zenon DEF Ask

\* What is enqueued comes after what was there.
LEMMA Enqueued ==
  ASSUME QueueTypes, NEW p \in Procs, NEW G \in SUBSET Subjects,
         NEW ops \in [G -> Operations], Enqueue(p, ops)
  PROVE  /\ queue' \in [Procs -> [Subjects -> Seq(Operations)]]
         /\ \A q \in Procs \ {p} : queue'[q] = queue[q]
         /\ \A x \in Subjects \ G : queue'[p][x] = queue[p][x]
         /\ \A x \in G : queue'[p][x] = Append(queue[p][x], ops[x])
         /\ \A q \in Procs, x \in Subjects : queue[q][x] # <<>> => queue'[q][x] # <<>>
<1>1. \A x \in Subjects : queue[p][x] \in Seq(Operations)
  BY DEF QueueTypes
<1>2. PICK f : f = [x \in Subjects |-> IF x \in DOMAIN ops THEN Append(queue[p][x], ops[x]) ELSE queue[p][x]]
  OBVIOUS
<1>3. queue' = [queue EXCEPT ![p] = f]
  BY <1>2 DEF Enqueue
<1>4. ASSUME NEW x \in Subjects
      PROVE  /\ f[x] \in Seq(Operations)
             /\ x \in G => f[x] = Append(queue[p][x], ops[x]) /\ f[x] # <<>>
             /\ x \notin G => f[x] = queue[p][x]
  <2>1. CASE x \in G
    <3>1. f[x] = Append(queue[p][x], ops[x]) /\ ops[x] \in Operations
      BY <1>2, <2>1
    <3>2. Append(queue[p][x], ops[x]) \in Seq(Operations) /\ Append(queue[p][x], ops[x]) # <<>>
      BY <1>1, <3>1, AppendProperties
    <3> QED BY <2>1, <3>1, <3>2
  <2>2. CASE x \notin G
    BY <1>1, <1>2, <2>2
  <2> QED BY <2>1, <2>2
<1>5. f \in [Subjects -> Seq(Operations)]
  BY <1>2, <1>4
<1>6. queue'[p] = f /\ \A q \in Procs \ {p} : queue'[q] = queue[q]
  BY <1>3 DEF QueueTypes
<1>7. queue' \in [Procs -> [Subjects -> Seq(Operations)]]
  BY <1>3, <1>5 DEF QueueTypes
<1> QED BY <1>4, <1>6, <1>7

\* What each of the four that are asked for enqueues.
LEMMA AskedFor ==
  ASSUME QueueTypes, BoundTypes, MemoryTypes, NEW p \in Procs, NEW s \in Subjects,
         StartProcess(p, s) \/ StopProcess(p, s) \/ KillProcess(p, s) \/ RestartProcess(p, s)
  PROVE  /\ Group(p, s) \in SUBSET Subjects
         /\ \E G \in SUBSET Subjects : \E ops \in [G -> Operations] :
              /\ Enqueue(p, ops)
              /\ StartProcess(p, s) \/ G = Group(p, s)
              /\ StartProcess(p, s) \/ \A x \in G : ops[x].kind # "start"
<1>1. Group(p, s) \in SUBSET Subjects
  BY DEF Group, MemoryTypes, Subjects
<1>2. Ask(p, "start") \in Operations /\ Ask(p, "stop") \in Operations /\ Ask(p, "restart") \in Operations
  BY AskType
<1>3. Ask(p, "stop").kind = "stop" /\ Ask(p, "restart").kind = "restart"
  BY DEF Ask
<1>4. CASE StartProcess(p, s)
  <2>1. [x \in {s} |-> Ask(p, "start")] \in [{s} -> Operations]
    BY <1>2
  <2>2. Enqueue(p, [x \in {s} |-> Ask(p, "start")])
    BY <1>4 DEF StartProcess
  <2> QED BY <1>1, <1>4, <2>1, <2>2
<1>5. CASE StopProcess(p, s) \/ KillProcess(p, s)
  <2>1. [x \in Group(p, s) |-> Ask(p, "stop")] \in [Group(p, s) -> Operations]
    BY <1>2
  <2>2. Enqueue(p, [x \in Group(p, s) |-> Ask(p, "stop")])
    BY <1>5 DEF StopProcess, KillProcess
  <2>3. \A x \in Group(p, s) : [y \in Group(p, s) |-> Ask(p, "stop")][x].kind # "start"
    BY <1>3
  <2> QED BY <1>1, <2>1, <2>2, <2>3
<1>6. CASE RestartProcess(p, s)
  <2>1. PICK ops : ops = [x \in Group(p, s) |-> Ask(p, IF x = s THEN "restart" ELSE "stop")]
    OBVIOUS
  <2>2. ASSUME NEW x \in Group(p, s)
        PROVE  ops[x] \in {Ask(p, "restart"), Ask(p, "stop")}
    BY <2>1
  <2>3. ops \in [Group(p, s) -> Operations]
    BY <1>2, <2>1, <2>2
  <2>4. Enqueue(p, ops)
    BY <1>6, <2>1 DEF RestartProcess
  <2>5. \A x \in Group(p, s) : ops[x].kind # "start"
    BY <1>3, <2>2
  <2> QED BY <1>1, <1>6, <2>3, <2>4, <2>5
<1> QED BY <1>4, <1>5, <1>6

\* An operation goes a step further, or ends.
Advances(p, s) ==
  /\ queue[p][s] # <<>>
  /\ \/ queue' = queue /\ at' = at
     \/ queue' = queue /\ \E step \in Steps : at' = [at EXCEPT ![p][s] = step]
     \/ queue' = [queue EXCEPT ![p][s] = Tail(@)] /\ at' = [at EXCEPT ![p][s] = "idle"]

LEMMA AdvancesTypes ==
  ASSUME QueueTypes, NEW p \in Procs, NEW s \in Subjects, Advances(p, s)
  PROVE  QueueTypes'
<1>1. queue[p][s] \in Seq(Operations) /\ queue[p][s] # <<>>
  BY DEF QueueTypes, Advances
<1>2. PICK t \in Seq(Operations) : t = Tail(queue[p][s])
  BY <1>1, HeadTailProperties
<1>3. CASE queue' = queue /\ \E step \in Steps : at' = [at EXCEPT ![p][s] = step]
  BY <1>1, <1>3 DEF QueueTypes
<1>4. CASE queue' = [queue EXCEPT ![p][s] = Tail(@)] /\ at' = [at EXCEPT ![p][s] = "idle"]
  <2>1. /\ queue' = [queue EXCEPT ![p][s] = t]
        /\ at' = [at EXCEPT ![p][s] = "idle"] /\ "idle" \in Steps
    BY <1>2, <1>4 DEF Steps
  <2> HIDE DEF Steps
  <2>2. queue' \in [Procs -> [Subjects -> Seq(Operations)]] /\ at' \in [Procs -> [Subjects -> Steps]]
    BY <2>1 DEF QueueTypes
  <2>3. ASSUME NEW q \in Procs, NEW x \in Subjects, at'[q][x] # "idle"
        PROVE  queue'[q][x] = queue[q][x] /\ at'[q][x] = at[q][x]
    BY <2>1, <2>3 DEF QueueTypes
  <2> QED BY <2>2, <2>3 DEF QueueTypes
<1>5. CASE queue' = queue /\ at' = at
  BY <1>5 DEF QueueTypes
<1> QED BY <1>3, <1>4, <1>5 DEF Advances

LEMMA OperationsAdvance ==
  ASSUME NEW p \in Procs, NEW s \in Subjects,
         Operate(p, s) \/ OperationFails(p, s)
  PROVE  Advances(p, s)
<1>1. queue[p][s] # <<>>
  BY DEF Operate, TurnRefused, BeginStart, Check, Prepare, Spawn, BeginStop, StopOther, Terminated, Failed, Stopped,
         ReleaseSource, Relaunch, OperationFails, CheckFails, PrepareFails, SpawnFails,
         TerminateFails, ReleaseFails, Underway
<1>2. CASE TurnRefused(p, s) \/ BeginStart(p, s) \/ Check(p, s) \/ Prepare(p, s) \/ Spawn(p, s)
  BY <1>1, <1>2 DEF Advances, TurnRefused, BeginStart, EnterLaunch, Check, Prepare, Spawn,
     Goto, Finish, FinishFailed, Steps
<1>3. CASE \/ BeginStop(p, s) \/ StopOther(p, s) \/ Terminated(p, s) \/ Failed(p, s) \/ Stopped(p, s)
           \/ ReleaseSource(p, s) \/ Relaunch(p, s) \/ OperationFails(p, s)
  BY <1>1, <1>3 DEF Advances, BeginStop, StopOther, Terminated, Failed, Stopped, ReleaseSource, Relaunch,
     EnterLaunch, OperationFails, CheckFails, PrepareFails, SpawnFails,
     TerminateFails, ReleaseFails, Goto, Finish, FinishFailed, Steps
<1> QED BY <1>2, <1>3 DEF Operate

\* A start of the recovery is enqueued where nothing is, and has begun.
LEMMA RecoverEnqueues ==
  ASSUME QueueTypes, MemoryTypes, NEW p \in Procs, Recover(p)
  PROVE  \/ UNCHANGED <<queue, at>>
         \/ \E d \in Deployments : \E ops \in [{d} -> Operations] :
              Enqueue(p, ops) /\ at' = [at EXCEPT ![p][d] = "checking"]
<1>1. PICK d \in todo[p] :
        \/ UNCHANGED <<queue, at>>
        \/ /\ Enqueue(p, [x \in {d} |-> [kind |-> "start", id |-> 0, maintenance |-> TRUE]])
           /\ at' = [at EXCEPT ![p][d] = "checking"]
  BY Zenon DEF Recover
<1>2. d \in Deployments
  BY DEF MemoryTypes
<1>3. [kind |-> "start", id |-> 0, maintenance |-> TRUE] \in Operations
  BY DEF Operations
<1>4. [x \in {d} |-> [kind |-> "start", id |-> 0, maintenance |-> TRUE]] \in [{d} -> Operations]
  BY <1>3
<1> QED BY <1>1, <1>2, <1>4

LEMMA RecoverTypes ==
  ASSUME QueueTypes, MemoryTypes, NEW p \in Procs, Recover(p)
  PROVE  QueueTypes'
<1>1. CASE UNCHANGED <<queue, at>>
  BY <1>1 DEF QueueTypes
<1>2. ASSUME NEW d \in Deployments, NEW ops \in [{d} -> Operations],
             Enqueue(p, ops), at' = [at EXCEPT ![p][d] = "checking"]
      PROVE  QueueTypes'
  <2>1. d \in Subjects /\ {d} \in SUBSET Subjects /\ "checking" \in Steps
    BY DEF Subjects, Steps
  <2>2. /\ queue' \in [Procs -> [Subjects -> Seq(Operations)]]
        /\ queue'[p][d] = Append(queue[p][d], ops[d])
        /\ \A q \in Procs, x \in Subjects : queue[q][x] # <<>> => queue'[q][x] # <<>>
    BY <1>2, <2>1, Enqueued
  <2>3. queue'[p][d] # <<>>
    <3>1. queue[p][d] \in Seq(Operations) /\ ops[d] \in Operations
      BY <2>1 DEF QueueTypes
    <3>2. Append(queue[p][d], ops[d]) # <<>>
      BY <3>1, AppendProperties
    <3> QED BY <2>2, <3>2, Zenon
  <2>4. /\ at' \in [Procs -> [Subjects -> Steps]]
        /\ \A q \in Procs, x \in Subjects : at'[q][x] = at[q][x] \/ (q = p /\ x = d)
    BY <1>2, <2>1 DEF QueueTypes
  <2> QED BY <2>2, <2>3, <2>4 DEF QueueTypes
<1> QED BY <1>1, <1>2, RecoverEnqueues

LEMMA QueueTypesNext ==
  ASSUME TypesInv, [Next]_vars
  PROVE  QueueTypes'
<1>1. QueueTypes /\ MemoryTypes /\ BoundTypes
  BY DEF TypesInv
<1>2. ASSUME UNCHANGED <<queue, at>>
      PROVE  QueueTypes'
  BY <1>1, <1>2 DEF QueueTypes
<1>3. ASSUME NEW p \in Procs,
             \/ Boot(p) \/ OwnerStep(p) \/ ReleaseOwner(p) \/ StartRecovery(p) \/ Recover(p) \/ Recovered(p)
             \/ RecoveryGivesUp(p) \/ SessionEnds(p) \/ Sweep(p) \/ EndSweep(p) \/ StopGivesUp(p)
             \/ DrainOperations(p) \/ ProcessEnds(p) \/ RecoverySkips(p)
      PROVE  QueueTypes'
  <2>1. CASE Recover(p)
    BY <1>1, <2>1, RecoverTypes
  <2>2. CASE ProcessEnds(p)
    <3>1. /\ queue' = [queue EXCEPT ![p] = [s \in Subjects |-> <<>>]]
          /\ at' = [at EXCEPT ![p] = [s \in Subjects |-> "idle"]]
      BY <2>2 DEF ProcessEnds
    <3>2. <<>> \in Seq(Operations) /\ "idle" \in Steps
      BY EmptySeq DEF Steps
    <3> QED BY <1>1, <3>1, <3>2 DEF QueueTypes
  <2>3. CASE ~(Recover(p) \/ ProcessEnds(p))
    BY <1>2, <1>3, <2>3 DEF Boot, OwnerStep, ReleaseOwner, StartRecovery, Recovered, RecoveryGivesUp,
       SessionEnds, Sweep, EndSweep, StopGivesUp, DrainOperations, RecoverySkips, memoryVars
  <2> QED BY <2>1, <2>2, <2>3
<1>4. ASSUME NEW p \in Procs, NEW s \in Subjects,
             StartProcess(p, s) \/ StopProcess(p, s) \/ KillProcess(p, s) \/ RestartProcess(p, s)
      PROVE  QueueTypes'
  <2>1. PICK G \in SUBSET Subjects : \E ops \in [G -> Operations] : Enqueue(p, ops)
    BY <1>1, <1>4, AskedFor
  <2>2. /\ queue' \in [Procs -> [Subjects -> Seq(Operations)]]
        /\ \A q \in Procs, x \in Subjects : queue[q][x] # <<>> => queue'[q][x] # <<>>
    <3>1. PICK ops \in [G -> Operations] : Enqueue(p, ops)
      BY <2>1
    <3> QED BY <1>1, <3>1, Enqueued
  <2>3. at' = at
    BY <1>4 DEF StartProcess, StopProcess, KillProcess, RestartProcess
  <2> QED BY <1>1, <2>2, <2>3 DEF QueueTypes
<1>5. ASSUME NEW p \in Procs, NEW s \in Subjects,
             \/ StartProcess(p, s) \/ StopProcess(p, s)
             \/ Operate(p, s) \/ OperationFails(p, s)
      PROVE  QueueTypes'
  BY <1>1, <1>4, <1>5, OperationsAdvance, AdvancesTypes
<1>6. ASSUME NEW p \in Procs, NEW d \in Deployments,
             RestartProcess(p, d) \/ KillProcess(p, d) \/ AllowProcessRestart(p, d) \/ Persist(p, d)
      PROVE  QueueTypes'
  <2>1. d \in Subjects
    BY DEF Subjects
  <2>2. AllowProcessRestart(p, d) \/ Persist(p, d) => UNCHANGED <<queue, at>>
    BY DEF AllowProcessRestart, Persist
  <2> QED BY <1>2, <1>4, <1>6, <2>1, <2>2
<1>7. ASSUME NEW c \in DOMAIN children,
             \/ Announces(c) \/ Killed(c) \/ Crashes(c) \/ Listening(c) \/ Exited(c) \/ OperatorEnds(c)
      PROVE  QueueTypes'
  BY <1>2, <1>7 DEF Announces, Killed, Crashes, Dies, Listening, Exited, OperatorEnds, memoryVars
<1>8. CASE UNCHANGED vars \/ \E s \in Subjects : LockExpires(s)
  BY <1>2, <1>8 DEF vars, LockExpires, memoryVars
<1> QED BY <1>3, <1>5, <1>6, <1>7, <1>8, Zenon DEF Next

\* What an operation writes down about the private processes and its own end.
LEMMA OperationMemory ==
  ASSUME QueueTypes, MemoryTypes, NEW p \in Procs, NEW s \in Subjects,
         Operate(p, s) \/ OperationFails(p, s)
  PROVE  MemoryTypes' /\ UNCHANGED <<tomb, todo, asked>>
<1>1. UNCHANGED <<tomb, todo, asked>>
  BY DEF Operate, TurnRefused, BeginStart, Check, Prepare, Spawn, BeginStop, StopOther, Terminated, Failed, Stopped,
         ReleaseSource, Relaunch, OperationFails, CheckFails, PrepareFails, SpawnFails,
         TerminateFails, ReleaseFails
<1>2. PICK S \in SUBSET Private : source' = source \/ source' = [source EXCEPT ![p] = S]
  <2>1. CASE BeginStart(p, s) \/ Relaunch(p, s)
    <3>1. source' = source \/ source' = [source EXCEPT ![p] = source[p] \cup ({s} \cap Private)]
      BY <2>1 DEF BeginStart, Relaunch, EnterLaunch, Remember
    <3>2. source[p] \cup ({s} \cap Private) \in SUBSET Private
      BY DEF MemoryTypes
    <3> QED BY <3>1, <3>2
  <2>2. CASE ReleaseSource(p, s)
    <3>1. source' = [source EXCEPT ![p] = source[p] \ {s}]
      BY <2>2 DEF ReleaseSource
    <3>2. source[p] \ {s} \in SUBSET Private
      BY DEF MemoryTypes
    <3> QED BY <3>1, <3>2
  <2>3. CASE ~(BeginStart(p, s) \/ Relaunch(p, s) \/ ReleaseSource(p, s))
    <3>1. source' = source
      BY <2>3 DEF Operate, TurnRefused, Check, Prepare, Spawn, BeginStop, StopOther, Terminated, Failed, Stopped,
         OperationFails, CheckFails, PrepareFails, SpawnFails,
         TerminateFails, ReleaseFails
    <3> QED BY <3>1
  <2> QED BY <2>1, <2>2, <2>3
<1>3. queue[p][s] \in Seq(Operations) /\ queue[p][s] # <<>>
  BY OperationsAdvance DEF QueueTypes, Advances
<1>4. Op(p, s).id \in Nat
  <2>1. Op(p, s) \in Operations
    BY <1>3, HeadTailProperties DEF Op
  <2> QED BY <2>1 DEF Operations
<1>5. PICK F \in SUBSET Nat : failed' = failed \/ failed' = [failed EXCEPT ![p] = F]
  <2>1. failed[p] \cup {Op(p, s).id} \in SUBSET Nat
    BY <1>4 DEF MemoryTypes
  <2>2. failed' = failed \/ failed' = [failed EXCEPT ![p] = failed[p] \cup {Op(p, s).id}]
    <3>1. CASE \/ TurnRefused(p, s) \/ Failed(p, s) \/ Relaunch(p, s)
               \/ CheckFails(p, s) \/ SpawnFails(p, s) \/ ReleaseFails(p, s)
      BY <3>1 DEF TurnRefused, Failed, Relaunch, CheckFails, SpawnFails, ReleaseFails, EnterLaunch,
         FinishFailed, Goto, Finish
    <3>2. CASE ~(\/ TurnRefused(p, s) \/ Failed(p, s) \/ Relaunch(p, s)
                 \/ CheckFails(p, s) \/ SpawnFails(p, s) \/ ReleaseFails(p, s))
      BY <3>2 DEF Operate, BeginStart, EnterLaunch, Check, Prepare, Spawn, BeginStop, StopOther, Terminated, Stopped,
         ReleaseSource, OperationFails, PrepareFails, TerminateFails, Goto, Finish
    <3> QED BY <3>1, <3>2
  <2> QED BY <2>1, <2>2
<1>6. source' \in [Procs -> SUBSET Private] /\ failed' \in [Procs -> SUBSET Nat]
  BY <1>2, <1>5 DEF MemoryTypes
<1> QED BY <1>1, <1>6 DEF MemoryTypes

LEMMA MemoryTypesNext ==
  ASSUME TypesInv, [Next]_vars
  PROVE  MemoryTypes'
<1>1. QueueTypes /\ MemoryTypes /\ BoundTypes
  BY DEF TypesInv
<1>2. ASSUME UNCHANGED <<tomb, source, failed, todo>>
      PROVE  MemoryTypes'
  BY <1>1, <1>2 DEF MemoryTypes
<1>3. ASSUME NEW p \in Procs,
             \/ Boot(p) \/ OwnerStep(p) \/ ReleaseOwner(p) \/ StartRecovery(p) \/ Recover(p) \/ Recovered(p)
             \/ RecoveryGivesUp(p) \/ SessionEnds(p) \/ Sweep(p) \/ EndSweep(p) \/ StopGivesUp(p)
             \/ DrainOperations(p) \/ ProcessEnds(p) \/ RecoverySkips(p)
      PROVE  MemoryTypes'
  <2>1. CASE StartRecovery(p)
    <3>1. PICK T \in SUBSET Deployments : todo' = todo \/ todo' = [todo EXCEPT ![p] = T]
      BY <2>1 DEF StartRecovery
    <3>2. UNCHANGED <<tomb, source, failed>>
      BY <2>1 DEF StartRecovery
    <3> QED BY <1>1, <3>1, <3>2 DEF MemoryTypes
  <2>2. CASE Recover(p) \/ RecoverySkips(p)
    <3>1. PICK d \in todo[p] : todo' = [todo EXCEPT ![p] = todo[p] \ {d}]
      BY <2>2 DEF Recover, RecoverySkips
    <3>2. todo[p] \ {d} \in SUBSET Deployments
      BY <1>1 DEF MemoryTypes
    <3>3. UNCHANGED <<tomb, source, failed>>
      BY <2>2 DEF Recover, RecoverySkips
    <3> QED BY <1>1, <3>1, <3>2, <3>3 DEF MemoryTypes
  <2>3. CASE ProcessEnds(p)
    BY <1>1, <2>3 DEF ProcessEnds, MemoryTypes
  <2>4. CASE ~(StartRecovery(p) \/ Recover(p) \/ RecoverySkips(p) \/ ProcessEnds(p))
    BY <1>2, <1>3, <2>4 DEF Boot, OwnerStep, ReleaseOwner, Recovered, RecoveryGivesUp,
       SessionEnds, Sweep, EndSweep, StopGivesUp, DrainOperations, memoryVars
  <2> QED BY <2>1, <2>2, <2>3, <2>4
<1>4. ASSUME NEW p \in Procs, NEW s \in Subjects,
             \/ StartProcess(p, s) \/ StopProcess(p, s)
             \/ Operate(p, s) \/ OperationFails(p, s)
      PROVE  MemoryTypes'
  <2>1. CASE StartProcess(p, s)
    <3>1. source' = [source EXCEPT ![p] = source[p] \cup ({s} \cap Private)] /\ UNCHANGED <<tomb, failed, todo>>
      BY <2>1 DEF StartProcess, Remember
    <3>2. source[p] \cup ({s} \cap Private) \in SUBSET Private
      BY <1>1 DEF MemoryTypes
    <3> QED BY <1>1, <3>1, <3>2 DEF MemoryTypes
  <2>2. CASE StopProcess(p, s)
    BY <1>2, <2>2 DEF StopProcess
  <2> QED BY <1>1, <1>4, <2>1, <2>2, OperationMemory
<1>5. ASSUME NEW p \in Procs, NEW d \in Deployments,
             RestartProcess(p, d) \/ KillProcess(p, d) \/ AllowProcessRestart(p, d) \/ Persist(p, d)
      PROVE  MemoryTypes'
  <2>1. CASE RestartProcess(p, d)
    <3>1. source' = [source EXCEPT ![p] = source[p] \cup ({d} \cap Private)] /\ UNCHANGED <<tomb, failed, todo>>
      BY <2>1 DEF RestartProcess, Remember
    <3>2. source[p] \cup ({d} \cap Private) \in SUBSET Private
      BY <1>1 DEF MemoryTypes
    <3> QED BY <1>1, <3>1, <3>2 DEF MemoryTypes
  <2>2. CASE KillProcess(p, d) \/ AllowProcessRestart(p, d)
    <3>1. PICK T : tomb' = [tomb EXCEPT ![p] = T] /\ T \in {tomb[p] \cup Group(p, d), tomb[p] \ {d}}
      BY <2>2 DEF KillProcess, AllowProcessRestart
    <3>2. T \in SUBSET Subjects
      BY <1>1, <3>1 DEF MemoryTypes, Group, Subjects
    <3>3. UNCHANGED <<source, failed, todo>>
      BY <2>2 DEF KillProcess, AllowProcessRestart
    <3> QED BY <1>1, <3>1, <3>2, <3>3 DEF MemoryTypes
  <2>3. CASE Persist(p, d)
    BY <1>2, <2>3 DEF Persist
  <2> QED BY <1>5, <2>1, <2>2, <2>3
<1>6. ASSUME NEW c \in DOMAIN children,
             \/ Announces(c) \/ Killed(c) \/ Crashes(c) \/ Listening(c) \/ Exited(c) \/ OperatorEnds(c)
      PROVE  MemoryTypes'
  BY <1>2, <1>6 DEF Announces, Killed, Crashes, Dies, Listening, Exited, OperatorEnds, memoryVars
<1>7. CASE UNCHANGED vars \/ \E s \in Subjects : LockExpires(s)
  BY <1>2, <1>7 DEF vars, LockExpires, memoryVars
<1> QED BY <1>3, <1>4, <1>5, <1>6, <1>7, Zenon DEF Next

\* The status that is written is one, and what the table takes is the oldest.
LEMMA WriteType ==
  ASSUME WriteTypes, NEW p \in Procs, NEW s \in Subjects, NEW status \in Statuses, writes' = Written(p, s, status)
  PROVE  writes' \in [Procs -> [Subjects -> Seq(Statuses)]]
<1>1. writes[p][s] \in Seq(Statuses)
  BY DEF WriteTypes
<1>2. PICK w \in Seq(Statuses) : w = Append(writes[p][s], status)
  BY <1>1, AppendProperties
<1>3. writes' = writes \/ writes' = [writes EXCEPT ![p][s] = w]
  BY <1>2 DEF Written
<1>4. writes \in [Procs -> [Subjects -> Seq(Statuses)]]
  BY DEF WriteTypes
<1>5. [writes EXCEPT ![p][s] = w] \in [Procs -> [Subjects -> Seq(Statuses)]]
  BY <1>4
<1> QED BY <1>3, <1>4, <1>5, Zenon

LEMMA OperationWrites ==
  ASSUME KidsInv, WriteTypes, NEW p \in Procs, NEW s \in Subjects,
         Operate(p, s) \/ OperationFails(p, s)
  PROVE  WriteTypes'
<1>1. db' = db
  BY DEF Operate, TurnRefused, BeginStart, Check, Prepare, Spawn, BeginStop, StopOther, Terminated, Failed, Stopped,
         ReleaseSource, Relaunch, OperationFails, CheckFails, PrepareFails, SpawnFails,
         TerminateFails, ReleaseFails, subjectVars
<1>2. writes' = writes \/ \E status \in Statuses : writes' = Written(p, s, status)
  <2>1. CASE Check(p, s)
    <3>1. \/ writes' = writes \/ writes' = Written(p, s, "provisioning")
          \/ LaunchedAlready(s) /\ writes' = Written(p, s, registry[s].status)
      BY <2>1 DEF Check, Write
    <3>2. /\ LaunchedAlready(s) => registry[s].status \in Statuses
          /\ "provisioning" \in Statuses
      BY DEF LaunchedAlready, Statuses
    <3> QED BY <3>1, <3>2
  <2>2. CASE Spawn(p, s) \/ Terminated(p, s) \/ PrepareFails(p, s) \/ TerminateFails(p, s)
    <3>1. {"provisioning", "stopped", "error"} \subseteq Statuses
      BY DEF Statuses
    <3> QED BY <2>2, <3>1 DEF Spawn, Terminated, PrepareFails, TerminateFails, Write
  <2>3. CASE ~(\/ Check(p, s) \/ Spawn(p, s) \/ Terminated(p, s)
               \/ PrepareFails(p, s) \/ TerminateFails(p, s))
    BY <2>3 DEF Operate, TurnRefused, BeginStart, Prepare, BeginStop, StopOther, Failed, Stopped, ReleaseSource,
       Relaunch, OperationFails, CheckFails, SpawnFails, ReleaseFails
  <2> QED BY <2>1, <2>2, <2>3
<1>3. writes' \in [Procs -> [Subjects -> Seq(Statuses)]]
  BY <1>2, WriteType DEF WriteTypes
<1> QED BY <1>1, <1>3 DEF WriteTypes

LEMMA PersistTypes ==
  ASSUME WriteTypes, NEW p \in Procs, NEW d \in Deployments, Persist(p, d)
  PROVE  WriteTypes'
<1>1. writes[p][d] \in Seq(Statuses) /\ writes[p][d] # <<>>
  BY DEF WriteTypes, Persist, Subjects
<1>2. Head(writes[p][d]) \in Statuses
  BY <1>1, HeadTailProperties
<1>3. PICK w \in Seq(Statuses) : w = Tail(writes[p][d])
  BY <1>1, HeadTailProperties
<1>4. db' = [db EXCEPT ![d] = Head(writes[p][d])] /\ writes' = [writes EXCEPT ![p][d] = w]
  BY <1>3 DEF Persist
<1> QED BY <1>2, <1>4 DEF WriteTypes, Subjects

LEMMA WriteTypesNext ==
  ASSUME TypesInv, [Next]_vars
  PROVE  WriteTypes'
<1>1. WriteTypes /\ KidsInv
  BY DEF TypesInv
<1>2. ASSUME UNCHANGED <<db, writes>>
      PROVE  WriteTypes'
  BY <1>1, <1>2 DEF WriteTypes
<1>3. ASSUME NEW p \in Procs,
             \/ Boot(p) \/ OwnerStep(p) \/ ReleaseOwner(p) \/ StartRecovery(p) \/ Recover(p) \/ Recovered(p)
             \/ RecoveryGivesUp(p) \/ SessionEnds(p) \/ Sweep(p) \/ EndSweep(p) \/ StopGivesUp(p)
             \/ DrainOperations(p) \/ ProcessEnds(p) \/ RecoverySkips(p)
      PROVE  WriteTypes'
  <2>1. CASE ProcessEnds(p)
    <3>1. writes' = [writes EXCEPT ![p] = [s \in Subjects |-> <<>>]] /\ db' = db
      BY <2>1 DEF ProcessEnds
    <3>2. <<>> \in Seq(Statuses)
      BY EmptySeq
    <3> QED BY <1>1, <3>1, <3>2 DEF WriteTypes
  <2>2. CASE ~ProcessEnds(p)
    BY <1>2, <1>3, <2>2 DEF Boot, OwnerStep, ReleaseOwner, StartRecovery, Recover, Recovered, RecoveryGivesUp,
       SessionEnds, Sweep, EndSweep, StopGivesUp, DrainOperations, RecoverySkips, subjectVars, memoryVars
  <2> QED BY <2>1, <2>2
<1>4. ASSUME NEW p \in Procs, NEW s \in Subjects,
             \/ StartProcess(p, s) \/ StopProcess(p, s)
             \/ Operate(p, s) \/ OperationFails(p, s)
      PROVE  WriteTypes'
  <2>1. CASE StartProcess(p, s) \/ StopProcess(p, s)
    BY <1>2, <2>1 DEF StartProcess, StopProcess, subjectVars
  <2> QED BY <1>1, <1>4, <2>1, OperationWrites
<1>5. ASSUME NEW p \in Procs, NEW d \in Deployments,
             RestartProcess(p, d) \/ KillProcess(p, d) \/ AllowProcessRestart(p, d) \/ Persist(p, d)
      PROVE  WriteTypes'
  <2>1. CASE RestartProcess(p, d) \/ KillProcess(p, d) \/ AllowProcessRestart(p, d)
    BY <1>2, <2>1 DEF RestartProcess, KillProcess, AllowProcessRestart, subjectVars
  <2> QED BY <1>1, <1>5, <2>1, PersistTypes
<1>6. ASSUME NEW c \in DOMAIN children,
             \/ Announces(c) \/ Killed(c) \/ Crashes(c) \/ Listening(c) \/ Exited(c) \/ OperatorEnds(c)
      PROVE  WriteTypes'
  <2>1. CASE Listening(c) \/ Exited(c)
    <3>1. children[c].by \in Procs /\ children[c].of \in Subjects
      BY <1>1, KidType DEF KidsInv, By, Of
    <3>2. \/ writes' = writes
          \/ \E status \in {"running", "error"} : writes' = Written(children[c].by, children[c].of, status)
      BY <2>1 DEF Listening, Exited, Write
    <3>3. writes' \in [Procs -> [Subjects -> Seq(Statuses)]]
      BY <1>1, <3>1, <3>2, WriteType DEF WriteTypes, Statuses
    <3>4. db' = db
      BY <2>1 DEF Listening, Exited
    <3> QED BY <1>1, <3>3, <3>4 DEF WriteTypes
  <2>2. CASE Announces(c) \/ Killed(c) \/ Crashes(c) \/ OperatorEnds(c)
    BY <1>2, <2>2 DEF Announces, Killed, Crashes, Dies, OperatorEnds, memoryVars
  <2> QED BY <1>6, <2>1, <2>2
<1>7. CASE UNCHANGED vars \/ \E s \in Subjects : LockExpires(s)
  BY <1>2, <1>7 DEF vars, LockExpires, subjectVars, memoryVars
<1> QED BY <1>3, <1>4, <1>5, <1>6, <1>7, Zenon DEF Next

\* Nobody but a launch makes children more.
LEMMA SameLength ==
  ASSUME Stored, Stored', DOMAIN children' = DOMAIN children
  PROVE  Len(children') = Len(children)
<1>1. /\ Len(children) \in Nat /\ DOMAIN children = 1..Len(children)
      /\ Len(children') \in Nat /\ DOMAIN children' = 1..Len(children')
  BY LenProperties DEF Stored
<1> QED BY <1>1

LEMMA LengthNext ==
  ASSUME KidsInv, KidsInv', BoundTypes, [Next]_vars
  PROVE  /\ Len(children') <= MaxChildren
         /\ DOMAIN children \subseteq DOMAIN children'
<1>1. Stored /\ Stored' /\ Len(children) <= MaxChildren
  BY DEF KidsInv, BoundTypes
<1>2. ASSUME DOMAIN children' = DOMAIN children
      PROVE  /\ Len(children') <= MaxChildren
             /\ DOMAIN children \subseteq DOMAIN children'
  BY <1>1, <1>2, SameLength
<1>3. ASSUME NEW p \in Procs,
             \/ Boot(p) \/ OwnerStep(p) \/ ReleaseOwner(p) \/ StartRecovery(p) \/ Recover(p) \/ Recovered(p)
             \/ RecoveryGivesUp(p) \/ SessionEnds(p) \/ Sweep(p) \/ EndSweep(p) \/ StopGivesUp(p)
             \/ DrainOperations(p) \/ ProcessEnds(p) \/ RecoverySkips(p)
      PROVE  DOMAIN children' = DOMAIN children
  <2>1. CASE Sweep(p) \/ ProcessEnds(p)
    BY <2>1 DEF Sweep, Kill, ProcessEnds
  <2>2. CASE ~(Sweep(p) \/ ProcessEnds(p))
    BY <1>3, <2>2 DEF Boot, OwnerStep, ReleaseOwner, StartRecovery, Recover, Recovered, RecoveryGivesUp,
       SessionEnds, EndSweep, StopGivesUp, DrainOperations, RecoverySkips, subjectVars
  <2> QED BY <2>1, <2>2
<1>4. ASSUME NEW p \in Procs, NEW s \in Subjects,
             \/ StartProcess(p, s) \/ StopProcess(p, s)
             \/ Operate(p, s) \/ OperationFails(p, s)
      PROVE  /\ Len(children') <= MaxChildren
             /\ DOMAIN children \subseteq DOMAIN children'
  <2>1. CASE Spawn(p, s)
    <3>1. Len(children) \in Nat /\ DOMAIN children = 1..Len(children)
      BY <1>1, LenProperties DEF Stored
    <3>2. PICK k : children' = Append(children, k)
      BY <2>1 DEF Spawn
    <3>3. Len(children) < MaxChildren
      BY <2>1 DEF Spawn
    <3>4. Len(children') = Len(children) + 1
      BY <1>1, <3>2 DEF Stored
    <3>5. DOMAIN children' = 1..Len(children')
      BY <1>1, LenProperties DEF Stored
    <3>6. MaxChildren \in Nat
      BY SupervisorConstants
    <3> QED BY <3>1, <3>3, <3>4, <3>5, <3>6
  <2>2. CASE ~Spawn(p, s)
    <3>1. DOMAIN children' = DOMAIN children
      BY <1>4, <2>2 DEF StartProcess, StopProcess, Operate, TurnRefused, BeginStart, Check, Prepare, BeginStop,
         StopOther,
         Kill, Terminated, Failed, Stopped, ReleaseSource, Relaunch, OperationFails, CheckFails, PrepareFails,
         SpawnFails,
         TerminateFails, ReleaseFails, subjectVars
    <3> QED BY <1>2, <3>1
  <2> QED BY <2>1, <2>2
<1>5. ASSUME NEW p \in Procs, NEW d \in Deployments,
             RestartProcess(p, d) \/ KillProcess(p, d) \/ AllowProcessRestart(p, d) \/ Persist(p, d)
      PROVE  DOMAIN children' = DOMAIN children
  BY <1>5 DEF RestartProcess, KillProcess, AllowProcessRestart, Persist, subjectVars
<1>6. ASSUME NEW c \in DOMAIN children,
             \/ Announces(c) \/ Killed(c) \/ Crashes(c) \/ Listening(c) \/ Exited(c) \/ OperatorEnds(c)
      PROVE  DOMAIN children' = DOMAIN children
  BY <1>6 DEF Announces, Killed, Crashes, Dies, Listening, Exited, OperatorEnds
<1>7. CASE UNCHANGED vars \/ \E s \in Subjects : LockExpires(s)
  BY <1>2, <1>7 DEF vars, LockExpires, subjectVars
<1> QED BY <1>2, <1>3, <1>4, <1>5, <1>6, <1>7, Zenon DEF Next

\* What is asked for, and what fails, is bounded.
LEMMA CountsNext ==
  ASSUME BoundTypes, [Next]_vars
  PROVE  /\ asked' \in [Procs -> Nat] /\ \A p \in Procs : asked'[p] <= MaxAsks[p]
         /\ faults' \in 0..MaxFaults
<1> DEFINE Goal == /\ asked' \in [Procs -> Nat] /\ \A p \in Procs : asked'[p] <= MaxAsks[p]
                   /\ faults' \in 0..MaxFaults
<1>1. /\ asked \in [Procs -> Nat] /\ \A p \in Procs : asked[p] <= MaxAsks[p]
      /\ faults \in 0..MaxFaults /\ MaxAsks \in [Procs -> Nat] /\ MaxFaults \in Nat
  BY SupervisorConstants DEF BoundTypes
<1>2. ASSUME asked' = asked, faults' = faults \/ Fault
      PROVE  Goal
  BY <1>1, <1>2 DEF Fault
<1>3. ASSUME NEW p \in Procs, NEW stop \in BOOLEAN, Asks(p, stop), faults' = faults
      PROVE  Goal
  <2>1. asked[p] < MaxAsks[p] /\ asked' = [asked EXCEPT ![p] = asked[p] + 1]
    BY <1>3 DEF Asks
  <2> QED BY <1>1, <1>3, <2>1
<1> HIDE DEF Goal
<1>4. ASSUME NEW p \in Procs,
             \/ Boot(p) \/ OwnerStep(p) \/ ReleaseOwner(p) \/ StartRecovery(p) \/ Recover(p) \/ Recovered(p)
             \/ RecoveryGivesUp(p) \/ SessionEnds(p) \/ Sweep(p) \/ EndSweep(p) \/ StopGivesUp(p)
             \/ DrainOperations(p) \/ ProcessEnds(p) \/ RecoverySkips(p)
      PROVE  Goal
  BY <1>2, <1>4 DEF Boot, OwnerStep, ReleaseOwner, StartRecovery, Recover, Recovered, RecoveryGivesUp,
     SessionEnds, Sweep, EndSweep, StopGivesUp, DrainOperations, RecoverySkips, ProcessEnds
<1>5. ASSUME NEW p \in Procs, NEW s \in Subjects,
             \/ StartProcess(p, s) \/ StopProcess(p, s)
             \/ Operate(p, s) \/ OperationFails(p, s)
      PROVE  Goal
  <2>1. CASE StartProcess(p, s) \/ StopProcess(p, s)
    BY <1>3, <2>1 DEF StartProcess, StopProcess
  <2>2. CASE ~(StartProcess(p, s) \/ StopProcess(p, s))
    BY <1>2, <1>5, <2>2 DEF Operate, TurnRefused, BeginStart, Check, Prepare, Spawn, BeginStop, StopOther, Terminated,
       Failed, Stopped, ReleaseSource, Relaunch, OperationFails, CheckFails, PrepareFails, SpawnFails,
       TerminateFails, ReleaseFails
  <2> QED BY <2>1, <2>2
<1>6. ASSUME NEW p \in Procs, NEW d \in Deployments,
             RestartProcess(p, d) \/ KillProcess(p, d) \/ AllowProcessRestart(p, d) \/ Persist(p, d)
      PROVE  Goal
  BY <1>2, <1>3, <1>6 DEF RestartProcess, KillProcess, AllowProcessRestart, Persist
<1>7. ASSUME NEW c \in DOMAIN children,
             \/ Announces(c) \/ Killed(c) \/ Crashes(c) \/ Listening(c) \/ Exited(c) \/ OperatorEnds(c)
      PROVE  Goal
  BY <1>2, <1>7 DEF Announces, Killed, Crashes, Dies, Listening, Exited, OperatorEnds
<1>8. ASSUME UNCHANGED vars \/ \E s \in Subjects : LockExpires(s)
      PROVE  Goal
  BY <1>2, <1>8 DEF vars, LockExpires
<1>9. Goal
  BY <1>4, <1>5, <1>6, <1>7, <1>8, Zenon DEF Next
<1> QED BY <1>9 DEF Goal

LEMMA BoundTypesNext ==
  ASSUME KidsInv, KidsInv', Fitting, BoundTypes, [Next]_vars
  PROVE  BoundTypes'
<1>1. Len(children') <= MaxChildren
  BY LengthNext
<1>2. \A c \in DOMAIN children' : c <= MaxChildren
  <2>1. DOMAIN children' = 1..Len(children') /\ Len(children') \in Nat
    BY LenProperties DEF KidsInv, Stored
  <2> QED BY <1>1, <2>1, SupervisorConstants
<1>3. 0 <= MaxChildren
  BY SupervisorConstants
<1>4. \A x \in Subjects : registry'[x].child <= MaxChildren
  <2> TAKE x \in Subjects
  <2>1. registry'[x].child \in {registry[x].child, 0} \cup DOMAIN children'
    BY RegistryNext
  <2>2. registry[x].child <= MaxChildren
    BY DEF BoundTypes
  <2> QED BY <1>2, <1>3, <2>1, <2>2
<1>5. \A q \in Procs, x \in Subjects : entry'[q][x].child <= MaxChildren
  <2> TAKE q \in Procs, x \in Subjects
  <2>1. entry'[q][x].child \in {entry[q][x].child, 0} \cup DOMAIN children'
    BY EntryNext
  <2>2. entry[q][x].child <= MaxChildren
    BY DEF BoundTypes
  <2> QED BY <1>2, <1>3, <2>1, <2>2
<1> QED BY <1>1, <1>4, <1>5, CountsNext DEF BoundTypes

\* Nothing but an operation, and the end of its process, makes anything of these.
LEMMA OperationLaunches ==
  ASSUME TypesInv, NEW p \in Procs, NEW s \in Subjects,
         Operate(p, s) \/ OperationFails(p, s)
  PROVE  LaunchTypes'
<1>1. LaunchTypes /\ Stored /\ BoundTypes
  BY DEF TypesInv, KidsInv
<1>2. PICK v \in Procs \cup {NoProc} : lock' = lock \/ lock' = [lock EXCEPT ![s] = v]
  <2>1. CASE Prepare(p, s) \/ PrepareFails(p, s) \/ Spawn(p, s) \/ SpawnFails(p, s)
    <3>1. lock' = lock \/ lock' = [lock EXCEPT ![s] = IF lock[s] = p THEN NoProc ELSE lock[s]]
      BY <2>1 DEF Prepare, PrepareFails, Spawn, SpawnFails, Unlock
    <3>2. (IF lock[s] = p THEN NoProc ELSE lock[s]) \in Procs \cup {NoProc}
      BY <1>1 DEF LaunchTypes
    <3> QED BY <3>1, <3>2
  <2>2. CASE Check(p, s)
    BY <2>2 DEF Check
  <2>3. CASE ~(\/ Prepare(p, s) \/ PrepareFails(p, s) \/ Spawn(p, s) \/ SpawnFails(p, s) \/ Check(p, s))
    BY <2>3 DEF Operate, TurnRefused, BeginStart, BeginStop, StopOther, Terminated, Failed, Stopped,
       ReleaseSource, Relaunch, OperationFails, CheckFails, TerminateFails, ReleaseFails
  <2> QED BY <2>1, <2>2, <2>3
<1>3. PICK U \in SUBSET Deployments : untold' = untold \/ untold' = [untold EXCEPT ![p] = U]
  <2>1. /\ untold[p] \ {s} \in SUBSET Deployments
        /\ \A S : untold[p] \cup (S \cap Deployments) \in SUBSET Deployments
    BY <1>1 DEF LaunchTypes
  <2>2. \/ untold' = untold \/ untold' = [untold EXCEPT ![p] = untold[p] \ {s}]
        \/ \E S : untold' = [untold EXCEPT ![p] = untold[p] \cup (S \cap Deployments)]
    BY DEF Operate, TurnRefused, BeginStart, Check, Prepare, Spawn, BeginStop, StopOther, Terminated, Failed,
       Stopped, ReleaseSource, Relaunch, OperationFails, CheckFails, PrepareFails, SpawnFails, TerminateFails,
       ReleaseFails, Write, PassOver
  <2> QED BY <2>1, <2>2
<1>4. PICK n \in 0..MaxChildren : second' = second \/ second' = [second EXCEPT ![p][s] = n]
  <2>1. 0 \in 0..MaxChildren /\ registry[s].child \in 0..MaxChildren
    BY <1>1, SupervisorConstants DEF Stored, BoundTypes
  <2>2. CASE BeginStop(p, s)
    <3>1. \/ second' = second
          \/ second' = [second EXCEPT ![p][s] = IF registry[s].child = entry[p][s].child
                                                THEN 0 ELSE registry[s].child]
      BY <2>2 DEF BeginStop
    <3> QED BY <2>1, <3>1
  <2>3. CASE StopOther(p, s) \/ TerminateFails(p, s)
    BY <2>1, <2>3 DEF StopOther, TerminateFails
  <2>4. CASE ~(BeginStop(p, s) \/ StopOther(p, s) \/ TerminateFails(p, s))
    <3>1. second' = second
      BY <2>4 DEF Operate, TurnRefused, BeginStart, Check, Prepare, Spawn, Terminated, Failed, Stopped,
         ReleaseSource, Relaunch, OperationFails, CheckFails, PrepareFails, SpawnFails, ReleaseFails
    <3> QED BY <2>1, <3>1
  <2> QED BY <2>2, <2>3, <2>4
<1>5. lock' \in [Subjects -> Procs \cup {NoProc}]
  BY <1>1, <1>2 DEF LaunchTypes
<1>6. untold' \in [Procs -> SUBSET Deployments]
  BY <1>1, <1>3 DEF LaunchTypes
<1>7. second' \in [Procs -> [Subjects -> 0..MaxChildren]]
  <2>1. second \in [Procs -> [Subjects -> 0..MaxChildren]]
    BY <1>1 DEF LaunchTypes
  <2>2. PICK T : T = 0..MaxChildren
    OBVIOUS
  <2>3. second \in [Procs -> [Subjects -> T]] /\ n \in T
    BY <1>4, <2>1, <2>2
  <2>4. second' \in [Procs -> [Subjects -> T]]
    BY <1>4, <2>3
  <2> QED BY <2>2, <2>4
<1> QED BY <1>5, <1>6, <1>7 DEF LaunchTypes

LEMMA LaunchTypesNext ==
  ASSUME TypesInv, [Next]_vars
  PROVE  LaunchTypes'
<1>1. LaunchTypes /\ MemoryTypes
  BY DEF TypesInv
<1>2. ASSUME UNCHANGED <<lock, second, untold>>
      PROVE  LaunchTypes'
  BY <1>1, <1>2 DEF LaunchTypes
<1>3. ASSUME NEW p \in Procs,
             \/ Boot(p) \/ OwnerStep(p) \/ ReleaseOwner(p) \/ StartRecovery(p) \/ Recover(p) \/ Recovered(p)
             \/ RecoveryGivesUp(p) \/ SessionEnds(p) \/ Sweep(p) \/ EndSweep(p) \/ StopGivesUp(p)
             \/ DrainOperations(p) \/ ProcessEnds(p) \/ RecoverySkips(p)
      PROVE  LaunchTypes'
  <2>1. CASE RecoverySkips(p)
    <3>1. PICK S : untold' = [untold EXCEPT ![p] = untold[p] \cup (S \cap Deployments)]
      BY <2>1 DEF RecoverySkips, PassOver
    <3>2. UNCHANGED <<lock, second>>
      BY <2>1 DEF RecoverySkips
    <3> QED BY <1>1, <3>1, <3>2 DEF LaunchTypes
  <2>2. CASE ProcessEnds(p)
    <3>1. /\ second' = [second EXCEPT ![p] = [s \in Subjects |-> 0]]
          /\ untold' = [untold EXCEPT ![p] = {}] /\ lock' = lock
      BY <2>2 DEF ProcessEnds
    <3> QED BY <1>1, <3>1, SupervisorConstants DEF LaunchTypes
  <2>3. CASE ~(RecoverySkips(p) \/ ProcessEnds(p))
    BY <1>2, <1>3, <2>3 DEF Boot, OwnerStep, ReleaseOwner, StartRecovery, Recover, Recovered, RecoveryGivesUp,
       SessionEnds, Sweep, EndSweep, StopGivesUp, DrainOperations, memoryVars
  <2> QED BY <2>1, <2>2, <2>3
<1>4. ASSUME NEW p \in Procs, NEW s \in Subjects,
             \/ StartProcess(p, s) \/ StopProcess(p, s)
             \/ Operate(p, s) \/ OperationFails(p, s)
      PROVE  LaunchTypes'
  <2>1. CASE StartProcess(p, s) \/ StopProcess(p, s)
    BY <1>2, <2>1 DEF StartProcess, StopProcess
  <2> QED BY <1>4, <2>1, OperationLaunches
<1>5. ASSUME NEW p \in Procs, NEW d \in Deployments,
             RestartProcess(p, d) \/ KillProcess(p, d) \/ AllowProcessRestart(p, d) \/ Persist(p, d)
      PROVE  LaunchTypes'
  BY <1>2, <1>5 DEF RestartProcess, KillProcess, AllowProcessRestart, Persist
<1>6. ASSUME NEW c \in DOMAIN children,
             \/ Announces(c) \/ Killed(c) \/ Crashes(c) \/ Listening(c) \/ Exited(c) \/ OperatorEnds(c)
      PROVE  LaunchTypes'
  <2>1. CASE Listening(c) \/ Exited(c)
    <3>1. PICK q, x : untold' = untold \/ untold' = [untold EXCEPT ![q] = untold[q] \ {x}]
      BY <2>1 DEF Listening, Exited, Write
    <3>2. UNCHANGED <<lock, second>>
      BY <2>1 DEF Listening, Exited
    <3> QED BY <1>1, <3>1, <3>2 DEF LaunchTypes
  <2>2. CASE ~(Listening(c) \/ Exited(c))
    BY <1>2, <1>6, <2>2 DEF Announces, Killed, Crashes, Dies, OperatorEnds, memoryVars
  <2> QED BY <2>1, <2>2
<1>7. ASSUME NEW s \in Subjects, LockExpires(s)
      PROVE  LaunchTypes'
  BY <1>1, <1>7 DEF LockExpires, LaunchTypes, memoryVars
<1>8. CASE UNCHANGED vars
  BY <1>2, <1>8 DEF vars, memoryVars
<1> QED BY <1>3, <1>4, <1>5, <1>6, <1>7, <1>8, Zenon DEF Next

LEMMA TypesNext ==
  ASSUME TypesInv, [Next]_vars
  PROVE  TypesInv'
<1>1. KidsInv' /\ KidsInv /\ Fitting'
  BY KidsNext, FittingNext DEF TypesInv
<1> QED BY <1>1, QueueTypesNext, MemoryTypesNext, WriteTypesNext, BoundTypesNext, LaunchTypesNext DEF TypesInv

LEMMA InitTypes == Init => TypesInv
<1> SUFFICES ASSUME Init PROVE TypesInv
  OBVIOUS
<1>1. QueueTypes
  <2>1. <<>> \in Seq(Operations) /\ "idle" \in Steps
    BY EmptySeq DEF Steps
  <2>2. queue = [p \in Procs |-> [s \in Subjects |-> <<>>]] /\ at = [p \in Procs |-> [s \in Subjects |-> "idle"]]
    BY DEF Init, Fresh
  <2> QED BY <2>1, <2>2 DEF QueueTypes
<1>2. MemoryTypes
  BY DEF Init, MemoryTypes
<1>3. WriteTypes
  <2>1. <<>> \in Seq(Statuses) /\ "stopped" \in Statuses
    BY EmptySeq DEF Statuses
  <2>2. /\ writes = [p \in Procs |-> [s \in Subjects |-> <<>>]]
        /\ db = [d \in Deployments |-> "stopped"]
    BY DEF Init, Fresh
  <2> QED BY <2>1, <2>2 DEF WriteTypes
<1>4. BoundTypes
  <2>1. Len(children) = 0
    BY DEF Init
  <2>2. \A s \in Subjects : registry[s].child = 0
    BY DEF Init, NoRegistry
  <2>3. \A p \in Procs, s \in Subjects : entry[p][s].child = 0
    BY DEF Init, Fresh, NoEntry
  <2>4. asked = [p \in Procs |-> 0] /\ faults = 0
    BY DEF Init
  <2>5. MaxChildren \in Nat /\ MaxFaults \in Nat /\ MaxAsks \in [Procs -> Nat]
    BY SupervisorConstants
  <2> QED BY <2>1, <2>2, <2>3, <2>4, <2>5 DEF BoundTypes
<1>5. LaunchTypes
  BY SupervisorConstants DEF Init, Fresh, LaunchTypes
<1> QED BY <1>1, <1>2, <1>3, <1>4, <1>5, InitKids DEF TypesInv

LEMMA InvImpliesTypeOK == TypesInv => TypeOK
<1> SUFFICES ASSUME TypesInv PROVE TypeOK
  OBVIOUS
<1>1. OwnerTypeOK /\ Stored /\ QueueTypes /\ MemoryTypes /\ WriteTypes /\ BoundTypes /\ LaunchTypes
  BY DEF TypesInv, KidsInv, OwnerInv
<1>2. registry \in [Subjects -> [child : 0..MaxChildren, status : Statuses \cup {"none"}]]
  <2>1. MaxChildren \in Nat
    BY SupervisorConstants
  <2>2. registry \in [Subjects -> [child : Nat, status : Statuses \cup {"none"}]]
    BY <1>1 DEF Stored
  <2>3. ASSUME NEW s \in Subjects
        PROVE  registry[s] \in [child : 0..MaxChildren, status : Statuses \cup {"none"}]
    <3>1. registry[s] \in [child : Nat, status : Statuses \cup {"none"}] /\ registry[s].child <= MaxChildren
      BY <1>1, <2>2 DEF BoundTypes
    <3>2. registry[s].child \in 0..MaxChildren
      BY <2>1, <3>1
    <3> QED BY <3>1, <3>2
  <2> QED BY <2>2, <2>3
<1>3. entry \in [Procs -> [Subjects -> [child : 0..MaxChildren, stopping : BOOLEAN]]]
  <2>1. MaxChildren \in Nat
    BY SupervisorConstants
  <2>2. entry \in [Procs -> [Subjects -> [child : Nat, stopping : BOOLEAN]]]
    BY <1>1 DEF Stored
  <2>3. ASSUME NEW p \in Procs, NEW s \in Subjects
        PROVE  entry[p][s] \in [child : 0..MaxChildren, stopping : BOOLEAN]
    <3>1. entry[p][s] \in [child : Nat, stopping : BOOLEAN] /\ entry[p][s].child <= MaxChildren
      BY <1>1, <2>2 DEF BoundTypes
    <3>2. entry[p][s].child \in 0..MaxChildren
      BY <2>1, <3>1
    <3> QED BY <3>1, <3>2
  <2> QED BY <2>2, <2>3
<1> HIDE DEF Subjects
<1> QED BY <1>1, <1>2, <1>3 DEF TypeOK, Stored, Kid, QueueTypes, MemoryTypes, WriteTypes, BoundTypes, LaunchTypes

\* Every variable of the supervisor and of the ownership of the runtime has its
\* type and keeps to the bounds, and an operation that is under way is the first
\* of its queue (process/supervisor.ts, runtime/owner.ts).
THEOREM TypesAlways == Spec => []TypeOK
<1>1. TypesInv /\ [Next]_vars => TypesInv'
  BY TypesNext
<1> QED BY <1>1, InitTypes, InvImpliesTypeOK, PTL DEF Spec
-----------------------------------------------------------------------------
(* A kill holds: what is still to come when a deployment is killed *)

Lives(p, s) == \E c \in DOMAIN children : Live(c) /\ By(c) = p /\ Of(c) = s

\* A stop, or the stop of a restart, that has not come to its turn.
StopWaits(p, s) ==
  \E i \in DOMAIN queue[p][s] : queue[p][s][i].kind # "start" /\ (i > 1 \/ at[p][s] = "idle")

\* It was killed for good, or what it was made from.
Sentenced(p, s) == s \in tomb[p] \cap Deployments \/ SourcePrevented(p, s)

\* A child that lives, or is about to, has a stop to come.
Doomed(p, s) ==
  Sentenced(p, s) /\ (Lives(p, s) \/ at[p][s] = "spawning") => StopWaits(p, s)

\* A process that recovers has killed nothing.
Entombed(p) ==
  tomb[p] # {} => Up(p) /\ own[p].status \notin {"acquiring", "recovering"}

\* A private process is killed with what it was made from ...
Together(p) == \A x \in source[p] : SourceOf[x] \in tomb[p] => x \in tomb[p]

\* ... as long as it is known of all that live or may begin to ...
Associated(p, s) ==
  (s \in Private /\ (Lives(p, s) \/ at[p][s] \in {"checking", "preparing", "spawning"})) => s \in source[p]

\* ... and it is, until it has been stopped.
StoppedFirst(p, s) == at[p][s] \in {"terminating", "persisting", "releasing"} => ~Lives(p, s)

KillAt(p) ==
  /\ Entombed(p) /\ Together(p)
  /\ own[p].run # "dead" => \A s \in Subjects : Associated(p, s) /\ StoppedFirst(p, s)
  /\ own[p].status = "ready" => \A s \in Subjects : Doomed(p, s)

KillsInv == TypesInv /\ \A p \in Procs : KillAt(p)

\* The stop moves up with the queue, and others come after it.
LEMMA FinishWaits ==
  ASSUME QueueTypes, NEW p \in Procs, NEW s \in Subjects, StopWaits(p, s), queue[p][s] # <<>>,
         at[p][s] # "idle" \/ Op(p, s).kind = "start",
         queue'[p][s] = Tail(queue[p][s]), at'[p][s] = "idle"
  PROVE  StopWaits(p, s)'
<1>1. PICK u \in Seq(Operations) : u = queue[p][s]
  BY DEF QueueTypes
<1>2. PICK i \in DOMAIN u : u[i].kind # "start" /\ (i > 1 \/ at[p][s] = "idle")
  BY <1>1 DEF StopWaits
<1>3. Len(u) \in Nat /\ DOMAIN u = 1..Len(u)
  BY LenProperties
<1>4. Head(u) = u[1]
  BY <1>1, HeadTailProperties
<1>5. i > 1
  BY <1>1, <1>2, <1>3, <1>4 DEF Op
<1>6. /\ Tail(u) \in Seq(Operations) /\ Len(Tail(u)) = Len(u) - 1
      /\ \A j \in 1..Len(Tail(u)) : Tail(u)[j] = u[j + 1]
  BY <1>1, HeadTailProperties
<1>7. DOMAIN Tail(u) = 1..Len(Tail(u))
  BY <1>6, LenProperties
<1>8. PICK j \in Nat : j = i - 1
  BY <1>3, <1>5
<1>9. j \in DOMAIN Tail(u) /\ Tail(u)[j] = u[i]
  BY <1>3, <1>5, <1>6, <1>7, <1>8
<1> QED BY <1>1, <1>2, <1>9 DEF StopWaits

LEMMA AppendWaits ==
  ASSUME QueueTypes, NEW p \in Procs, NEW s \in Subjects, NEW op \in Operations,
         queue'[p][s] = Append(queue[p][s], op), at'[p][s] = at[p][s]
  PROVE  /\ StopWaits(p, s) => StopWaits(p, s)'
         /\ op.kind # "start" => StopWaits(p, s)'
<1>1. PICK u \in Seq(Operations) : u = queue[p][s]
  BY DEF QueueTypes
<1>2. Len(u) \in Nat /\ DOMAIN u = 1..Len(u)
  BY LenProperties
<1>3. PICK w \in Seq(Operations) : w = Append(u, op)
  BY AppendProperties
<1>4. Len(w) = Len(u) + 1 /\ w[Len(u) + 1] = op /\ \A i \in 1..Len(u) : w[i] = u[i]
  BY <1>3, AppendProperties
<1>5. DOMAIN w = 1..Len(w)
  BY LenProperties
<1>6. queue'[p][s] = w
  BY <1>1, <1>3
<1>7. ASSUME StopWaits(p, s)
      PROVE  StopWaits(p, s)'
  <2>1. PICK i \in DOMAIN u : u[i].kind # "start" /\ (i > 1 \/ at[p][s] = "idle")
    BY <1>1, <1>7 DEF StopWaits
  <2>2. i \in DOMAIN w /\ w[i] = u[i]
    BY <1>2, <1>4, <1>5, <2>1
  <2> QED BY <1>6, <2>1, <2>2 DEF StopWaits
<1>8. ASSUME op.kind # "start"
      PROVE  StopWaits(p, s)'
  <2>1. PICK i : i = Len(u) + 1
    OBVIOUS
  <2>2. i \in DOMAIN w /\ w[i] = op
    BY <1>2, <1>4, <1>5, <2>1
  <2>3. i > 1 \/ at[p][s] = "idle"
    <3>1. CASE u = <<>>
      BY <1>1, <3>1 DEF QueueTypes
    <3>2. CASE u # <<>>
      <4>1. Len(u) # 0
        BY <3>2, EmptySeq
      <4> QED BY <1>2, <2>1, <4>1
    <3> QED BY <3>1, <3>2
  <2> QED BY <1>6, <1>8, <2>2, <2>3 DEF StopWaits
<1> QED BY <1>7, <1>8

\* A step that concerns one process, and starts nothing in the others.
LEMMA OneProcess ==
  ASSUME KillsInv, TypesInv', NEW p \in Procs, KillAt(p)',
         \A q \in Procs \ {p} : /\ queue'[q] = queue[q] /\ at'[q] = at[q] /\ tomb'[q] = tomb[q]
                                /\ source'[q] = source[q] /\ own'[q] = own[q],
         \A q \in Procs \ {p}, s \in Subjects : Lives(q, s)' => Lives(q, s)
  PROVE  KillsInv'
<1>1. ASSUME NEW q \in Procs, q # p
      PROVE  KillAt(q)'
  <2>1. KillAt(q)
    BY DEF KillsInv
  <2>2. \A s \in Subjects : /\ Sentenced(q, s)' <=> Sentenced(q, s)
                            /\ StopWaits(q, s)' <=> StopWaits(q, s)
                            /\ Lives(q, s)' => Lives(q, s)
    BY <1>1 DEF Sentenced, SourcePrevented, StopWaits
  <2>3. Entombed(q)' /\ Together(q)'
    BY <1>1, <2>1 DEF KillAt, Entombed, Together, Up
  <2>4. \A s \in Subjects : (Associated(q, s) => Associated(q, s)') /\ (StoppedFirst(q, s) => StoppedFirst(q, s)')
    BY <1>1, <2>2 DEF Associated, StoppedFirst
  <2>5. \A s \in Subjects : Doomed(q, s) => Doomed(q, s)'
    BY <1>1, <2>2 DEF Doomed
  <2> QED BY <1>1, <2>1, <2>3, <2>4, <2>5 DEF KillAt
<1> QED BY <1>1 DEF KillsInv

LEMMA LivesLess ==
  ASSUME DOMAIN children' = DOMAIN children,
         \A c \in DOMAIN children : Of(c)' = Of(c) /\ By(c)' = By(c) /\ (Live(c)' => Live(c))
  PROVE  \A q \in Procs, s \in Subjects : Lives(q, s)' => Lives(q, s)
BY DEF Lives

LEMMA SameLives ==
  ASSUME UNCHANGED children
  PROVE  \A q \in Procs, s \in Subjects : Lives(q, s)' <=> Lives(q, s)
BY DEF Lives, Live, Alive, Of, By

\* A step of an operation: it may drop or note an association, and launch.
LEMMA OneSubject ==
  ASSUME KillsInv, TypesInv', NEW p \in Procs, NEW s \in Subjects, UNCHANGED <<own, tomb>>,
         \A q \in Procs \ {p} : queue'[q] = queue[q] /\ at'[q] = at[q] /\ source'[q] = source[q],
         \A x \in Subjects \ {s} : queue'[p][x] = queue[p][x] /\ at'[p][x] = at[p][x],
         \A q \in Procs, x \in Subjects : ~(q = p /\ x = s) => (Lives(q, x)' => Lives(q, x)),
         \/ source'[p] \in {source[p], source[p] \ {s}}
         \/ source'[p] = source[p] \cup ({s} \cap Private) /\ ~SourcePrevented(p, s),
         own[p].run # "dead" => Associated(p, s)' /\ StoppedFirst(p, s)',
         own[p].status = "ready" => Doomed(p, s)'
  PROVE  KillsInv'
<1>1. KillAt(p) /\ \A q \in Procs \ {p} : own'[q] = own[q] /\ tomb'[q] = tomb[q]
  BY DEF KillsInv
<1>2. Entombed(p)'
  BY <1>1 DEF KillAt, Entombed, Up
<1>3. Together(p)'
  BY <1>1 DEF KillAt, Together, SourcePrevented
<1>4. ASSUME NEW x \in Subjects, x # s, own[p].run # "dead"
      PROVE  Associated(p, x)' /\ StoppedFirst(p, x)'
  <2>1. Associated(p, x) /\ StoppedFirst(p, x)
    BY <1>1, <1>4 DEF KillAt
  <2>2. (Lives(p, x)' => Lives(p, x)) /\ at'[p][x] = at[p][x]
    BY <1>4
  <2>3. x \in source[p] => x \in source'[p]
    BY <1>4
  <2> QED BY <2>1, <2>2, <2>3 DEF Associated, StoppedFirst
<1>5. ASSUME NEW x \in Subjects, x # s, own[p].status = "ready"
      PROVE  Doomed(p, x)'
  <2>1. Doomed(p, x)
    BY <1>1, <1>5 DEF KillAt
  <2>2. Lives(p, x)' => Lives(p, x)
    BY <1>5
  <2>3. Sentenced(p, x)' <=> Sentenced(p, x)
    BY DEF Sentenced, SourcePrevented
  <2>4. StopWaits(p, x)' <=> StopWaits(p, x)
    BY <1>5 DEF StopWaits
  <2> QED BY <1>5, <2>1, <2>2, <2>3, <2>4 DEF Doomed
<1>6. KillAt(p)'
  BY <1>2, <1>3, <1>4, <1>5 DEF KillAt
<1> QED BY <1>1, <1>6, OneProcess

\* Its operation ends, or goes to a step that does not launch what is sentenced.
LEMMA PassesOn ==
  ASSUME KillsInv, TypesInv', NEW p \in Procs, NEW s \in Subjects, UNCHANGED <<own, tomb, children>>,
         NEW step \in Steps, at' = [at EXCEPT ![p][s] = step], queue[p][s] # <<>>,
         \/ step # "idle" /\ queue' = queue
         \/ step = "idle" /\ queue' = [queue EXCEPT ![p][s] = Tail(@)],
         at[p][s] # "idle" \/ Op(p, s).kind = "start" \/ own[p].status # "ready",
         \/ source' = source
         \/ source' = [source EXCEPT ![p] = @ \ {s}] /\ at[p][s] = "releasing"
         \/ source' = [source EXCEPT ![p] = @ \cup ({s} \cap Private)] /\ ~SourcePrevented(p, s),
         step \in {"checking", "preparing", "spawning"} /\ s \in Private => s \in source'[p],
         step \in {"terminating", "persisting", "releasing"} =>
           at[p][s] \in {"terminating", "persisting", "releasing"},
         step = "spawning" => ~Sentenced(p, s),
         Up(p)
  PROVE  KillsInv'
<1>1. KillAt(p) /\ QueueTypes /\ MemoryTypes /\ own[p].run # "dead"
  BY DEF KillsInv, TypesInv, Up
<1>2. Associated(p, s) /\ StoppedFirst(p, s) /\ (own[p].status = "ready" => Doomed(p, s))
  BY <1>1 DEF KillAt
<1>3. /\ at'[p][s] = step
      /\ \A q \in Procs \ {p} : at'[q] = at[q]
      /\ \A x \in Subjects \ {s} : at'[p][x] = at[p][x]
  BY <1>1 DEF QueueTypes
<1>4. /\ step # "idle" => queue'[p][s] = queue[p][s]
      /\ step = "idle" => queue'[p][s] = Tail(queue[p][s])
      /\ \A q \in Procs \ {p} : queue'[q] = queue[q]
      /\ \A x \in Subjects \ {s} : queue'[p][x] = queue[p][x]
  <2>1. CASE step # "idle"
    BY <2>1
  <2>2. CASE step = "idle"
    <3>1. PICK t : t = Tail(queue[p][s])
      OBVIOUS
    <3>2. queue' = [queue EXCEPT ![p][s] = t]
      BY <2>2, <3>1
    <3> QED BY <1>1, <2>2, <3>1, <3>2 DEF QueueTypes
  <2> QED BY <2>1, <2>2
<1>5. /\ \A q \in Procs \ {p} : source'[q] = source[q]
      /\ \/ source'[p] = source[p]
         \/ source'[p] = source[p] \ {s} /\ at[p][s] = "releasing"
         \/ source'[p] = source[p] \cup ({s} \cap Private) /\ ~SourcePrevented(p, s)
  BY <1>1 DEF MemoryTypes
<1>6. \A q \in Procs, x \in Subjects : Lives(q, x)' <=> Lives(q, x)
  BY SameLives
<1>7. Associated(p, s)'
  <2>1. Lives(p, s) /\ s \in Private => s \in source'[p]
    BY <1>2, <1>5 DEF Associated, StoppedFirst
  <2> QED BY <1>3, <1>6, <2>1 DEF Associated
<1>8. StoppedFirst(p, s)'
  BY <1>2, <1>3, <1>6 DEF StoppedFirst
<1>9. ASSUME own[p].status = "ready"
      PROVE  Doomed(p, s)'
  <2>1. Sentenced(p, s)' <=> Sentenced(p, s)
    BY DEF Sentenced, SourcePrevented
  <2>2. ASSUME StopWaits(p, s)
        PROVE  StopWaits(p, s)'
    <3>1. CASE step = "idle"
      BY <1>1, <1>3, <1>4, <1>9, <2>2, <3>1, FinishWaits
    <3>2. CASE step # "idle"
      <4>1. PICK i \in DOMAIN queue[p][s] : queue[p][s][i].kind # "start" /\ (i > 1 \/ at[p][s] = "idle")
        BY <2>2 DEF StopWaits
      <4>2. i > 1
        <5>1. queue[p][s] \in Seq(Operations)
          BY <1>1 DEF QueueTypes
        <5>2. Head(queue[p][s]) = queue[p][s][1]
          BY <5>1, HeadTailProperties
        <5>3. Len(queue[p][s]) \in Nat /\ DOMAIN queue[p][s] = 1..Len(queue[p][s])
          BY <5>1, LenProperties
        <5> QED BY <1>9, <4>1, <5>2, <5>3 DEF Op
      <4> QED BY <1>4, <3>2, <4>1, <4>2 DEF StopWaits
    <3> QED BY <3>1, <3>2
  <2> QED BY <1>2, <1>3, <1>6, <1>9, <2>1, <2>2 DEF Doomed
<1>10. \A q \in Procs, x \in Subjects : Lives(q, x)' => Lives(q, x)
  BY <1>6
<1>11. \/ source'[p] \in {source[p], source[p] \ {s}}
       \/ source'[p] = source[p] \cup ({s} \cap Private) /\ ~SourcePrevented(p, s)
  BY <1>5
<1> QED BY <1>3, <1>4, <1>5, <1>7, <1>8, <1>9, <1>10, <1>11, OneSubject

\* The steps that neither launch nor stop.
LEMMA PassingKills ==
  ASSUME KillsInv, TypesInv', NEW p \in Procs, NEW s \in Subjects,
         \/ TurnRefused(p, s) \/ Check(p, s) \/ Failed(p, s) \/ Stopped(p, s) \/ Terminated(p, s)
         \/ OperationFails(p, s)
  PROVE  KillsInv'
<1>1. UNCHANGED <<own, tomb, children, source>> /\ Up(p) /\ queue[p][s] # <<>>
  BY DEF TurnRefused, Check, Failed, Stopped, Terminated, OperationFails, CheckFails, PrepareFails, SpawnFails,
     TerminateFails, ReleaseFails, ownerVars, subjectVars, Underway
<1>2. \/ at[p][s] # "idle"
      \/ own[p].status # "ready"
  BY DEF TurnRefused, Check, Failed, Stopped, Terminated, OperationFails, CheckFails, PrepareFails, SpawnFails,
     TerminateFails, ReleaseFails, Underway, CanOperate
<1>3. PICK step \in {"idle", "preparing", "failing", "persisting", "releasing", "waiting"} :
        /\ at' = [at EXCEPT ![p][s] = step]
        /\ \/ step # "idle" /\ queue' = queue
           \/ step = "idle" /\ queue' = [queue EXCEPT ![p][s] = Tail(@)]
        /\ step = "preparing" => at[p][s] = "checking"
        /\ step = "persisting" => at[p][s] = "terminating"
        /\ step = "releasing" => at[p][s] = "persisting"
  <2>1. CASE TurnRefused(p, s) \/ CheckFails(p, s) \/ SpawnFails(p, s) \/ ReleaseFails(p, s)
    <3>1. at' = [at EXCEPT ![p][s] = "idle"] /\ queue' = [queue EXCEPT ![p][s] = Tail(@)]
      BY <2>1, Zenon DEF TurnRefused, CheckFails, SpawnFails, ReleaseFails, Finish, FinishFailed
    <3> QED BY <3>1
  <2>2. CASE Check(p, s) \/ PrepareFails(p, s)
    BY <2>2 DEF Check, PrepareFails, Underway, Goto, Finish
  <2>3. CASE Failed(p, s) \/ Stopped(p, s)
    BY <2>3 DEF Failed, Stopped, Underway, Goto, Finish, FinishFailed
  <2>4. CASE Terminated(p, s) \/ TerminateFails(p, s)
    BY <2>4 DEF Terminated, TerminateFails, Underway, Goto
  <2> QED BY <2>1, <2>2, <2>3, <2>4 DEF OperationFails
<1>4. step = "preparing" /\ s \in Private => s \in source'[p]
  <2>1. KillAt(p) /\ own[p].run # "dead"
    BY <1>1 DEF KillsInv, Up
  <2>2. Associated(p, s)
    BY <2>1 DEF KillAt
  <2> QED BY <1>1, <1>3, <2>2 DEF Associated
<1>5. step \in Steps
  BY DEF Steps
<1> QED BY <1>1, <1>2, <1>3, <1>4, <1>5, PassesOn

\* The last look at the tombstones: what was killed goes no further, and what it
\* was made from was not killed without it.
LEMMA PrepareKills ==
  ASSUME KillsInv, TypesInv', NEW p \in Procs, NEW s \in Subjects, Prepare(p, s)
  PROVE  KillsInv'
<1>1. UNCHANGED <<own, tomb, children, source>> /\ Up(p) /\ queue[p][s] # <<>> /\ at[p][s] = "preparing"
  BY DEF Prepare, ownerVars, subjectVars, Underway
<1>2. PICK step \in {"idle", "spawning"} :
        /\ at' = [at EXCEPT ![p][s] = step]
        /\ \/ step # "idle" /\ queue' = queue
           \/ step = "idle" /\ queue' = [queue EXCEPT ![p][s] = Tail(@)]
        /\ step = "spawning" => s \notin tomb[p]
  BY DEF Prepare, Goto, Finish, Prevented
<1>3. KillAt(p) /\ own[p].run # "dead"
  BY <1>1 DEF KillsInv, Up
<1>4. s \in Private => s \in source[p]
  BY <1>1, <1>3 DEF KillAt, Associated
<1>5. step = "spawning" => ~Sentenced(p, s)
  BY <1>2, <1>3, <1>4 DEF KillAt, Together, Sentenced, SourcePrevented
<1>6. step \in Steps
  BY DEF Steps
<1> QED BY <1>1, <1>2, <1>4, <1>5, <1>6, PassesOn

\* A start, or the start of a restart, begins.
LEMMA EnterKills ==
  ASSUME KillsInv, TypesInv', NEW p \in Procs, NEW s \in Subjects, Up(p), queue[p][s] # <<>>,
         UNCHANGED <<own, tomb, children>>,
         \/ EnterLaunch(p, s) /\ (at[p][s] # "idle" \/ Op(p, s).kind = "start")
         \/ FinishFailed(p, s) /\ source' = source /\ at[p][s] = "waiting"
         \/ /\ source' = [source EXCEPT ![p] = @ \ {s}] /\ at[p][s] = "releasing"
            /\ Goto(p, s, "waiting") \/ Finish(p, s)
  PROVE  KillsInv'
<1>1. MemoryTypes
  BY DEF KillsInv, TypesInv
<1>2. CASE EnterLaunch(p, s) /\ (at[p][s] # "idle" \/ Op(p, s).kind = "start")
  <2>1. PICK step \in {"idle", "checking"} :
          /\ at' = [at EXCEPT ![p][s] = step]
          /\ \/ step # "idle" /\ queue' = queue
             \/ step = "idle" /\ queue' = [queue EXCEPT ![p][s] = Tail(@)]
          /\ step = "checking" => ~SourcePrevented(p, s)
    BY <1>2 DEF EnterLaunch, Launchable, Goto, Finish
  <2>2. \/ source' = source /\ SourcePrevented(p, s)
        \/ source' = [source EXCEPT ![p] = @ \cup ({s} \cap Private)] /\ ~SourcePrevented(p, s)
    BY <1>2 DEF EnterLaunch, Remember
  <2>3. step = "checking" /\ s \in Private => s \in source'[p]
    BY <1>1, <2>1, <2>2 DEF MemoryTypes
  <2>4. step \in Steps
    BY DEF Steps
  <2> QED BY <1>2, <2>1, <2>2, <2>3, <2>4, PassesOn
<1>3. CASE FinishFailed(p, s) /\ source' = source /\ at[p][s] = "waiting"
  <2>1. at' = [at EXCEPT ![p][s] = "idle"] /\ queue' = [queue EXCEPT ![p][s] = Tail(@)] /\ "idle" \in Steps
    BY <1>3, Zenon DEF FinishFailed, Steps
  <2> QED BY <1>3, <2>1, PassesOn
<1>4. CASE /\ source' = [source EXCEPT ![p] = @ \ {s}] /\ at[p][s] = "releasing"
           /\ Goto(p, s, "waiting") \/ Finish(p, s)
  <2>1. PICK step \in {"idle", "waiting"} :
          /\ at' = [at EXCEPT ![p][s] = step]
          /\ \/ step # "idle" /\ queue' = queue
             \/ step = "idle" /\ queue' = [queue EXCEPT ![p][s] = Tail(@)]
    BY <1>4 DEF Goto, Finish
  <2>2. step \in Steps
    BY DEF Steps
  <2> QED BY <1>4, <2>1, <2>2, PassesOn
<1> QED BY <1>2, <1>3, <1>4

LEMMA BeginningKills ==
  ASSUME KillsInv, TypesInv', NEW p \in Procs, NEW s \in Subjects,
         BeginStart(p, s) \/ Relaunch(p, s) \/ ReleaseSource(p, s)
  PROVE  KillsInv'
<1>1. UNCHANGED <<own, tomb, children>> /\ Up(p) /\ queue[p][s] # <<>>
  BY DEF BeginStart, Relaunch, ReleaseSource, ownerVars, subjectVars, Underway
<1>2. CASE BeginStart(p, s)
  <2>1. EnterLaunch(p, s) /\ Op(p, s).kind = "start"
    BY <1>2 DEF BeginStart
  <2> QED BY <1>1, <2>1, EnterKills
<1>3. CASE Relaunch(p, s)
  <2>1. at[p][s] = "waiting"
    BY <1>3 DEF Relaunch, Underway
  <2>2. EnterLaunch(p, s) \/ (FinishFailed(p, s) /\ source' = source)
    <3>1. CASE Op(p, s).id \in failed[p]
      BY <1>3, <3>1 DEF Relaunch
    <3>2. CASE Op(p, s).id \notin failed[p]
      BY <1>3, <3>2 DEF Relaunch
    <3> QED BY <3>1, <3>2
  <2> QED BY <1>1, <2>1, <2>2, EnterKills
<1>4. CASE ReleaseSource(p, s)
  <2>1. /\ source' = [source EXCEPT ![p] = @ \ {s}] /\ at[p][s] = "releasing"
        /\ Goto(p, s, "waiting") \/ Finish(p, s)
    BY <1>4 DEF ReleaseSource, Underway
  <2> QED BY <1>1, <2>1, EnterKills
<1> QED BY <1>2, <1>3, <1>4

\* A launch: what is sentenced to stop has the stop to come.
LEMMA SpawnKills ==
  ASSUME KillsInv, TypesInv', NEW p \in Procs, NEW s \in Subjects, Spawn(p, s)
  PROVE  KillsInv'
<1>1. UNCHANGED <<own, tomb, source>> /\ Up(p) /\ queue[p][s] # <<>> /\ at[p][s] = "spawning"
  BY DEF Spawn, ownerVars, Underway
<1>2. KillAt(p) /\ QueueTypes /\ own[p].run # "dead" /\ Stored /\ Stored'
  BY <1>1 DEF KillsInv, TypesInv, KidsInv, Up
<1>3. /\ at'[p][s] = "idle" /\ queue'[p][s] = Tail(queue[p][s])
      /\ \A q \in Procs \ {p} : queue'[q] = queue[q] /\ at'[q] = at[q]
      /\ \A x \in Subjects \ {s} : queue'[p][x] = queue[p][x] /\ at'[p][x] = at[p][x]
  <2>1. PICK t : t = Tail(queue[p][s])
    OBVIOUS
  <2>2. queue' = [queue EXCEPT ![p][s] = t] /\ at' = [at EXCEPT ![p][s] = "idle"]
    BY <2>1 DEF Spawn, Finish
  <2> QED BY <1>2, <2>1, <2>2 DEF QueueTypes
<1>4. ASSUME NEW q \in Procs, NEW x \in Subjects, ~(q = p /\ x = s), Lives(q, x)'
      PROVE  Lives(q, x)
  <2>1. PICK n \in Nat : n = Len(children) /\ DOMAIN children = 1..n
    BY <1>2, LenProperties DEF Stored
  <2>2. PICK k : k = [of |-> s, by |-> p, alive |-> TRUE, killed |-> FALSE, line |-> "none", seen |-> FALSE]
    OBVIOUS
  <2>3. k.of = s /\ k.by = p
    BY <2>2
  <2>4. children' = Append(children, k)
    BY <2>2 DEF Spawn
  <2>5. k \in Kid
    BY <2>2 DEF Kid
  <2>6. /\ Len(children') = n + 1 /\ children'[n + 1] = k
        /\ \A i \in 1..n : children'[i] = children[i]
    BY <1>2, <2>1, <2>4, <2>5, AppendProperties DEF Stored
  <2>7. DOMAIN children' = 1..(n + 1)
    BY <1>2, <2>6, LenProperties DEF Stored
  <2>8. PICK c \in DOMAIN children' : Live(c)' /\ By(c)' = q /\ Of(c)' = x
    BY <1>4 DEF Lives
  <2>9. c # n + 1
    BY <1>4, <2>3, <2>6, <2>8 DEF Of, By
  <2>10. c \in DOMAIN children /\ children'[c] = children[c]
    BY <2>1, <2>6, <2>7, <2>9
  <2> QED BY <2>8, <2>10 DEF Lives, Live, Alive, Of, By
<1>5. Associated(p, s)'
  BY <1>1, <1>2 DEF KillAt, Associated
<1>6. StoppedFirst(p, s)'
  BY <1>3 DEF StoppedFirst
<1>7. ASSUME own[p].status = "ready"
      PROVE  Doomed(p, s)'
  <2>1. Doomed(p, s)
    BY <1>2, <1>7 DEF KillAt
  <2>2. Sentenced(p, s)' <=> Sentenced(p, s)
    BY <1>1 DEF Sentenced, SourcePrevented
  <2>3. StopWaits(p, s) => StopWaits(p, s)'
    BY <1>1, <1>2, <1>3, FinishWaits
  <2> QED BY <1>1, <2>1, <2>2, <2>3 DEF Doomed
<1> QED BY <1>1, <1>3, <1>4, <1>5, <1>6, <1>7, OneSubject

\* A stop leaves no child of its process unkilled: the store has it.
LEMMA StopKills ==
  ASSUME KillsInv, TypesInv', NEW p \in Procs, NEW s \in Subjects, BeginStop(p, s)
  PROVE  KillsInv'
<1>1. UNCHANGED <<own, tomb, source, left>> /\ Up(p) /\ queue' = queue /\ at' = [at EXCEPT ![p][s] = "terminating"]
  BY DEF BeginStop, ownerVars, Underway, Goto
<1>2. KidsInv /\ QueueTypes
  BY DEF KillsInv, TypesInv
<1>3. PICK S : S = IF Alive(entry[p][s].child) THEN {entry[p][s].child} ELSE {c \in {registry[s].child} : Alive(c)}
  OBVIOUS
<1>4. Kill(S)
  BY <1>3 DEF BeginStop
<1>5. /\ Wane /\ DOMAIN children' = DOMAIN children
      /\ \A c \in DOMAIN children : Live(c)' => c \notin S
  BY <1>1, <1>2, <1>4, SameOwners, KillWanes
<1>6. \A q \in Procs, x \in Subjects : Lives(q, x)' => Lives(q, x)
  BY <1>5, LivesLess DEF Wane
<1>7. ~Lives(p, s)'
  <2> SUFFICES ASSUME NEW c \in DOMAIN children, Live(c)', By(c)' = p, Of(c)' = s
               PROVE  FALSE
    BY <1>5 DEF Lives
  <2>1. Live(c) /\ By(c) = p /\ Of(c) = s /\ c \notin S
    BY <1>5 DEF Wane
  <2>2. Held(c)
    BY <1>2 DEF KidsInv
  <2>3. entry[p][s].child = c
    BY <1>1, <2>1, <2>2 DEF Held
  <2> QED BY <1>3, <2>1, <2>3 DEF Live
<1>8. /\ at'[p][s] = "terminating"
      /\ \A q \in Procs \ {p} : at'[q] = at[q]
      /\ \A x \in Subjects \ {s} : at'[p][x] = at[p][x]
  BY <1>1, <1>2 DEF QueueTypes
<1>9. Associated(p, s)' /\ StoppedFirst(p, s)' /\ Doomed(p, s)'
  BY <1>7, <1>8 DEF Associated, StoppedFirst, Doomed
<1> QED BY <1>1, <1>6, <1>8, <1>9, OneSubject

\* What is asked for comes after what was there, and a kill takes along what it
\* was not known of before.
LEMMA AskedKills ==
  ASSUME KillsInv, TypesInv', NEW p \in Procs, NEW s \in Subjects,
         \/ StartProcess(p, s) \/ StopProcess(p, s)
         \/ s \in Deployments /\ (KillProcess(p, s) \/ RestartProcess(p, s))
  PROVE  KillsInv'
<1>1. UNCHANGED <<own, children, at>> /\ Up(p)
  BY DEF StartProcess, StopProcess, KillProcess, RestartProcess, Asks, ownerVars, subjectVars
<1>2. KillAt(p) /\ own[p].run # "dead" /\ QueueTypes /\ BoundTypes /\ MemoryTypes
  BY <1>1 DEF KillsInv, TypesInv, Up
<1>3. PICK G \in SUBSET Subjects : \E ops \in [G -> Operations] :
        /\ Enqueue(p, ops)
        /\ StartProcess(p, s) \/ G = Group(p, s)
        /\ StartProcess(p, s) \/ \A x \in G : ops[x].kind # "start"
  BY <1>2, AskedFor
<1>4. PICK ops \in [G -> Operations] :
        /\ Enqueue(p, ops)
        /\ StartProcess(p, s) \/ G = Group(p, s)
        /\ StartProcess(p, s) \/ \A x \in G : ops[x].kind # "start"
  BY <1>3
<1>5. /\ \A q \in Procs \ {p} : queue'[q] = queue[q]
      /\ \A x \in Subjects \ G : queue'[p][x] = queue[p][x]
      /\ \A x \in G : queue'[p][x] = Append(queue[p][x], ops[x])
  BY <1>2, <1>4, Enqueued
<1>6. ASSUME NEW x \in Subjects
      PROVE  /\ StopWaits(p, x) => StopWaits(p, x)'
             /\ (x \in G /\ ~StartProcess(p, s)) => StopWaits(p, x)'
  <2>1. CASE x \in G
    <3>1. queue'[p][x] = Append(queue[p][x], ops[x]) /\ ops[x] \in Operations /\ at'[p][x] = at[p][x]
      BY <1>1, <1>5, <2>1
    <3>2. ~StartProcess(p, s) => ops[x].kind # "start"
      BY <1>4, <2>1
    <3> QED BY <1>2, <3>1, <3>2, AppendWaits
  <2>2. CASE x \notin G
    BY <1>1, <1>5, <2>2 DEF StopWaits
  <2> QED BY <2>1, <2>2
<1>7. \A q \in Procs, x \in Subjects : Lives(q, x)' <=> Lives(q, x)
  BY <1>1, SameLives
<1>8. /\ \A q \in Procs \ {p} : source'[q] = source[q]
      /\ \/ source'[p] = source[p]
         \/ source'[p] = source[p] \cup ({s} \cap Private) /\ ~SourcePrevented(p, s)
  BY <1>2 DEF StartProcess, StopProcess, KillProcess, RestartProcess, Remember, MemoryTypes
<1>9. \A x \in Subjects : Associated(p, x)' /\ StoppedFirst(p, x)'
  <2> TAKE x \in Subjects
  <2>1. Associated(p, x) /\ StoppedFirst(p, x)
    BY <1>2 DEF KillAt
  <2> QED BY <1>1, <1>7, <1>8, <2>1 DEF Associated, StoppedFirst
<1>10. CASE tomb' = tomb
  <2>1. Entombed(p)' /\ Together(p)'
    BY <1>1, <1>2, <1>8, <1>10 DEF KillAt, Entombed, Together, SourcePrevented, Up
  <2>2. ASSUME own[p].status = "ready", NEW x \in Subjects
        PROVE  Doomed(p, x)'
    <3>1. Doomed(p, x)
      BY <1>2, <2>2 DEF KillAt
    <3>2. Sentenced(p, x)' <=> Sentenced(p, x)
      BY <1>10 DEF Sentenced, SourcePrevented
    <3> QED BY <1>1, <1>6, <1>7, <3>1, <3>2 DEF Doomed
  <2>3. KillAt(p)'
    BY <1>1, <1>9, <2>1, <2>2 DEF KillAt
  <2> QED BY <1>1, <1>5, <1>7, <1>8, <1>10, <2>3, OneProcess
<1>11. CASE s \in Deployments /\ KillProcess(p, s) /\ ~StartProcess(p, s)
  <2>1. own[p].status = "ready"
    BY <1>11 DEF KillProcess, Asks, CanOperate
  <2>2. /\ G = Group(p, s) /\ tomb'[p] = tomb[p] \cup Group(p, s) /\ source'[p] = source[p]
        /\ \A q \in Procs \ {p} : tomb'[q] = tomb[q]
    BY <1>2, <1>4, <1>11 DEF KillProcess, MemoryTypes
  <2>3. \A x \in Private : SourceOf[x] \in Deployments /\ x \notin Deployments
    BY SupervisorConstants
  <2>4. \A x \in Group(p, s) : x = s \/ (x \in Private /\ SourceOf[x] = s)
    BY <1>2 DEF Group, MemoryTypes
  <2>5. Entombed(p)'
    BY <1>1, <2>1 DEF Entombed, Up
  <2>6. Together(p)'
    <3> SUFFICES ASSUME NEW x \in source[p], SourceOf[x] \in tomb[p] \cup Group(p, s)
                 PROVE  x \in tomb[p] \cup Group(p, s)
      BY <2>2 DEF Together
    <3>1. x \in Private
      BY <1>2 DEF MemoryTypes
    <3>2. CASE SourceOf[x] \in tomb[p]
      BY <1>2, <3>2 DEF KillAt, Together
    <3>3. CASE SourceOf[x] \in Group(p, s)
      <4>1. SourceOf[x] = s
        BY <2>3, <2>4, <3>1, <3>3
      <4> QED BY <4>1 DEF Group
    <3> QED BY <3>2, <3>3
  <2>7. ASSUME NEW x \in Subjects
        PROVE  Doomed(p, x)'
    <3>1. Doomed(p, x) /\ Associated(p, x)
      BY <1>2, <2>1 DEF KillAt
    <3>2. CASE x \in G
      BY <1>6, <1>11, <3>2 DEF Doomed
    <3>3. CASE x \notin G /\ (Lives(p, x) \/ at[p][x] = "spawning") /\ Sentenced(p, x)'
      <4>1. Sentenced(p, x)
        <5>1. CASE x \in tomb'[p] \cap Deployments
          BY <2>2, <3>3, <5>1 DEF Sentenced
        <5>2. CASE x \in Private /\ SourceOf[x] \in tomb'[p]
          <6>1. x \in source[p]
            BY <3>1, <3>3, <5>2 DEF Associated
          <6>2. SourceOf[x] # s
            BY <2>2, <3>3, <6>1 DEF Group
          <6>3. SourceOf[x] \in tomb[p]
            BY <2>2, <2>3, <2>4, <5>2, <6>2
          <6> QED BY <5>2, <6>3 DEF Sentenced, SourcePrevented
        <5> QED BY <3>3, <5>1, <5>2 DEF Sentenced, SourcePrevented
      <4> QED BY <1>6, <3>1, <3>3, <4>1 DEF Doomed
    <3>4. CASE x \notin G /\ ~((Lives(p, x) \/ at[p][x] = "spawning") /\ Sentenced(p, x)')
      BY <1>1, <1>7, <3>4 DEF Doomed
    <3> QED BY <3>2, <3>3, <3>4
  <2>8. KillAt(p)'
    BY <1>9, <2>5, <2>6, <2>7 DEF KillAt
  <2> QED BY <1>1, <1>5, <1>7, <1>8, <2>2, <2>8, OneProcess
<1>12. tomb' = tomb \/ (s \in Deployments /\ KillProcess(p, s) /\ ~StartProcess(p, s))
  BY DEF StartProcess, StopProcess, KillProcess, RestartProcess
<1> QED BY <1>10, <1>11, <1>12

LEMMA AllowKills ==
  ASSUME KillsInv, TypesInv', NEW p \in Procs, NEW d \in Deployments, AllowProcessRestart(p, d)
  PROVE  KillsInv'
<1>1. UNCHANGED <<own, children, at, queue, source>>
  BY DEF AllowProcessRestart, ownerVars, subjectVars
<1>2. KillAt(p) /\ MemoryTypes
  BY DEF KillsInv, TypesInv
<1>3. tomb'[p] = tomb[p] \ {d} /\ \A q \in Procs \ {p} : tomb'[q] = tomb[q]
  BY <1>2 DEF AllowProcessRestart, MemoryTypes
<1>4. \A q \in Procs, x \in Subjects : Lives(q, x)' <=> Lives(q, x)
  BY <1>1, SameLives
<1>5. Entombed(p)'
  BY <1>1, <1>2, <1>3 DEF KillAt, Entombed, Up
<1>6. Together(p)'
  <2>1. \A x \in source[p] : x # d
    BY <1>2, SupervisorConstants DEF MemoryTypes
  <2> QED BY <1>1, <1>2, <1>3, <2>1 DEF KillAt, Together
<1>7. ASSUME NEW x \in Subjects
      PROVE  /\ Associated(p, x) => Associated(p, x)'
             /\ StoppedFirst(p, x) => StoppedFirst(p, x)'
             /\ Doomed(p, x) => Doomed(p, x)'
  <2>1. Sentenced(p, x)' => Sentenced(p, x)
    BY <1>3 DEF Sentenced, SourcePrevented
  <2>2. StopWaits(p, x)' <=> StopWaits(p, x)
    BY <1>1 DEF StopWaits
  <2> QED BY <1>1, <1>4, <2>1, <2>2 DEF Associated, StoppedFirst, Doomed
<1>8. KillAt(p)'
  BY <1>1, <1>2, <1>5, <1>6, <1>7 DEF KillAt
<1> QED BY <1>1, <1>3, <1>4, <1>8, OneProcess

\* A start of the recovery comes where nothing waits.
LEMMA RecoverKills ==
  ASSUME KillsInv, TypesInv', NEW p \in Procs, Recover(p)
  PROVE  KillsInv'
<1>1. /\ UNCHANGED <<own, children, tomb, source>>
      /\ \A s \in Subjects : queue[p][s] = <<>>
  BY DEF Recover, Recovering, ownerVars, subjectVars
<1>2. KillAt(p) /\ QueueTypes /\ MemoryTypes
  BY DEF KillsInv, TypesInv
<1>3. \A q \in Procs, x \in Subjects : Lives(q, x)' <=> Lives(q, x)
  BY <1>1, SameLives
<1>4. \A s \in Subjects : ~StopWaits(p, s) /\ at[p][s] = "idle"
  BY <1>1, <1>2 DEF StopWaits, QueueTypes
<1>5. PICK d \in Deployments :
        \/ UNCHANGED <<queue, at>>
        \/ /\ at' = [at EXCEPT ![p][d] = "checking"]
           /\ \A q \in Procs \ {p} : queue'[q] = queue[q]
  <2>1. CASE UNCHANGED <<queue, at>>
    <3>1. \E d \in todo[p] : TRUE
      BY DEF Recover
    <3>2. \E d \in Deployments : TRUE
      BY <1>2, <3>1 DEF MemoryTypes
    <3> QED BY <2>1, <3>2
  <2>2. ASSUME NEW d \in Deployments, NEW ops \in [{d} -> Operations],
               Enqueue(p, ops), at' = [at EXCEPT ![p][d] = "checking"]
        PROVE  \A q \in Procs \ {p} : queue'[q] = queue[q]
    <3>1. {d} \in SUBSET Subjects
      BY DEF Subjects
    <3> QED BY <1>2, <2>2, <3>1, Enqueued
  <2> QED BY <1>2, <2>1, <2>2, RecoverEnqueues
<1>6. /\ \A q \in Procs \ {p} : queue'[q] = queue[q] /\ at'[q] = at[q]
      /\ \A x \in Subjects : at'[p][x] = at[p][x] \/ (x = d /\ at'[p][x] = "checking")
  BY <1>2, <1>5 DEF QueueTypes
<1>7. d \notin Private
  BY SupervisorConstants
<1>8. ASSUME NEW x \in Subjects
      PROVE  /\ Associated(p, x) => Associated(p, x)'
             /\ StoppedFirst(p, x) => StoppedFirst(p, x)'
             /\ Doomed(p, x) => Doomed(p, x)'
  <2>1. Sentenced(p, x)' <=> Sentenced(p, x)
    BY <1>1 DEF Sentenced, SourcePrevented
  <2> QED BY <1>1, <1>3, <1>4, <1>6, <1>7, <2>1 DEF Associated, StoppedFirst, Doomed
<1>9. Entombed(p)' /\ Together(p)'
  BY <1>1, <1>2 DEF KillAt, Entombed, Together, Up
<1>10. KillAt(p)'
  BY <1>1, <1>2, <1>8, <1>9 DEF KillAt
<1> QED BY <1>1, <1>3, <1>6, <1>10, OneProcess

\* What an owner does for itself: it becomes ready after it has recovered, and
\* recovers only as it begins.
Carries(p) ==
  /\ own'[p].run = "up" /\ own[p].run # "dead"
  /\ own'[p].status = "ready" => own[p].status \in {"ready", "recovering"}
  /\ own'[p].status \in {"acquiring", "recovering"} => own[p].status \in {"acquiring", "recovering"} \/ ~Up(p)
  /\ \A q \in Procs \ {p} : own'[q] = own[q]

LEMMA CarriesOn ==
  ASSUME KillsInv, TypesInv', NEW p \in Procs, Carries(p), UNCHANGED <<queue, at, tomb, source>>,
         \A q \in Procs, s \in Subjects : Lives(q, s)' => Lives(q, s)
  PROVE  KillsInv'
<1>1. KillAt(p)
  BY DEF KillsInv
<1>2. own'[p].run = "up" /\ own[p].run # "dead" /\ \A q \in Procs \ {p} : own'[q] = own[q]
  BY DEF Carries
<1>3. Entombed(p)' /\ Together(p)'
  BY <1>1 DEF KillAt, Entombed, Together, Carries, Up
<1>4. \A s \in Subjects : Associated(p, s)' /\ StoppedFirst(p, s)'
  BY <1>1, <1>2 DEF KillAt, Associated, StoppedFirst
<1>5. ASSUME own'[p].status = "ready", NEW s \in Subjects
      PROVE  Doomed(p, s)'
  <2>1. Sentenced(p, s)' <=> Sentenced(p, s)
    BY DEF Sentenced, SourcePrevented
  <2>2. StopWaits(p, s)' <=> StopWaits(p, s)
    BY DEF StopWaits
  <2>3. CASE own[p].status = "ready"
    BY <1>1, <2>1, <2>2, <2>3 DEF KillAt, Doomed
  <2>4. CASE own[p].status = "recovering"
    <3>1. tomb[p] = {}
      BY <1>1, <2>4 DEF KillAt, Entombed
    <3> QED BY <2>1, <3>1 DEF Sentenced, SourcePrevented, Doomed
  <2> QED BY <1>5, <2>3, <2>4 DEF Carries
<1>6. KillAt(p)'
  BY <1>3, <1>4, <1>5 DEF KillAt
<1> QED BY <1>2, <1>6, OneProcess

LEMMA BecomesCarried ==
  ASSUME OwnerInv, NEW p \in Procs, NEW o \in Owner, Become(p, o), o.run = "up", own[p].run # "dead",
         o.status = "ready" => own[p].status \in {"ready", "recovering"},
         o.status \in {"acquiring", "recovering"} => own[p].status \in {"acquiring", "recovering"} \/ ~Up(p)
  PROVE  Carries(p)
<1>1. own'[p] = o /\ \A q \in Procs \ {p} : own'[q] = own[q]
  BY BecomeDef DEF OwnerInv, OwnerTypeOK
<1> QED BY <1>1 DEF Carries

LEMMA EndsCarried ==
  ASSUME OwnerInv, NEW p \in Procs, Up(p),
         NEW e \in {Shutting(own[p]), Losing(own[p]), Failing(own[p])}, Become(p, e)
  PROVE  Carries(p)
<1>1. own[p] \in Owner /\ own[p].run = "up"
  BY DEF OwnerInv, OwnerTypeOK, Up
<1>2. /\ own[p].status \in {"acquiring", "recovering", "ready"} => own[p].shut = "no"
      /\ own[p].clean => own[p].shut \in {"releasing", "done"}
  BY DEF OwnerInv, Onward
<1>3. e \in Owner
  BY <1>1, ShuttingType, EndingType
<1>4. e.run = "up" /\ e.status \notin {"acquiring", "recovering", "ready"}
  BY <1>1, <1>2, EndingEnds
<1> QED BY <1>1, <1>3, <1>4, BecomesCarried

LEMMA OwnerCarries ==
  ASSUME OwnerInv, NEW p \in Procs,
         \/ Connect(p) \/ TryLock(p) \/ ReadMarker(p) \/ QueryFails(p) \/ Notice(p) \/ Signal(p)
         \/ BecomeReady(p) \/ RecoveryFails(p) \/ WriteMarker(p) \/ SessionBreaks(p)
         \/ /\ Up(p) /\ own[p].shut \in {"stopping", "sweeping"}
            /\ StopEnds(p, TRUE) \/ StopEnds(p, FALSE)
         \/ Drain(p, Pending(p)) \/ Release(p)
  PROVE  Carries(p)
<1>1. Up(p)
  BY OwnerMoves, OwnerRises
<1>2. CASE \E e \in {Shutting(own[p]), Losing(own[p]), Failing(own[p])} : Become(p, e)
  BY <1>1, <1>2, EndsCarried
<1>3. CASE \E o \in Owner : (Goes(p, o) \/ Rises(p, o)) /\ Become(p, o)
  BY <1>1, <1>3, BecomesCarried DEF Goes, Rises, Up
<1> QED BY <1>2, <1>3, OwnerMoves, OwnerRises

LEMMA KillLives ==
  ASSUME KidsInv, NEW S, Kill(S)
  PROVE  \A q \in Procs, s \in Subjects : Lives(q, s)' => Lives(q, s)
<1>1. Stored
  BY DEF KidsInv
<1>2. ASSUME NEW c \in DOMAIN children
      PROVE  Of(c)' = Of(c) /\ By(c)' = By(c) /\ (Live(c)' => Live(c))
  <2>1. children[c] \in Kid
    BY <1>1, <1>2, KidType
  <2>2. CASE c \in S
    <3>1. children'[c] = [children[c] EXCEPT !.killed = TRUE]
      BY <1>2, <2>2 DEF Kill
    <3> QED BY <2>1, <3>1 DEF Kid, Of, By, Live, Alive
  <2>3. CASE c \notin S
    <3>1. children'[c] = children[c]
      BY <1>2, <2>3 DEF Kill
    <3> QED BY <3>1 DEF Of, By, Live, Alive
  <2> QED BY <2>2, <2>3
<1>3. DOMAIN children' = DOMAIN children
  BY DEF Kill
<1> QED BY <1>2, <1>3, LivesLess

\* The steps of an owner, with all it does.
LEMMA OwnersKills ==
  ASSUME KillsInv, TypesInv', NEW p \in Procs,
         \/ Boot(p) \/ OwnerStep(p) \/ ReleaseOwner(p) \/ StartRecovery(p) \/ Recovered(p)
         \/ RecoveryGivesUp(p) \/ SessionEnds(p) \/ Sweep(p) \/ EndSweep(p) \/ StopGivesUp(p) \/ DrainOperations(p)
  PROVE  KillsInv'
<1>1. KidsInv /\ OwnerInv /\ own[p] \in Owner
  BY DEF KillsInv, TypesInv, KidsInv, OwnerInv, OwnerTypeOK
<1>2. UNCHANGED <<queue, at, tomb, source>>
  BY DEF Boot, OwnerStep, ReleaseOwner, StartRecovery, Recovered, RecoveryGivesUp, SessionEnds, Sweep,
     EndSweep, StopGivesUp, DrainOperations, memoryVars
<1>3. \A q \in Procs, s \in Subjects : Lives(q, s)' => Lives(q, s)
  <2>1. CASE Sweep(p)
    <3>1. \E S : Kill(S)
      BY <2>1 DEF Sweep
    <3> QED BY <1>1, <3>1, KillLives
  <2>2. CASE ~Sweep(p)
    <3>1. UNCHANGED children
      BY <2>2 DEF Boot, OwnerStep, ReleaseOwner, StartRecovery, Recovered, RecoveryGivesUp, SessionEnds,
         EndSweep, StopGivesUp, DrainOperations, subjectVars
    <3> QED BY <3>1, SameLives
  <2> QED BY <2>1, <2>2
<1>4. Carries(p)
  <2>1. CASE Boot(p)
    <3>1. PICK a \in {NoProc} \cup {q \in {marker} : Acknowledged(q)} : BootWith(p, a)
      BY <2>1 DEF Boot
    <3>2. a \in Procs \cup {NoProc} /\ own[p].run = "unborn"
      BY <1>1, <3>1 DEF OwnerInv, OwnerTypeOK, BootWith
    <3>3. PICK o : o = [own[p] EXCEPT !.run = "up", !.status = "acquiring", !.acq = "connecting", !.ack = a]
      OBVIOUS
    <3>4. o \in Owner
      BY <1>1, <3>2, <3>3, BirthMoves
    <3>5. o.run = "up" /\ o.status = "acquiring"
      BY <1>1, <3>3 DEF Owner
    <3>6. Become(p, o)
      BY <3>1, <3>3 DEF BootWith
    <3> QED BY <1>1, <3>2, <3>4, <3>5, <3>6, BecomesCarried DEF Up
  <2>2. CASE Sweep(p)
    <3>1. PICK shut \in {"draining", "sweeping"} : Become(p, [own[p] EXCEPT !.shut = shut])
      BY <2>2 DEF Sweep
    <3>2. PICK o : o = [own[p] EXCEPT !.shut = shut]
      OBVIOUS
    <3>3. own[p].run = "up"
      BY <2>2 DEF Sweep, Up
    <3>4. o \in Owner /\ o.run = "up" /\ o.status = own[p].status
      BY <1>1, <3>2, <3>3 DEF Owner
    <3> QED BY <1>1, <3>1, <3>2, <3>3, <3>4, BecomesCarried
  <2>3. CASE ~Boot(p) /\ ~Sweep(p)
    BY <1>1, <2>3, OwnerCarries DEF OwnerStep, ReleaseOwner, StartRecovery, Recovered, RecoveryGivesUp,
       SessionEnds, EndSweep, StopGivesUp, DrainOperations
  <2> QED BY <2>1, <2>2, <2>3
<1> QED BY <1>2, <1>3, <1>4, CarriesOn

\* With its memory goes what it has promised.
LEMMA ProcessEndsKills ==
  ASSUME KillsInv, TypesInv', NEW p \in Procs, ProcessEnds(p)
  PROVE  KillsInv'
<1>1. KidsInv /\ QueueTypes /\ MemoryTypes /\ Stored
  BY DEF KillsInv, TypesInv, KidsInv
<1>2. own'[p].run = "dead"
  BY <1>1, ProcessGone
<1>3. \A q \in Procs \ {p} : own'[q] = own[q]
  <2>1. own \in [Procs -> Owner]
    BY <1>1 DEF KidsInv, OwnerInv, OwnerTypeOK
  <2>2. PICK o : own' = [own EXCEPT ![p] = o]
    BY DEF ProcessEnds, Exit, Become
  <2> QED BY <2>1, <2>2
<1>4. own'[p].status \notin {"ready", "acquiring", "recovering"}
  <2>1. PICK b \in BOOLEAN : b = (own[p].clean /\ own[p].shut = "done")
    OBVIOUS
  <2>2. PICK o : o = [Unborn EXCEPT !.run = "dead", !.shut = "done", !.clean = b]
    OBVIOUS
  <2>3. o.status = "idle"
    BY <2>2 DEF Unborn
  <2>4. Become(p, [Unborn EXCEPT !.run = "dead", !.shut = "done", !.clean = own[p].clean /\ own[p].shut = "done"])
    BY DEF ProcessEnds, Exit
  <2>5. Become(p, o)
    BY <2>1, <2>2, <2>4, Zenon
  <2>6. own'[p] = o
    BY <1>1, <2>5 DEF Become, KidsInv, OwnerInv, OwnerTypeOK
  <2> QED BY <2>3, <2>6
<1>5. /\ tomb'[p] = {} /\ source'[p] = {}
      /\ \A q \in Procs \ {p} : tomb'[q] = tomb[q] /\ source'[q] = source[q]
  BY <1>1 DEF ProcessEnds, MemoryTypes
<1>6. \A q \in Procs \ {p} : queue'[q] = queue[q] /\ at'[q] = at[q]
  <2>1. /\ queue' = [queue EXCEPT ![p] = [s \in Subjects |-> <<>>]]
        /\ at' = [at EXCEPT ![p] = [s \in Subjects |-> "idle"]]
    BY DEF ProcessEnds
  <2> QED BY <1>1, <2>1 DEF QueueTypes
<1>7. ASSUME NEW q \in Procs, q # p, NEW s \in Subjects
      PROVE  Lives(q, s)' => Lives(q, s)
  <2>1. children' = [c \in DOMAIN children |->
                      IF By(c) = p THEN [children[c] EXCEPT !.line = "read", !.seen = TRUE] ELSE children[c]]
    BY DEF ProcessEnds, By
  <2>2. ASSUME NEW c \in DOMAIN children, By(c) = p
        PROVE  By(c)' = p
    <3>1. children'[c] = [children[c] EXCEPT !.line = "read", !.seen = TRUE]
      BY <2>1, <2>2
    <3>2. children[c] \in Kid
      BY <1>1, <2>2, KidType
    <3> QED BY <2>2, <3>1, <3>2 DEF By, Kid
  <2>3. ASSUME NEW c \in DOMAIN children, By(c) # p
        PROVE  children'[c] = children[c]
    BY <2>1, <2>3
  <2>4. DOMAIN children' = DOMAIN children
    BY <2>1
  <2> QED BY <1>7, <2>2, <2>3, <2>4 DEF Lives, Live, Alive, Of, By
<1>8. KillAt(p)'
  BY <1>2, <1>4, <1>5 DEF KillAt, Entombed, Together
<1> QED BY <1>3, <1>5, <1>6, <1>7, <1>8, OneProcess

\* A step that neither an owner nor its operations take.
LEMMA StillKills ==
  ASSUME KillsInv, TypesInv', UNCHANGED <<own, queue, at, tomb, source>>,
         \A q \in Procs, s \in Subjects : Lives(q, s)' => Lives(q, s)
  PROVE  KillsInv'
<1>1. ASSUME NEW p \in Procs
      PROVE  KillAt(p)'
  <2>1. KillAt(p)
    BY DEF KillsInv
  <2>2. Entombed(p)' /\ Together(p)'
    BY <2>1 DEF KillAt, Entombed, Together, Up
  <2>3. ASSUME NEW s \in Subjects
        PROVE  /\ Associated(p, s) => Associated(p, s)'
               /\ StoppedFirst(p, s) => StoppedFirst(p, s)'
               /\ Doomed(p, s) => Doomed(p, s)'
    <3>1. Sentenced(p, s)' <=> Sentenced(p, s)
      BY DEF Sentenced, SourcePrevented
    <3>2. StopWaits(p, s)' <=> StopWaits(p, s)
      BY DEF StopWaits
    <3> QED BY <3>1, <3>2 DEF Associated, StoppedFirst, Doomed
  <2> QED BY <2>1, <2>2, <2>3 DEF KillAt
<1> QED BY <1>1 DEF KillsInv

\* The child that another process has left is none of this one.
LEMMA StopOtherKills ==
  ASSUME KillsInv, TypesInv', NEW p \in Procs, NEW s \in Subjects, StopOther(p, s)
  PROVE  KillsInv'
<1>1. UNCHANGED <<own, queue, at, tomb, source>>
  BY DEF StopOther, ownerVars
<1>2. KidsInv /\ \E S : Kill(S)
  BY DEF StopOther, KillsInv, TypesInv
<1>3. \A q \in Procs, x \in Subjects : Lives(q, x)' => Lives(q, x)
  BY <1>2, KillLives
<1> QED BY <1>1, <1>3, StillKills

\* The child, and what is heard of it.
LEMMA ChildKills ==
  ASSUME KillsInv, TypesInv', NEW c \in DOMAIN children,
         \/ Announces(c) \/ Killed(c) \/ Crashes(c) \/ Listening(c) \/ Exited(c) \/ OperatorEnds(c)
  PROVE  KillsInv'
<1>1. children[c] \in Kid /\ c # 0
  BY KidType DEF KillsInv, TypesInv, KidsInv
<1>2. UNCHANGED <<own, queue, at, tomb, source>>
  BY DEF Announces, Killed, Crashes, Listening, Exited, OperatorEnds, Dies, ownerVars, memoryVars
<1>3. PICK k :
        /\ \E b \in BOOLEAN :
             k \in {[children[c] EXCEPT !.line = "printed"], [children[c] EXCEPT !.line = "read"],
                    [children[c] EXCEPT !.seen = TRUE], [children[c] EXCEPT !.alive = FALSE, !.killed = b]}
        /\ children' = [children EXCEPT ![c] = k]
  <2>1. CASE Announces(c) \/ Listening(c) \/ Exited(c)
    BY <2>1 DEF Announces, Listening, Exited
  <2>2. CASE Killed(c) \/ Crashes(c) \/ OperatorEnds(c)
    <3>1. PICK b \in BOOLEAN : children' = [children EXCEPT ![c].alive = FALSE, ![c].killed = b]
      BY <2>2 DEF Killed, Crashes, OperatorEnds, Dies
    <3>2. children' = [children EXCEPT ![c] = [children[c] EXCEPT !.alive = FALSE, !.killed = b]]
      BY <3>1
    <3> QED BY <3>2
  <2> QED BY <2>1, <2>2
<1>4. /\ k.of = Of(c) /\ k.by = By(c)
      /\ k.alive /\ ~k.killed => children[c].alive /\ ~children[c].killed
  BY <1>1, <1>3 DEF Kid, Of, By
<1>5. /\ DOMAIN children' = DOMAIN children
      /\ children'[c] = k /\ \A e \in DOMAIN children \ {c} : children'[e] = children[e]
  BY <1>3
<1>6. ASSUME NEW e \in DOMAIN children
      PROVE  Of(e)' = Of(e) /\ By(e)' = By(e) /\ (Live(e)' => Live(e))
  <2>1. CASE e = c
    BY <1>1, <1>4, <1>5, <2>1 DEF Of, By, Live, Alive
  <2>2. CASE e # c
    BY <1>5, <1>6, <2>2 DEF Of, By, Live, Alive
  <2> QED BY <2>1, <2>2
<1>7. \A q \in Procs, s \in Subjects : Lives(q, s)' => Lives(q, s)
  BY <1>5, <1>6, LivesLess
<1> QED BY <1>2, <1>7, StillKills

LEMMA KillsNext ==
  ASSUME KillsInv, [Next]_vars
  PROVE  KillsInv'
<1>1. TypesInv'
  BY TypesNext DEF KillsInv
<1>2. ASSUME NEW p \in Procs,
             \/ Boot(p) \/ OwnerStep(p) \/ ReleaseOwner(p) \/ StartRecovery(p) \/ Recover(p) \/ Recovered(p)
             \/ RecoveryGivesUp(p) \/ SessionEnds(p) \/ Sweep(p) \/ EndSweep(p) \/ StopGivesUp(p)
             \/ DrainOperations(p) \/ ProcessEnds(p) \/ RecoverySkips(p)
      PROVE  KillsInv'
  <2>1. CASE RecoverySkips(p)
    <3>1. UNCHANGED <<own, queue, at, tomb, source, children>>
      BY <2>1 DEF RecoverySkips, ownerVars, subjectVars
    <3>2. \A q \in Procs, s \in Subjects : Lives(q, s)' => Lives(q, s)
      BY <3>1, SameLives
    <3> QED BY <1>1, <3>1, <3>2, StillKills
  <2>2. CASE ~RecoverySkips(p)
    BY <1>1, <1>2, <2>2, OwnersKills, RecoverKills, ProcessEndsKills
  <2> QED BY <2>1, <2>2
<1>3. ASSUME NEW p \in Procs, NEW s \in Subjects,
             \/ StartProcess(p, s) \/ StopProcess(p, s)
             \/ Operate(p, s) \/ OperationFails(p, s)
      PROVE  KillsInv'
  BY <1>1, <1>3, AskedKills, PassingKills, PrepareKills, BeginningKills, SpawnKills, StopKills,
     StopOtherKills DEF Operate
<1>4. ASSUME NEW p \in Procs, NEW d \in Deployments,
             RestartProcess(p, d) \/ KillProcess(p, d) \/ AllowProcessRestart(p, d) \/ Persist(p, d)
      PROVE  KillsInv'
  <2>1. CASE Persist(p, d)
    <3>1. UNCHANGED <<own, queue, at, tomb, source, children>>
      BY <2>1 DEF Persist, ownerVars
    <3>2. \A q \in Procs, s \in Subjects : Lives(q, s)' => Lives(q, s)
      BY <3>1, SameLives
    <3> QED BY <1>1, <3>1, <3>2, StillKills
  <2>2. CASE RestartProcess(p, d) \/ KillProcess(p, d) \/ AllowProcessRestart(p, d)
    BY <1>1, <2>2, AskedKills, AllowKills DEF Subjects
  <2> QED BY <1>4, <2>1, <2>2
<1>5. ASSUME NEW c \in DOMAIN children,
             \/ Announces(c) \/ Killed(c) \/ Crashes(c) \/ Listening(c) \/ Exited(c) \/ OperatorEnds(c)
      PROVE  KillsInv'
  BY <1>1, <1>5, ChildKills
<1>6. CASE UNCHANGED vars \/ \E s \in Subjects : LockExpires(s)
  <2>1. UNCHANGED <<own, queue, at, tomb, source, children>>
    BY <1>6 DEF vars, LockExpires, ownerVars, subjectVars, memoryVars
  <2>2. \A q \in Procs, s \in Subjects : Lives(q, s)' => Lives(q, s)
    BY <2>1, SameLives
  <2> QED BY <1>1, <2>1, <2>2, StillKills
<1> QED BY <1>2, <1>3, <1>4, <1>5, <1>6, Zenon DEF Next

LEMMA InitKills == Init => KillsInv
<1> SUFFICES ASSUME Init PROVE KillsInv
  OBVIOUS
<1>1. ASSUME NEW p \in Procs
      PROVE  KillAt(p)
  <2>1. /\ tomb[p] = {} /\ source[p] = {} /\ DOMAIN children = {} /\ own[p].status = "idle"
        /\ \A s \in Subjects : at[p][s] = "idle"
    BY DEF Init, OwnerInit, Unborn, Fresh
  <2> QED BY <2>1 DEF KillAt, Entombed, Together, Associated, StoppedFirst, Lives
<1> QED BY <1>1, InitTypes DEF KillsInv

\* With nothing to come, nothing that was killed is left.
LEMMA KillsAreFinal == KillsInv => KillHolds
<1> SUFFICES ASSUME KillsInv, NEW p \in Procs, own[p].status = "ready", NEW d \in tomb[p] \cap Deployments,
                    \A s \in InvolvedIn(d) : queue[p][s] = <<>>,
                    NEW c \in DOMAIN children, Live(c), By(c) = p, Of(c) \in InvolvedIn(d)
             PROVE  FALSE
  BY DEF KillHolds, By, Of
<1>1. PICK s \in Subjects : s = Of(c)
  BY DEF InvolvedIn, Subjects
<1>2. Sentenced(p, s) /\ queue[p][s] = <<>>
  BY <1>1 DEF InvolvedIn, Sentenced, SourcePrevented
<1>3. Lives(p, s)
  BY <1>1 DEF Lives
<1>4. StopWaits(p, s)
  BY <1>2, <1>3 DEF KillsInv, KillAt, Doomed
<1> QED BY <1>2, <1>4 DEF StopWaits

\* A deployment that was killed for good is not launched again, nor is a session's
\* process made from it, by any operation that was under way or waiting when it
\* was killed: once the queues are empty, nothing of it is left alive
\* (process/supervisor.ts: killProcess, launchProcess).
THEOREM KillAlwaysHolds == Spec => []KillHolds
<1>1. KillsInv /\ [Next]_vars => KillsInv'
  BY KillsNext
<1> QED BY <1>1, InitKills, KillsAreFinal, PTL DEF Spec
-----------------------------------------------------------------------------
(* The table: what is still to be written, and of which child it is true *)

\* What the table says once everything is written.
Final(p, d) == IF writes[p][d] = <<>> THEN db[d] ELSE writes[p][d][Len(writes[p][d])]

\* A process that has not taken over yet has done nothing ...
Untouched(p) ==
  own[p].run = "unborn" \/ own[p].status = "acquiring" =>
    /\ own[p].acq # "recovering" /\ todo[p] = {}
    /\ \A s \in Subjects : entry[p][s].child = 0 /\ queue[p][s] = <<>> /\ writes[p][s] = <<>>
    /\ \A c \in DOMAIN children : By(c) # p

\* ... and the marker stays with the one that has, as long as it may write.
Answers(p) ==
  Up(p) /\ ((\E c \in DOMAIN children : By(c) = p) \/ (\E s \in Subjects : writes[p][s] # <<>>)) =>
    marker = p \/ (own[p].clean /\ own[p].shut = "done")

\* While it recovers, all that is under way are the starts of the recovery.
Restoring(p) ==
  /\ own[p].status = "ready" => own[p].acq # "recovering" /\ todo[p] = {}
  /\ own[p].status = "recovering" =>
       \A s \in Subjects : /\ at[p][s] \in {"idle", "checking", "preparing", "spawning", "failing"}
                           /\ at[p][s] \in {"checking", "preparing", "spawning"} => Op(p, s).maintenance

\* The registry file speaks of no other child of p than the store does; one that was
\* killed and is not gone is being stopped, and the file does not take it for running.
Stopping(p, s) ==
  LET c == entry[p][s].child IN
  /\ registry[s].child # 0 /\ By(registry[s].child) = p => registry[s].child = c
  /\ c # 0 /\ children[c].alive /\ children[c].killed =>
       /\ entry[p][s].stopping
       /\ registry[s].child = c /\ at[p][s] # "terminating" =>
            registry[s].status \notin {"running", "provisioning"}

\* A child that lives is what the table will speak of ...
ToldOf(p, d) ==
  \A c \in DOMAIN children : Live(c) /\ By(c) = p /\ Of(c) = d =>
    Final(p, d) = IF children[c].line = "read" THEN "running" ELSE "provisioning"

\* ... and without one, the table will not say that there is, unless it was passed
\* over, or something is to come: a start of the recovery, the end of a stop, or the
\* exit of the child.
NotTold(p, d) ==
  \/ Lives(p, d)
  \/ Final(p, d) \in {"stopped", "error"}
  \/ d \in untold[p] \/ d \in todo[p]
  \/ own[p].status = "recovering" /\ at[p][d] \in {"checking", "preparing", "spawning"}
  \/ at[p][d] = "terminating"
  \/ HasEntry(p, d)

Told(p, s) == s \in Deployments => ToldOf(p, s) /\ (ItsOwn(s) => NotTold(p, s))

Truthful(p) == Restoring(p) /\ \A s \in Subjects : Stopping(p, s) /\ Told(p, s)

\* What a stop has still to end was launched for its subject.
Second(p) ==
  \A s \in Subjects : second[p][s] # 0 => second[p][s] \in {c \in DOMAIN children : Of(c) = s}

Awake(p) == own[p].status \in {"recovering", "ready"} => Up(p)

StatusInv ==
  /\ KillsInv
  /\ \A p \in Procs : Awake(p) /\ Second(p) /\ Untouched(p) /\ Answers(p) /\ (Operating(p) => Truthful(p))

LEMMA InitStatus == Init => StatusInv
<1> SUFFICES ASSUME Init PROVE StatusInv
  OBVIOUS
<1>1. /\ DOMAIN children = {} /\ \A s \in Subjects : registry[s].child = 0
      /\ \A p \in Procs : /\ own[p] = Unborn /\ todo[p] = {}
                          /\ \A s \in Subjects : /\ entry[p][s].child = 0 /\ second[p][s] = 0
                                                 /\ queue[p][s] = <<>> /\ writes[p][s] = <<>>
  BY DEF Init, OwnerInit, Fresh, NoEntry, NoRegistry
<1> QED BY <1>1, InitKills DEF StatusInv, Awake, Second, Untouched, Answers, Operating, Up, Unborn

\* What an owner does for itself.
OwnSteps(p) ==
  \/ Boot(p) \/ OwnerStep(p) \/ ReleaseOwner(p) \/ StartRecovery(p) \/ Recovered(p)
  \/ RecoveryGivesUp(p) \/ SessionEnds(p) \/ Sweep(p) \/ EndSweep(p) \/ StopGivesUp(p)
  \/ DrainOperations(p) \/ ProcessEnds(p)

\* How it comes to a status it works in.
Arrives(p) ==
  \/ own'[p].status = own[p].status /\ (own'[p].acq = "recovering" => own[p].acq = "recovering")
  \/ Boot(p) /\ own'[p].status = "acquiring" /\ own'[p].acq = "connecting"
  \/ StartRecovery(p) /\ own[p].status = "acquiring" /\ own'[p].status = "recovering"
  \/ Recovered(p) /\ own[p].status = "recovering" /\ own'[p].status = "ready" /\ own'[p].acq = "done"

LEMMA Progress ==
  ASSUME OwnerInv, NEW p \in Procs, OwnSteps(p)
  PROVE  /\ own' \in [Procs -> Owner] /\ \A q \in Procs \ {p} : own'[q] = own[q]
         /\ own'[p].run # "unborn"
         /\ own[p].clean /\ own[p].shut = "done" => own'[p].run = "dead" \/ (own'[p].clean /\ own'[p].shut = "done")
         /\ own'[p].status \in {"acquiring", "recovering", "ready"} => Arrives(p) /\ own'[p].run # "dead"
<1> DEFINE Goal == /\ own' \in [Procs -> Owner] /\ \A q \in Procs \ {p} : own'[q] = own[q]
                   /\ own'[p].run # "unborn"
                   /\ own[p].clean /\ own[p].shut = "done" =>
                        own'[p].run = "dead" \/ (own'[p].clean /\ own'[p].shut = "done")
                   /\ own'[p].status \in {"acquiring", "recovering", "ready"} => Arrives(p) /\ own'[p].run # "dead"
<1> HIDE DEF Goal
<1> SUFFICES Goal
  BY DEF Goal
<1>1. own \in [Procs -> Owner] /\ own[p] \in Owner
  BY DEF OwnerInv, OwnerTypeOK
<1>2. /\ own[p].status \in {"acquiring", "recovering", "ready"} => own[p].shut = "no"
      /\ own[p].clean => own[p].shut \in {"releasing", "done"}
  BY DEF OwnerInv, Onward
<1>3. ASSUME Up(p), NEW e \in {Shutting(own[p]), Losing(own[p]), Failing(own[p])}, Become(p, e)
      PROVE  Goal
  <2>1. e \in Owner
    BY <1>1, <1>3, ShuttingType, EndingType
  <2>2. own' \in [Procs -> Owner] /\ own'[p] = e /\ \A q \in Procs \ {p} : own'[q] = own[q]
    BY <1>1, <1>3, <2>1, BecomeDef
  <2>3. /\ e.run = own[p].run /\ e.clean = own[p].clean /\ (own[p].shut = "done" => e.shut = "done")
        /\ e.status \notin {"acquiring", "recovering", "ready"}
    BY <1>1, <1>2, <1>3, EndingEnds
  <2> QED BY <1>3, <2>2, <2>3 DEF Up, Goal
<1>4. ASSUME NEW o \in Owner, Goes(p, o), Become(p, o)
      PROVE  Goal
  <2>1. own' \in [Procs -> Owner] /\ own'[p] = o /\ \A q \in Procs \ {p} : own'[q] = own[q]
    BY <1>1, <1>4, BecomeDef
  <2> QED BY <1>1, <1>4, <2>1 DEF Goes, Arrives, Owner, Goal
<1>5. ASSUME NEW o \in Owner, Rises(p, o), Become(p, o), StartRecovery(p) \/ Recovered(p)
      PROVE  Goal
  <2>1. own' \in [Procs -> Owner] /\ own'[p] = o /\ \A q \in Procs \ {p} : own'[q] = own[q]
    BY <1>1, <1>5, BecomeDef
  <2>2. StartRecovery(p) => own[p].status = "acquiring" \/ o.status \notin {"acquiring", "recovering", "ready"}
    <3>1. ASSUME StartRecovery(p), own[p].status # "acquiring"
          PROVE  o.status \notin {"acquiring", "recovering", "ready"}
      <4>1. Up(p) /\ Become(p, Failing(own[p]))
        BY <3>1 DEF StartRecovery, WriteMarker, Querying
      <4>2. Failing(own[p]) \in Owner
        BY <1>1, EndingType
      <4>3. own'[p] = Failing(own[p])
        BY <1>1, <4>1, <4>2, BecomeDef
      <4> QED BY <1>1, <1>2, <2>1, <4>3, EndingEnds
    <3> QED BY <3>1
  <2>3. Recovered(p) => own[p].status = "recovering" \/ o.status \notin {"acquiring", "recovering", "ready"}
    <3>1. ASSUME Recovered(p), own[p].status # "recovering"
          PROVE  o.status \notin {"acquiring", "recovering", "ready"}
      <4>1. Up(p) /\ Become(p, Failing(own[p]))
        BY <3>1 DEF Recovered, BecomeReady
      <4>2. Failing(own[p]) \in Owner
        BY <1>1, EndingType
      <4>3. own'[p] = Failing(own[p])
        BY <1>1, <4>1, <4>2, BecomeDef
      <4> QED BY <1>1, <1>2, <2>1, <4>3, EndingEnds
    <3> QED BY <3>1
  <2> QED BY <1>1, <1>5, <2>1, <2>2, <2>3 DEF Rises, Arrives, Owner, Goal
<1>6. CASE Boot(p)
  <2>1. PICK a \in {NoProc} \cup {q \in {marker} : Acknowledged(q)} : BootWith(p, a)
    BY <1>6 DEF Boot
  <2>2. a \in Procs \cup {NoProc} /\ own[p].run = "unborn"
    BY <2>1 DEF OwnerInv, OwnerTypeOK, BootWith
  <2>3. PICK o : o = [own[p] EXCEPT !.run = "up", !.status = "acquiring", !.acq = "connecting", !.ack = a]
    OBVIOUS
  <2>4. o \in Owner
    BY <1>1, <2>2, <2>3, BirthMoves
  <2>5. o.run = "up" /\ o.status = "acquiring" /\ o.acq = "connecting" /\ o.clean = own[p].clean /\ o.shut = own[p].shut
    BY <1>1, <2>3 DEF Owner
  <2>6. Become(p, o)
    BY <2>1, <2>3 DEF BootWith
  <2>7. own' \in [Procs -> Owner] /\ own'[p] = o /\ \A q \in Procs \ {p} : own'[q] = own[q]
    BY <1>1, <2>4, <2>6, BecomeDef
  <2> QED BY <1>6, <2>5, <2>7 DEF Goal, Arrives
<1>7. CASE Sweep(p)
  <2>1. PICK shut \in {"draining", "sweeping"} : Become(p, [own[p] EXCEPT !.shut = shut])
    BY <1>7 DEF Sweep
  <2>2. PICK o : o = [own[p] EXCEPT !.shut = shut]
    OBVIOUS
  <2>3. own[p].run = "up" /\ own[p].shut = "stopping"
    BY <1>7 DEF Sweep, Up
  <2>4. o \in Owner /\ o.run = "up" /\ o.status = own[p].status /\ o.acq = own[p].acq
    BY <1>1, <2>2, <2>3 DEF Owner
  <2>5. own' \in [Procs -> Owner] /\ own'[p] = o /\ \A q \in Procs \ {p} : own'[q] = own[q]
    BY <1>1, <2>1, <2>2, <2>4, BecomeDef
  <2> QED BY <2>3, <2>4, <2>5 DEF Goal, Arrives
<1>8. CASE ProcessEnds(p)
  <2>1. PICK b \in BOOLEAN : b = (own[p].clean /\ own[p].shut = "done")
    OBVIOUS
  <2>2. PICK o : o = [Unborn EXCEPT !.run = "dead", !.shut = "done", !.clean = b]
    OBVIOUS
  <2>3. o.status = "idle" /\ o.run = "dead"
    BY <2>2 DEF Unborn
  <2>4. Become(p, [Unborn EXCEPT !.run = "dead", !.shut = "done", !.clean = own[p].clean /\ own[p].shut = "done"])
    BY <1>8 DEF ProcessEnds, Exit
  <2>5. own' = [own EXCEPT ![p] = o]
    BY <2>1, <2>2, <2>4, Zenon DEF Become
  <2>6. own'[p] = o /\ \A q \in Procs \ {p} : own'[q] = own[q]
    BY <1>1, <2>5
  <2>7. own' \in [Procs -> Owner]
    <3>1. o \in Owner
      <4>1. PICK a : a = [Unborn EXCEPT !.run = "dead"]
        OBVIOUS
      <4>2. a \in Owner
        BY <4>1 DEF Unborn, Owner
      <4>3. o = [a EXCEPT !.shut = "done", !.clean = b]
        BY <2>2, <4>1
      <4> QED BY <4>2, <4>3, DrainMoves
    <3> QED BY <1>1, <2>5, <3>1
  <2> QED BY <2>3, <2>6, <2>7 DEF Goal
<1>9. CASE StartRecovery(p) \/ Recovered(p)
  <2>1. WriteMarker(p) \/ BecomeReady(p)
    BY <1>9 DEF StartRecovery, Recovered
  <2> QED BY <1>3, <1>5, <1>9, <2>1, OwnerRises
<1>10. CASE \/ OwnerStep(p) \/ ReleaseOwner(p) \/ RecoveryGivesUp(p) \/ SessionEnds(p)
            \/ EndSweep(p) \/ StopGivesUp(p) \/ DrainOperations(p)
  <2>1. \/ Connect(p) \/ TryLock(p) \/ ReadMarker(p) \/ QueryFails(p) \/ Notice(p) \/ Signal(p)
        \/ RecoveryFails(p) \/ SessionBreaks(p)
        \/ /\ Up(p) /\ own[p].shut \in {"stopping", "sweeping"}
           /\ StopEnds(p, TRUE) \/ StopEnds(p, FALSE)
        \/ Drain(p, Pending(p)) \/ Release(p)
    BY <1>10 DEF OwnerStep, ReleaseOwner, RecoveryGivesUp, SessionEnds, EndSweep, StopGivesUp, DrainOperations
  <2> QED BY <1>3, <1>4, <2>1, OwnerMoves
<1>11. Goal
  BY <1>6, <1>7, <1>8, <1>9, <1>10 DEF OwnSteps
<1> QED BY <1>11

\* What a process remembers that the table depends on.
SameMemory(q) ==
  /\ entry'[q] = entry[q] /\ queue'[q] = queue[q] /\ at'[q] = at[q]
  /\ writes'[q] = writes[q] /\ todo'[q] = todo[q] /\ untold'[q] = untold[q]

\* What an operation writes, and whom it leaves untold, concerns its subject.
LEMMA OperationTells ==
  ASSUME NEW p \in Procs, NEW s \in Subjects, Operate(p, s) \/ OperationFails(p, s)
  PROVE  /\ writes' = writes \/ \E y : writes' = [writes EXCEPT ![p][s] = y]
         /\ \/ untold' = untold
            \/ untold' = [untold EXCEPT ![p] = untold[p] \ {s}]
            \/ \E S : untold' = [untold EXCEPT ![p] = untold[p] \cup (S \cap Deployments)]
<1> DEFINE Mute == UNCHANGED <<writes, untold>>
           Tells == \E st : Write(p, s, st)
           Leaves == /\ writes' = writes \/ \E st : writes' = Written(p, s, st)
                     /\ \E S : PassOver(p, S)
<1>1. Mute \/ Tells \/ Leaves
  <2>1. CASE TurnRefused(p, s) \/ BeginStart(p, s) \/ Prepare(p, s) \/ BeginStop(p, s) \/ StopOther(p, s)
             \/ Failed(p, s) \/ Stopped(p, s) \/ ReleaseSource(p, s) \/ Relaunch(p, s) \/ ReleaseFails(p, s)
    <3>1. Mute \/ Leaves
      BY <2>1 DEF TurnRefused, BeginStart, Prepare, BeginStop, StopOther, Failed, Stopped, ReleaseSource, Relaunch,
         ReleaseFails, PassOver
    <3> QED BY <3>1
  <2>2. CASE Check(p, s)
    <3>1. \/ Mute \/ Tells
          \/ writes' = Written(p, s, "provisioning") /\ PassOver(p, {s})
      BY <2>2 DEF Check
    <3> QED BY <3>1
  <2>3. CASE Spawn(p, s) \/ Terminated(p, s)
    <3>1. Mute \/ Tells
      BY <2>3 DEF Spawn, Terminated
    <3> QED BY <3>1
  <2>4. CASE CheckFails(p, s) \/ SpawnFails(p, s)
    <3>1. Mute \/ Tells \/ Leaves
      BY <2>4 DEF CheckFails, SpawnFails
    <3> QED BY <3>1
  <2>5. CASE PrepareFails(p, s) \/ TerminateFails(p, s)
    <3>1. Mute \/ Tells
      BY <2>5 DEF PrepareFails, TerminateFails
    <3> QED BY <3>1
  <2> HIDE DEF Mute, Tells, Leaves
  <2> QED BY <2>1, <2>2, <2>3, <2>4, <2>5 DEF Operate, OperationFails
<1>2. CASE Mute
  BY <1>2
<1>3. CASE Tells
  <2>1. PICK st : Write(p, s, st)
    BY <1>3
  <2>2. writes' = writes \/ \E y : writes' = [writes EXCEPT ![p][s] = y]
    BY <2>1 DEF Write, Written
  <2>3. untold' = [untold EXCEPT ![p] = untold[p] \ {s}]
    BY <2>1 DEF Write
  <2> QED BY <2>2, <2>3
<1>4. CASE Leaves
  <2>1. writes' = writes \/ \E y : writes' = [writes EXCEPT ![p][s] = y]
    BY <1>4 DEF Written
  <2>2. \E S : untold' = [untold EXCEPT ![p] = untold[p] \cup (S \cap Deployments)]
    BY <1>4 DEF PassOver
  <2> QED BY <2>1, <2>2
<1> QED BY <1>1, <1>2, <1>3, <1>4

\* A step of a process leaves the memory of the others alone.
LEMMA MemoryApart ==
  ASSUME TypesInv, NEW p \in Procs, NEW q \in Procs, q # p,
         \/ OwnSteps(p) \/ Recover(p) \/ RecoverySkips(p)
         \/ \E s \in Subjects :
              \/ StartProcess(p, s) \/ StopProcess(p, s) \/ RestartProcess(p, s) \/ KillProcess(p, s)
              \/ AllowProcessRestart(p, s) \/ Persist(p, s)
              \/ Operate(p, s) \/ OperationFails(p, s)
  PROVE  SameMemory(q)
<1>1. /\ entry \in [Procs -> [Subjects -> [child : Nat, stopping : BOOLEAN]]]
      /\ queue \in [Procs -> [Subjects -> Seq(Operations)]]
      /\ at \in [Procs -> [Subjects -> Steps]]
      /\ writes \in [Procs -> [Subjects -> Seq(Statuses)]]
      /\ todo \in [Procs -> SUBSET Deployments]
      /\ untold \in [Procs -> SUBSET Deployments]
  BY DEF TypesInv, KidsInv, Stored, QueueTypes, WriteTypes, MemoryTypes, LaunchTypes
<1>2. CASE OwnSteps(p)
  <2>1. CASE Sweep(p)
    BY <1>1, <2>1 DEF Sweep, SameMemory
  <2>2. CASE EndSweep(p)
    BY <1>1, <2>2 DEF EndSweep, SameMemory
  <2>3. CASE ProcessEnds(p)
    BY <1>1, <2>3 DEF ProcessEnds, SameMemory
  <2>4. CASE StartRecovery(p)
    <3>1. PICK x : todo' = todo \/ todo' = [todo EXCEPT ![p] = x]
      BY <2>4, Zenon DEF StartRecovery
    <3>2. UNCHANGED <<entry, queue, at, writes, untold>>
      BY <2>4 DEF StartRecovery
    <3> QED BY <1>1, <3>1, <3>2 DEF SameMemory
  <2>5. CASE ~(Sweep(p) \/ EndSweep(p) \/ ProcessEnds(p) \/ StartRecovery(p))
    BY <1>2, <2>5 DEF OwnSteps, Boot, OwnerStep, ReleaseOwner, Recovered, RecoveryGivesUp, SessionEnds, StopGivesUp,
       DrainOperations, memoryVars, SameMemory
  <2> QED BY <2>1, <2>2, <2>3, <2>4, <2>5
<1>3. CASE Recover(p)
  <2>1. UNCHANGED <<entry, writes, untold>>
    BY <1>3 DEF Recover
  <2>2. PICK d \in todo[p] :
          /\ todo' = [todo EXCEPT ![p] = @ \ {d}]
          /\ \/ UNCHANGED <<queue, at>>
             \/ /\ \E ops : Enqueue(p, ops)
                /\ at' = [at EXCEPT ![p][d] = "checking"]
    BY <1>3, Zenon DEF Recover
  <2>3. UNCHANGED queue \/ \E x : queue' = [queue EXCEPT ![p] = x]
    BY <2>2 DEF Enqueue
  <2> QED BY <1>1, <2>1, <2>2, <2>3 DEF SameMemory
<1>4. ASSUME NEW s \in Subjects,
             StartProcess(p, s) \/ StopProcess(p, s) \/ RestartProcess(p, s) \/ KillProcess(p, s)
      PROVE  SameMemory(q)
  <2>1. UNCHANGED <<entry, at, writes, todo, untold>> /\ \E ops : Enqueue(p, ops)
    BY <1>4 DEF StartProcess, StopProcess, RestartProcess, KillProcess
  <2>2. PICK x : queue' = [queue EXCEPT ![p] = x]
    BY <2>1 DEF Enqueue
  <2> QED BY <1>1, <2>1, <2>2 DEF SameMemory
<1>5. ASSUME NEW s \in Subjects, AllowProcessRestart(p, s)
      PROVE  SameMemory(q)
  BY <1>5 DEF AllowProcessRestart, SameMemory
<1>6. ASSUME NEW s \in Subjects, Persist(p, s)
      PROVE  SameMemory(q)
  <2>1. UNCHANGED <<entry, queue, at, todo, untold>> /\ \E x : writes' = [writes EXCEPT ![p][s] = x]
    BY <1>6 DEF Persist
  <2> QED BY <1>1, <2>1 DEF SameMemory
<1>7. ASSUME NEW s \in Subjects, Operate(p, s) \/ OperationFails(p, s)
      PROVE  SameMemory(q)
  <2>1. Advances(p, s)
    BY <1>7, OperationsAdvance
  <2>2. queue'[q] = queue[q] /\ at'[q] = at[q]
    <3>1. queue' = queue \/ \E x : queue' = [queue EXCEPT ![p][s] = x]
      BY <2>1 DEF Advances
    <3>2. at' = at \/ \E x : at' = [at EXCEPT ![p][s] = x]
      BY <2>1 DEF Advances
    <3> QED BY <1>1, <3>1, <3>2
  <2>3. /\ todo' = todo
        /\ entry' = entry \/ (\E x : entry' = [entry EXCEPT ![p][s] = x])
             \/ (\E x : entry' = [entry EXCEPT ![p][s].stopping = x])
    BY <1>7 DEF Operate, TurnRefused, BeginStart, Check, Prepare, Spawn, BeginStop, StopOther, Terminated,
       Failed, Stopped,
       ReleaseSource, Relaunch, OperationFails, CheckFails, PrepareFails, SpawnFails,
       TerminateFails, ReleaseFails
  <2>4. /\ writes' = writes \/ \E x : writes' = [writes EXCEPT ![p][s] = x]
        /\ untold' = untold \/ \E x : untold' = [untold EXCEPT ![p] = x]
    BY <1>7, OperationTells
  <2> QED BY <1>1, <2>2, <2>3, <2>4 DEF SameMemory
<1>8. CASE RecoverySkips(p)
  <2>1. PICK d \in todo[p] :
          todo' = [todo EXCEPT ![p] = @ \ {d}] /\ untold' = [untold EXCEPT ![p] = @ \cup ({d} \cap Deployments)]
    BY <1>8 DEF RecoverySkips, PassOver
  <2>2. UNCHANGED <<entry, queue, at, writes>>
    BY <1>8 DEF RecoverySkips
  <2> QED BY <1>1, <2>1, <2>2 DEF SameMemory
<1> QED BY <1>2, <1>3, <1>4, <1>5, <1>6, <1>7, <1>8

\* The marker of a process that has written or launched anything is its own.
LEMMA MarkerStays ==
  ASSUME KillsInv, NEW q \in Procs, Up(q), Up(q)', [Next]_vars,
         marker = q \/ (own[q].clean /\ own[q].shut = "done")
  PROVE  marker' = q \/ (own'[q].clean /\ own'[q].shut = "done")
<1> DEFINE Goal == marker' = q \/ (own'[q].clean /\ own'[q].shut = "done")
<1>1. OwnerInv /\ {holder, marker} \subseteq Procs \cup {NoProc} /\ NoProc \notin Procs
  BY ProcsAssumption DEF KillsInv, TypesInv, KidsInv, OwnerInv, OwnerTypeOK
<1>2. ASSUME UNCHANGED <<own, marker>>
      PROVE  Goal
  BY <1>2
<1>3. ASSUME NEW p \in Procs, OwnSteps(p)
      PROVE  Goal
  <2>1. CASE q # p
    <3>1. own'[q] = own[q]
      BY <1>1, <1>3, <2>1, Progress
    <3>2. marker' = marker \/ ReleaseOwner(p) \/ StartRecovery(p)
      BY <1>3 DEF OwnSteps, Boot, BootWith, OwnerStep, Recovered, RecoveryGivesUp, SessionEnds, Sweep, EndSweep,
         StopGivesUp, DrainOperations, ProcessEnds, Connect, TryLock, ReadMarker, QueryFails, Notice, Signal,
         BecomeReady, RecoveryFails, SessionBreaks, StopEnds, Drain, Exit
    <3>3. CASE ReleaseOwner(p)
      BY <2>1, <3>1, <3>3 DEF ReleaseOwner, Release
    <3>4. CASE StartRecovery(p)
      <4>1. MarkedBy(p) /\ Querying(p, "writing")
        BY <1>1, <3>4 DEF OwnerInv, Marked, StartRecovery, WriteMarker
      <4>2. marker # q
        BY <1>1, <4>1 DEF MarkedBy, Up
      <4> QED BY <3>1, <4>2
    <3> QED BY <3>1, <3>2, <3>3, <3>4
  <2>2. CASE q = p
    <3>1. CASE own[q].clean /\ own[q].shut = "done"
      BY <1>1, <1>3, <2>2, <3>1, Progress DEF Up
    <3>2. CASE ReleaseOwner(q) /\ marker' # marker
      <4>1. own[q].clean /\ Up(q)
        BY <3>2 DEF ReleaseOwner, Release
      <4>2. PICK st : Become(q, [own[q] EXCEPT !.shut = "done", !.session = "none", !.status = st])
        BY <3>2 DEF ReleaseOwner, Release
      <4>3. PICK o : o = [own[q] EXCEPT !.shut = "done", !.session = "none", !.status = st]
        OBVIOUS
      <4>4. own[q] \in Owner /\ own'[q] = o
        BY <1>1, <4>2, <4>3 DEF Become, OwnerInv, OwnerTypeOK
      <4>5. o.shut = "done" /\ o.clean = own[q].clean
        BY <4>3, <4>4 DEF Owner
      <4> QED BY <4>1, <4>4, <4>5
    <3>3. CASE marker' = marker
      BY <3>1, <3>3
    <3>4. marker' = marker \/ ReleaseOwner(q) \/ StartRecovery(q)
      BY <1>3, <2>2 DEF OwnSteps, Boot, BootWith, OwnerStep, Recovered, RecoveryGivesUp, SessionEnds, Sweep, EndSweep,
         StopGivesUp, DrainOperations, ProcessEnds, Connect, TryLock, ReadMarker, QueryFails, Notice, Signal,
         BecomeReady, RecoveryFails, SessionBreaks, StopEnds, Drain, Exit
    <3>5. StartRecovery(q) => marker' = q
      BY DEF StartRecovery, WriteMarker
    <3> QED BY <3>1, <3>2, <3>3, <3>4, <3>5
  <2> QED BY <2>1, <2>2
<1> HIDE DEF Goal
<1>4. ASSUME NEW p \in Procs,
             \/ Boot(p) \/ OwnerStep(p) \/ ReleaseOwner(p) \/ StartRecovery(p) \/ Recover(p) \/ Recovered(p)
             \/ RecoveryGivesUp(p) \/ SessionEnds(p) \/ Sweep(p) \/ EndSweep(p) \/ StopGivesUp(p)
             \/ DrainOperations(p) \/ ProcessEnds(p) \/ RecoverySkips(p)
      PROVE  Goal
  <2>1. CASE Recover(p) \/ RecoverySkips(p)
    BY <1>2, <2>1 DEF Recover, RecoverySkips, ownerVars
  <2> QED BY <1>3, <1>4, <2>1 DEF OwnSteps
<1>5. ASSUME NEW p \in Procs, NEW s \in Subjects,
             \/ StartProcess(p, s) \/ StopProcess(p, s)
             \/ Operate(p, s) \/ OperationFails(p, s)
      PROVE  Goal
  BY <1>2, <1>5 DEF StartProcess, StopProcess, Operate, TurnRefused, BeginStart, Check, Prepare, Spawn,
     BeginStop, StopOther,
     Terminated, Failed, Stopped, ReleaseSource, Relaunch, OperationFails, CheckFails, PrepareFails, SpawnFails,
     TerminateFails, ReleaseFails, ownerVars
<1>6. ASSUME NEW p \in Procs, NEW d \in Deployments,
             RestartProcess(p, d) \/ KillProcess(p, d) \/ AllowProcessRestart(p, d) \/ Persist(p, d)
      PROVE  Goal
  BY <1>2, <1>6 DEF RestartProcess, KillProcess, AllowProcessRestart, Persist, ownerVars
<1>7. ASSUME NEW c \in DOMAIN children,
             \/ Announces(c) \/ Killed(c) \/ Crashes(c) \/ Listening(c) \/ Exited(c) \/ OperatorEnds(c)
      PROVE  Goal
  BY <1>2, <1>7 DEF Announces, Killed, Crashes, Dies, Listening, Exited, OperatorEnds, ownerVars
<1>8. ASSUME UNCHANGED vars \/ \E s \in Subjects : LockExpires(s)
      PROVE  Goal
  BY <1>2, <1>8 DEF vars, LockExpires, ownerVars
<1>9. Goal
  BY <1>4, <1>5, <1>6, <1>7, <1>8, Zenon DEF Next
<1> QED BY <1>9 DEF Goal

\* What is heard of a child concerns the memory of the process that launched it.
LEMMA HearsayApart ==
  ASSUME TypesInv, NEW q \in Procs, NEW c \in DOMAIN children, By(c) # q,
         \/ Announces(c) \/ Killed(c) \/ Crashes(c) \/ Listening(c) \/ Exited(c) \/ OperatorEnds(c)
  PROVE  SameMemory(q)
<1>1. writes \in [Procs -> [Subjects -> Seq(Statuses)]] /\ untold \in [Procs -> SUBSET Deployments]
  BY DEF TypesInv, WriteTypes, LaunchTypes
<1>2. UNCHANGED <<entry, queue, at, todo>>
  BY DEF Announces, Killed, Crashes, Dies, Listening, Exited, OperatorEnds, memoryVars
<1>3. \/ UNCHANGED <<writes, untold>>
      \/ \E st : Write(By(c), Of(c), st)
  BY DEF Announces, Killed, Crashes, Dies, Listening, Exited, OperatorEnds, memoryVars, By, Of
<1>4. /\ writes' = writes \/ \E x : writes' = [writes EXCEPT ![By(c)][Of(c)] = x]
      /\ untold' = untold \/ \E x : untold' = [untold EXCEPT ![By(c)] = x]
  BY <1>3 DEF Write, Written
<1> QED BY <1>1, <1>2, <1>4 DEF SameMemory

\* An operation that writes or launches is under way.
LEMMA WritesUnderway ==
  ASSUME NEW p \in Procs, NEW s \in Subjects,
         Operate(p, s) \/ OperationFails(p, s)
  PROVE  /\ Up(p) /\ queue[p][s] # <<>> /\ UNCHANGED own
         /\ (writes' = writes /\ DOMAIN children' = DOMAIN children) \/ at[p][s] # "idle"
<1>1. Up(p) /\ queue[p][s] # <<>> /\ UNCHANGED own
  BY DEF Operate, TurnRefused, BeginStart, Check, Prepare, Spawn, BeginStop, StopOther, Terminated, Failed, Stopped,
         ReleaseSource, Relaunch, OperationFails, CheckFails, PrepareFails, SpawnFails,
         TerminateFails, ReleaseFails, Underway, ownerVars
<1>2. CASE TurnRefused(p, s) \/ BeginStart(p, s) \/ BeginStop(p, s)
  BY <1>1, <1>2 DEF TurnRefused, BeginStart, BeginStop, Kill, subjectVars
<1>3. CASE ~(TurnRefused(p, s) \/ BeginStart(p, s) \/ BeginStop(p, s))
  BY <1>1, <1>3 DEF Operate, Check, Prepare, Spawn, StopOther, Terminated, Failed, Stopped,
     ReleaseSource, Relaunch, OperationFails, CheckFails, PrepareFails, SpawnFails,
     TerminateFails, ReleaseFails, Underway
<1> QED BY <1>2, <1>3

\* The steps of one process, and what becomes of its children.
AskSteps(p, s) ==
  \/ StartProcess(p, s) \/ StopProcess(p, s)
  \/ s \in Deployments /\ (RestartProcess(p, s) \/ KillProcess(p, s))
OperationSteps(p, s) == Operate(p, s) \/ OperationFails(p, s)
ChildSteps(c) == Announces(c) \/ Killed(c) \/ Crashes(c) \/ Listening(c) \/ Exited(c) \/ OperatorEnds(c)

StepOf(q) ==
  \/ OwnSteps(q) \/ Recover(q) \/ RecoverySkips(q)
  \/ \E s \in Subjects : AskSteps(q, s) \/ OperationSteps(q, s)
  \/ \E d \in Deployments : AllowProcessRestart(q, d) \/ Persist(q, d)
  \/ \E c \in DOMAIN children : By(c) = q /\ ChildSteps(c)

\* Whatever step there is is that of a process, or of time.
LEMMA StepsOf ==
  ASSUME KidsInv, Next
  PROVE  (\E p \in Procs : StepOf(p)) \/ (\E s \in Subjects : LockExpires(s))
<1>1. ASSUME NEW p \in Procs,
             \/ Boot(p) \/ OwnerStep(p) \/ ReleaseOwner(p) \/ StartRecovery(p) \/ Recover(p) \/ Recovered(p)
             \/ RecoveryGivesUp(p) \/ SessionEnds(p) \/ Sweep(p) \/ EndSweep(p) \/ StopGivesUp(p)
             \/ DrainOperations(p) \/ ProcessEnds(p) \/ RecoverySkips(p)
      PROVE  StepOf(p)
  BY <1>1 DEF StepOf, OwnSteps
<1>2. ASSUME NEW p \in Procs, NEW s \in Subjects,
             \/ StartProcess(p, s) \/ StopProcess(p, s)
             \/ Operate(p, s) \/ OperationFails(p, s)
      PROVE  StepOf(p)
  BY <1>2 DEF StepOf, AskSteps, OperationSteps
<1>3. ASSUME NEW p \in Procs, NEW d \in Deployments,
             RestartProcess(p, d) \/ KillProcess(p, d) \/ AllowProcessRestart(p, d) \/ Persist(p, d)
      PROVE  StepOf(p)
  <2>1. d \in Subjects
    BY DEF Subjects
  <2> QED BY <1>3, <2>1 DEF StepOf, AskSteps
<1>4. ASSUME NEW c \in DOMAIN children,
             \/ Announces(c) \/ Killed(c) \/ Crashes(c) \/ Listening(c) \/ Exited(c) \/ OperatorEnds(c)
      PROVE  StepOf(By(c)) /\ By(c) \in Procs
  <2>1. By(c) \in Procs
    BY KidType DEF KidsInv
  <2> QED BY <1>4, <2>1 DEF StepOf, ChildSteps
<1> QED BY <1>1, <1>2, <1>3, <1>4, Zenon DEF Next

\* It leaves the others alone.
LEMMA Apart ==
  ASSUME TypesInv, NEW p \in Procs, NEW q \in Procs, q # p, StepOf(p)
  PROVE  SameMemory(q) /\ own'[q] = own[q]
<1>1. CASE OwnSteps(p)
  <2>1. OwnerInv
    BY DEF TypesInv, KidsInv
  <2> QED BY <1>1, <2>1, Progress, MemoryApart
<1>2. CASE Recover(p) \/ RecoverySkips(p)
  BY <1>2, MemoryApart DEF Recover, RecoverySkips, ownerVars
<1>3. ASSUME NEW s \in Subjects, AskSteps(p, s)
      PROVE  SameMemory(q) /\ own'[q] = own[q]
  <2>1. UNCHANGED own
    BY <1>3 DEF AskSteps, StartProcess, StopProcess, RestartProcess, KillProcess, ownerVars
  <2> QED BY <1>3, <2>1, MemoryApart DEF AskSteps
<1>4. ASSUME NEW s \in Subjects, OperationSteps(p, s)
      PROVE  SameMemory(q) /\ own'[q] = own[q]
  BY <1>4, MemoryApart, WritesUnderway DEF OperationSteps
<1>5. ASSUME NEW d \in Deployments, AllowProcessRestart(p, d) \/ Persist(p, d)
      PROVE  SameMemory(q) /\ own'[q] = own[q]
  <2>1. d \in Subjects
    BY DEF Subjects
  <2> QED BY <1>5, <2>1, MemoryApart DEF AllowProcessRestart, Persist, ownerVars
<1>6. ASSUME NEW c \in DOMAIN children, By(c) = p, ChildSteps(c)
      PROVE  SameMemory(q) /\ own'[q] = own[q]
  <2>1. UNCHANGED own
    BY <1>6 DEF ChildSteps, Announces, Killed, Crashes, Dies, Listening, Exited, OperatorEnds, ownerVars
  <2> QED BY <1>6, <2>1, HearsayApart DEF ChildSteps
<1> QED BY <1>1, <1>2, <1>3, <1>4, <1>5, <1>6, Zenon DEF StepOf

\* The children there are, and those launched by others than the one whose step it is.
LEMMA KidsApart ==
  ASSUME KidsInv, NEW p \in Procs, StepOf(p)
  PROVE  /\ \A c \in DOMAIN children : c \in DOMAIN children' /\ Of(c)' = Of(c) /\ By(c)' = By(c)
         /\ \/ DOMAIN children' = DOMAIN children
            \/ \E s \in Subjects : Spawn(p, s)
         /\ \A c \in DOMAIN children' : c \in DOMAIN children \/ By(c)' = p
<1>1. Next
  <2>1. ASSUME NEW s \in Subjects, AskSteps(p, s) \/ OperationSteps(p, s)
        PROVE  Next
    BY <2>1 DEF AskSteps, OperationSteps, Next
  <2>2. ASSUME NEW d \in Deployments, AllowProcessRestart(p, d) \/ Persist(p, d)
        PROVE  Next
    BY <2>2 DEF Next
  <2>3. ASSUME NEW c \in DOMAIN children, ChildSteps(c)
        PROVE  Next
    BY <2>3 DEF ChildSteps, Next
  <2>4. CASE OwnSteps(p) \/ Recover(p) \/ RecoverySkips(p)
    BY <2>4 DEF OwnSteps, Next
  <2> QED BY <2>1, <2>2, <2>3, <2>4, Zenon DEF StepOf
<1>2. \A c \in DOMAIN children : c \in DOMAIN children' /\ Of(c)' = Of(c) /\ By(c)' = By(c)
  BY <1>1, KidsLast
<1>3. DOMAIN children' = DOMAIN children \/ \E s \in Subjects : Spawn(p, s)
  <2>1. CASE OwnSteps(p) \/ Recover(p) \/ RecoverySkips(p)
    <3>1. Stored
      BY DEF KidsInv
    <3>2. CASE Sweep(p)
      BY <3>2 DEF Sweep, Kill
    <3>3. CASE ProcessEnds(p)
      BY <3>1, <3>3, EndLasts
    <3>4. CASE ~(Sweep(p) \/ ProcessEnds(p))
      BY <2>1, <3>4 DEF OwnSteps, Recover, RecoverySkips, Boot, OwnerStep, ReleaseOwner, StartRecovery,
         Recovered, RecoveryGivesUp,
         SessionEnds, EndSweep, StopGivesUp, DrainOperations, subjectVars
    <3> QED BY <3>2, <3>3, <3>4
  <2>2. ASSUME NEW s \in Subjects, AskSteps(p, s)
        PROVE  DOMAIN children' = DOMAIN children
    BY <2>2 DEF AskSteps, StartProcess, StopProcess, RestartProcess, KillProcess, subjectVars
  <2>3. ASSUME NEW s \in Subjects, OperationSteps(p, s)
        PROVE  DOMAIN children' = DOMAIN children \/ Spawn(p, s)
    BY <2>3 DEF OperationSteps, Operate, TurnRefused, BeginStart, Check, Prepare, BeginStop, StopOther,
       Terminated, Failed,
       Stopped, ReleaseSource, Relaunch, OperationFails, CheckFails, PrepareFails, SpawnFails,
       TerminateFails, ReleaseFails, subjectVars, Kill
  <2>4. ASSUME NEW d \in Deployments, AllowProcessRestart(p, d) \/ Persist(p, d)
        PROVE  DOMAIN children' = DOMAIN children
    BY <2>4 DEF AllowProcessRestart, Persist, subjectVars
  <2>5. ASSUME NEW c \in DOMAIN children, ChildSteps(c)
        PROVE  DOMAIN children' = DOMAIN children
    BY <2>5, ChildLasts DEF ChildSteps, KidsInv
  <2> QED BY <2>1, <2>2, <2>3, <2>4, <2>5, Zenon DEF StepOf
<1>4. \A c \in DOMAIN children' : c \in DOMAIN children \/ By(c)' = p
  <2>1. ASSUME NEW s \in Subjects, Spawn(p, s)
        PROVE  \A c \in DOMAIN children' : c \in DOMAIN children \/ By(c)' = p
    BY <2>1, Launched DEF KidsInv
  <2> QED BY <1>3, <2>1
<1> QED BY <1>2, <1>3, <1>4

LEMMA UntouchedNext ==
  ASSUME StatusInv, [Next]_vars, NEW q \in Procs
  PROVE  Untouched(q)'
<1>1. TypesInv /\ KidsInv /\ OwnerInv /\ Stored /\ Untouched(q)
  BY DEF StatusInv, KillsInv, TypesInv, KidsInv
<1>2. own[q].run = "unborn" \/ own[q].status = "acquiring" =>
        own[q].status \notin {"recovering", "ready", "draining"} /\ own[q].shut = "no"
  BY <1>1 DEF OwnerInv, Onward, Unborn
<1> DEFINE None == /\ own'[q].acq # "recovering" /\ todo'[q] = {}
                   /\ \A s \in Subjects : entry'[q][s].child = 0 /\ queue'[q][s] = <<>> /\ writes'[q][s] = <<>>
                   /\ \A c \in DOMAIN children' : By(c)' # q
<1> SUFFICES ASSUME own'[q].run = "unborn" \/ own'[q].status = "acquiring"
             PROVE  None
  BY DEF Untouched
<1>3. ASSUME own[q].run = "unborn" \/ own[q].status = "acquiring",
             own'[q].acq # "recovering", SameMemory(q),
             \A c \in DOMAIN children' : c \in DOMAIN children \/ By(c)' # q,
             \A c \in DOMAIN children : By(c)' = By(c)
      PROVE  None
  BY <1>1, <1>3 DEF Untouched, SameMemory
<1> HIDE DEF None
<1>4. ASSUME NEW p \in Procs, p # q, StepOf(p)
      PROVE  None
  <2>1. SameMemory(q) /\ own'[q] = own[q]
    BY <1>1, <1>4, Apart
  <2>2. /\ \A c \in DOMAIN children' : c \in DOMAIN children \/ By(c)' # q
        /\ \A c \in DOMAIN children : By(c)' = By(c)
    BY <1>1, <1>4, KidsApart
  <2> QED BY <1>1, <1>3, <2>1, <2>2 DEF Untouched
<1>5. ASSUME OwnSteps(q)
      PROVE  None
  <2>1. own'[q].status = "acquiring" /\ Arrives(q) /\ own'[q].run # "dead"
    BY <1>1, <1>5, Progress
  <2>2. /\ own[q].run = "unborn" \/ own[q].status = "acquiring"
        /\ own'[q].acq = "recovering" => own[q].acq = "recovering"
    BY <2>1 DEF Arrives, Boot, BootWith
  <2>3. ~ProcessEnds(q)
    <3>1. ASSUME ProcessEnds(q)
          PROVE  own'[q].run = "dead"
      <4>1. Become(q, [Unborn EXCEPT !.run = "dead", !.shut = "done", !.clean = own[q].clean /\ own[q].shut = "done"])
        BY <3>1 DEF ProcessEnds, Exit
      <4>2. own \in [Procs -> Owner]
        BY <1>1 DEF OwnerInv, OwnerTypeOK
      <4>3. own'[q] = [Unborn EXCEPT !.run = "dead", !.shut = "done", !.clean = own[q].clean /\ own[q].shut = "done"]
        BY <4>1, <4>2, Zenon DEF Become
      <4> QED BY <4>3 DEF Unborn
    <3> QED BY <2>1, <3>1
  <2>4. ~Sweep(q) /\ ~EndSweep(q)
    BY <1>2, <2>2 DEF Sweep, EndSweep
  <2>5. UNCHANGED <<entry, queue, at, writes, children>> /\ todo' = todo
    BY <1>5, <2>1, <2>3, <2>4 DEF OwnSteps, Boot, OwnerStep, ReleaseOwner, StartRecovery, Recovered, RecoveryGivesUp,
       SessionEnds, StopGivesUp, DrainOperations, subjectVars, memoryVars
  <2>6. untold' = untold
    BY <1>5, <2>3, <2>4 DEF OwnSteps, Boot, OwnerStep, ReleaseOwner, StartRecovery, Recovered, RecoveryGivesUp,
       SessionEnds, StopGivesUp, DrainOperations, memoryVars
  <2> QED BY <1>1, <1>3, <2>2, <2>5, <2>6 DEF SameMemory, Untouched, By
<1>6. ASSUME Recover(q) \/ RecoverySkips(q)
      PROVE  None
  <2>1. UNCHANGED own /\ own[q].acq = "recovering"
    BY <1>6 DEF Recover, RecoverySkips, Recovering, ownerVars
  <2> QED BY <1>1, <2>1 DEF Untouched
<1>7. ASSUME NEW s \in Subjects, AskSteps(q, s)
      PROVE  None
  <2>1. UNCHANGED own /\ own[q].status = "ready" /\ own[q].run = "up"
    BY <1>7 DEF AskSteps, StartProcess, StopProcess, RestartProcess, KillProcess, Asks, CanOperate, ownerVars, Up
  <2> QED BY <2>1
<1>8. ASSUME NEW s \in Subjects, OperationSteps(q, s)
      PROVE  None
  <2>1. queue[q][s] # <<>> /\ UNCHANGED own
    BY <1>8, WritesUnderway DEF OperationSteps
  <2> QED BY <1>1, <2>1 DEF Untouched
<1>9. ASSUME NEW d \in Deployments, AllowProcessRestart(q, d) \/ Persist(q, d)
      PROVE  None
  <2>1. d \in Subjects
    BY DEF Subjects
  <2>2. UNCHANGED <<own, children>>
    BY <1>9 DEF AllowProcessRestart, Persist, ownerVars, subjectVars
  <2>3. CASE Persist(q, d)
    BY <1>1, <2>1, <2>2, <2>3 DEF Persist, Untouched
  <2>4. CASE AllowProcessRestart(q, d)
    <3>1. SameMemory(q)
      BY <2>4 DEF AllowProcessRestart, SameMemory
    <3> QED BY <1>1, <1>3, <2>2, <3>1 DEF Untouched, By
  <2> QED BY <1>9, <2>3, <2>4
<1>10. ASSUME NEW c \in DOMAIN children, By(c) = q, ChildSteps(c)
       PROVE  None
  <2>1. UNCHANGED own
    BY <1>10 DEF ChildSteps, Announces, Killed, Crashes, Dies, Listening, Exited, OperatorEnds, ownerVars
  <2> QED BY <1>1, <1>10, <2>1 DEF Untouched
<1>11. ASSUME UNCHANGED vars \/ \E s \in Subjects : LockExpires(s)
       PROVE  None
  <2>1. UNCHANGED <<own, children>> /\ SameMemory(q)
    BY <1>11 DEF vars, LockExpires, ownerVars, subjectVars, memoryVars, SameMemory
  <2> QED BY <1>1, <1>3, <2>1 DEF Untouched, By
<1>12. StepOf(q) => None
  BY <1>5, <1>6, <1>7, <1>8, <1>9, <1>10, Zenon DEF StepOf
<1> QED BY <1>1, <1>4, <1>11, <1>12, StepsOf

\* It has launched or written something.
Active(p) == (\E c \in DOMAIN children : By(c) = p) \/ (\E s \in Subjects : writes[p][s] # <<>>)

LEMMA AnswersNext ==
  ASSUME StatusInv, [Next]_vars, NEW q \in Procs
  PROVE  Answers(q)'
<1>1. TypesInv /\ KidsInv /\ OwnerInv /\ Stored /\ KillsInv /\ Untouched(q) /\ Answers(q) /\ MarkedBy(q)
  BY DEF StatusInv, KillsInv, TypesInv, KidsInv, OwnerInv, Marked
<1> SUFFICES ASSUME Up(q)', Active(q)'
             PROVE  marker' = q \/ (own'[q].clean /\ own'[q].shut = "done")
  BY DEF Answers, Active
<1> DEFINE Before == Up(q) /\ (Active(q) \/ marker = q)
<1>2. ASSUME Up(q), writes'[q] = writes[q],
             \A c \in DOMAIN children' : c \in DOMAIN children \/ By(c)' # q,
             \A c \in DOMAIN children : By(c)' = By(c)
      PROVE  Before
  BY <1>2 DEF Active
<1> HIDE DEF Before
<1>3. ASSUME UNCHANGED <<children, writes>>, Up(q)
      PROVE  Before
  BY <1>2, <1>3 DEF By
<1>4. ASSUME NEW p \in Procs, p # q, StepOf(p)
      PROVE  Before
  <2>1. SameMemory(q) /\ own'[q] = own[q]
    BY <1>1, <1>4, Apart
  <2>2. /\ \A c \in DOMAIN children' : c \in DOMAIN children \/ By(c)' # q
        /\ \A c \in DOMAIN children : By(c)' = By(c)
    BY <1>1, <1>4, KidsApart
  <2> QED BY <1>2, <2>1, <2>2 DEF SameMemory, Up
<1>5. ASSUME OwnSteps(q)
      PROVE  Before
  <2>1. CASE Boot(q)
    <3>1. UNCHANGED <<children, writes>> /\ own[q].run = "unborn"
      BY <2>1 DEF Boot, BootWith, subjectVars, memoryVars
    <3> QED BY <1>1, <3>1 DEF Untouched, Active, By
  <2>2. CASE ProcessEnds(q)
    <3>1. Become(q, [Unborn EXCEPT !.run = "dead", !.shut = "done", !.clean = own[q].clean /\ own[q].shut = "done"])
      BY <2>2 DEF ProcessEnds, Exit
    <3>2. own \in [Procs -> Owner]
      BY <1>1 DEF OwnerInv, OwnerTypeOK
    <3>3. own'[q] = [Unborn EXCEPT !.run = "dead", !.shut = "done", !.clean = own[q].clean /\ own[q].shut = "done"]
      BY <3>1, <3>2, Zenon DEF Become
    <3>4. own'[q].run = "dead"
      BY <3>3 DEF Unborn
    <3> QED BY <3>4 DEF Up
  <2>3. CASE ~(Boot(q) \/ ProcessEnds(q))
    <3>1. \/ Sweep(q) \/ StartRecovery(q) \/ Recovered(q) \/ Connect(q) \/ TryLock(q) \/ ReadMarker(q) \/ QueryFails(q)
          \/ Notice(q) \/ Signal(q) \/ RecoveryFails(q) \/ SessionBreaks(q) \/ Drain(q, Pending(q)) \/ Release(q)
          \/ EndSweep(q) \/ StopGivesUp(q)
      BY <1>5, <2>3 DEF OwnSteps, OwnerStep, ReleaseOwner, RecoveryGivesUp, SessionEnds, DrainOperations
    <3>2. Up(q)
      BY <3>1 DEF Sweep, StartRecovery, WriteMarker, Recovered, BecomeReady, EndSweep, StopGivesUp, Connect, TryLock,
         ReadMarker, QueryFails, Notice, Signal, RecoveryFails, SessionBreaks, Drain, Release, Querying
    <3>3. writes' = writes
      BY <1>5, <2>3 DEF OwnSteps, Sweep, EndSweep, OwnerStep, ReleaseOwner, StartRecovery, Recovered, RecoveryGivesUp,
         SessionEnds, StopGivesUp, DrainOperations, memoryVars
    <3>4. DOMAIN children' = DOMAIN children /\ \A c \in DOMAIN children : By(c)' = By(c)
      <4>1. CASE Sweep(q)
        <5>1. PICK S : Kill(S)
          BY <4>1 DEF Sweep
        <5> QED BY <1>1, <5>1, KillLasts
      <4>2. CASE ~Sweep(q)
        BY <1>5, <2>3, <4>2 DEF OwnSteps, EndSweep, OwnerStep, ReleaseOwner, StartRecovery, Recovered, RecoveryGivesUp,
           SessionEnds, StopGivesUp, DrainOperations, subjectVars, By
      <4> QED BY <4>1, <4>2
    <3> QED BY <1>2, <3>2, <3>3, <3>4
  <2> QED BY <2>1, <2>2, <2>3
<1>6. ASSUME Recover(q) \/ RecoverySkips(q)
      PROVE  Before
  BY <1>3, <1>6 DEF Recover, RecoverySkips, Recovering, subjectVars
<1>7. ASSUME NEW s \in Subjects, AskSteps(q, s)
      PROVE  Before
  BY <1>3, <1>7 DEF AskSteps, StartProcess, StopProcess, RestartProcess, KillProcess, Asks, subjectVars
<1>8. ASSUME NEW s \in Subjects, OperationSteps(q, s)
      PROVE  Before
  <2>1. (writes' = writes /\ DOMAIN children' = DOMAIN children) \/ at[q][s] # "idle"
    BY <1>8, WritesUnderway DEF OperationSteps
  <2>2. CASE at[q][s] # "idle"
    BY <1>1, <1>8, <2>2, WritesUnderway DEF OperationSteps, MarkedBy, Pending, Before
  <2>3. CASE writes' = writes /\ DOMAIN children' = DOMAIN children
    <3>1. \A c \in DOMAIN children : By(c)' = By(c)
      <4>1. StepOf(q)
        BY <1>8 DEF StepOf
      <4> QED BY <1>1, <4>1, KidsApart
    <3> QED BY <1>2, <1>8, <2>3, <3>1, WritesUnderway DEF OperationSteps
  <2> QED BY <2>1, <2>2, <2>3
<1>9. ASSUME NEW d \in Deployments, AllowProcessRestart(q, d) \/ Persist(q, d)
      PROVE  Before
  <2>1. d \in Subjects
    BY DEF Subjects
  <2>2. CASE AllowProcessRestart(q, d)
    BY <1>3, <2>2 DEF AllowProcessRestart, subjectVars
  <2>3. CASE Persist(q, d)
    BY <2>1, <2>3 DEF Persist, Active, Before
  <2> QED BY <1>9, <2>2, <2>3
<1>10. ASSUME NEW c \in DOMAIN children, By(c) = q, ChildSteps(c)
       PROVE  Before
  <2>1. UNCHANGED own
    BY <1>10 DEF ChildSteps, Announces, Killed, Crashes, Dies, Listening, Exited, OperatorEnds, ownerVars
  <2> QED BY <1>10, <2>1 DEF Active, Before, Up
<1>11. ASSUME UNCHANGED vars \/ \E s \in Subjects : LockExpires(s)
       PROVE  Before
  BY <1>3, <1>11 DEF vars, LockExpires, ownerVars, subjectVars, memoryVars, Up
<1>12. StepOf(q) => Before
  BY <1>5, <1>6, <1>7, <1>8, <1>9, <1>10, Zenon DEF StepOf
<1>13. Before
  BY <1>1, <1>4, <1>11, <1>12, StepsOf
<1>14. Up(q) /\ (marker = q \/ (own[q].clean /\ own[q].shut = "done"))
  BY <1>1, <1>13 DEF Before, Answers, Active
<1> QED BY <1>1, <1>14, MarkerStays

\* Nothing of what is said of a subject of p is touched.
SameFor(p, s) ==
  /\ entry'[p][s] = entry[p][s] /\ writes'[p][s] = writes[p][s]
  /\ s \in Deployments => db'[s] = db[s]
  /\ \A c \in DOMAIN children : c \in DOMAIN children' /\ Of(c)' = Of(c) /\ By(c)' = By(c)
  /\ \A c \in DOMAIN children : Of(c) = s /\ By(c) = p => children'[c] = children[c]
  /\ \A c \in DOMAIN children' : c \in DOMAIN children \/ Of(c)' # s \/ By(c)' # p
  /\ registry'[s] = registry[s] \/ registry'[s].child = 0 \/ children'[registry'[s].child].by # p
  /\ left \subseteq left' /\ left \subseteq DOMAIN children
  /\ s \in untold[p] => s \in untold'[p]
  /\ s \in todo[p] => s \in todo'[p] \cup untold'[p]
  /\ own'[p].status = own[p].status
  /\ at'[p][s] = "terminating" <=> at[p][s] = "terminating"
  /\ (s \in Deployments /\ own[p].status = "recovering" /\ at[p][s] \in {"checking", "preparing", "spawning"}) =>
       at'[p][s] \in {"checking", "preparing", "spawning"} \/ s \in untold'[p]

LEMMA Stays ==
  ASSUME Fitting, NEW p \in Procs, NEW s \in Subjects, SameFor(p, s), Stopping(p, s), Told(p, s)
  PROVE  Stopping(p, s)' /\ Told(p, s)'
<1>1. entry[p][s].child # 0 => /\ entry[p][s].child \in DOMAIN children
                               /\ Of(entry[p][s].child) = s /\ By(entry[p][s].child) = p
                               /\ children'[entry[p][s].child] = children[entry[p][s].child]
  BY DEF Fitting, SameFor
<1>2. registry[s].child # 0 => /\ registry[s].child \in DOMAIN children
                               /\ children'[registry[s].child].by = By(registry[s].child)
  BY DEF Fitting, SameFor, By
<1>3. \A c \in DOMAIN children : (By(c) = p /\ Of(c) = s) => children'[c] = children[c] /\ (Live(c)' <=> Live(c))
  BY DEF SameFor, Live, Alive
<1>4. \A c \in DOMAIN children' : (By(c)' = p /\ Of(c)' = s) => c \in DOMAIN children /\ By(c) = p /\ Of(c) = s
  BY DEF SameFor
<1>5. Stopping(p, s)'
  <2>1. CASE registry'[s] = registry[s]
    BY <1>1, <1>2, <2>1 DEF Stopping, SameFor, By
  <2>2. CASE registry'[s].child = 0 \/ children'[registry'[s].child].by # p
    <3>1. entry[p][s].child # 0 => children'[entry[p][s].child].by = p
      BY <1>1 DEF By
    <3> QED BY <1>1, <2>2, <3>1 DEF Stopping, SameFor, By
  <2> QED BY <2>1, <2>2 DEF SameFor
<1>6. ASSUME s \in Deployments
      PROVE  Final(p, s)' = Final(p, s)
  BY <1>6 DEF Final, SameFor
<1>7. ASSUME s \in Deployments
      PROVE  ToldOf(p, s)'
  <2>1. ToldOf(p, s)
    BY <1>7 DEF Told
  <2> QED BY <1>3, <1>4, <1>6, <1>7, <2>1 DEF ToldOf
<1>8. ASSUME s \in Deployments, ItsOwn(s)'
      PROVE  NotTold(p, s)'
  <2>1. ItsOwn(s)
    <3>1. \A c \in left : c \in left' /\ Of(c)' = Of(c)
      BY DEF SameFor
    <3> QED BY <1>8, <3>1 DEF ItsOwn, Of
  <2>2. NotTold(p, s)
    BY <1>8, <2>1 DEF Told
  <2>3. Lives(p, s) => Lives(p, s)'
    BY <1>3 DEF Lives, SameFor
  <2>4. HasEntry(p, s) => HasEntry(p, s)'
    BY <1>1 DEF HasEntry, HasExitCode, SameFor
  <2> QED BY <1>6, <1>8, <2>2, <2>3, <2>4 DEF NotTold, SameFor
<1> QED BY <1>5, <1>7, <1>8 DEF Told

\* What an operation does concerns its subject.
LEMMA SameElsewhere ==
  ASSUME TypesInv, NEW p \in Procs, Second(p), NEW s \in Subjects, OperationSteps(p, s), NEW x \in Subjects, x # s
  PROVE  SameFor(p, x) /\ at'[p][x] = at[p][x] /\ queue'[p][x] = queue[p][x]
<1>1. /\ entry \in [Procs -> [Subjects -> [child : Nat, stopping : BOOLEAN]]]
      /\ registry \in [Subjects -> [child : Nat, status : Statuses \cup {"none"}]]
      /\ queue \in [Procs -> [Subjects -> Seq(Operations)]]
      /\ at \in [Procs -> [Subjects -> Steps]]
      /\ writes \in [Procs -> [Subjects -> Seq(Statuses)]]
      /\ untold \in [Procs -> SUBSET Deployments]
      /\ KidsInv /\ Stored /\ Fitting /\ left \subseteq DOMAIN children
  BY DEF TypesInv, KidsInv, Stored, QueueTypes, WriteTypes, LaunchTypes
<1>2. /\ entry' = entry \/ (\E y : entry' = [entry EXCEPT ![p][s] = y])
             \/ (\E y : entry' = [entry EXCEPT ![p][s].stopping = y])
      /\ registry' = registry \/ (\E y : registry' = [registry EXCEPT ![s] = y])
      /\ UNCHANGED <<own, todo, db, left>>
  BY DEF OperationSteps, Operate, TurnRefused, BeginStart, Check, Prepare, Spawn, BeginStop, StopOther,
     Terminated, Failed, Stopped,
     ReleaseSource, Relaunch, OperationFails, CheckFails, PrepareFails, SpawnFails,
     TerminateFails, ReleaseFails, subjectVars, ownerVars
<1>3. entry'[p][x] = entry[p][x] /\ registry'[x] = registry[x]
  BY <1>1, <1>2
<1>4. Advances(p, s)
  BY OperationsAdvance DEF OperationSteps
<1>5. at'[p][x] = at[p][x] /\ queue'[p][x] = queue[p][x]
  <2>1. queue' = queue \/ \E y : queue' = [queue EXCEPT ![p][s] = y]
    BY <1>4 DEF Advances
  <2>2. at' = at \/ \E y : at' = [at EXCEPT ![p][s] = y]
    BY <1>4 DEF Advances
  <2> QED BY <1>1, <2>1, <2>2
<1>6. writes'[p][x] = writes[p][x] /\ (x \in untold[p] => x \in untold'[p])
  <2>1. \/ untold' = untold
        \/ untold' = [untold EXCEPT ![p] = untold[p] \ {s}]
        \/ \E S : untold' = [untold EXCEPT ![p] = untold[p] \cup (S \cap Deployments)]
    BY OperationTells DEF OperationSteps
  <2>2. writes' = writes \/ \E y : writes' = [writes EXCEPT ![p][s] = y]
    BY OperationTells DEF OperationSteps
  <2> QED BY <1>1, <2>1, <2>2
<1>7. StepOf(p)
  BY DEF StepOf
<1>8. \A c \in DOMAIN children : c \in DOMAIN children' /\ Of(c)' = Of(c) /\ By(c)' = By(c)
  BY <1>1, <1>7, KidsApart
<1>9. /\ \A c \in DOMAIN children : Of(c) = x /\ By(c) = p => children'[c] = children[c]
      /\ \A c \in DOMAIN children' : c \in DOMAIN children \/ Of(c)' # x
  <2>1. CASE Spawn(p, s)
    <3>1. PICK n : n = Len(children) + 1
      OBVIOUS
    <3>2. /\ DOMAIN children' = DOMAIN children \cup {n} /\ Of(n)' = s
          /\ \A c \in DOMAIN children : children'[c] = children[c]
      BY <1>1, <2>1, <3>1, Launched
    <3> QED BY <3>2
  <2>2. CASE BeginStop(p, s) \/ StopOther(p, s)
    <3>1. PICK S \in SUBSET {c \in {entry[p][s].child, registry[s].child, second[p][s]} : Alive(c)} : Kill(S)
      BY <2>2 DEF BeginStop, StopOther
    <3>2. \A c \in S : Of(c) = s
      BY <1>1, <3>1 DEF Fitting, Second, Alive
    <3>3. /\ DOMAIN children' = DOMAIN children
          /\ \A c \in DOMAIN children : c \notin S => children'[c] = children[c]
      BY <1>1, <3>1, KillLasts
    <3> QED BY <3>2, <3>3
  <2>3. CASE ~(Spawn(p, s) \/ BeginStop(p, s) \/ StopOther(p, s))
    <3>1. children' = children
      BY <2>3 DEF OperationSteps, Operate, TurnRefused, BeginStart, Check, Prepare, Terminated, Failed, Stopped,
         ReleaseSource, Relaunch, OperationFails, CheckFails, PrepareFails, SpawnFails,
         TerminateFails, ReleaseFails, subjectVars
    <3> QED BY <3>1
  <2> QED BY <2>1, <2>2, <2>3
<1> QED BY <1>1, <1>2, <1>3, <1>5, <1>6, <1>8, <1>9 DEF SameFor

\* Steps of another process leave what is said of an owner's subjects alone.
LEMMA TruthApart ==
  ASSUME StatusInv, NEW p \in Procs, NEW q \in Procs, q # p, StepOf(p), Operating(q)'
  PROVE  Truthful(q)'
<1>1. /\ TypesInv /\ KidsInv /\ OwnerInv /\ Stored /\ Fitting /\ Answers(p) /\ MarkedBy(q)
      /\ left \subseteq DOMAIN children
  BY DEF StatusInv, KillsInv, TypesInv, KidsInv, OwnerInv, Marked, Stored
<1>2. SameMemory(q) /\ own'[q] = own[q]
  BY <1>1, Apart
<1>3. Operating(q) /\ Truthful(q) /\ marker = q
  BY <1>1, <1>2 DEF Operating, Up, StatusInv, MarkedBy
<1>4. ~Operating(p) /\ ~(Up(p) /\ Pending(p))
  BY <1>1, <1>3, InvImpliesOneOwner DEF OneOwner
<1>5. \A c \in DOMAIN children : c \in DOMAIN children' /\ Of(c)' = Of(c) /\ By(c)' = By(c)
  BY <1>1, KidsApart
<1>6. \A c \in DOMAIN children' : c \in DOMAIN children \/ By(c)' # q
  BY <1>1, KidsApart
<1> DEFINE Rest == /\ db' = db /\ left \subseteq left'
                   /\ \A c \in DOMAIN children : By(c) = q => children'[c] = children[c]
                   /\ \A s \in Subjects : \/ registry'[s] = registry[s] \/ registry'[s].child = 0
                                          \/ children'[registry'[s].child].by # q
<1>7. ASSUME UNCHANGED subjectVars
      PROVE  Rest
  BY <1>7 DEF subjectVars
<1>8. ASSUME OwnSteps(p)
      PROVE  Rest
  <2>1. CASE Sweep(p)
    <3>1. PICK S : S = {c \in DOMAIN children : \E s \in Subjects : entry[p][s].child = c /\ Alive(c)}
      OBVIOUS
    <3>2. Kill(S) /\ UNCHANGED <<db, left, registry>>
      BY <2>1, <3>1 DEF Sweep
    <3>3. \A c \in S : By(c) = p
      BY <1>1, <3>1 DEF Fitting, Alive
    <3> QED BY <1>1, <3>2, <3>3, KillLasts
  <2>2. CASE ProcessEnds(p)
    BY <1>1, <2>2, EndLasts DEF ProcessEnds
  <2>3. CASE EndSweep(p)
    <3>1. UNCHANGED <<db, children, left>>
      BY <2>3 DEF EndSweep
    <3>2. \A s \in Subjects : registry'[s] = registry[s] \/ registry'[s] = NoRegistry
      BY <2>3 DEF EndSweep
    <3> QED BY <3>1, <3>2 DEF NoRegistry
  <2>4. CASE ReleaseOwner(p)
    BY <2>4 DEF ReleaseOwner
  <2>5. CASE ~(Sweep(p) \/ ProcessEnds(p) \/ EndSweep(p) \/ ReleaseOwner(p))
    BY <1>7, <1>8, <2>5 DEF OwnSteps, Boot, OwnerStep, StartRecovery, Recovered, RecoveryGivesUp, SessionEnds,
       StopGivesUp, DrainOperations
  <2> QED BY <2>1, <2>2, <2>3, <2>4, <2>5
<1>9. ASSUME NEW s \in Subjects, OperationSteps(p, s)
      PROVE  Rest
  <2>1. Up(p) /\ at[p][s] = "idle"
    BY <1>4, <1>9, WritesUnderway DEF OperationSteps, Pending
  <2>2. TurnRefused(p, s) \/ BeginStart(p, s) \/ BeginStop(p, s)
    BY <1>9, <2>1 DEF OperationSteps, Operate, Check, Prepare, Spawn, StopOther, Terminated, Failed, Stopped,
       ReleaseSource, Relaunch, OperationFails, CheckFails, PrepareFails, SpawnFails,
       TerminateFails, ReleaseFails, Underway
  <2>3. ~BeginStart(p, s) /\ ~BeginStop(p, s)
    BY <1>4, <2>1 DEF BeginStart, BeginStop, CanOperate, Operating
  <2> QED BY <1>7, <2>2, <2>3 DEF TurnRefused
<1>10. ASSUME NEW d \in Deployments, AllowProcessRestart(p, d) \/ Persist(p, d)
       PROVE  Rest
  <2>1. d \in Subjects
    BY DEF Subjects
  <2>2. ~Persist(p, d)
    BY <1>1, <1>3, <2>1 DEF Answers, Persist
  <2> QED BY <1>7, <1>10, <2>2 DEF AllowProcessRestart
<1>11. ASSUME NEW c \in DOMAIN children, By(c) = p, ChildSteps(c)
       PROVE  Rest
  <2>1. UNCHANGED <<db, left>>
    BY <1>11 DEF ChildSteps, Announces, Killed, Crashes, Dies, Listening, Exited, OperatorEnds
  <2>2. /\ DOMAIN children' = DOMAIN children /\ By(c)' = By(c)
        /\ \A e \in DOMAIN children \ {c} : children'[e] = children[e]
    BY <1>1, <1>11, ChildLasts DEF ChildSteps
  <2>3. \/ registry' = registry
        \/ registry' = [registry EXCEPT ![Of(c)] = [child |-> c, status |-> "running"]]
        \/ registry' = [registry EXCEPT ![Of(c)] = IF @.child = c THEN NoRegistry ELSE @]
    BY <1>11 DEF ChildSteps, Announces, Killed, Crashes, Dies, Listening, Exited, OperatorEnds, Of
  <2>4. ASSUME NEW s \in Subjects
        PROVE  \/ registry'[s] = registry[s] \/ registry'[s].child = 0
               \/ children'[registry'[s].child].by # q
    <3>1. \/ registry'[s] = registry[s] \/ registry'[s] = NoRegistry
          \/ registry'[s] = [child |-> c, status |-> "running"]
      BY <1>1, <2>3 DEF Stored
    <3>2. children'[c].by = p
      BY <1>11, <2>2 DEF By
    <3> QED BY <3>1, <3>2 DEF NoRegistry
  <2> QED BY <1>11, <2>1, <2>2, <2>4
<1> HIDE DEF Rest
<1>12. ASSUME NEW s \in Subjects, AskSteps(p, s)
       PROVE  Rest
  BY <1>7, <1>12 DEF AskSteps, StartProcess, StopProcess, RestartProcess, KillProcess
<1>13. ASSUME Recover(p) \/ RecoverySkips(p)
       PROVE  Rest
  BY <1>7, <1>13 DEF Recover, RecoverySkips
<1>14. Rest
  BY <1>8, <1>9, <1>10, <1>11, <1>12, <1>13, Zenon DEF StepOf
<1>15. ASSUME NEW s \in Subjects
       PROVE  Stopping(q, s)' /\ Told(q, s)'
  <2>1. SameFor(q, s)
    BY <1>1, <1>2, <1>5, <1>6, <1>14 DEF SameFor, SameMemory, Rest
  <2> QED BY <1>1, <1>3, <2>1, Stays DEF Truthful
<1>16. Restoring(q)'
  BY <1>2, <1>3 DEF Truthful, Restoring, SameMemory, Op
<1> QED BY <1>15, <1>16 DEF Truthful

\* The steps of an owner for itself: it takes over with nothing done and the table
\* read, and is ready when the starts of the recovery are over.
LEMMA TruthOwned ==
  ASSUME StatusInv, NEW p \in Procs, OwnSteps(p), Operating(p)'
  PROVE  Truthful(p)'
<1>1. TypesInv /\ KidsInv /\ OwnerInv /\ Stored /\ Fitting /\ Untouched(p) /\ left \subseteq DOMAIN children
  BY DEF StatusInv, KillsInv, TypesInv, KidsInv, Stored
<1>2. own \in [Procs -> Owner] /\ own[p] \in Owner
  BY <1>1 DEF OwnerInv, OwnerTypeOK
<1>3. own'[p].status \in {"recovering", "ready"} /\ Arrives(p) /\ own'[p].run = "up"
  BY <1>1, Progress DEF Operating, Up
<1>4. /\ own[p].status \in {"acquiring", "recovering", "ready"} => own[p].shut = "no"
      /\ own[p].clean => own[p].shut \in {"releasing", "done"}
      /\ own[p].run = "unborn" => own[p].status = "idle"
  BY <1>1 DEF OwnerInv, Onward, Unborn
<1>5. ~ProcessEnds(p)
  <2>1. ASSUME ProcessEnds(p)
        PROVE  own'[p].run = "dead"
    <3>1. Become(p, [Unborn EXCEPT !.run = "dead", !.shut = "done", !.clean = own[p].clean /\ own[p].shut = "done"])
      BY <2>1 DEF ProcessEnds, Exit
    <3>2. own'[p] = [Unborn EXCEPT !.run = "dead", !.shut = "done", !.clean = own[p].clean /\ own[p].shut = "done"]
      BY <1>2, <3>1, Zenon DEF Become
    <3> QED BY <3>2 DEF Unborn
  <2> QED BY <1>3, <2>1
<1>6. StartRecovery(p) => own[p].status = "acquiring"
  <2>1. ASSUME StartRecovery(p), own[p].status # "acquiring"
        PROVE  FALSE
    <3>1. Up(p) /\ Become(p, Failing(own[p]))
      BY <2>1 DEF StartRecovery, WriteMarker, Querying
    <3>2. Failing(own[p]) \in Owner
      BY <1>2, EndingType
    <3>3. own'[p] = Failing(own[p])
      BY <1>2, <3>1, <3>2, BecomeDef
    <3> QED BY <1>2, <1>3, <1>4, <3>3, EndingEnds
  <2> QED BY <2>1
<1>7. CASE own'[p].status = own[p].status
  <2>1. ~Boot(p) /\ ~Sweep(p) /\ ~EndSweep(p) /\ ~ReleaseOwner(p) /\ ~StartRecovery(p)
    BY <1>3, <1>4, <1>6, <1>7 DEF Boot, BootWith, Sweep, EndSweep, ReleaseOwner, Release
  <2>2. UNCHANGED <<subjectVars, memoryVars>>
    BY <1>5, <2>1 DEF OwnSteps, OwnerStep, Recovered, RecoveryGivesUp, SessionEnds, StopGivesUp, DrainOperations
  <2>3. own[p].run = "up"
    <3>1. \/ Recovered(p) \/ Connect(p) \/ TryLock(p) \/ ReadMarker(p) \/ QueryFails(p)
          \/ Notice(p) \/ Signal(p) \/ RecoveryFails(p) \/ SessionBreaks(p) \/ Drain(p, Pending(p))
          \/ StopGivesUp(p)
      BY <1>5, <2>1 DEF OwnSteps, OwnerStep, ReleaseOwner, RecoveryGivesUp, SessionEnds, DrainOperations
    <3> QED BY <3>1 DEF Recovered, BecomeReady, StopGivesUp, Connect, TryLock,
         ReadMarker, QueryFails, Notice, Signal, RecoveryFails, SessionBreaks, Drain, Querying, Up
  <2>4. Truthful(p)
    BY <1>3, <1>7, <2>3 DEF StatusInv, Operating, Up
  <2>5. ASSUME NEW s \in Subjects
        PROVE  Stopping(p, s)' /\ Told(p, s)'
    <3>1. SameFor(p, s)
      BY <1>1, <1>7, <2>2 DEF SameFor, subjectVars, memoryVars, Of, By
    <3> QED BY <1>1, <2>4, <3>1, Stays DEF Truthful
  <2>6. own'[p].status = "ready" => own'[p].acq # "recovering"
    BY <1>3, <1>7, <2>4 DEF Arrives, Truthful, Restoring
  <2>7. Restoring(p)'
    BY <1>7, <2>2, <2>4, <2>6 DEF Truthful, Restoring, memoryVars, Op
  <2> QED BY <2>5, <2>7 DEF Truthful
<1>8. CASE StartRecovery(p) /\ own[p].status = "acquiring" /\ own'[p].status = "recovering"
  <2>1. /\ UNCHANGED <<db, children, registry, left, entry, queue, at, writes>>
        /\ todo' = [todo EXCEPT ![p] = {d \in Deployments : db[d] \in {"running", "provisioning"}}]
    BY <1>8 DEF StartRecovery, subjectVars
  <2>2. todo'[p] = {d \in Deployments : db[d] \in {"running", "provisioning"}}
    BY <1>1, <2>1 DEF TypesInv, MemoryTypes
  <2>3. /\ \A s \in Subjects : entry[p][s].child = 0 /\ queue[p][s] = <<>> /\ writes[p][s] = <<>>
        /\ \A c \in DOMAIN children : By(c) # p
    BY <1>1, <1>8 DEF Untouched
  <2>4. \A s \in Subjects : at[p][s] = "idle"
    BY <1>1, <2>3 DEF TypesInv, QueueTypes
  <2>5. Restoring(p)'
    BY <1>8, <2>1, <2>4 DEF Restoring
  <2>6. ASSUME NEW s \in Subjects
        PROVE  Stopping(p, s)'
    BY <1>1, <2>1, <2>3, <2>6 DEF Stopping, Fitting, By
  <2>7. ASSUME NEW s \in Deployments
        PROVE  ToldOf(p, s)' /\ NotTold(p, s)'
    <3>1. s \in Subjects /\ db[s] \in Statuses
      BY <1>1 DEF TypesInv, WriteTypes, Subjects
    <3>2. Final(p, s)' = db[s]
      BY <2>1, <2>3, <3>1 DEF Final
    <3>3. ToldOf(p, s)'
      BY <2>1, <2>3 DEF ToldOf, By
    <3>4. s \in todo'[p] \/ db[s] \in {"stopped", "error"}
      BY <2>2, <3>1 DEF Statuses
    <3> QED BY <3>2, <3>3, <3>4 DEF NotTold
  <2> QED BY <2>5, <2>6, <2>7 DEF Truthful, Told
<1>9. CASE Recovered(p) /\ own[p].status = "recovering" /\ own'[p].status = "ready" /\ own'[p].acq = "done"
  <2>1. UNCHANGED <<subjectVars, memoryVars>> /\ todo[p] = {} /\ \A s \in Subjects : queue[p][s] = <<>>
    BY <1>9 DEF Recovered, Recovering
  <2>2. Truthful(p)
    <3>1. own[p].run = "up"
      BY <1>9 DEF Recovered, BecomeReady, Up
    <3> QED BY <1>9, <3>1 DEF StatusInv, Operating, Up
  <2>3. \A s \in Subjects : at[p][s] = "idle"
    BY <1>1, <2>1 DEF TypesInv, QueueTypes
  <2>4. Restoring(p)'
    BY <1>9, <2>1 DEF Restoring, memoryVars
  <2>5. ASSUME NEW s \in Subjects
        PROVE  Stopping(p, s)'
    <3>1. Stopping(p, s)
      BY <2>2 DEF Truthful
    <3> QED BY <2>1, <3>1 DEF Stopping, subjectVars, memoryVars, By
  <2>6. ASSUME NEW s \in Subjects, s \in Deployments
        PROVE  ToldOf(p, s)' /\ (ItsOwn(s)' => NotTold(p, s)')
    <3>1. ToldOf(p, s) /\ (ItsOwn(s) => NotTold(p, s))
      BY <2>2, <2>6 DEF Truthful, Told
    <3>2. UNCHANGED <<Final(p, s), ItsOwn(s), Lives(p, s), HasEntry(p, s)>>
      BY <2>1 DEF Final, ItsOwn, Lives, Live, Alive, HasEntry, HasExitCode, Of, By, subjectVars, memoryVars
    <3>3. ToldOf(p, s)'
      BY <2>1, <3>1, <3>2 DEF ToldOf, Live, Alive, Of, By, subjectVars
    <3>4. NotTold(p, s) => \/ Lives(p, s) \/ Final(p, s) \in {"stopped", "error"}
                           \/ s \in untold[p] \/ HasEntry(p, s)
      BY <2>1, <2>3 DEF NotTold
    <3> QED BY <2>1, <3>1, <3>2, <3>3, <3>4 DEF NotTold, memoryVars
  <2> QED BY <2>4, <2>5, <2>6 DEF Truthful, Told
<1> QED BY <1>3, <1>7, <1>8, <1>9 DEF Arrives

\* What the table will say stays what it is when the oldest of it is written.
LEMMA FinalStays ==
  ASSUME TypesInv, NEW p \in Procs, NEW d \in Deployments, Persist(p, d)
  PROVE  Final(p, d)' = Final(p, d)
<1>1. d \in Subjects /\ writes \in [Procs -> [Subjects -> Seq(Statuses)]] /\ db \in [Deployments -> Statuses]
  BY DEF TypesInv, WriteTypes, Subjects
<1>2. PICK w \in Seq(Statuses) : w = writes[p][d]
  BY <1>1
<1>3. PICK t : t = Tail(w)
  OBVIOUS
<1>4. PICK h : h = Head(w)
  OBVIOUS
<1>5. w # <<>> /\ writes' = [writes EXCEPT ![p][d] = t] /\ db' = [db EXCEPT ![d] = h]
  BY <1>2, <1>3, <1>4 DEF Persist
<1>6. writes'[p][d] = t /\ db'[d] = h
  BY <1>1, <1>5
<1>7. /\ t \in Seq(Statuses) /\ Len(w) \in Nat \ {0} /\ Len(t) = Len(w) - 1
      /\ \A i \in 1..Len(t) : t[i] = w[i+1]
      /\ h = w[1]
  BY <1>3, <1>4, <1>5, HeadTailProperties, EmptySeq, LenProperties
<1>8. t = <<>> <=> Len(t) = 0
  BY <1>7, EmptySeq
<1>9. CASE t = <<>>
  BY <1>2, <1>5, <1>6, <1>7, <1>8, <1>9 DEF Final
<1>10. CASE t # <<>>
  <2>1. t[Len(t)] = w[Len(w)]
    BY <1>7, <1>8, <1>10
  <2> QED BY <1>2, <1>5, <1>6, <1>10, <2>1 DEF Final
<1> QED BY <1>9, <1>10

\* What is asked for, permitted, or written into the table.
LEMMA TruthAsked ==
  ASSUME StatusInv, NEW p \in Procs, Operating(p)',
         \/ \E s \in Subjects : AskSteps(p, s)
         \/ \E d \in Deployments : AllowProcessRestart(p, d) \/ Persist(p, d)
  PROVE  Truthful(p)'
<1>1. TypesInv /\ KidsInv /\ Fitting /\ left \subseteq DOMAIN children
  BY DEF StatusInv, KillsInv, TypesInv, KidsInv, Stored
<1>2. UNCHANGED <<own, entry, at, todo, untold, children, registry, left>>
  BY DEF AskSteps, StartProcess, StopProcess, RestartProcess, KillProcess, AllowProcessRestart, Persist,
     ownerVars, subjectVars
<1>3. Truthful(p)
  BY <1>2 DEF StatusInv, Operating, Up
<1>4. CASE \E s \in Subjects : AskSteps(p, s)
  <2>1. own[p].status = "ready" /\ UNCHANGED <<db, writes>>
    BY <1>4 DEF AskSteps, StartProcess, StopProcess, RestartProcess, KillProcess, Asks, CanOperate, subjectVars
  <2>2. ASSUME NEW s \in Subjects
        PROVE  Stopping(p, s)' /\ Told(p, s)'
    <3>1. SameFor(p, s)
      BY <1>1, <1>2, <2>1 DEF SameFor, Of, By
    <3> QED BY <1>1, <1>3, <3>1, Stays DEF Truthful
  <2>3. Restoring(p)'
    BY <1>2, <1>3, <2>1 DEF Truthful, Restoring
  <2> QED BY <2>2, <2>3 DEF Truthful
<1>5. ASSUME NEW d \in Deployments, AllowProcessRestart(p, d) \/ Persist(p, d)
      PROVE  Truthful(p)'
  <2>1. queue' = queue
    BY <1>5 DEF AllowProcessRestart, Persist
  <2>2. Restoring(p)'
    BY <1>2, <1>3, <2>1 DEF Truthful, Restoring, Op
  <2>3. CASE AllowProcessRestart(p, d)
    <3>1. ASSUME NEW s \in Subjects
          PROVE  Stopping(p, s)' /\ Told(p, s)'
      <4>1. SameFor(p, s)
        BY <1>1, <1>2, <2>3 DEF SameFor, Of, By, AllowProcessRestart, subjectVars
      <4> QED BY <1>1, <1>3, <4>1, Stays DEF Truthful
    <3> QED BY <2>2, <3>1 DEF Truthful
  <2>4. CASE Persist(p, d)
    <3>1. \A s \in Subjects : Stopping(p, s)'
      BY <1>2, <1>3 DEF Truthful, Stopping, By
    <3>2. ASSUME NEW s \in Subjects, s # d
          PROVE  Told(p, s)'
      <4>1. writes'[p][s] = writes[p][s] /\ (s \in Deployments => db'[s] = db[s])
        BY <1>1, <2>4, <3>2 DEF Persist, TypesInv, WriteTypes
      <4>2. SameFor(p, s)
        BY <1>1, <1>2, <4>1 DEF SameFor, Of, By
      <4> QED BY <1>1, <1>3, <4>2, Stays DEF Truthful
    <3>3. Told(p, d)'
      <4>1. Final(p, d)' = Final(p, d)
        BY <1>1, <2>4, FinalStays
      <4>2. Told(p, d)
        <5>1. d \in Subjects
          BY DEF Subjects
        <5> QED BY <1>3, <5>1 DEF Truthful
      <4>3. ToldOf(p, d)'
        BY <1>2, <4>1, <4>2 DEF Told, ToldOf, Live, Alive, Of, By
      <4>4. UNCHANGED <<ItsOwn(d), Lives(p, d), HasEntry(p, d)>>
        BY <1>2 DEF ItsOwn, Lives, Live, Alive, HasEntry, HasExitCode, Of, By
      <4>5. ItsOwn(d)' => NotTold(p, d)'
        BY <1>2, <4>1, <4>2, <4>4 DEF Told, NotTold
      <4> QED BY <4>3, <4>5 DEF Told
    <3> QED BY <2>2, <3>1, <3>2, <3>3 DEF Truthful
  <2> QED BY <1>5, <2>3, <2>4
<1> QED BY <1>4, <1>5

\* A start of the recovery begins.
LEMMA TruthRecovers ==
  ASSUME StatusInv, NEW p \in Procs, Operating(p)', Recover(p)
  PROVE  Truthful(p)'
<1>1. /\ TypesInv /\ KidsInv /\ Fitting /\ left \subseteq DOMAIN children /\ Entombed(p)
      /\ QueueTypes /\ todo \in [Procs -> SUBSET Deployments]
  BY DEF StatusInv, KillsInv, KillAt, TypesInv, MemoryTypes, KidsInv, Stored
<1>2. /\ UNCHANGED <<own, entry, db, children, registry, left, writes, untold>>
      /\ Up(p) /\ own[p].acq = "recovering" /\ \A s \in Subjects : queue[p][s] = <<>>
  BY DEF Recover, Recovering, ownerVars, subjectVars
<1>3. Truthful(p)
  BY <1>2 DEF StatusInv, Operating, Up
<1>4. own[p].status = "recovering"
  BY <1>2, <1>3 DEF Truthful, Restoring, Operating
<1>5. \A s \in Subjects : at[p][s] = "idle"
  BY <1>1, <1>2 DEF QueueTypes
<1>6. PICK d \in todo[p] :
        /\ todo' = [todo EXCEPT ![p] = @ \ {d}]
        /\ IF CanOperate(p, FALSE, TRUE) /\ Launchable(p, d)
           THEN /\ Enqueue(p, [x \in {d} |-> [kind |-> "start", id |-> 0, maintenance |-> TRUE]])
                /\ at' = [at EXCEPT ![p][d] = "checking"]
           ELSE UNCHANGED <<queue, at>>
  BY Zenon DEF Recover
<1>7. d \in Deployments /\ d \in Subjects
  BY <1>1, <1>6 DEF Subjects
<1>8. CanOperate(p, FALSE, TRUE) /\ Launchable(p, d)
  BY <1>1, <1>4, <1>7, SupervisorConstants DEF CanOperate, Launchable, SourcePrevented, Prevented, Entombed
<1>9. PICK op \in Operations : op = [kind |-> "start", id |-> 0, maintenance |-> TRUE]
  BY DEF Operations
<1>10. Enqueue(p, [x \in {d} |-> op]) /\ at' = [at EXCEPT ![p][d] = "checking"]
  BY <1>6, <1>8, <1>9
<1>11. /\ queue'[p][d] = Append(queue[p][d], op)
       /\ \A x \in Subjects \ {d} : queue'[p][x] = queue[p][x]
  <2>1. {d} \in SUBSET Subjects /\ [x \in {d} |-> op] \in [{d} -> Operations]
    BY <1>7
  <2> QED BY <1>1, <1>10, <2>1, Enqueued
<1>12. at'[p][d] = "checking" /\ \A x \in Subjects \ {d} : at'[p][x] = at[p][x]
  BY <1>1, <1>7, <1>10 DEF QueueTypes
<1>13. Op(p, d)'.maintenance
  <2>1. queue[p][d] \in Seq(Operations) /\ queue[p][d] = <<>>
    BY <1>1, <1>2, <1>7 DEF QueueTypes
  <2>2. Head(queue'[p][d]) = op
    BY <1>11, <2>1, HeadTailAppend
  <2> QED BY <1>9, <2>2 DEF Op
<1>14. todo'[p] = todo[p] \ {d}
  BY <1>1, <1>6
<1>15. Restoring(p)'
  BY <1>2, <1>4, <1>5, <1>7, <1>12, <1>13 DEF Restoring
<1>16. ASSUME NEW s \in Subjects, s # d
       PROVE  Stopping(p, s)' /\ Told(p, s)'
  <2>1. SameFor(p, s)
    BY <1>1, <1>2, <1>12, <1>14, <1>16 DEF SameFor, Of, By
  <2> QED BY <1>1, <1>3, <2>1, Stays DEF Truthful
<1>17. Stopping(p, d)'
  BY <1>2, <1>3, <1>5, <1>7, <1>12 DEF Truthful, Stopping, By
<1>18. Told(p, d)'
  <2>1. ToldOf(p, d)
    BY <1>3, <1>7 DEF Truthful, Told
  <2>2. ToldOf(p, d)'
    BY <1>2, <2>1 DEF ToldOf, Final, Live, Alive, Of, By
  <2>3. NotTold(p, d)'
    BY <1>2, <1>4, <1>12 DEF NotTold
  <2> QED BY <2>2, <2>3 DEF Told
<1> QED BY <1>15, <1>16, <1>17, <1>18 DEF Truthful

\* One that is skipped is passed over.
LEMMA TruthSkips ==
  ASSUME StatusInv, NEW p \in Procs, Operating(p)', RecoverySkips(p)
  PROVE  Truthful(p)'
<1>1. /\ TypesInv /\ KidsInv /\ Fitting /\ left \subseteq DOMAIN children
      /\ todo \in [Procs -> SUBSET Deployments] /\ untold \in [Procs -> SUBSET Deployments]
  BY DEF StatusInv, KillsInv, TypesInv, MemoryTypes, LaunchTypes, KidsInv, Stored
<1>2. UNCHANGED <<own, entry, db, children, registry, left, writes, queue, at>>
  BY DEF RecoverySkips, ownerVars, subjectVars
<1>3. Truthful(p)
  BY <1>2 DEF StatusInv, Operating, Up
<1>4. PICK d \in todo[p] :
        todo' = [todo EXCEPT ![p] = @ \ {d}] /\ untold' = [untold EXCEPT ![p] = @ \cup ({d} \cap Deployments)]
  BY DEF RecoverySkips, PassOver
<1>5. todo'[p] = todo[p] \ {d} /\ untold'[p] = untold[p] \cup {d}
  BY <1>1, <1>4
<1>6. Restoring(p)'
  BY <1>2, <1>3, <1>5 DEF Truthful, Restoring, Op
<1>7. ASSUME NEW s \in Subjects
      PROVE  Stopping(p, s)' /\ Told(p, s)'
  <2>1. SameFor(p, s)
    BY <1>1, <1>2, <1>5 DEF SameFor, Of, By
  <2> QED BY <1>1, <1>3, <2>1, Stays DEF Truthful
<1> QED BY <1>6, <1>7 DEF Truthful

\* What is written last is what the table will say.
LEMMA WriteFinal ==
  ASSUME WriteTypes, NEW p \in Procs, NEW d \in Deployments, NEW st \in Statuses, writes' = Written(p, d, st)
  PROVE  Final(p, d)' = st
<1>1. d \in Subjects /\ d \notin Private
  BY SupervisorConstants DEF Subjects
<1>2. PICK w \in Seq(Statuses) : w = writes[p][d]
  BY <1>1 DEF WriteTypes
<1>3. PICK a : a = Append(w, st)
  OBVIOUS
<1>4. writes' = [writes EXCEPT ![p][d] = a]
  BY <1>1, <1>2, <1>3 DEF Written
<1>5. writes'[p][d] = a
  BY <1>1, <1>4 DEF WriteTypes
<1>6. a # <<>> /\ Len(a) = Len(w) + 1 /\ a[Len(w) + 1] = st
  BY <1>3, AppendProperties
<1> QED BY <1>5, <1>6 DEF Final

\* An operation keeps the rest; what it does to its subject is to be shown.
LEMMA TruthOperated ==
  ASSUME StatusInv, NEW p \in Procs, NEW s \in Subjects, OperationSteps(p, s), Operating(p)',
         Stopping(p, s)', Told(p, s)',
         own[p].status = "recovering" =>
           \/ at'[p][s] \in {"idle", "failing"}
           \/ at'[p][s] \in {"preparing", "spawning"} /\ at[p][s] \in {"checking", "preparing"} /\ queue' = queue
  PROVE  Truthful(p)'
<1>1. TypesInv /\ Fitting /\ Second(p)
  BY DEF StatusInv, KillsInv, TypesInv
<1>2. UNCHANGED own
  BY WritesUnderway DEF OperationSteps
<1>3. Truthful(p)
  BY <1>2 DEF StatusInv, Operating, Up
<1>4. UNCHANGED todo
  BY DEF OperationSteps, Operate, TurnRefused, BeginStart, Check, Prepare, Spawn, BeginStop, StopOther,
     Terminated, Failed, Stopped,
     ReleaseSource, Relaunch, OperationFails, CheckFails, PrepareFails, SpawnFails,
     TerminateFails, ReleaseFails
<1>5. ASSUME NEW x \in Subjects, x # s
      PROVE  /\ Stopping(p, x)' /\ Told(p, x)'
             /\ at'[p][x] = at[p][x] /\ queue'[p][x] = queue[p][x]
  <2>1. SameFor(p, x) /\ at'[p][x] = at[p][x] /\ queue'[p][x] = queue[p][x]
    BY <1>1, <1>5, SameElsewhere
  <2> QED BY <1>1, <1>3, <2>1, Stays DEF Truthful
<1>6. Restoring(p)'
  <2>1. own'[p].status = "ready" => own'[p].acq # "recovering" /\ todo'[p] = {}
    BY <1>2, <1>3, <1>4 DEF Truthful, Restoring
  <2>2. ASSUME own'[p].status = "recovering", NEW x \in Subjects
        PROVE  /\ at'[p][x] \in {"idle", "checking", "preparing", "spawning", "failing"}
               /\ at'[p][x] \in {"checking", "preparing", "spawning"} => Op(p, x)'.maintenance
    <3>1. CASE x = s
      BY <1>2, <1>3, <2>2, <3>1 DEF Truthful, Restoring, Op
    <3>2. CASE x # s
      BY <1>2, <1>3, <1>5, <2>2, <3>2 DEF Truthful, Restoring, Op
    <3> QED BY <3>1, <3>2
  <2> QED BY <2>1, <2>2 DEF Restoring
<1> QED BY <1>5, <1>6 DEF Truthful

\* The steps that only take an operation further, or end it.
LEMMA TruthPassing ==
  ASSUME StatusInv, NEW p \in Procs, NEW s \in Subjects, Operating(p)',
         \/ TurnRefused(p, s) \/ BeginStart(p, s) \/ Prepare(p, s) \/ Failed(p, s) \/ Stopped(p, s)
         \/ ReleaseSource(p, s) \/ ReleaseFails(p, s) \/ Relaunch(p, s)
  PROVE  Truthful(p)'
<1>1. TypesInv /\ Fitting /\ Entombed(p) /\ at \in [Procs -> [Subjects -> Steps]] /\ left \subseteq DOMAIN children
  BY DEF StatusInv, KillsInv, KillAt, TypesInv, QueueTypes, KidsInv, Stored
<1>2. OperationSteps(p, s) /\ UNCHANGED <<own, todo, untold, entry, writes, subjectVars>>
  BY DEF OperationSteps, Operate, TurnRefused, BeginStart, Prepare, Failed, Stopped, ReleaseSource, Relaunch,
     OperationFails, ReleaseFails, ownerVars
<1>3. Truthful(p) /\ Operating(p)
  BY <1>2 DEF StatusInv, Operating, Up
<1> DEFINE Turned == /\ at[p][s] # "terminating" /\ at'[p][s] # "terminating"
                     /\ own[p].status = "recovering" =>
                          \/ at[p][s] \in {"idle", "failing"} /\ at'[p][s] = "idle"
                          \/ at[p][s] = "preparing" /\ at'[p][s] = "spawning" /\ queue' = queue
<1>4. \A step \in Steps : at' = [at EXCEPT ![p][s] = step] => at'[p][s] = step
  BY <1>1
<1>5. CASE TurnRefused(p, s) \/ Failed(p, s)
  <2>1. at' = [at EXCEPT ![p][s] = "idle"] /\ at[p][s] \in {"idle", "failing"}
    BY <1>5 DEF TurnRefused, Failed, FinishFailed, Underway
  <2>2. Turned
    BY <1>4, <2>1 DEF Steps
  <2>3. SameFor(p, s)
    BY <1>1, <1>2, <2>1, <2>2 DEF SameFor, subjectVars, Of, By
  <2> QED BY <1>1, <1>2, <1>3, <2>2, <2>3, Stays, TruthOperated DEF Truthful
<1>6. CASE Prepare(p, s)
  <2>1. /\ at[p][s] = "preparing" /\ at' = [at EXCEPT ![p][s] = IF Prevented(p, s) THEN "idle" ELSE "spawning"]
        /\ ~Prevented(p, s) => queue' = queue
    BY <1>6 DEF Prepare, Goto, Finish, Underway
  <2>2. own[p].status = "recovering" => ~Prevented(p, s)
    BY <1>1 DEF Entombed, Prevented
  <2>3. Turned
    BY <1>4, <2>1, <2>2 DEF Steps
  <2>4. SameFor(p, s)
    BY <1>1, <1>2, <2>1, <2>3 DEF SameFor, subjectVars, Of, By
  <2> QED BY <1>1, <1>2, <1>3, <2>3, <2>4, Stays, TruthOperated DEF Truthful
<1>7. CASE BeginStart(p, s) \/ Stopped(p, s) \/ ReleaseSource(p, s) \/ ReleaseFails(p, s) \/ Relaunch(p, s)
  <2>1. \E step \in {"idle", "checking", "waiting", "releasing"} : at' = [at EXCEPT ![p][s] = step]
    BY <1>7 DEF BeginStart, Stopped, ReleaseSource, ReleaseFails, Relaunch, EnterLaunch, Goto, Finish, FinishFailed
  <2>2. at[p][s] \in {"idle", "persisting", "releasing", "waiting"} /\ at'[p][s] # "terminating"
    BY <1>4, <1>7, <2>1 DEF BeginStart, Stopped, ReleaseSource, ReleaseFails, Relaunch, Underway, Steps
  <2>3. own[p].status # "recovering"
    <3>1. CASE BeginStart(p, s)
      BY <3>1 DEF BeginStart, CanOperate
    <3>2. CASE ~BeginStart(p, s)
      BY <1>3, <1>7, <3>2 DEF Truthful, Restoring, Stopped, ReleaseSource, ReleaseFails, Relaunch, Underway
    <3> QED BY <3>1, <3>2
  <2>4. SameFor(p, s)
    BY <1>1, <1>2, <2>2, <2>3 DEF SameFor, subjectVars, Of, By
  <2> QED BY <1>1, <1>2, <1>3, <2>3, <2>4, Stays, TruthOperated DEF Truthful
<1> QED BY <1>5, <1>6, <1>7

\* A launch that fails without a word: that of a recovery is passed over.
LEMMA TruthGivenUp ==
  ASSUME StatusInv, NEW p \in Procs, NEW s \in Subjects, Operating(p)', CheckFails(p, s) \/ SpawnFails(p, s)
  PROVE  Truthful(p)'
<1>1. /\ TypesInv /\ Fitting /\ at \in [Procs -> [Subjects -> Steps]] /\ left \subseteq DOMAIN children
      /\ untold \in [Procs -> SUBSET Deployments]
  BY DEF StatusInv, KillsInv, TypesInv, QueueTypes, LaunchTypes, KidsInv, Stored
<1>2. OperationSteps(p, s) /\ UNCHANGED <<own, todo, entry, writes, subjectVars>>
  BY DEF OperationSteps, OperationFails, CheckFails, SpawnFails, ownerVars
<1>3. Truthful(p) /\ Operating(p)
  BY <1>2 DEF StatusInv, Operating, Up
<1>4. /\ at[p][s] \in {"checking", "spawning"} /\ at' = [at EXCEPT ![p][s] = "idle"]
      /\ PassOver(p, IF Op(p, s).maintenance THEN {s} ELSE {})
  BY DEF CheckFails, SpawnFails, Underway, Finish, FinishFailed
<1>5. at'[p][s] = "idle"
  BY <1>1, <1>4 DEF Steps
<1>6. own[p].status = "recovering" => Op(p, s).maintenance
  BY <1>3, <1>4 DEF Truthful, Restoring
<1>7. untold'[p] = untold[p] \cup ((IF Op(p, s).maintenance THEN {s} ELSE {}) \cap Deployments)
  BY <1>1, <1>4 DEF PassOver
<1>8. /\ untold[p] \subseteq untold'[p]
      /\ own[p].status = "recovering" /\ s \in Deployments => s \in untold'[p]
  BY <1>6, <1>7
<1>9. SameFor(p, s)
  BY <1>1, <1>2, <1>4, <1>5, <1>8 DEF SameFor, subjectVars, Of, By
<1> QED BY <1>1, <1>2, <1>3, <1>5, <1>9, Stays, TruthOperated DEF Truthful

\* The look at the store and the registry: whoever the table is said to have is there.
LEMMA TruthChecked ==
  ASSUME StatusInv, NEW p \in Procs, NEW s \in Subjects, Operating(p)', Check(p, s)
  PROVE  Truthful(p)'
<1>1. /\ TypesInv /\ KidsInv /\ Stored /\ Fitting /\ Entombed(p) /\ MarkedBy(p) /\ left \subseteq DOMAIN children
      /\ at \in [Procs -> [Subjects -> Steps]] /\ WriteTypes
      /\ registry \in [Subjects -> [child : Nat, status : Statuses \cup {"none"}]]
      /\ untold \in [Procs -> SUBSET Deployments]
  BY DEF StatusInv, KillsInv, KillAt, TypesInv, QueueTypes, LaunchTypes, KidsInv, OwnerInv, Marked, Stored
<1>2. OperationSteps(p, s) /\ UNCHANGED <<own, todo, entry, subjectVars>> /\ at[p][s] = "checking"
  BY DEF OperationSteps, Operate, Check, Underway, ownerVars
<1>3. Truthful(p) /\ Operating(p)
  BY <1>2 DEF StatusInv, Operating, Up
<1>4. MayLaunch(p, s) <=> ~HasEntry(p, s)
  BY <1>2, <1>3 DEF Truthful, Restoring, Operating, CanOperate, MayLaunch
<1>5. own[p].status = "recovering" => ~Prevented(p, s)
  BY <1>1 DEF Entombed, Prevented
<1> DEFINE Taken == ~HasEntry(p, s) /\ ~LaunchedAlready(s) /\ ~Prevented(p, s) /\ Locked(s)
           Takes == ~HasEntry(p, s) /\ ~LaunchedAlready(s) /\ ~Prevented(p, s) /\ ~Locked(s)
<1>6. /\ HasEntry(p, s) \/ ~(LaunchedAlready(s) \/ Taken) => UNCHANGED <<writes, untold>>
      /\ Taken => writes' = Written(p, s, "provisioning") /\ PassOver(p, {s})
      /\ Takes => queue' = queue
      /\ at' = [at EXCEPT ![p][s] = IF Takes THEN "preparing" ELSE "idle"]
  BY <1>4 DEF Check, Goto, Finish
<1>7. at'[p][s] = IF Takes THEN "preparing" ELSE "idle"
  BY <1>1, <1>6 DEF Steps
<1>8. Stopping(p, s)'
  BY <1>2, <1>3 DEF Truthful, Stopping, subjectVars, By
<1>9. UNCHANGED <<Lives(p, s), ItsOwn(s), HasEntry(p, s)>>
  BY <1>2 DEF Lives, Live, Alive, ItsOwn, HasEntry, HasExitCode, Of, By, subjectVars
<1>10. CASE HasEntry(p, s)
  <2>1. ASSUME s \in Deployments
        PROVE  ToldOf(p, s)' /\ NotTold(p, s)'
    <3>1. ToldOf(p, s)
      BY <1>3, <2>1 DEF Truthful, Told
    <3>2. ToldOf(p, s)'
      BY <1>2, <1>6, <1>10, <3>1 DEF ToldOf, Final, Live, Alive, Of, By, subjectVars
    <3> QED BY <1>9, <1>10, <3>2 DEF NotTold
  <2> QED BY <1>2, <1>7, <1>8, <1>10, <2>1, TruthOperated DEF Told
<1>13. ASSUME ~HasEntry(p, s)
       PROVE  ~Lives(p, s)
  <2>1. ASSUME NEW c \in DOMAIN children, Live(c), By(c) = p, Of(c) = s
        PROVE  HasEntry(p, s)
    <3>1. Held(c) /\ c # 0
      BY <1>1, KidType DEF KidsInv
    <3> QED BY <1>3, <2>1, <3>1 DEF Held, Operating, HasEntry, HasExitCode, Live, Alive
  <2> QED BY <1>13, <2>1 DEF Lives
<1>11. CASE ~HasEntry(p, s) /\ LaunchedAlready(s)
  <2>1. ~Lives(p, s)
    BY <1>11, <1>13
  <2>2. ASSUME s \in Deployments, ItsOwn(s)
        PROVE  FALSE
    <3>1. PICK c \in DOMAIN children : c = registry[s].child /\ Of(c) = s /\ children[c].alive /\ c # 0
      BY <1>1, <1>11 DEF Fitting, LaunchedAlready, Alive
    <3>2. Attributed(c)
      BY <1>1 DEF KidsInv
    <3>3. By(c) = p
      BY <1>1, <1>3, <2>2, <3>1, <3>2 DEF Attributed, ItsOwn, MarkedBy, Of
    <3>4. children[c].killed
      BY <2>1, <3>1, <3>3 DEF Lives, Live, Alive
    <3>5. c = entry[p][s].child
      BY <1>3, <3>1, <3>3 DEF Truthful, Stopping
    <3> QED BY <1>2, <1>3, <1>11, <3>1, <3>4, <3>5 DEF Truthful, Stopping, LaunchedAlready
  <2>3. Told(p, s)'
    <3>1. ToldOf(p, s)'
      BY <1>2, <2>1 DEF ToldOf, Lives, Live, Alive, Of, By, subjectVars
    <3> QED BY <1>9, <2>2, <3>1 DEF Told
  <2> QED BY <1>2, <1>7, <1>8, <1>11, <2>3, TruthOperated
<1>12. CASE Taken
  <2>1. ~Lives(p, s)
    BY <1>12, <1>13
  <2>2. s \in Deployments => s \in untold'[p]
    BY <1>1, <1>6, <1>12 DEF PassOver
  <2>3. ToldOf(p, s)'
    BY <1>2, <2>1 DEF ToldOf, Lives, Live, Alive, Of, By, subjectVars
  <2> QED BY <1>2, <1>7, <1>8, <1>12, <2>2, <2>3, TruthOperated DEF Told, NotTold
<1>14. CASE ~HasEntry(p, s) /\ ~LaunchedAlready(s) /\ ~Taken
  <2>1. own[p].status = "recovering" => Takes
    BY <1>5, <1>14
  <2>2. SameFor(p, s)
    BY <1>1, <1>2, <1>6, <1>7, <1>14, <2>1 DEF SameFor, subjectVars, Of, By
  <2>3. own[p].status = "recovering" => at'[p][s] = "preparing" /\ queue' = queue
    BY <1>6, <1>7, <2>1
  <2> HIDE DEF Taken, Takes
  <2> QED BY <1>1, <1>2, <1>3, <2>2, <2>3, Stays, TruthOperated DEF Truthful
<1> QED BY <1>10, <1>11, <1>12, <1>14

\* What fails, and what is launched: whatever there was is gone.
LEMMA TruthLaunched ==
  ASSUME StatusInv, NEW p \in Procs, NEW s \in Subjects, Operating(p)', PrepareFails(p, s) \/ Spawn(p, s)
  PROVE  Truthful(p)'
<1>1. /\ TypesInv /\ KidsInv /\ Stored /\ Fitting /\ Cleared(p, s) /\ WriteTypes
      /\ at \in [Procs -> [Subjects -> Steps]]
      /\ registry \in [Subjects -> [child : Nat, status : Statuses \cup {"none"}]]
      /\ entry \in [Procs -> [Subjects -> [child : Nat, stopping : BOOLEAN]]]
  BY DEF StatusInv, KillsInv, TypesInv, QueueTypes, KidsInv, Stored
<1>2. OperationSteps(p, s) /\ UNCHANGED <<own, todo, left, db>> /\ at[p][s] \in {"preparing", "spawning"}
  BY DEF OperationSteps, Operate, OperationFails, PrepareFails, Spawn, Underway, ownerVars, subjectVars
<1>3. Truthful(p) /\ Operating(p)
  BY <1>2 DEF StatusInv, Operating, Up
<1>4. ~Lives(p, s)
  BY <1>1, <1>2 DEF Cleared, Clearing, Lives
<1>5. CASE PrepareFails(p, s)
  <2>1. UNCHANGED <<children, registry, entry>> /\ Write(p, s, "error") /\ at' = [at EXCEPT ![p][s] = "failing"]
    BY <1>5 DEF PrepareFails, Goto, subjectVars
  <2>2. at'[p][s] = "failing"
    BY <1>1, <2>1 DEF Steps
  <2>3. Stopping(p, s)'
    BY <1>2, <1>3, <2>1, <2>2 DEF Truthful, Stopping, By
  <2>4. ASSUME s \in Deployments
        PROVE  ToldOf(p, s)' /\ NotTold(p, s)'
    <3>1. Final(p, s)' = "error"
      BY <1>1, <2>1, <2>4, WriteFinal DEF Statuses, Write
    <3>2. ToldOf(p, s)'
      BY <1>4, <2>1 DEF ToldOf, Lives, Live, Alive, Of, By
    <3> QED BY <3>1, <3>2 DEF NotTold
  <2> QED BY <1>2, <2>2, <2>3, <2>4, TruthOperated DEF Told
<1>6. CASE Spawn(p, s)
  <2>1. PICK n : n = Len(children) + 1
    OBVIOUS
  <2>2. /\ DOMAIN children' = DOMAIN children \cup {n} /\ n \notin DOMAIN children /\ n \in Nat \ {0}
        /\ \A c \in DOMAIN children : children'[c] = children[c]
        /\ children'[n] \in Kid /\ Of(n)' = s /\ By(n)' = p /\ children'[n].alive
        /\ ~children'[n].killed /\ children'[n].line = "none" /\ ~children'[n].seen
    BY <1>1, <1>6, <2>1, Launched
  <2>3. /\ entry' = [entry EXCEPT ![p][s] = [child |-> n, stopping |-> FALSE]]
        /\ registry' = [registry EXCEPT ![s] = [child |-> n, status |-> "provisioning"]]
        /\ Write(p, s, "provisioning") /\ at' = [at EXCEPT ![p][s] = "idle"]
    BY <1>6, <2>1 DEF Spawn, Finish
  <2>4. /\ entry'[p][s] = [child |-> n, stopping |-> FALSE]
        /\ registry'[s] = [child |-> n, status |-> "provisioning"] /\ at'[p][s] = "idle"
    BY <1>1, <2>3 DEF Steps
  <2>5. Stopping(p, s)'
    BY <2>2, <2>4 DEF Stopping
  <2>6. Live(n)'
    BY <2>2 DEF Live, Alive
  <2>7. ASSUME s \in Deployments
        PROVE  ToldOf(p, s)' /\ NotTold(p, s)'
    <3>1. Final(p, s)' = "provisioning"
      BY <1>1, <2>3, <2>7, WriteFinal DEF Statuses, Write
    <3>2. ASSUME NEW c \in DOMAIN children', Live(c)', By(c)' = p, Of(c)' = s
          PROVE  c = n
      BY <1>4, <2>2, <3>2 DEF Lives, Live, Alive, Of, By
    <3>3. ToldOf(p, s)'
      BY <2>2, <3>1, <3>2 DEF ToldOf
    <3>4. Lives(p, s)'
      BY <2>2, <2>6 DEF Lives
    <3> QED BY <3>3, <3>4 DEF NotTold
  <2> QED BY <1>2, <2>4, <2>5, <2>7, TruthOperated DEF Told
<1> QED BY <1>5, <1>6

\* A stop kills what there is, and says so when it is gone, or is not.
LEMMA TruthStopped ==
  ASSUME StatusInv, NEW p \in Procs, NEW s \in Subjects, Operating(p)',
         BeginStop(p, s) \/ StopOther(p, s) \/ Terminated(p, s) \/ TerminateFails(p, s)
  PROVE  Truthful(p)'
<1>1. /\ TypesInv /\ KidsInv /\ Stored /\ Fitting /\ KillAt(p) /\ WriteTypes
      /\ at \in [Procs -> [Subjects -> Steps]]
      /\ registry \in [Subjects -> [child : Nat, status : Statuses \cup {"none"}]]
      /\ entry \in [Procs -> [Subjects -> [child : Nat, stopping : BOOLEAN]]]
  BY DEF StatusInv, KillsInv, TypesInv, QueueTypes, KidsInv, Stored
<1>2. OperationSteps(p, s) /\ UNCHANGED <<own, todo, left, db>>
  BY DEF OperationSteps, Operate, OperationFails, BeginStop, StopOther, Terminated, TerminateFails, ownerVars
<1>3. Truthful(p) /\ Operating(p) /\ StoppedFirst(p, s)
  BY <1>1, <1>2 DEF StatusInv, Operating, Up, KillAt
<1>4. CASE BeginStop(p, s)
  <2>1. own[p].status # "recovering"
    BY <1>4 DEF BeginStop, CanOperate
  <2>2. PICK S : S = IF Alive(entry[p][s].child) THEN {entry[p][s].child} ELSE {c \in {registry[s].child} : Alive(c)}
    OBVIOUS
  <2>3. PICK b \in BOOLEAN : b = (entry[p][s].stopping \/ entry[p][s].child # 0)
    OBVIOUS
  <2>4. /\ Kill(S) /\ UNCHANGED <<registry, writes>>
        /\ entry' = [entry EXCEPT ![p][s].stopping = b] /\ at' = [at EXCEPT ![p][s] = "terminating"]
    BY <1>4, <2>2, <2>3 DEF BeginStop, Goto
  <2>5. /\ entry'[p][s].child = entry[p][s].child /\ entry'[p][s].stopping = b
        /\ at'[p][s] = "terminating"
    BY <1>1, <2>4 DEF Steps
  <2>6. /\ DOMAIN children' = DOMAIN children
        /\ \A c \in DOMAIN children : /\ Of(c)' = Of(c) /\ By(c)' = By(c)
                                      /\ children'[c].alive = children[c].alive
                                      /\ children'[c].killed <=> children[c].killed \/ c \in S
    BY <1>1, <2>4, KillLasts
  <2>7. Stopping(p, s)'
    <3>1. registry'[s].child # 0 /\ children'[registry'[s].child].by = p => registry'[s].child = entry'[p][s].child
      BY <1>1, <1>3, <2>4, <2>5, <2>6 DEF Truthful, Stopping, Fitting, By
    <3> QED BY <2>3, <2>5, <3>1 DEF Stopping, By
  <2>8. ASSUME NEW c \in DOMAIN children', Live(c)', By(c)' = p, Of(c)' = s
        PROVE  FALSE
    <3>1. c \in DOMAIN children /\ Live(c) /\ By(c) = p /\ Of(c) = s /\ c \notin S
      BY <2>6, <2>8 DEF Live, Alive
    <3>2. Held(c)
      BY <1>1, <3>1 DEF KidsInv
    <3> QED BY <1>3, <2>2, <3>1, <3>2 DEF Held, Operating, Live
  <2>9. ToldOf(p, s)' /\ NotTold(p, s)'
    BY <2>5, <2>8 DEF ToldOf, NotTold
  <2> QED BY <1>2, <2>1, <2>7, <2>9, TruthOperated DEF Told
<1>5. CASE Terminated(p, s) \/ TerminateFails(p, s)
  <2>1. at[p][s] = "terminating" /\ UNCHANGED children
    BY <1>5 DEF Terminated, TerminateFails, Underway
  <2>2. own[p].status # "recovering" /\ ~Lives(p, s)
    BY <1>3, <2>1 DEF Truthful, Restoring, StoppedFirst
  <2>3. PICK st \in {"stopped", "error"} : Write(p, s, st)
    BY <1>5 DEF Terminated, TerminateFails
  <2>4. Told(p, s)'
    <3>1. ASSUME s \in Deployments
          PROVE  Final(p, s)' = st
      BY <1>1, <2>3, <3>1, WriteFinal DEF Statuses, Write
    <3>2. ToldOf(p, s)'
      BY <2>1, <2>2 DEF ToldOf, Lives, Live, Alive, Of, By
    <3> QED BY <3>1, <3>2 DEF Told, NotTold
  <2>5. CASE Terminated(p, s)
    <3>1. registry'[s] = NoRegistry /\ entry'[p][s] = NoEntry
      BY <1>1, <2>5 DEF Terminated
    <3>2. Stopping(p, s)'
      BY <3>1 DEF Stopping, NoRegistry, NoEntry
    <3> QED BY <1>2, <2>2, <2>4, <3>2, TruthOperated
  <2>6. CASE TerminateFails(p, s)
    <3>1. PICK its : its = entry[p][s].child
      OBVIOUS
    <3>2. /\ registry' = [registry EXCEPT ![s] =
               IF its # 0 /\ ~children[its].seen THEN [child |-> its, status |-> "error"] ELSE @]
          /\ UNCHANGED entry /\ at' = [at EXCEPT ![p][s] = "failing"]
      BY <2>6, <3>1 DEF TerminateFails, Goto
    <3>3. at'[p][s] = "failing"
      BY <1>1, <3>2 DEF Steps
    <3>4. its # 0 => its \in DOMAIN children /\ Of(its) = s /\ By(its) = p
      BY <1>1, <3>1 DEF Fitting
    <3>5. its # 0 /\ children[its].seen => ~children[its].alive
      BY <1>1, <1>3, <3>4 DEF KidsInv, Held, Operating
    <3>6. Stopping(p, s)'
      <4>1. CASE its # 0 /\ ~children[its].seen
        <5>1. registry'[s] = [child |-> its, status |-> "error"]
          BY <1>1, <3>2, <4>1
        <5> QED BY <1>3, <2>1, <3>1, <3>2, <4>1, <5>1 DEF Truthful, Stopping, By
      <4>2. CASE ~(its # 0 /\ ~children[its].seen)
        <5>1. registry'[s] = registry[s]
          BY <1>1, <3>2, <4>2
        <5> QED BY <1>3, <2>1, <3>1, <3>2, <3>5, <4>2, <5>1 DEF Truthful, Stopping, By
      <4> QED BY <4>1, <4>2
    <3> QED BY <1>2, <2>2, <2>4, <3>3, <3>6, TruthOperated
  <2> QED BY <1>5, <2>5, <2>6
<1>6. CASE StopOther(p, s)
  <2>1. /\ at[p][s] = "terminating" /\ ~Alive(entry[p][s].child)
        /\ UNCHANGED <<registry, entry, queue, at, writes, untold>>
    BY <1>6 DEF StopOther, Underway
  <2>2. own[p].status # "recovering" /\ ~Lives(p, s)
    BY <1>3, <2>1 DEF Truthful, Restoring, StoppedFirst
  <2>3. PICK S : Kill(S)
    BY <1>6 DEF StopOther
  <2>4. /\ DOMAIN children' = DOMAIN children
        /\ \A c \in DOMAIN children : /\ Of(c)' = Of(c) /\ By(c)' = By(c)
                                      /\ children'[c].alive = children[c].alive
                                      /\ children'[c].killed <=> children[c].killed \/ c \in S
    BY <1>1, <2>3, KillLasts
  <2>5. Stopping(p, s)'
    <3>1. registry[s].child # 0 /\ By(registry[s].child)' = p => registry[s].child = entry[p][s].child
      <4>1. CASE registry[s].child # 0
        <5>1. registry[s].child \in DOMAIN children
          BY <1>1, <4>1 DEF Fitting
        <5>2. By(registry[s].child)' = By(registry[s].child)
          BY <2>1, <2>4, <5>1 DEF By
        <5> QED BY <1>3, <4>1, <5>2 DEF Truthful, Stopping
      <4> QED BY <4>1
    <3>2. entry[p][s].child # 0 => ~children'[entry[p][s].child].alive
      BY <1>1, <2>1, <2>4 DEF Fitting, Alive
    <3> QED BY <2>1, <3>1, <3>2 DEF Stopping, By
  <2>6. ~Lives(p, s)'
    <3>1. \A c \in DOMAIN children : Live(c)' => Live(c)
      BY <2>4 DEF Live, Alive
    <3> QED BY <2>2, <2>4, <3>1 DEF Lives
  <2>7. ToldOf(p, s)' /\ NotTold(p, s)'
    BY <2>1, <2>6 DEF ToldOf, NotTold, Lives
  <2> QED BY <1>2, <2>2, <2>5, <2>7, TruthOperated DEF Told
<1> QED BY <1>4, <1>5, <1>6

\* What a child of an owner does, and what the owner hears of it: a line or an exit
\* of a child that is not the current one any more is not written.
LEMMA TruthHeard ==
  ASSUME StatusInv, NEW p \in Procs, NEW c \in DOMAIN children, By(c) = p, ChildSteps(c), Operating(p)'
  PROVE  Truthful(p)'
<1>1. /\ TypesInv /\ KidsInv /\ Stored /\ Fitting /\ MarkedBy(p) /\ WriteTypes /\ left \subseteq DOMAIN children
      /\ registry \in [Subjects -> [child : Nat, status : Statuses \cup {"none"}]]
      /\ writes \in [Procs -> [Subjects -> Seq(Statuses)]]
      /\ entry \in [Procs -> [Subjects -> [child : Nat, stopping : BOOLEAN]]]
      /\ untold \in [Procs -> SUBSET Deployments]
      /\ \A e \in DOMAIN children : Held(e) /\ e # 0
  BY KidType DEF StatusInv, KillsInv, TypesInv, WriteTypes, LaunchTypes, KidsInv, Stored, OwnerInv, Marked
<1>2. UNCHANGED <<own, todo, entry, queue, at, left, db>>
  BY DEF ChildSteps, Announces, Killed, Crashes, Dies, Listening, Exited, OperatorEnds, ownerVars, memoryVars
<1>3. Truthful(p) /\ Operating(p) /\ Up(p)
  BY <1>2 DEF StatusInv, Operating, Up
<1>4. ~OperatorEnds(c)
  BY <1>1, <1>3 DEF OperatorEnds, MarkedBy, Up
<1>5. /\ DOMAIN children' = DOMAIN children
      /\ \A e \in DOMAIN children \ {c} : children'[e] = children[e]
      /\ Of(c)' = Of(c) /\ By(c)' = By(c)
      /\ \/ Announces(c) \/ Listening(c) \/ Exited(c)
         \/ ~children'[c].alive /\ children'[c].line = children[c].line /\ children'[c].seen = children[c].seen
      /\ Announces(c) \/ Listening(c) \/ Exited(c) =>
           children'[c].alive = children[c].alive /\ children'[c].killed = children[c].killed
      /\ Announces(c) \/ Listening(c) => children'[c].seen = children[c].seen
      /\ Exited(c) => children'[c].seen /\ children'[c].line = children[c].line
      /\ Listening(c) => children'[c].line = "read"
      /\ Announces(c) => children'[c].line = "printed" /\ children[c].line = "none"
  BY <1>1, ChildLasts DEF ChildSteps
<1>6. \A e \in DOMAIN children : Of(e)' = Of(e) /\ By(e)' = By(e)
  BY <1>5 DEF Of, By
<1>7. PICK s \in Subjects : s = Of(c)
  BY <1>1, KidType
<1>8. \A e \in DOMAIN children : Live(e) /\ By(e) = p =>
        entry[p][Of(e)].child = e /\ ~entry[p][Of(e)].stopping /\ ~children[e].seen
  BY <1>1, <1>3 DEF Held, Live, Alive
<1>9. /\ entry[p][s].child # 0 => entry[p][s].child \in DOMAIN children
      /\ registry[s].child # 0 => registry[s].child \in DOMAIN children
  BY <1>1 DEF Fitting
<1>10. Restoring(p)'
  BY <1>2, <1>3 DEF Truthful, Restoring, Op
<1>11. ASSUME NEW x \in Subjects, x # s
       PROVE  Stopping(p, x)' /\ Told(p, x)'
  <2>1. UNCHANGED <<writes, untold>> \/ \E st : Write(p, s, st)
    BY <1>7 DEF ChildSteps, Announces, Killed, Crashes, Dies, Listening, Exited, OperatorEnds, memoryVars, By, Of
  <2>2. writes' = writes \/ \E y : writes' = [writes EXCEPT ![p][s] = y]
    BY <2>1 DEF Write, Written
  <2>6. x \in untold[p] => x \in untold'[p]
    BY <1>1, <1>11, <2>1 DEF Write
  <2>3. registry' = registry \/ \E y : registry' = [registry EXCEPT ![s] = y]
    BY <1>7 DEF ChildSteps, Announces, Killed, Crashes, Dies, Listening, Exited, OperatorEnds, Of
  <2>4. writes'[p][x] = writes[p][x] /\ registry'[x] = registry[x]
    BY <1>1, <1>11, <2>2, <2>3
  <2>5. SameFor(p, x)
    BY <1>1, <1>2, <1>5, <1>6, <1>7, <1>11, <2>4, <2>6 DEF SameFor
  <2> QED BY <1>1, <1>3, <2>5, Stays DEF Truthful
<1>12. Stopping(p, s) /\ (s \in Deployments => ToldOf(p, s) /\ (ItsOwn(s) => NotTold(p, s)))
  BY <1>3 DEF Truthful, Told
<1>13. ItsOwn(s)' <=> ItsOwn(s)
  BY <1>1, <1>2, <1>6 DEF ItsOwn, Of
<1> DEFINE Here == Stopping(p, s)' /\ (s \in Deployments => ToldOf(p, s)' /\ (ItsOwn(s)' => NotTold(p, s)'))
<1>14. \A e \in DOMAIN children : By(e) = p /\ Of(e) = s /\ Live(e) =>
         entry[p][s].child = e /\ ~entry[p][s].stopping /\ ~children[e].seen
  BY <1>8
<1> HIDE DEF Here
<1>16. UNCHANGED writes => Final(p, s)' = Final(p, s)
  BY <1>2 DEF Final
<1>17. ASSUME Announces(c)
       PROVE  Here
  <2>1. UNCHANGED <<writes, untold, registry>>
    BY <1>17 DEF Announces, memoryVars
  <2>2. \A e \in DOMAIN children : Live(e)' <=> Live(e)
    BY <1>5, <1>17 DEF Live, Alive
  <2>3. Stopping(p, s)'
    BY <1>2, <1>5, <1>6, <1>9, <1>12, <1>17, <2>1 DEF Stopping, By
  <2>4. s \in Deployments => ToldOf(p, s)'
    BY <1>5, <1>6, <1>12, <1>16, <1>17, <2>1, <2>2 DEF ToldOf
  <2>5. (Lives(p, s) => Lives(p, s)') /\ (HasEntry(p, s) => HasEntry(p, s)')
    BY <1>2, <1>5, <1>6, <1>9, <1>17, <2>2 DEF Lives, HasEntry, HasExitCode
  <2> QED BY <1>2, <1>12, <1>13, <1>16, <2>1, <2>3, <2>4, <2>5 DEF Here, NotTold
<1>18. ASSUME ~(Announces(c) \/ Listening(c) \/ Exited(c))
       PROVE  Here
  <2>1. UNCHANGED <<writes, untold, registry>> /\ children[c].alive
    BY <1>4, <1>18 DEF ChildSteps, Killed, Crashes, Dies, Alive, memoryVars
  <2>2. ~children'[c].alive /\ children'[c].seen = children[c].seen /\ ~Live(c)'
    BY <1>5, <1>18 DEF Live, Alive
  <2>3. \A e \in DOMAIN children \ {c} : Live(e)' <=> Live(e)
    BY <1>5 DEF Live, Alive
  <2>4. ~children[c].seen
    BY <1>1, <1>3, <2>1 DEF Held
  <2>5. Stopping(p, s)'
    BY <1>2, <1>5, <1>6, <1>9, <1>12, <2>1, <2>2 DEF Stopping, By
  <2>6. s \in Deployments => ToldOf(p, s)'
    BY <1>5, <1>6, <1>12, <1>16, <2>1, <2>2, <2>3 DEF ToldOf
  <2>7. HasEntry(p, s) => HasEntry(p, s)'
    BY <1>2, <1>5, <1>9, <2>2, <2>4 DEF HasEntry, HasExitCode
  <2>8. Lives(p, s) => Lives(p, s)' \/ HasEntry(p, s)'
    <3>1. ASSUME NEW e \in DOMAIN children, Live(e), By(e) = p, Of(e) = s
          PROVE  HasEntry(p, s)
      BY <1>1, <1>14, <3>1 DEF HasEntry, HasExitCode
    <3> QED BY <2>7, <3>1 DEF Lives
  <2> QED BY <1>2, <1>12, <1>13, <1>16, <2>1, <2>5, <2>6, <2>7, <2>8 DEF Here, NotTold
<1>19. ASSUME Listening(c)
       PROVE  Here
  <2>1. \A e \in DOMAIN children : Live(e)' <=> Live(e)
    BY <1>5, <1>19 DEF Live, Alive
  <2>2. (Lives(p, s) => Lives(p, s)') /\ (HasEntry(p, s) => HasEntry(p, s)')
    BY <1>2, <1>5, <1>6, <1>9, <1>19, <2>1 DEF Lives, HasEntry, HasExitCode
  <2>3. ASSUME Current(c) /\ ~HasExitCode(c)
        PROVE  Here
    <3>1. /\ registry' = [registry EXCEPT ![s] = [child |-> c, status |-> "running"]]
          /\ Write(p, s, "running")
      BY <1>7, <1>19, <2>3 DEF Listening, By, Of
    <3>2. registry'[s] = [child |-> c, status |-> "running"]
      BY <1>1, <3>1
    <3>3. entry[p][s] = [child |-> c, stopping |-> FALSE]
      BY <1>7, <2>3 DEF Current, By, Of
    <3>4. ~(children[c].alive /\ children[c].killed)
      BY <1>1, <1>12, <3>3 DEF Stopping
    <3>5. Stopping(p, s)'
      BY <1>2, <1>5, <1>19, <3>2, <3>3, <3>4 DEF Stopping
    <3>6. ASSUME s \in Deployments
          PROVE  ToldOf(p, s)' /\ NotTold(p, s)'
      <4>1. Final(p, s)' = "running"
        BY <1>1, <3>1, <3>6, WriteFinal DEF Statuses, Write
      <4>2. \A e \in DOMAIN children' : Live(e)' /\ By(e)' = p /\ Of(e)' = s => e = c
        BY <1>5, <1>6, <1>14, <2>1, <3>3
      <4>3. ToldOf(p, s)'
        BY <1>5, <1>19, <4>1, <4>2 DEF ToldOf
      <4>4. HasEntry(p, s)
        BY <1>1, <2>3, <3>3 DEF HasEntry
      <4> QED BY <2>2, <4>3, <4>4 DEF NotTold
    <3> QED BY <3>5, <3>6 DEF Here
  <2>4. ASSUME ~(Current(c) /\ ~HasExitCode(c))
        PROVE  Here
    <3>1. UNCHANGED <<writes, untold, registry>>
      BY <1>19, <2>4 DEF Listening
    <3>2. ~Live(c)
      <4>1. ASSUME Live(c)
            PROVE  FALSE
        <5>1. entry[p][s].child = c /\ ~entry[p][s].stopping /\ ~children[c].seen
          BY <1>7, <1>14, <4>1
        <5>2. entry[p][s] = [child |-> c, stopping |-> FALSE]
          <6>1. entry[p][s] \in [child : Nat, stopping : BOOLEAN]
            BY <1>1
          <6> QED BY <5>1, <6>1
        <5> QED BY <1>7, <2>4, <5>1, <5>2 DEF Current, HasExitCode, By, Of
      <4> QED BY <4>1
    <3>3. Stopping(p, s)'
      BY <1>2, <1>5, <1>6, <1>9, <1>12, <1>19, <3>1 DEF Stopping, By
    <3>4. s \in Deployments => ToldOf(p, s)'
      BY <1>5, <1>6, <1>12, <1>16, <2>1, <3>1, <3>2 DEF ToldOf
    <3> QED BY <1>2, <1>12, <1>13, <1>16, <2>2, <3>1, <3>3, <3>4 DEF Here, NotTold
  <2> QED BY <2>3, <2>4
<1>20. ASSUME Exited(c)
       PROVE  Here
  <2>1. /\ ~children[c].alive /\ ~Live(c)
        /\ registry' = [registry EXCEPT ![s] = IF @.child = c THEN NoRegistry ELSE @]
    BY <1>7, <1>20 DEF Exited, Live, Alive, Of
  <2>2. \A e \in DOMAIN children : Live(e)' <=> Live(e)
    BY <1>5, <1>20 DEF Live, Alive
  <2>3. registry'[s] = registry[s] \/ registry'[s].child = 0
    BY <1>1, <2>1 DEF NoRegistry
  <2>4. Stopping(p, s)'
    <3>1. CASE registry'[s] = registry[s]
      BY <1>2, <1>5, <1>6, <1>9, <1>12, <1>20, <3>1 DEF Stopping, By
    <3>2. CASE registry'[s].child = 0
      BY <1>2, <1>5, <1>6, <1>9, <1>12, <1>20, <3>2 DEF Stopping, By
    <3> QED BY <2>3, <3>1, <3>2
  <2>5. ASSUME Current(c)
        PROVE  Here
    <3>1. Write(p, s, "error") /\ entry[p][s] = [child |-> c, stopping |-> FALSE]
      BY <1>7, <1>20, <2>5 DEF Exited, Current, By, Of
    <3>2. ASSUME s \in Deployments
          PROVE  ToldOf(p, s)' /\ NotTold(p, s)'
      <4>1. Final(p, s)' = "error"
        BY <1>1, <3>1, <3>2, WriteFinal DEF Statuses, Write
      <4>2. \A e \in DOMAIN children' : ~(Live(e)' /\ By(e)' = p /\ Of(e)' = s)
        BY <1>5, <1>6, <1>14, <2>1, <2>2, <3>1
      <4> QED BY <4>1, <4>2 DEF ToldOf, NotTold
    <3> QED BY <2>4, <3>2 DEF Here
  <2>6. ASSUME ~Current(c)
        PROVE  Here
    <3>1. UNCHANGED <<writes, untold>>
      BY <1>20, <2>6 DEF Exited
    <3>2. s \in Deployments => ToldOf(p, s)'
      BY <1>5, <1>6, <1>12, <1>16, <2>1, <2>2, <3>1 DEF ToldOf
    <3>3. Lives(p, s) => Lives(p, s)'
      BY <1>5, <1>6, <2>2 DEF Lives
    <3>4. HasEntry(p, s) => HasEntry(p, s)'
      <4>1. ASSUME HasEntry(p, s)
            PROVE  entry[p][s].child # c
        <5>1. entry[p][s] \in [child : Nat, stopping : BOOLEAN] /\ ~entry[p][s].stopping
          BY <1>1, <4>1 DEF HasEntry
        <5> QED BY <1>7, <2>6, <5>1 DEF Current, By, Of
      <4> QED BY <1>2, <1>5, <1>9, <4>1 DEF HasEntry, HasExitCode
    <3> QED BY <1>2, <1>12, <1>13, <1>16, <2>4, <3>1, <3>2, <3>3, <3>4 DEF Here, NotTold
  <2> QED BY <2>5, <2>6
<1>21. Here
  BY <1>17, <1>18, <1>19, <1>20
<1> QED BY <1>10, <1>11, <1>21 DEF Truthful, Told, Here

LEMMA AwakeNext ==
  ASSUME StatusInv, [Next]_vars, NEW q \in Procs
  PROVE  Awake(q)'
<1>1. TypesInv /\ KidsInv /\ OwnerInv /\ Awake(q)
  BY DEF StatusInv, KillsInv, TypesInv, KidsInv
<1>2. CASE own'[q] = own[q]
  BY <1>1, <1>2 DEF Awake, Up
<1>3. CASE OwnSteps(q)
  <2>1. own' \in [Procs -> Owner] /\ own'[q].run # "unborn"
    BY <1>1, <1>3, Progress
  <2>2. own'[q].status \in {"recovering", "ready"} => own'[q].run # "dead"
    BY <1>1, <1>3, Progress
  <2>3. own'[q].run \in {"unborn", "up", "dead"}
    BY <2>1 DEF Owner
  <2> QED BY <2>1, <2>2, <2>3 DEF Awake, Up
<1>4. StepOf(q) => OwnSteps(q) \/ own'[q] = own[q]
  <2>1. Recover(q) \/ RecoverySkips(q) => UNCHANGED own
    BY DEF Recover, RecoverySkips, ownerVars
  <2>2. ASSUME NEW s \in Subjects, AskSteps(q, s)
        PROVE  UNCHANGED own
    BY <2>2 DEF AskSteps, StartProcess, StopProcess, RestartProcess, KillProcess, ownerVars
  <2>3. ASSUME NEW s \in Subjects, OperationSteps(q, s)
        PROVE  UNCHANGED own
    BY <2>3, WritesUnderway DEF OperationSteps
  <2>4. ASSUME NEW d \in Deployments, AllowProcessRestart(q, d) \/ Persist(q, d)
        PROVE  UNCHANGED own
    BY <2>4 DEF AllowProcessRestart, Persist, ownerVars
  <2>5. ASSUME NEW c \in DOMAIN children, ChildSteps(c)
        PROVE  UNCHANGED own
    BY <2>5 DEF ChildSteps, Announces, Killed, Crashes, Dies, Listening, Exited, OperatorEnds, ownerVars
  <2> QED BY <2>1, <2>2, <2>3, <2>4, <2>5 DEF StepOf
<1>5. ASSUME NEW p \in Procs, StepOf(p), p # q
      PROVE  own'[q] = own[q]
  BY <1>1, <1>5, Apart
<1>6. UNCHANGED vars \/ (\E s \in Subjects : LockExpires(s)) => own' = own
  BY DEF vars, LockExpires, ownerVars
<1> QED BY <1>1, <1>2, <1>3, <1>4, <1>5, <1>6, StepsOf

\* Whoever operates afterwards says the truth afterwards.
LEMMA TruthNext ==
  ASSUME StatusInv, [Next]_vars, NEW q \in Procs, Operating(q)'
  PROVE  Truthful(q)'
<1>1. KidsInv /\ Fitting /\ left \subseteq DOMAIN children
  BY DEF StatusInv, KillsInv, TypesInv, KidsInv, Stored
<1> DEFINE Goal == Truthful(q)'
<1>2. ASSUME NEW p \in Procs, p # q, StepOf(p)
      PROVE  Goal
  BY <1>2, TruthApart
<1>3. ASSUME UNCHANGED vars \/ \E s \in Subjects : LockExpires(s)
      PROVE  Goal
  <2>1. UNCHANGED <<own, children, registry, db, left, entry, queue, at, writes, todo, untold>>
    BY <1>3 DEF vars, LockExpires, ownerVars, subjectVars, memoryVars
  <2>2. Truthful(q)
    BY <2>1 DEF StatusInv, Operating, Up
  <2>3. ASSUME NEW s \in Subjects
        PROVE  Stopping(q, s)' /\ Told(q, s)'
    <3>1. SameFor(q, s)
      BY <1>1, <2>1 DEF SameFor, Of, By
    <3> QED BY <1>1, <2>2, <3>1, Stays DEF Truthful
  <2>4. Restoring(q)'
    BY <2>1, <2>2 DEF Truthful, Restoring, Op
  <2> QED BY <2>3, <2>4 DEF Truthful
<1>4. ASSUME OwnSteps(q)
      PROVE  Goal
  BY <1>4, TruthOwned
<1>5. ASSUME Recover(q) \/ RecoverySkips(q)
      PROVE  Goal
  BY <1>5, TruthRecovers, TruthSkips
<1>6. ASSUME NEW s \in Subjects, AskSteps(q, s)
      PROVE  Goal
  BY <1>6, TruthAsked
<1>7. ASSUME NEW d \in Deployments, AllowProcessRestart(q, d) \/ Persist(q, d)
      PROVE  Goal
  BY <1>7, TruthAsked
<1>8. ASSUME NEW c \in DOMAIN children, By(c) = q, ChildSteps(c)
      PROVE  Goal
  BY <1>8, TruthHeard
<1>9. ASSUME NEW s \in Subjects, OperationSteps(q, s)
      PROVE  Goal
  BY <1>9, TruthPassing, TruthGivenUp, TruthChecked, TruthLaunched, TruthStopped
     DEF OperationSteps, Operate, OperationFails
<1> HIDE DEF Goal
<1>10. StepOf(q) => Goal
  BY <1>4, <1>5, <1>6, <1>7, <1>8, <1>9, Zenon DEF StepOf
<1>11. Goal
  BY <1>1, <1>2, <1>3, <1>10, StepsOf
<1> QED BY <1>11 DEF Goal

\* A child does not change its subject.
LEMMA SecondNext ==
  ASSUME StatusInv, [Next]_vars, NEW q \in Procs
  PROVE  Second(q)'
<1>1. /\ TypesInv /\ KidsInv /\ Fitting /\ Second(q)
      /\ second \in [Procs -> [Subjects -> 0..MaxChildren]]
  BY DEF StatusInv, KillsInv, TypesInv, LaunchTypes
<1>2. \A c \in DOMAIN children : c \in DOMAIN children' /\ Of(c)' = Of(c)
  BY <1>1, KidsLast
<1>3. ASSUME NEW s \in Subjects
      PROVE  second'[q][s] \in {second[q][s], 0, registry[s].child}
  <2> DEFINE Goal == second'[q][s] \in {second[q][s], 0, registry[s].child}
  <2>1. ASSUME second' = second PROVE Goal
    BY <2>1
  <2>2. ASSUME NEW p \in Procs, NEW x \in Subjects, OperationSteps(p, x) PROVE Goal
    <3>1. PICK n \in {0, registry[x].child} : second' = second \/ second' = [second EXCEPT ![p][x] = n]
      BY <2>2 DEF OperationSteps, Operate, TurnRefused, BeginStart, Check, Prepare, Spawn, BeginStop, StopOther,
         Terminated, Failed, Stopped, ReleaseSource, Relaunch, OperationFails, CheckFails, PrepareFails, SpawnFails,
         TerminateFails, ReleaseFails
    <3> QED BY <1>1, <3>1
  <2>3. ASSUME NEW p \in Procs, ProcessEnds(p) PROVE Goal
    <3>1. second' = [second EXCEPT ![p] = [y \in Subjects |-> 0]]
      BY <2>3 DEF ProcessEnds
    <3> QED BY <1>1, <3>1
  <2> HIDE DEF Goal
  <2>4. ASSUME NEW p \in Procs,
               \/ Boot(p) \/ OwnerStep(p) \/ ReleaseOwner(p) \/ StartRecovery(p) \/ Recover(p) \/ Recovered(p)
               \/ RecoveryGivesUp(p) \/ SessionEnds(p) \/ Sweep(p) \/ EndSweep(p) \/ StopGivesUp(p)
               \/ DrainOperations(p) \/ ProcessEnds(p) \/ RecoverySkips(p)
        PROVE  Goal
    <3>1. CASE ProcessEnds(p)
      BY <2>3, <3>1
    <3>2. CASE ~ProcessEnds(p)
      BY <2>1, <2>4, <3>2 DEF Boot, OwnerStep, ReleaseOwner, StartRecovery, Recover, Recovered, RecoveryGivesUp,
         SessionEnds, Sweep, EndSweep, StopGivesUp, DrainOperations, RecoverySkips, memoryVars
    <3> QED BY <3>1, <3>2
  <2>5. ASSUME NEW p \in Procs, NEW x \in Subjects,
               StartProcess(p, x) \/ StopProcess(p, x) \/ Operate(p, x) \/ OperationFails(p, x)
        PROVE  Goal
    BY <2>1, <2>2, <2>5 DEF OperationSteps, StartProcess, StopProcess
  <2>6. ASSUME NEW p \in Procs, NEW d \in Deployments,
               RestartProcess(p, d) \/ KillProcess(p, d) \/ AllowProcessRestart(p, d) \/ Persist(p, d)
        PROVE  Goal
    BY <2>1, <2>6 DEF RestartProcess, KillProcess, AllowProcessRestart, Persist
  <2>7. ASSUME NEW c \in DOMAIN children,
               \/ Announces(c) \/ Killed(c) \/ Crashes(c) \/ Listening(c) \/ Exited(c) \/ OperatorEnds(c)
        PROVE  Goal
    BY <2>1, <2>7 DEF Announces, Killed, Crashes, Dies, Listening, Exited, OperatorEnds, memoryVars
  <2>8. ASSUME UNCHANGED vars \/ \E x \in Subjects : LockExpires(x)
        PROVE  Goal
    BY <2>1, <2>8 DEF vars, LockExpires, memoryVars
  <2>9. Goal
    BY <2>4, <2>5, <2>6, <2>7, <2>8, Zenon DEF Next
  <2> QED BY <2>9 DEF Goal
<1> QED BY <1>1, <1>2, <1>3 DEF Second, Fitting

LEMMA StatusNext ==
  ASSUME StatusInv, [Next]_vars
  PROVE  StatusInv'
<1>1. KillsInv'
  BY KillsNext DEF StatusInv
<1>2. \A p \in Procs : Awake(p)' /\ Second(p)' /\ Untouched(p)' /\ Answers(p)' /\ (Operating(p)' => Truthful(p)')
  BY AwakeNext, SecondNext, UntouchedNext, AnswersNext, TruthNext
<1> QED BY <1>1, <1>2 DEF StatusInv

\* With nothing under way, the table is true.
LEMMA TruthIsTold == StatusInv => StatusAgrees
<1> SUFFICES ASSUME StatusInv, NEW p \in Procs, own[p].status = "ready", NEW d \in Deployments,
                    Quiet(p, d), ItsOwn(d), ~Deceased(p, d)
             PROVE  Agrees(d) \/ (Its(d) = {} /\ d \in untold[p])
  BY DEF StatusAgrees, Settled
<1>1. d \in Subjects /\ TypesInv /\ KidsInv /\ Fitting /\ MarkedBy(p)
  BY DEF StatusInv, KillsInv, TypesInv, KidsInv, OwnerInv, Marked, Subjects
<1>2. Operating(p) /\ Truthful(p) /\ marker = p
  BY <1>1 DEF StatusInv, Awake, Operating, MarkedBy
<1>3. /\ todo[p] = {} /\ at[p][d] = "idle" /\ Final(p, d) = db[d]
      /\ ToldOf(p, d) /\ NotTold(p, d) /\ Stopping(p, d)
  BY <1>1, <1>2 DEF Truthful, Restoring, Told, Quiet, Final, TypesInv, QueueTypes
<1>4. \A c \in Its(d) : By(c) = p /\ Of(c) = d /\ Live(c) /\ c \in DOMAIN children
  <2>1. \A c \in DOMAIN children : Attributed(c)
    BY <1>1 DEF KidsInv
  <2> QED BY <1>2, <2>1 DEF Its, Attributed, ItsOwn, Live, Alive, Of
<1>5. \A c \in Its(d) : db[d] = IF children[c].line = "read" THEN "running" ELSE "provisioning"
  BY <1>3, <1>4 DEF ToldOf
<1>6. ASSUME db[d] \in {"running", "provisioning"}, d \notin untold[p]
      PROVE  Its(d) # {}
  <2>1. Lives(p, d) \/ HasEntry(p, d)
    BY <1>3, <1>6 DEF NotTold
  <2>2. CASE Lives(p, d)
    BY <2>2 DEF Lives, Its, Of
  <2>3. CASE HasEntry(p, d)
    <3>1. PICK e \in DOMAIN children :
            /\ e = entry[p][d].child /\ e # 0 /\ Of(e) = d /\ By(e) = p
            /\ ~entry[p][d].stopping /\ ~HasExitCode(e)
      BY <1>1, <2>3 DEF HasEntry, Fitting
    <3>2. children[e].alive \/ children[e].seen
      BY <3>1 DEF Quiet, Of, By
    <3>3. children[e].alive
      BY <3>1, <3>2 DEF Deceased, HasExitCode
    <3>4. ~children[e].killed
      BY <1>3, <3>1, <3>3 DEF Stopping
    <3> QED BY <3>1, <3>3, <3>4 DEF Its, Live, Alive, Of
  <2> QED BY <2>1, <2>2, <2>3
<1>7. CASE Its(d) # {} \/ d \notin untold[p]
  BY <1>5, <1>6, <1>7 DEF Agrees
<1> QED BY <1>7

\* When nothing is under way, the status in the table is that of the child there
\* is: whatever order the lines, the exits, the kills and the writes came in, and
\* however many servers have run the domain before (process/supervisor.ts: persist,
\* process/reconcile.ts).  It is wrong only of a deployment that has no child and
\* that the process has passed over: in its recovery, or at a lock left behind.
THEOREM StatusAlwaysAgrees == Spec => []StatusAgrees
<1>1. StatusInv /\ [Next]_vars => StatusInv'
  BY StatusNext
<1> QED BY <1>1, InitStatus, TruthIsTold, PTL DEF Spec
=============================================================================
