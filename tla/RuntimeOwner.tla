----------------------------- MODULE RuntimeOwner -----------------------------
(***************************************************************************)
(* One process of a runtime domain at a time owns what runs outside of it  *)
(* (runtime/owner.ts, runtime/ownership-state.ts): it holds an advisory    *)
(* lock on a database session and leaves a marker in the database, which   *)
(* only a clean shutdown removes.  A process that finds the marker of      *)
(* another one refuses to start until the operator acknowledges it.        *)
(*                                                                         *)
(* The database may end a session before its process notices: the lock is  *)
(* free then, and the old owner goes on until its next probe.  Supervisor  *)
(* adds what an owner does and what the operator promises.                 *)
(***************************************************************************)
EXTENDS Naturals

CONSTANTS
  Procs,   \* server processes, in the order in which they are started
  NoProc

ASSUME ProcsAssumption == Procs \subseteq Nat /\ NoProc \notin Procs

VARIABLES
  own,     \* RuntimeOwnershipState and RuntimeOwnerLease of each process
  holder,  \* who holds the advisory lock
  marker   \* the value of runtime.owner.<domain>

ownerVars == <<own, holder, marker>>

Unborn == [run |-> "unborn", status |-> "idle", uncertain |-> FALSE, aborted |-> FALSE,
           acq |-> "none", ack |-> NoProc, session |-> "none", shut |-> "no", clean |-> FALSE]

Owner ==
  [run : {"unborn", "up", "dead"},
   status : {"idle", "acquiring", "recovering", "ready", "draining", "blocked", "lost", "stopped"},
   uncertain : BOOLEAN, aborted : BOOLEAN,
   acq : {"none", "connecting", "locking", "reading", "writing", "recovering", "done", "failed"},
   ack : Procs \cup {NoProc},
   session : {"none", "open", "broken"},
   shut : {"no", "stopping", "sweeping", "draining", "releasing", "done"},
   clean : BOOLEAN]

OwnerTypeOK ==
  /\ own \in [Procs -> Owner]
  /\ {holder, marker} \subseteq Procs \cup {NoProc}

OwnerInit ==
  /\ own = [p \in Procs |-> Unborn]
  /\ holder = NoProc /\ marker = NoProc
-----------------------------------------------------------------------------
Up(p) == own[p].run = "up"
Operating(p) == Up(p) /\ own[p].status \in {"recovering", "ready"}

\* canOperate: a stop may also be part of the shutdown itself.
CanOperate(p, stop, maintenance) ==
  \/ own[p].status = "ready"
  \/ /\ maintenance
     /\ own[p].status = "recovering" \/ (stop /\ own[p].status = "draining")

\* shutdownRuntimeOwner is memoized: only the first call does something.
Shutting(o) ==
  IF o.shut # "no" THEN o
  ELSE [o EXCEPT !.status = IF @ = "lost" THEN @ ELSE "draining", !.shut = "stopping"]

Losing(o) == Shutting([o EXCEPT !.status = "lost", !.uncertain = TRUE, !.aborted = TRUE])

\* The catch of startRuntimeOwner.
Failing(o) ==
  Shutting([o EXCEPT !.acq = "failed", !.uncertain = TRUE,
                     !.status = IF o.aborted THEN @ ELSE "blocked"])

Become(p, o) == own' = [own EXCEPT ![p] = o]
FreeLock(p) == holder' = IF holder = p THEN NoProc ELSE holder
-----------------------------------------------------------------------------
\* startRuntimeOwner and RuntimeOwnerLease.acquire, one query after the other.
\* The processes start in order; a is what the operator acknowledges.
BootWith(p, a) ==
  /\ own[p].run = "unborn"
  /\ \A q \in Procs : q < p => own[q].run # "unborn"
  /\ Become(p, [own[p] EXCEPT !.run = "up", !.status = "acquiring",
                              !.acq = "connecting", !.ack = a])
  /\ UNCHANGED <<holder, marker>>

Connect(p) ==
  /\ Up(p) /\ own[p].acq = "connecting"
  /\ Become(p, [own[p] EXCEPT !.acq = "locking", !.session = "open"])
  /\ UNCHANGED <<holder, marker>>

Querying(p, at) == Up(p) /\ own[p].acq = at /\ own[p].session = "open"

TryLock(p) ==
  /\ Querying(p, "locking")
  /\ IF holder = NoProc
     THEN holder' = p /\ Become(p, [own[p] EXCEPT !.acq = "reading"])
     ELSE Become(p, Failing(own[p])) /\ UNCHANGED holder
  /\ UNCHANGED marker

\* Any marker will do.
AcceptsAny(p) == TRUE

\* Another process left its marker, and the operator did not acknowledge it.
Accepts(p) == marker = NoProc \/ marker = own[p].ack

ReadMarker(p) ==
  /\ Querying(p, "reading")
  /\ Become(p, IF Accepts(p) THEN [own[p] EXCEPT !.acq = "writing"] ELSE Failing(own[p]))
  /\ UNCHANGED <<holder, marker>>

\* What may have happened meanwhile: the connection was lost, or a signal came.
WriteMarker(p) ==
  /\ Querying(p, "writing")
  /\ marker' = p
  /\ Become(p, IF own[p].status = "acquiring"
               THEN [own[p] EXCEPT !.acq = "recovering", !.status = "recovering"]
               ELSE Failing(own[p]))
  /\ UNCHANGED holder

\* So does an attempt to connect, and a query of a session that is not there.
QueryFails(p) ==
  /\ Up(p) /\ own[p].acq \in {"connecting", "locking", "reading", "writing"}
  /\ own[p].session # "open"
  /\ Become(p, Failing(own[p]))
  /\ UNCHANGED <<holder, marker>>

\* recover() has returned: ready() refuses when it is not recovering any more.
BecomeReady(p) ==
  /\ Up(p) /\ own[p].acq = "recovering"
  /\ Become(p, IF own[p].status = "recovering"
               THEN [own[p] EXCEPT !.acq = "done", !.status = "ready"]
               ELSE Failing(own[p]))
  /\ UNCHANGED <<holder, marker>>

RecoveryFails(p) ==
  /\ Up(p) /\ own[p].acq = "recovering"
  /\ Become(p, Failing(own[p]))
  /\ UNCHANGED <<holder, marker>>
-----------------------------------------------------------------------------
\* The database, or the network, ends a session.
SessionBreaks(p) ==
  /\ Up(p) /\ own[p].session = "open"
  /\ Become(p, [own[p] EXCEPT !.session = "broken"])
  /\ FreeLock(p) /\ UNCHANGED marker

\* An event of the client or a failed probe; release has not begun.
Notice(p) ==
  /\ Up(p) /\ own[p].session = "broken"
  /\ own[p].status # "lost" /\ own[p].shut \notin {"releasing", "done"}
  /\ Become(p, Losing(own[p]))
  /\ UNCHANGED <<holder, marker>>

\* SIGTERM.
Signal(p) ==
  /\ Up(p) /\ own[p].shut = "no"
  /\ Become(p, Shutting(own[p]))
  /\ UNCHANGED <<holder, marker>>

\* stop() has stopped everything, or has failed, or takes longer than it may.
StopEnds(p, stopped) ==
  /\ Become(p, IF stopped THEN [own[p] EXCEPT !.shut = "draining"]
               ELSE [own[p] EXCEPT !.shut = "draining", !.uncertain = TRUE, !.aborted = TRUE])
  /\ UNCHANGED <<holder, marker>>

\* The operations under way have ended, or the wait for them is over.
Drain(p, pending) ==
  /\ Up(p) /\ own[p].shut = "draining"
  /\ Become(p, IF pending
               THEN [own[p] EXCEPT !.shut = "releasing", !.uncertain = TRUE, !.aborted = TRUE]
               ELSE [own[p] EXCEPT !.shut = "releasing", !.clean = ~own[p].uncertain])
  /\ UNCHANGED <<holder, marker>>

\* RuntimeOwnerLease.release: on a session that is broken the query fails and
\* nothing follows; a connection that is not up yet is not closed.
Release(p) ==
  /\ Up(p) /\ own[p].shut = "releasing"
  /\ marker' = IF own[p].clean /\ own[p].session = "open" /\ holder = p /\ marker = p
               THEN NoProc ELSE marker
  /\ Become(p, [own[p] EXCEPT !.shut = "done", !.session = "none",
       !.status = IF own[p].clean /\ own[p].session = "broken" THEN @ ELSE "stopped"])
  /\ FreeLock(p)

\* The process exits after its shutdown, or is killed at any time.
Exit(p) ==
  /\ Up(p)
  /\ Become(p, [Unborn EXCEPT !.run = "dead", !.shut = "done", !.clean = own[p].clean /\ own[p].shut = "done"])
  /\ FreeLock(p) /\ UNCHANGED marker
=============================================================================
