--------------------------- MODULE ChatRuns_proofs ---------------------------
(***************************************************************************)
(* Proofs about ChatRuns, for any number of turns and of tool calls.       *)
(***************************************************************************)
EXTENDS ChatRuns, SequenceTheorems, TLAPS

USE ChatConstants

-----------------------------------------------------------------------------
(* The inductive invariant, turn by turn *)

Entries == {"chunk", "finish", "error", "abort"}

Runs ==
  [pc : {"none", "streaming", "counting", "finalizing", "failing", "marked",
         "finishing", "done"},
   gen : 0..1, aborted : {"no", "stopped", "lost"}, unknown : BOOLEAN]

Records == {"none", "executing", "succeeded", "failed", "unknown"}

\* The generation counts the claims of a turn, of which there is one; a turn
\* nobody claimed has no run, and a run has the generation it claimed.
ClaimedOnce(t) ==
  /\ turn[t].status = "none" => ~turn[t].leased /\ turn[t].gen = 0
  /\ Pending(t) => turn[t].gen = IF turn[t].leased THEN 1 ELSE 0
  /\ exec[t].pc # "none" => exec[t].gen = 1 /\ turn[t].gen > 0

\* Text while the turn is open, and the closing event of its status at the end.
LogFits(t) ==
  /\ \A i \in 1..Len(events[t]) :
       events[t][i] # "chunk" => turn[t].status \in Ends /\ i = Len(events[t])
  /\ turn[t].status \in Ends =>
       Len(events[t]) > 0 /\ events[t][Len(events[t])] = Closing[turn[t].status]
  /\ turn[t].status = "completed" => ~turn[t].stop

\* The record of a call agrees with what is in flight and with what the tool did.
CallFits(t, c) ==
  /\ conf[t][c] = "none" => tool[t][c] = "idle" /\ effects[t][c] = 0
  /\ tool[t][c] # "idle" => conf[t][c] \in {"executing", "unknown"}
  /\ tool[t][c] \in {"claimed", "undispatched"} => effects[t][c] = 0
  /\ tool[t][c] = "returned" => effects[t][c] = 1
  /\ conf[t][c] = "failed" => effects[t][c] = 0
  /\ conf[t][c] = "succeeded" => effects[t][c] = 1
  /\ effects[t][c] \in 0..1

\* How far the run has come says what its calls can still be.
RunFits(t) ==
  \A c \in Calls :
    /\ exec[t].pc = "none" => conf[t][c] = "none"
    /\ exec[t].pc \in {"counting", "finalizing"} => tool[t][c] = "idle"
    /\ exec[t].pc = "finalizing" /\ Pending(t) => conf[t][c] \notin {"executing", "unknown"}
    /\ exec[t].pc \in {"marked", "finishing"} => conf[t][c] # "executing"
    /\ turn[t].status \in Ends => conf[t][c] # "executing"
    /\ turn[t].status = "completed" => conf[t][c] # "unknown"

TurnFits(t) ==
  /\ ClaimedOnce(t) /\ LogFits(t) /\ RunFits(t)
  /\ \A c \in Calls : CallFits(t, c)

ChatInv == TypeOK /\ \A t \in Turns : TurnFits(t)

Tools == {"idle", "claimed", "returned", "threw", "undispatched"}

Subs ==
  [pc : {"none", "read", "check", "wait", "closed"}, of : SUBSET Turns, cursor : Nat]

Typed ==
  /\ turn \in [Turns -> Row] /\ events \in [Turns -> Seq(Entries)]
  /\ conf \in [Turns -> [Calls -> Records]] /\ exec \in [Turns -> Runs]
  /\ tool \in [Turns -> [Calls -> Tools]] /\ effects \in [Turns -> [Calls -> Nat]]
  /\ sub \in Subs

LEMMA TypedIs == (TypeOK <=> Typed) /\ (TypeOK' <=> Typed')
BY DEF TypeOK, Typed, Entries, Records, Runs, Tools, Subs

-----------------------------------------------------------------------------
(* The two ways a log grows *)

LEMMA TextAppended ==
  ASSUME NEW e \in Seq(Entries), NEW n \in Nat
  PROVE  LET f == e \o [i \in 1..n |-> "chunk"] IN
         /\ f \in Seq(Entries) /\ Len(f) = Len(e) + n
         /\ \A i \in 1..Len(f) : f[i] = IF i <= Len(e) THEN e[i] ELSE "chunk"
<1> DEFINE g == [i \in 1..n |-> "chunk"]
<1>1. g \in [1..n -> Entries]
  BY DEF Entries
<1>2. g \in Seq(Entries)
  BY <1>1, SeqDef
<1>3. Len(g) = n
  BY <1>2, LenProperties, <1>1
<1>4. \A i \in 1..n : g[i] = "chunk"
  OBVIOUS
<1>5. Len(e) \in Nat
  BY LenProperties
<1> HIDE DEF g
<1>6. \A i \in 1..(Len(e) + n) : i > Len(e) => i - Len(e) \in 1..n
  BY <1>5
<1>7. /\ e \o g \in Seq(Entries) /\ Len(e \o g) = Len(e) + n
      /\ \A i \in 1..(Len(e) + n) : (e \o g)[i] = IF i <= Len(e) THEN e[i] ELSE g[i - Len(e)]
  BY <1>2, <1>3, ConcatProperties
<1>8. \A i \in 1..(Len(e) + n) : (e \o g)[i] = IF i <= Len(e) THEN e[i] ELSE "chunk"
  BY <1>4, <1>5, <1>6, <1>7
<1> QED
  BY <1>7, <1>8 DEF g

LEMMA EndAppended ==
  ASSUME NEW e \in Seq(Entries), NEW x \in Entries
  PROVE  /\ Append(e, x) \in Seq(Entries) /\ Len(Append(e, x)) = Len(e) + 1
         /\ \A i \in 1..Len(e) : Append(e, x)[i] = e[i]
         /\ Append(e, x)[Len(e) + 1] = x
         /\ Len(e) \in Nat
BY AppendProperties, LenProperties

-----------------------------------------------------------------------------
(* What a step does to the turns it is not about: nothing *)

Same(u) ==
  /\ turn'[u] = turn[u] /\ events'[u] = events[u] /\ conf'[u] = conf[u]
  /\ exec'[u] = exec[u] /\ tool'[u] = tool[u] /\ effects'[u] = effects[u]

LEMMA SameFits ==
  ASSUME NEW u \in Turns, TurnFits(u), Same(u)
  PROVE  TurnFits(u)'
BY DEF Same, TurnFits, ClaimedOnce, LogFits, RunFits, CallFits, Pending

LEMMA OneTurn ==
  ASSUME ChatInv, Typed', NEW t \in Turns, \A u \in Turns \ {t} : Same(u), TurnFits(t)'
  PROVE  ChatInv'
<1>1. ASSUME NEW u \in Turns \ {t} PROVE TurnFits(u)'
  BY <1>1, SameFits DEF ChatInv
<1> QED
  BY <1>1, TypedIs DEF ChatInv

\* The log of an open turn that gets more text stays open.
LEMMA OpenLog ==
  ASSUME ChatInv, NEW t \in Turns, NEW n \in Nat, Log(t, n), turn[t].status \notin Ends,
         turn'[t].status \notin Ends
  PROVE  LogFits(t)' /\ events' \in [Turns -> Seq(Entries)]
<1>1. events \in [Turns -> Seq(Entries)]
  BY DEF ChatInv, TypeOK, Entries
<1> DEFINE f == events[t] \o [i \in 1..n |-> "chunk"]
<1>2. /\ f \in Seq(Entries) /\ Len(f) = Len(events[t]) + n
      /\ \A i \in 1..Len(f) : f[i] = IF i <= Len(events[t]) THEN events[t][i] ELSE "chunk"
  BY <1>1, TextAppended
<1>3. events' = [events EXCEPT ![t] = f]
  BY DEF Log
<1>4. \A i \in 1..Len(events[t]) : events[t][i] = "chunk"
  BY DEF ChatInv, TurnFits, LogFits
<1> HIDE DEF f
<1>5. events'[t] = f
  BY <1>1, <1>3
<1>6. Len(events[t]) \in Nat
  BY <1>1, LenProperties
<1>7. \A i \in 1..Len(f) : f[i] = "chunk"
  BY <1>2, <1>4, <1>6
<1> QED
  BY <1>1, <1>2, <1>3, <1>5, <1>7 DEF LogFits, Ends

\* The log of an open turn that ends gets its closing event.
LEMMA ClosedLog ==
  ASSUME ChatInv, NEW t \in Turns, turn[t].status \notin Ends,
         turn'[t].status \in Ends, turn'[t].status = "completed" => ~turn'[t].stop,
         events' = [events EXCEPT ![t] = Append(events[t], Closing[turn'[t].status])]
  PROVE  LogFits(t)' /\ events' \in [Turns -> Seq(Entries)]
<1>1. events \in [Turns -> Seq(Entries)]
  BY DEF ChatInv, TypeOK, Entries
<1> DEFINE x == Closing[turn'[t].status]
<1>2. x \in Entries
  BY DEF Closing, Entries, Ends
<1> HIDE DEF x
<1>3. \A i \in 1..Len(events[t]) : events[t][i] = "chunk"
  BY DEF ChatInv, TurnFits, LogFits
<1>4. events' = [events EXCEPT ![t] = Append(events[t], x)]
  BY DEF x
<1>5. events'[t] = Append(events[t], x)
  BY <1>1, <1>4
<1>6. /\ Append(events[t], x) \in Seq(Entries) /\ Len(Append(events[t], x)) = Len(events[t]) + 1
      /\ \A i \in 1..Len(events[t]) : Append(events[t], x)[i] = events[t][i]
      /\ Append(events[t], x)[Len(events[t]) + 1] = x
      /\ Len(events[t]) \in Nat
  BY <1>1, <1>2, EndAppended
<1>7. \A i \in 1..(Len(events[t]) + 1) :
        Append(events[t], x)[i] # "chunk" => i = Len(events[t]) + 1
  BY <1>3, <1>6
<1>8. events' \in [Turns -> Seq(Entries)]
  BY <1>1, <1>4, <1>6
<1> QED
  BY <1>5, <1>6, <1>7, <1>8 DEF LogFits, x

-----------------------------------------------------------------------------
(* Every action preserves the invariant. *)

LEMMA InvParts ==
  ASSUME ChatInv, NEW t \in Turns
  PROVE  Typed /\ TurnFits(t) /\ turn[t] \in Row /\ exec[t] \in Runs
BY TypedIs DEF ChatInv, Typed

LEMMA RequestInv ==
  ASSUME ChatInv, NEW t \in Turns, Request(t) \/ RecoverStale(t)
  PROVE  ChatInv'
<1>0. /\ turn \in [Turns -> Row] /\ events \in [Turns -> Seq(Entries)]
      /\ conf \in [Turns -> [Calls -> Records]] /\ exec \in [Turns -> Runs]
      /\ tool \in [Turns -> [Calls -> Tools]] /\ effects \in [Turns -> [Calls -> Nat]]
      /\ sub \in Subs
      /\ TurnFits(t) /\ turn[t] \in Row /\ exec[t] \in Runs
  BY InvParts DEF Typed
<1>1. CASE BeginChatTurn(t)
  <2> DEFINE r == [turn[t] EXCEPT !.status = "pending"]
  <2>1. /\ turn' = [turn EXCEPT ![t] = r] /\ turn[t].status = "none" /\ Log(t, 1)
        /\ UNCHANGED <<conf, exec, tool, effects, sub>>
    BY <1>1 DEF BeginChatTurn
  <2>2. /\ r \in Row /\ r.status = "pending" /\ r.leased = turn[t].leased
        /\ r.gen = turn[t].gen /\ r.stop = turn[t].stop
    BY <1>0 DEF Row
  <2> HIDE DEF r
  <2>3. turn'[t] = r /\ \A u \in Turns \ {t} : Same(u)
    BY <1>0, <2>1 DEF Same, Log
  <2>4. LogFits(t)' /\ events' \in [Turns -> Seq(Entries)]
    BY <2>1, <2>2, <2>3, OpenLog DEF Ends
  <2>5. Typed'
    BY <1>0, <2>1, <2>2, <2>4 DEF Typed
  <2>6. TurnFits(t)'
    BY <1>0, <2>1, <2>2, <2>3, <2>4 DEF TurnFits, ClaimedOnce, RunFits, CallFits, Pending, Ends
  <2> QED
    BY <2>3, <2>5, <2>6, OneTurn
<1>2. CASE StartChatRun(t)
  <2>1. /\ turn' = [turn EXCEPT ![t] =
             [turn[t] EXCEPT !.leased = TRUE, !.live = TRUE, !.gen = turn[t].gen + 1]]
        /\ \/ exec' = [exec EXCEPT ![t] =
                 [NoExec EXCEPT !.pc = "streaming", !.gen = turn[t].gen + 1]]
           \/ UNCHANGED exec
        /\ turn[t].status = "pending" /\ ~turn[t].leased
        /\ UNCHANGED <<events, conf, tool, effects, sub>>
    BY <1>0, <1>2 DEF StartChatRun, Pending
  <2>2. turn[t].gen = 0 /\ exec[t].pc = "none"
    BY <1>0, <2>1 DEF TurnFits, ClaimedOnce, Pending
  <2> DEFINE g == turn[t].gen + 1
             r == [turn[t] EXCEPT !.leased = TRUE, !.live = TRUE, !.gen = g]
             e == [NoExec EXCEPT !.pc = "streaming", !.gen = g]
  <2>a. /\ turn' = [turn EXCEPT ![t] = r]
        /\ exec' = [exec EXCEPT ![t] = e] \/ UNCHANGED exec
    BY <2>1
  <2>g. g \in 0..1 /\ g \in 0..2 /\ g = 1
    BY <2>2
  <2>s. turn[t].status = "pending" /\ UNCHANGED <<events, conf, tool, effects, sub>>
    BY <2>1
  <2> HIDE DEF g
  <2>3. /\ r \in Row /\ r.status = "pending" /\ r.leased /\ r.gen = g /\ r.stop = turn[t].stop
    BY <1>0, <2>s, <2>g DEF Row
  <2>4. e.pc = "streaming" /\ e.gen = g /\ e \in Runs
    BY <2>g DEF NoExec, Runs
  <2> HIDE DEF r, e
  <2>5. turn'[t] = r /\ \A u \in Turns \ {t} : Same(u)
    BY <1>0, <2>s, <2>a DEF Same
  <2>6. Typed'
    BY <1>0, <2>s, <2>a, <2>3, <2>4 DEF Typed
  <2>7. exec'[t] = e \/ exec'[t] = exec[t]
    BY <1>0, <2>a
  <2>8. TurnFits(t)'
    BY <1>0, <2>s, <2>2, <2>g, <2>3, <2>4, <2>5, <2>7
       DEF TurnFits, ClaimedOnce, RunFits, CallFits, LogFits, Pending, Ends
  <2> QED
    BY <2>5, <2>6, <2>8, OneTurn
<1>3. ASSUME NEW st \in {"failed", "cancelled"}, NEW sp \in BOOLEAN,
             turn' = [turn EXCEPT ![t] = [turn[t] EXCEPT !.status = st, !.stop = sp]],
             events' = [events EXCEPT ![t] = Append(events[t], Closing[st])],
             turn[t].status = "pending", ~turn[t].leased,
             UNCHANGED <<conf, exec, tool, effects, sub>>
      PROVE  ChatInv'
  <2> DEFINE r == [turn[t] EXCEPT !.status = st, !.stop = sp]
  <2>2. r \in Row /\ r.status = st /\ r.leased = turn[t].leased /\ r.gen = turn[t].gen
    BY <1>0 DEF Row, Ends
  <2>3. turn' = [turn EXCEPT ![t] = r]
    BY <1>3
  <2> HIDE DEF r
  <2>4. turn'[t] = r /\ \A u \in Turns \ {t} : Same(u)
    BY <1>0, <1>3, <2>3 DEF Same
  <2>5. LogFits(t)' /\ events' \in [Turns -> Seq(Entries)]
    BY <1>3, <2>2, <2>4, ClosedLog DEF Ends
  <2>6. Typed'
    BY <1>0, <1>3, <2>2, <2>3, <2>5 DEF Typed
  <2>7. TurnFits(t)'
    BY <1>0, <1>3, <2>2, <2>4, <2>5 DEF TurnFits, ClaimedOnce, RunFits, CallFits, Pending, Ends
  <2> QED
    BY <2>4, <2>6, <2>7, OneTurn
<1>4. CASE CancelChatRun(t) /\ turn[t].leased
  <2> DEFINE r == [turn[t] EXCEPT !.stop = TRUE]
  <2>1. /\ turn' = [turn EXCEPT ![t] = r] /\ turn[t].status = "pending"
        /\ UNCHANGED <<events, conf, exec, tool, effects, sub>>
    BY <1>0, <1>4 DEF CancelChatRun, Pending
  <2>2. r \in Row /\ r.status = "pending" /\ r.leased = turn[t].leased /\ r.gen = turn[t].gen
    BY <1>0, <2>1 DEF Row
  <2> HIDE DEF r
  <2>3. turn'[t] = r /\ \A u \in Turns \ {t} : Same(u)
    BY <1>0, <2>1 DEF Same
  <2>4. Typed'
    BY <1>0, <2>1, <2>2 DEF Typed
  <2>5. TurnFits(t)'
    BY <1>0, <2>1, <2>2, <2>3 DEF TurnFits, ClaimedOnce, LogFits, RunFits, CallFits, Pending, Ends
  <2> QED
    BY <2>3, <2>4, <2>5, OneTurn
<1>5. CASE RecoverStale(t)
  <2> DEFINE g == turn[t].gen + 1
             r == [turn[t] EXCEPT !.status = "failed", !.leased = FALSE,
                                  !.live = FALSE, !.gen = g]
             k == [c \in Calls |-> IF conf[t][c] = "executing" THEN "unknown" ELSE conf[t][c]]
  <2>1. /\ turn' = [turn EXCEPT ![t] = r] /\ turn[t].status = "pending"
        /\ events' = [events EXCEPT ![t] = Append(events[t], Closing["failed"])]
        /\ conf' = [conf EXCEPT ![t] = k]
        /\ UNCHANGED <<exec, tool, effects, sub>>
    BY <1>0, <1>5 DEF RecoverStale, Stale, Pending, Closing
  <2>2. turn[t].gen \in 0..1
    BY <1>0, <2>1 DEF TurnFits, ClaimedOnce, Pending
  <2>g. g \in 0..2 /\ g > 0
    BY <2>2
  <2> HIDE DEF g
  <2>3. r \in Row /\ r.status = "failed" /\ r.gen = g
    BY <1>0, <2>g DEF Row, Ends
  <2>4. k \in [Calls -> Records] /\ conf[t] \in [Calls -> Records]
    BY <1>0 DEF Records
  <2>5. \A c \in Calls : k[c] = IF conf[t][c] = "executing" THEN "unknown" ELSE conf[t][c]
    OBVIOUS
  <2> HIDE DEF r, k
  <2>6. turn'[t] = r /\ conf'[t] = k /\ \A u \in Turns \ {t} : Same(u)
    BY <1>0, <2>1 DEF Same
  <2>7. LogFits(t)' /\ events' \in [Turns -> Seq(Entries)]
    BY <2>1, <2>3, <2>6, ClosedLog DEF Ends
  <2>8. Typed'
    BY <1>0, <2>1, <2>3, <2>4, <2>7 DEF Typed
  <2>9. TurnFits(t)'
    BY <1>0, <2>1, <2>g, <2>3, <2>4, <2>5, <2>6, <2>7
       DEF TurnFits, ClaimedOnce, RunFits, CallFits, Pending, Ends
  <2> QED
    BY <2>6, <2>8, <2>9, OneTurn
<1>6. CASE CancelChatRun(t)
  <2>1. turn[t].leased \in BOOLEAN
    BY <1>0 DEF Row
  <2>2. CASE turn[t].leased
    BY <1>4, <1>6, <2>2
  <2>3. CASE ~turn[t].leased
    BY <1>0, <1>3, <1>6, <2>3 DEF CancelChatRun, Pending, Closing
  <2> QED
    BY <2>1, <2>2, <2>3
<1>7. CASE StartFails(t)
  <2>1. [turn[t] EXCEPT !.status = "failed"]
          = [turn[t] EXCEPT !.status = "failed", !.stop = turn[t].stop]
        /\ turn[t].stop \in BOOLEAN
    BY <1>0 DEF Row
  <2> QED
    BY <1>0, <1>3, <1>7, <2>1 DEF StartFails, Publish, Pending
<1> QED
  BY <1>1, <1>2, <1>5, <1>6, <1>7 DEF Request

\* A run that only moves on in memory.
LEMMA RunMoves ==
  ASSUME ChatInv, NEW t \in Turns, NEW e \in Runs, exec' = [exec EXCEPT ![t] = e],
         UNCHANGED <<turn, events, conf, tool, effects, sub>>,
         exec[t].pc # "none", e.pc # "none", e.gen = exec[t].gen,
         e.pc \in {"counting", "finalizing"} =>
            \/ exec[t].pc = e.pc
            \/ \A c \in Calls : tool[t][c] = "idle",
         e.pc = "finalizing" /\ Pending(t) =>
            \A c \in Calls : conf[t][c] \notin {"executing", "unknown"},
         e.pc \in {"marked", "finishing"} => \A c \in Calls : conf[t][c] # "executing"
  PROVE  ChatInv'
<1>0. Typed /\ TurnFits(t)
  BY InvParts
<1>1. Typed' /\ exec'[t] = e /\ \A u \in Turns \ {t} : Same(u)
  BY <1>0 DEF Typed, Same
<1>2. TurnFits(t)'
  BY <1>0, <1>1 DEF TurnFits, ClaimedOnce, LogFits, RunFits, CallFits, Pending
<1> QED
  BY <1>1, <1>2, OneTurn

\* The end of a run: the turn is published if the run still holds it.
LEMMA RunEnds ==
  ASSUME ChatInv, NEW t \in Turns, NEW st \in Ends,
         exec' = [exec EXCEPT ![t].pc = "done"],
         UNCHANGED <<conf, tool, effects, sub>>, exec[t].pc # "none",
         \/ UNCHANGED <<turn, events>>
         \/ Pending(t) /\ Publish(t, st),
         \A c \in Calls : Pending(t) => conf[t][c] # "executing",
         st = "completed" =>
           /\ ~turn[t].stop
           /\ \A c \in Calls : Pending(t) => conf[t][c] # "unknown"
  PROVE  ChatInv'
<1>0. /\ turn \in [Turns -> Row] /\ events \in [Turns -> Seq(Entries)]
      /\ conf \in [Turns -> [Calls -> Records]] /\ exec \in [Turns -> Runs]
      /\ tool \in [Turns -> [Calls -> Tools]] /\ effects \in [Turns -> [Calls -> Nat]]
      /\ sub \in Subs
      /\ TurnFits(t) /\ turn[t] \in Row /\ exec[t] \in Runs
  BY InvParts DEF Typed
<1> DEFINE e == [exec[t] EXCEPT !.pc = "done"]
           r == [turn[t] EXCEPT !.status = st]
<1>1. e \in Runs /\ e.pc = "done" /\ e.gen = exec[t].gen
  BY <1>0 DEF Runs
<1>2. r \in Row /\ r.status = st /\ r.stop = turn[t].stop /\ r.gen = turn[t].gen
      /\ r.leased = turn[t].leased
  BY <1>0 DEF Row
<1>3. exec' = [exec EXCEPT ![t] = e]
  BY <1>0
<1> HIDE DEF e
<1>4. CASE UNCHANGED <<turn, events>>
  BY <1>0, <1>1, <1>3, <1>4, RunMoves
<1>5. CASE Pending(t) /\ Publish(t, st)
  <2>1. turn' = [turn EXCEPT ![t] = r]
        /\ events' = [events EXCEPT ![t] = Append(events[t], Closing[st])]
    BY <1>0, <1>5 DEF Publish
  <2> HIDE DEF r
  <2>2. turn'[t] = r /\ exec'[t] = e /\ \A u \in Turns \ {t} : Same(u)
    BY <1>0, <1>3, <2>1 DEF Same
  <2>3. LogFits(t)' /\ events' \in [Turns -> Seq(Entries)]
    BY <1>2, <1>5, <2>1, <2>2, ClosedLog DEF Pending, Ends
  <2>4. Typed'
    BY <1>0, <1>1, <1>2, <1>3, <2>1, <2>3 DEF Typed
  <2>5. TurnFits(t)'
    BY <1>0, <1>1, <1>2, <1>5, <2>2, <2>3
       DEF TurnFits, ClaimedOnce, RunFits, CallFits, Pending, Ends
  <2> QED
    BY <2>2, <2>4, <2>5, OneTurn
<1> QED
  BY <1>4, <1>5

LEMMA RunInv ==
  ASSUME ChatInv, NEW t \in Turns, RunStep(t) \/ Abort(t)
  PROVE  ChatInv'
<1>0. /\ turn \in [Turns -> Row] /\ events \in [Turns -> Seq(Entries)]
      /\ conf \in [Turns -> [Calls -> Records]] /\ exec \in [Turns -> Runs]
      /\ tool \in [Turns -> [Calls -> Tools]] /\ effects \in [Turns -> [Calls -> Nat]]
      /\ sub \in Subs
      /\ TurnFits(t) /\ turn[t] \in Row /\ exec[t] \in Runs
  BY InvParts DEF Typed
<1>f. exec[t].aborted \in {"no", "stopped", "lost"} /\ exec[t].unknown \in BOOLEAN
  BY <1>0 DEF Runs
<1>1. CASE AppendChatRunEvent(t)
  <2>1. /\ Log(t, 1) /\ turn[t].status = "pending"
        /\ UNCHANGED <<turn, conf, exec, tool, effects, sub>>
    BY <1>1 DEF AppendChatRunEvent, Holds, Pending
  <2>2. LogFits(t)' /\ events' \in [Turns -> Seq(Entries)]
    BY <2>1, OpenLog DEF Ends
  <2>3. Typed' /\ \A u \in Turns \ {t} : Same(u)
    BY <1>0, <2>1, <2>2 DEF Typed, Same, Log
  <2>4. TurnFits(t)'
    BY <1>0, <2>1, <2>2 DEF TurnFits, ClaimedOnce, RunFits, CallFits, Pending
  <2> QED
    BY <2>3, <2>4, OneTurn
<1>2. CASE Abort(t)
  <2>1. PICK why \in {"lost", "stopped"} :
          exec' = [exec EXCEPT ![t] = [exec[t] EXCEPT !.aborted = why]]
    BY <1>0, <1>2 DEF Abort
  <2> DEFINE e == [exec[t] EXCEPT !.aborted = why]
  <2>2. e \in Runs /\ e.pc = exec[t].pc /\ e.gen = exec[t].gen /\ exec[t].pc = "streaming"
    BY <1>0, <1>2 DEF Runs, Abort
  <2>3. exec' = [exec EXCEPT ![t] = e] /\ UNCHANGED <<turn, events, conf, tool, effects, sub>>
    BY <1>2, <2>1 DEF Abort
  <2> HIDE DEF e
  <2> QED
    BY <2>2, <2>3, RunMoves
<1>3. CASE StreamEnds(t)
  <2> DEFINE e == [exec[t] EXCEPT !.pc = "counting"]
  <2>1. e \in Runs /\ e.pc = "counting" /\ e.gen = exec[t].gen
    BY <1>0 DEF Runs
  <2>2. /\ exec' = [exec EXCEPT ![t] = e] /\ UNCHANGED <<turn, events, conf, tool, effects, sub>>
        /\ exec[t].pc = "streaming" /\ \A c \in Calls : tool[t][c] = "idle"
    BY <1>0, <1>3 DEF StreamEnds
  <2> HIDE DEF e
  <2> QED
    BY <2>1, <2>2, RunMoves
<1>4. CASE StreamFails(t) \/ FinalizeFails(t)
  <2>1. PICK ab \in {"no", "stopped", "lost"} :
          exec' = [exec EXCEPT ![t] = [exec[t] EXCEPT !.pc = "failing", !.aborted = ab]]
    BY <1>0, <1>f, <1>4 DEF StreamFails, FinalizeFails
  <2> DEFINE e == [exec[t] EXCEPT !.pc = "failing", !.aborted = ab]
  <2>2. e \in Runs /\ e.pc = "failing" /\ e.gen = exec[t].gen
    BY <1>0 DEF Runs
  <2>3. /\ exec' = [exec EXCEPT ![t] = e] /\ UNCHANGED <<turn, events, conf, tool, effects, sub>>
        /\ exec[t].pc # "none"
    BY <1>4, <2>1 DEF StreamFails, FinalizeFails
  <2> HIDE DEF e
  <2> QED
    BY <2>2, <2>3, RunMoves
<1>5. CASE CountOpenCalls(t)
  <2> DEFINE open == \E c \in Calls : conf[t][c] \in {"executing", "unknown"}
             e == [exec[t] EXCEPT !.pc = IF open THEN "failing" ELSE "finalizing",
                                  !.aborted = IF open THEN "lost" ELSE exec[t].aborted]
  <2>1. e \in Runs /\ e.pc = (IF open THEN "failing" ELSE "finalizing") /\ e.gen = exec[t].gen
    BY <1>0 DEF Runs
  <2>2. /\ exec' = [exec EXCEPT ![t] = e] /\ UNCHANGED <<turn, events, conf, tool, effects, sub>>
        /\ exec[t].pc = "counting"
    BY <1>0, <1>5 DEF CountOpenCalls
  <2> HIDE DEF e
  <2>3. \A c \in Calls : tool[t][c] = "idle"
    BY <1>0, <2>2 DEF TurnFits, RunFits
  <2> QED
    BY <2>1, <2>2, <2>3, RunMoves
<1>6. CASE CompleteChatTurn(t)
  <2>1. PICK st \in {"cancelled", "completed"} :
          /\ UNCHANGED <<turn, events>> \/ (Pending(t) /\ Publish(t, st))
          /\ st = "completed" => ~turn[t].stop
    <3>1. CASE ~Holds(t)
      BY <1>6, <3>1 DEF CompleteChatTurn
    <3>2. CASE Holds(t) /\ turn[t].stop
      BY <1>6, <3>2 DEF CompleteChatTurn, Holds
    <3>3. CASE Holds(t) /\ ~turn[t].stop
      BY <1>6, <3>3 DEF CompleteChatTurn, Holds
    <3>4. turn[t].stop \in BOOLEAN
      BY <1>0 DEF Row
    <3> QED
      BY <3>1, <3>2, <3>3, <3>4
  <2>2. /\ exec' = [exec EXCEPT ![t].pc = "done"] /\ UNCHANGED <<conf, tool, effects, sub>>
        /\ exec[t].pc = "finalizing"
    BY <1>6 DEF CompleteChatTurn
  <2>3. \A c \in Calls : Pending(t) => conf[t][c] \notin {"executing", "unknown"}
    BY <1>0, <2>2 DEF TurnFits, RunFits
  <2> QED
    BY <2>1, <2>2, <2>3, RunEnds DEF Ends
<1>7. CASE MarkUnknown(t)
  <2>1. exec[t].pc = "failing" /\ UNCHANGED <<turn, events, tool, effects, sub>>
    BY <1>7 DEF MarkUnknown
  <2>2. CASE exec' = [exec EXCEPT ![t].pc = "done"] /\ UNCHANGED conf
    <3> DEFINE e == [exec[t] EXCEPT !.pc = "done"]
    <3>1. e \in Runs /\ e.pc = "done" /\ e.gen = exec[t].gen /\ exec' = [exec EXCEPT ![t] = e]
      BY <1>0, <2>2 DEF Runs
    <3> HIDE DEF e
    <3> QED
      BY <2>1, <2>2, <3>1, RunMoves
  <2>3. CASE /\ Pending(t)
             /\ exec' = [exec EXCEPT ![t].pc = "marked"]
             /\ conf' = [conf EXCEPT ![t] =
                          [c \in Calls |-> IF @[c] = "executing" THEN "unknown" ELSE @[c]]]
    <3> DEFINE e == [exec[t] EXCEPT !.pc = "marked"]
               k == [c \in Calls |-> IF conf[t][c] = "executing" THEN "unknown" ELSE conf[t][c]]
    <3>1. e \in Runs /\ e.pc = "marked" /\ e.gen = exec[t].gen /\ exec' = [exec EXCEPT ![t] = e]
      BY <1>0, <2>3 DEF Runs
    <3>2. k \in [Calls -> Records] /\ conf' = [conf EXCEPT ![t] = k]
      BY <1>0, <2>3 DEF Records
    <3>3. \A c \in Calls : k[c] = IF conf[t][c] = "executing" THEN "unknown" ELSE conf[t][c]
      OBVIOUS
    <3> HIDE DEF e, k
    <3>4. exec'[t] = e /\ conf'[t] = k /\ \A u \in Turns \ {t} : Same(u)
      BY <1>0, <2>1, <3>1, <3>2 DEF Same
    <3>5. Typed'
      BY <1>0, <2>1, <3>1, <3>2 DEF Typed
    <3>6. ClaimedOnce(t)' /\ LogFits(t)' /\ RunFits(t)'
      BY <1>0, <2>1, <2>3, <3>1, <3>3, <3>4
         DEF TurnFits, ClaimedOnce, LogFits, RunFits, Pending, Ends
    <3>7. \A c \in Calls : CallFits(t, c)'
      BY <1>0, <2>1, <3>3, <3>4 DEF TurnFits, CallFits
    <3>8. TurnFits(t)'
      BY <3>6, <3>7 DEF TurnFits
    <3> QED
      BY <3>4, <3>5, <3>8, OneTurn
  <2> QED
    BY <1>7, <2>2, <2>3 DEF MarkUnknown, Holds
<1>8. CASE CountUnknown(t)
  <2>1. PICK un \in BOOLEAN :
          exec' = [exec EXCEPT ![t] = [exec[t] EXCEPT !.pc = "finishing", !.unknown = un]]
    BY <1>0, <1>8 DEF CountUnknown
  <2> DEFINE e == [exec[t] EXCEPT !.pc = "finishing", !.unknown = un]
  <2>2. e \in Runs /\ e.pc = "finishing" /\ e.gen = exec[t].gen
    BY <1>0 DEF Runs
  <2>3. /\ exec' = [exec EXCEPT ![t] = e] /\ UNCHANGED <<turn, events, conf, tool, effects, sub>>
        /\ exec[t].pc = "marked"
    BY <1>8, <2>1 DEF CountUnknown
  <2> HIDE DEF e
  <2>4. \A c \in Calls : conf[t][c] # "executing"
    BY <1>0, <2>3 DEF TurnFits, RunFits
  <2> QED
    BY <2>2, <2>3, <2>4, RunMoves
<1>9. CASE FinishChatTurn(t)
  <2>1. PICK st \in {"cancelled", "failed"} :
          UNCHANGED <<turn, events>> \/ (Pending(t) /\ Publish(t, st))
    <3>1. CASE ~Holds(t)
      BY <1>9, <3>1 DEF FinishChatTurn
    <3>2. (IF ~exec[t].unknown /\ exec[t].aborted = "stopped"
           THEN "cancelled" ELSE "failed") \in {"cancelled", "failed"}
      OBVIOUS
    <3>3. CASE Holds(t)
      <4> DEFINE st == IF ~exec[t].unknown /\ exec[t].aborted = "stopped"
                       THEN "cancelled" ELSE "failed"
      <4>1. Publish(t, st)
        BY <1>9, <3>3 DEF FinishChatTurn
      <4> HIDE DEF st
      <4>2. Pending(t)
        BY <3>3 DEF Holds
      <4> QED
        BY <3>2, <4>1, <4>2 DEF st
    <3> QED
      BY <3>1, <3>3
  <2>2. /\ exec' = [exec EXCEPT ![t].pc = "done"] /\ UNCHANGED <<conf, tool, effects, sub>>
        /\ exec[t].pc = "finishing"
    BY <1>9 DEF FinishChatTurn
  <2>3. \A c \in Calls : conf[t][c] # "executing"
    BY <1>0, <2>2 DEF TurnFits, RunFits
  <2> QED
    BY <2>1, <2>2, <2>3, RunEnds DEF Ends
<1>10. CASE FinishUnsucceeded(t)
  <2>1. UNCHANGED <<turn, events>> \/ (Pending(t) /\ Publish(t, "failed"))
    BY <1>10 DEF FinishUnsucceeded, Holds
  <2>2. /\ exec' = [exec EXCEPT ![t].pc = "done"] /\ UNCHANGED <<conf, tool, effects, sub>>
        /\ exec[t].pc = "finalizing"
    BY <1>10 DEF FinishUnsucceeded
  <2>3. \A c \in Calls : Pending(t) => conf[t][c] \notin {"executing", "unknown"}
    BY <1>0, <2>2 DEF TurnFits, RunFits
  <2> QED
    BY <2>1, <2>2, <2>3, RunEnds DEF Ends
<1> QED
  BY <1>1, <1>2, <1>3, <1>4, <1>5, <1>6, <1>7, <1>8, <1>9, <1>10 DEF RunStep

\* One call of a turn moves on: its record becomes k, its place in flight o and its
\* effects n, and e is the run.
CallMove(t, c, k, o, n, e) ==
  /\ k \in Records /\ o \in Tools /\ n \in 0..1 /\ e \in Runs
  /\ conf' = [conf EXCEPT ![t] = [conf[t] EXCEPT ![c] = k]]
  /\ tool' = [tool EXCEPT ![t] = [tool[t] EXCEPT ![c] = o]]
  /\ effects' = [effects EXCEPT ![t] = [effects[t] EXCEPT ![c] = n]]
  /\ exec' = [exec EXCEPT ![t] = e]
  /\ UNCHANGED <<turn, sub>>
  /\ UNCHANGED events \/ (Pending(t) /\ \E j \in Nat : Log(t, j))
  /\ e.pc = exec[t].pc /\ e.gen = exec[t].gen
  /\ \/ k = conf[t][c]
     \/ /\ Pending(t)
        /\ exec[t].pc \notin {"none", "counting", "finalizing"}
        /\ k = "executing" => exec[t].pc = "streaming"
  /\ o = "idle" \/ exec[t].pc \notin {"counting", "finalizing"}
  /\ k = "none" => o = "idle" /\ n = 0
  /\ o # "idle" => k \in {"executing", "unknown"}
  /\ o \in {"claimed", "undispatched"} => n = 0
  /\ o = "returned" => n = 1
  /\ k = "failed" => n = 0
  /\ k = "succeeded" => n = 1

LEMMA CallMoves ==
  ASSUME ChatInv, NEW t \in Turns, NEW c \in Calls, NEW k, NEW o, NEW n, NEW e,
         CallMove(t, c, k, o, n, e)
  PROVE  ChatInv'
<1>0. /\ turn \in [Turns -> Row] /\ events \in [Turns -> Seq(Entries)]
      /\ conf \in [Turns -> [Calls -> Records]] /\ exec \in [Turns -> Runs]
      /\ tool \in [Turns -> [Calls -> Tools]] /\ effects \in [Turns -> [Calls -> Nat]]
      /\ sub \in Subs
      /\ TurnFits(t)
  BY InvParts DEF Typed
<1>a. k \in Records /\ o \in Tools /\ n \in 0..1 /\ e \in Runs
  BY DEF CallMove
<1>b. /\ UNCHANGED <<turn, sub>> /\ exec' = [exec EXCEPT ![t] = e]
      /\ UNCHANGED events \/ (Pending(t) /\ \E j \in Nat : Log(t, j))
      /\ e.pc = exec[t].pc /\ e.gen = exec[t].gen
  BY DEF CallMove
<1>c. /\ \/ k = conf[t][c]
         \/ /\ Pending(t)
            /\ exec[t].pc \notin {"none", "counting", "finalizing"}
            /\ k = "executing" => exec[t].pc = "streaming"
      /\ o = "idle" \/ exec[t].pc \notin {"counting", "finalizing"}
  BY DEF CallMove
<1>d. /\ k = "none" => o = "idle" /\ n = 0
      /\ o # "idle" => k \in {"executing", "unknown"}
      /\ o \in {"claimed", "undispatched"} => n = 0
      /\ o = "returned" => n = 1
      /\ k = "failed" => n = 0
      /\ k = "succeeded" => n = 1
  BY DEF CallMove
<1> DEFINE kk == [conf[t] EXCEPT ![c] = k]
           oo == [tool[t] EXCEPT ![c] = o]
           nn == [effects[t] EXCEPT ![c] = n]
<1>1. /\ kk \in [Calls -> Records] /\ kk[c] = k
      /\ \A d \in Calls \ {c} : kk[d] = conf[t][d]
  BY <1>0, <1>a
<1>2. /\ oo \in [Calls -> Tools] /\ oo[c] = o
      /\ \A d \in Calls \ {c} : oo[d] = tool[t][d]
  BY <1>0, <1>a
<1>3. /\ nn \in [Calls -> Nat] /\ nn[c] = n
      /\ \A d \in Calls \ {c} : nn[d] = effects[t][d]
  BY <1>0, <1>a
<1>4. /\ conf' = [conf EXCEPT ![t] = kk] /\ tool' = [tool EXCEPT ![t] = oo]
      /\ effects' = [effects EXCEPT ![t] = nn]
  BY DEF CallMove
<1> HIDE DEF kk, oo, nn
<1>5. /\ conf'[t] = kk /\ tool'[t] = oo /\ effects'[t] = nn /\ exec'[t] = e
      /\ turn'[t] = turn[t]
  BY <1>0, <1>4, <1>b
<1>6. LogFits(t)' /\ events' \in [Turns -> Seq(Entries)]
  <2>1. CASE UNCHANGED events
    BY <1>0, <1>5, <2>1 DEF TurnFits, LogFits
  <2>2. CASE Pending(t) /\ \E j \in Nat : Log(t, j)
    BY <1>b, <1>5, <2>2, OpenLog DEF Pending, Ends
  <2> QED
    BY <1>b, <2>1, <2>2
<1>7. \A u \in Turns \ {t} : Same(u)
  BY <1>0, <1>4, <1>b DEF Same, Log
<1>8. Typed'
  BY <1>0, <1>a, <1>b, <1>1, <1>2, <1>3, <1>4, <1>6 DEF Typed
<1>9. \A d \in Calls : CallFits(t, d)'
  <2>1. CallFits(t, c)'
    BY <1>a, <1>d, <1>1, <1>2, <1>3, <1>5 DEF CallFits
  <2>2. ASSUME NEW d \in Calls \ {c} PROVE CallFits(t, d)'
    BY <1>0, <1>1, <1>2, <1>3, <1>5, <2>2 DEF TurnFits, CallFits
  <2> QED
    BY <2>1, <2>2
<1>10. RunFits(t)'
  BY <1>0, <1>b, <1>c, <1>1, <1>2, <1>5 DEF TurnFits, RunFits, Pending, Ends
<1>11. ClaimedOnce(t)'
  BY <1>0, <1>b, <1>5 DEF TurnFits, ClaimedOnce, Pending
<1>12. TurnFits(t)'
  BY <1>6, <1>9, <1>10, <1>11 DEF TurnFits
<1> QED
  BY <1>7, <1>8, <1>12, OneTurn

LEMMA ToolInv ==
  ASSUME ChatInv, NEW t \in Turns, NEW c \in Calls, ToolStep(t, c)
  PROVE  ChatInv'
<1>0. /\ turn \in [Turns -> Row]
      /\ conf \in [Turns -> [Calls -> Records]] /\ exec \in [Turns -> Runs]
      /\ tool \in [Turns -> [Calls -> Tools]] /\ effects \in [Turns -> [Calls -> Nat]]
      /\ TurnFits(t) /\ turn[t] \in Row /\ exec[t] \in Runs
      /\ CallFits(t, c) /\ conf[t][c] \in Records
  BY InvParts DEF Typed, TurnFits
<1>s. /\ conf = [conf EXCEPT ![t] = [conf[t] EXCEPT ![c] = conf[t][c]]]
      /\ tool = [tool EXCEPT ![t] = [tool[t] EXCEPT ![c] = tool[t][c]]]
      /\ effects = [effects EXCEPT ![t] = [effects[t] EXCEPT ![c] = effects[t][c]]]
      /\ exec = [exec EXCEPT ![t] = exec[t]]
  BY <1>0
<1>n. effects[t][c] \in 0..1
  BY <1>0 DEF CallFits
<1>p. tool[t][c] # "idle" => exec[t].pc \notin {"none", "counting", "finalizing"}
  BY <1>0 DEF TurnFits, RunFits, CallFits
<1>1. CASE ClaimCall(t, c)
  <2>1. /\ conf' = [conf EXCEPT ![t] = [conf[t] EXCEPT ![c] = "executing"]]
        /\ tool' = [tool EXCEPT ![t] = [tool[t] EXCEPT ![c] = "claimed"]]
        /\ Log(t, 2) /\ UNCHANGED <<turn, exec, effects, sub>>
        /\ Pending(t) /\ conf[t][c] = "none" /\ exec[t].pc = "streaming"
    BY <1>1 DEF ClaimCall, Holds
  <2>2. effects[t][c] = 0 /\ "executing" \in Records /\ "claimed" \in Tools
    BY <1>0, <2>1 DEF CallFits, Records, Tools
  <2>3. Pending(t) /\ \E j \in Nat : Log(t, j)
    BY <2>1
  <2>4. /\ effects' = [effects EXCEPT ![t] = [effects[t] EXCEPT ![c] = effects[t][c]]]
        /\ exec' = [exec EXCEPT ![t] = exec[t]]
    BY <1>s, <2>1
  <2>m. CallMove(t, c, "executing", "claimed", effects[t][c], exec[t])
    BY <1>0, <1>n, <2>1, <2>2, <2>3, <2>4 DEF CallMove
  <2> QED
    BY <2>m, CallMoves
<1>2. CASE InvokeTool(t, c)
  <2>1. /\ tool[t][c] = "claimed" /\ UNCHANGED <<turn, events, conf, exec, sub>>
        /\ effects[t][c] = 0
        /\ conf[t][c] \in {"executing", "unknown"}
    BY <1>0, <1>2 DEF InvokeTool, CallFits
  <2>2. /\ conf' = [conf EXCEPT ![t] = [conf[t] EXCEPT ![c] = conf[t][c]]]
        /\ exec' = [exec EXCEPT ![t] = exec[t]]
    BY <1>s, <2>1
  <2>3. ASSUME NEW o \in {"returned", "threw"}, NEW n \in 0..1,
               tool' = [tool EXCEPT ![t] = [tool[t] EXCEPT ![c] = o]],
               effects' = [effects EXCEPT ![t] = [effects[t] EXCEPT ![c] = n]],
               o = "returned" => n = 1
        PROVE  ChatInv'
    <3>1. o \in Tools
      BY DEF Tools
    <3>m. CallMove(t, c, conf[t][c], o, n, exec[t])
      BY <1>0, <1>p, <2>1, <2>2, <2>3, <3>1 DEF CallMove
    <3> QED
      BY <3>m, CallMoves
  <2>4. CASE /\ effects' = [effects EXCEPT ![t][c] = @ + 1]
             /\ tool' \in {[tool EXCEPT ![t][c] = out] : out \in {"returned", "threw"}}
    <3>1. PICK o \in {"returned", "threw"} :
            tool' = [tool EXCEPT ![t] = [tool[t] EXCEPT ![c] = o]]
      BY <2>4
    <3>2. effects' = [effects EXCEPT ![t] = [effects[t] EXCEPT ![c] = effects[t][c] + 1]]
      BY <2>4
    <3>3. effects[t][c] + 1 \in 0..1 /\ effects[t][c] + 1 = 1
      BY <2>1
    <3> QED
      BY <2>3, <3>1, <3>2, <3>3
  <2>5. CASE tool' = [tool EXCEPT ![t][c] = "threw"] /\ UNCHANGED effects
    <3>1. /\ tool' = [tool EXCEPT ![t] = [tool[t] EXCEPT ![c] = "threw"]]
          /\ effects' = [effects EXCEPT ![t] = [effects[t] EXCEPT ![c] = effects[t][c]]]
      BY <1>s, <2>5
    <3> QED
      BY <1>n, <2>3, <3>1
  <2> QED
    BY <1>2, <2>4, <2>5 DEF InvokeTool
<1>3. CASE NotDispatched(t, c)
  <2>1. /\ tool[t][c] = "claimed" /\ UNCHANGED <<turn, events, conf, exec, effects, sub>>
        /\ tool' = [tool EXCEPT ![t] = [tool[t] EXCEPT ![c] = "undispatched"]]
        /\ effects[t][c] = 0 /\ conf[t][c] \in {"executing", "unknown"}
    BY <1>0, <1>3 DEF NotDispatched, CallFits
  <2>2. /\ conf' = [conf EXCEPT ![t] = [conf[t] EXCEPT ![c] = conf[t][c]]]
        /\ effects' = [effects EXCEPT ![t] = [effects[t] EXCEPT ![c] = effects[t][c]]]
        /\ exec' = [exec EXCEPT ![t] = exec[t]]
    BY <1>s, <2>1
  <2>3. "undispatched" \in Tools
    BY DEF Tools
  <2>m. CallMove(t, c, conf[t][c], "undispatched", effects[t][c], exec[t])
    BY <1>0, <1>n, <1>p, <2>1, <2>2, <2>3 DEF CallMove
  <2> QED
    BY <2>m, CallMoves
<1>4. CASE RecordResult(t, c)
  <2>1. /\ tool[t][c] = "returned" /\ UNCHANGED <<turn, exec, effects, sub>>
        /\ effects[t][c] = 1 /\ conf[t][c] \in {"executing", "unknown"}
    BY <1>0, <1>4 DEF RecordResult, CallFits
  <2>2. /\ effects' = [effects EXCEPT ![t] = [effects[t] EXCEPT ![c] = effects[t][c]]]
        /\ exec' = [exec EXCEPT ![t] = exec[t]]
    BY <1>s, <2>1
  <2>3. CASE /\ Holds(t)
             /\ conf' = [conf EXCEPT ![t][c] = "succeeded"]
             /\ Log(t, 1)
             /\ tool' = [tool EXCEPT ![t][c] = "idle"]
    <3>1. /\ conf' = [conf EXCEPT ![t] = [conf[t] EXCEPT ![c] = "succeeded"]]
          /\ tool' = [tool EXCEPT ![t] = [tool[t] EXCEPT ![c] = "idle"]]
          /\ Pending(t) /\ \E j \in Nat : Log(t, j)
      BY <2>3 DEF Holds
    <3>2. "succeeded" \in Records /\ "idle" \in Tools
      BY DEF Records, Tools
    <3>m. CallMove(t, c, "succeeded", "idle", effects[t][c], exec[t])
      BY <1>0, <1>n, <1>p, <2>1, <2>2, <3>1, <3>2 DEF CallMove
    <3> QED
      BY <3>m, CallMoves
  <2>4. CASE tool' = [tool EXCEPT ![t][c] = "threw"] /\ UNCHANGED <<conf, events>>
    <3>1. /\ conf' = [conf EXCEPT ![t] = [conf[t] EXCEPT ![c] = conf[t][c]]]
          /\ tool' = [tool EXCEPT ![t] = [tool[t] EXCEPT ![c] = "threw"]]
      BY <1>s, <2>4
    <3>2. "threw" \in Tools
      BY DEF Tools
    <3>m. CallMove(t, c, conf[t][c], "threw", effects[t][c], exec[t])
      BY <1>0, <1>n, <1>p, <2>1, <2>2, <2>4, <3>1, <3>2 DEF CallMove
    <3> QED
      BY <3>m, CallMoves
  <2> QED
    BY <1>4, <2>3, <2>4 DEF RecordResult
<1>5. CASE RecordFailure(t, c)
  <2>1. /\ tool[t][c] \in {"threw", "undispatched"} /\ UNCHANGED <<turn, effects, sub>>
        /\ tool' = [tool EXCEPT ![t] = [tool[t] EXCEPT ![c] = "idle"]]
        /\ conf[t][c] \in {"executing", "unknown"}
        /\ tool[t][c] = "undispatched" => effects[t][c] = 0
    BY <1>0, <1>5 DEF RecordFailure, CallFits
  <2>2. /\ effects' = [effects EXCEPT ![t] = [effects[t] EXCEPT ![c] = effects[t][c]]]
        /\ "idle" \in Tools
    BY <1>s, <2>1 DEF Tools
  <2>3. ASSUME Holds(t), Log(t, 1),
               conf' = [conf EXCEPT ![t][c] = IF @ = "executing" THEN CallOutcome(t, c) ELSE @],
               exec' = [exec EXCEPT ![t].aborted =
                          IF @ = "no" /\ tool[t][c] = "threw" THEN "lost" ELSE @]
        PROVE  ChatInv'
    <3> DEFINE k == IF conf[t][c] = "executing" THEN CallOutcome(t, c) ELSE conf[t][c]
               ab == IF exec[t].aborted = "no" /\ tool[t][c] = "threw" THEN "lost"
                     ELSE exec[t].aborted
               e == [exec[t] EXCEPT !.aborted = ab]
    <3>1. /\ k \in Records /\ k \in {"unknown", "failed"}
          /\ k = "failed" => effects[t][c] = 0
      BY <1>0, <2>1 DEF CallOutcome, Records
    <3>2. ab \in {"no", "stopped", "lost"}
      BY <1>0 DEF Runs
    <3>3. conf' = [conf EXCEPT ![t] = [conf[t] EXCEPT ![c] = k]]
      BY <2>3
    <3>4. exec' = [exec EXCEPT ![t] = e]
      BY <2>3
    <3> HIDE DEF k, ab
    <3>5. e \in Runs /\ e.pc = exec[t].pc /\ e.gen = exec[t].gen
      BY <1>0, <3>2 DEF Runs
    <3> HIDE DEF e
    <3>6. Pending(t) /\ \E j \in Nat : Log(t, j)
      BY <2>3 DEF Holds
    <3>m. CallMove(t, c, k, "idle", effects[t][c], e)
      BY <1>0, <1>n, <1>p, <2>1, <2>2, <3>1, <3>3, <3>4, <3>5, <3>6 DEF CallMove
    <3> QED
      BY <3>m, CallMoves
  <2>4. CASE UNCHANGED <<conf, events, exec>>
    <3>1. /\ conf' = [conf EXCEPT ![t] = [conf[t] EXCEPT ![c] = conf[t][c]]]
          /\ exec' = [exec EXCEPT ![t] = exec[t]]
      BY <1>s, <2>4
    <3>m. CallMove(t, c, conf[t][c], "idle", effects[t][c], exec[t])
      BY <1>0, <1>n, <1>p, <2>1, <2>2, <2>4, <3>1 DEF CallMove, CallFits
    <3> QED
      BY <3>m, CallMoves
  <2> QED
    BY <1>5, <2>3, <2>4 DEF RecordFailure
<1> QED
  BY <1>1, <1>2, <1>3, <1>4, <1>5 DEF ToolStep

\* Subscribers only read.
LEMMA SubscriberInv ==
  ASSUME ChatInv, NEW t \in Turns, Subscribe(t) \/ ReadEvents(t) \/ CheckStatus(t) \/ Wake
  PROVE  ChatInv'
<1>0. Typed /\ sub \in Subs /\ Len(events[t]) \in Nat
  <2>1. Typed /\ events[t] \in Seq(Entries)
    BY InvParts DEF Typed
  <2> QED
    BY <2>1, LenProperties DEF Typed
<1>1. UNCHANGED <<turn, events, conf, exec, tool, effects>>
  BY DEF Subscribe, ReadEvents, CheckStatus, Wake
<1>2. sub' \in Subs
  <2>1. CASE Subscribe(t)
    <3>1. PICK cursor \in 0..Len(events[t]) :
            sub' = [pc |-> "read", of |-> {t}, cursor |-> cursor]
      BY <2>1 DEF Subscribe
    <3> QED
      BY <1>0, <3>1 DEF Subs
  <2>2. CASE ReadEvents(t)
    BY <1>0, <2>2 DEF ReadEvents, Subs
  <2>3. CASE CheckStatus(t)
    BY <1>0, <2>3 DEF CheckStatus, Subs
  <2>4. CASE Wake
    BY <1>0, <2>4 DEF Wake, Subs
  <2> QED
    BY <2>1, <2>2, <2>3, <2>4
<1>3. Typed' /\ \A u \in Turns : Same(u)
  BY <1>0, <1>1, <1>2 DEF Typed, Same
<1>4. TurnFits(t)'
  BY <1>3, SameFits DEF ChatInv
<1> QED
  BY <1>3, <1>4, OneTurn

\* A lease runs out, and a turn nobody claimed grows old.
LEMMA TimeInv ==
  ASSUME ChatInv, NEW t \in Turns, LeaseExpires(t) \/ GrowsOld(t)
  PROVE  ChatInv'
<1>0. Typed /\ TurnFits(t) /\ turn[t] \in Row
  BY InvParts
<1> DEFINE r == IF LeaseExpires(t) THEN [turn[t] EXCEPT !.live = FALSE]
                ELSE [turn[t] EXCEPT !.old = TRUE]
<1>1. /\ r \in Row /\ r.status = turn[t].status /\ r.leased = turn[t].leased
      /\ r.gen = turn[t].gen /\ r.stop = turn[t].stop
  BY <1>0 DEF Row
<1>2. /\ turn' = [turn EXCEPT ![t] = r]
      /\ UNCHANGED <<events, conf, exec, tool, effects, sub>>
  BY DEF LeaseExpires, GrowsOld
<1> HIDE DEF r
<1>3. turn'[t] = r /\ Typed' /\ \A u \in Turns \ {t} : Same(u)
  BY <1>0, <1>1, <1>2 DEF Typed, Same
<1>4. TurnFits(t)'
  BY <1>0, <1>1, <1>2, <1>3 DEF TurnFits, ClaimedOnce, LogFits, RunFits, CallFits, Pending
<1> QED
  BY <1>3, <1>4, OneTurn

\* The runs of the process and the calls in flight are gone, the records stay.
LEMMA CrashInv ==
  ASSUME ChatInv, Crash
  PROVE  ChatInv'
<1>1. Typed
  BY TypedIs DEF ChatInv
<1>2. exec' = [t \in Turns |-> [exec[t] EXCEPT !.pc = IF exec[t].pc = "none" THEN "none"
                                                      ELSE "done"]]
  BY DEF Crash
<1>3. \A t \in Turns :
        LET e == [exec[t] EXCEPT !.pc = IF exec[t].pc = "none" THEN "none" ELSE "done"] IN
        /\ e \in Runs /\ e.gen = exec[t].gen
        /\ e.pc = IF exec[t].pc = "none" THEN "none" ELSE "done"
  BY <1>1 DEF Typed, Runs
<1>4. /\ exec' \in [Turns -> Runs]
      /\ \A t \in Turns : /\ exec'[t].gen = exec[t].gen
                          /\ exec'[t].pc = IF exec[t].pc = "none" THEN "none" ELSE "done"
  BY <1>2, <1>3
<1>5. /\ tool' \in [Turns -> [Calls -> Tools]]
      /\ \A t \in Turns, c \in Calls : tool'[t][c] = "idle"
      /\ UNCHANGED <<turn, events, conf, effects, sub>>
  BY DEF Crash, Tools
<1>6. Typed'
  BY <1>1, <1>4, <1>5 DEF Typed
<1>7. ASSUME NEW t \in Turns PROVE TurnFits(t)'
  <2>1. TurnFits(t)
    BY DEF ChatInv
  <2>2. ClaimedOnce(t)' /\ LogFits(t)' /\ RunFits(t)'
    BY <1>4, <1>5, <2>1 DEF TurnFits, ClaimedOnce, LogFits, RunFits, Pending
  <2>3. \A c \in Calls : CallFits(t, c)'
    BY <1>5, <2>1 DEF TurnFits, CallFits
  <2> QED
    BY <2>2, <2>3 DEF TurnFits
<1> QED
  BY <1>6, <1>7, TypedIs DEF ChatInv

LEMMA ChatInit == Init => ChatInv
<1> SUFFICES ASSUME Init PROVE ChatInv
  OBVIOUS
<1>1. NoRow \in Row /\ NoExec \in Runs
  BY DEF NoRow, Row, NoExec, Runs
<1>2. << >> \in Seq(Entries) /\ Len(<< >>) = 0
  BY EmptySeq
<1>3. sub \in Subs
  BY DEF Init, Subs
<1>4. Typed
  BY <1>1, <1>2, <1>3 DEF Init, Typed, Records, Tools
<1>5. ASSUME NEW t \in Turns PROVE TurnFits(t)
  <2>1. /\ turn[t].status = "none" /\ turn[t].leased = FALSE /\ turn[t].gen = 0
        /\ exec[t].pc = "none" /\ events[t] = << >>
        /\ \A c \in Calls : conf[t][c] = "none" /\ tool[t][c] = "idle" /\ effects[t][c] = 0
    BY DEF Init, NoRow, NoExec
  <2> QED
    BY <1>2, <2>1 DEF TurnFits, ClaimedOnce, LogFits, RunFits, CallFits, Pending, Ends
<1> QED
  BY <1>4, <1>5, TypedIs DEF ChatInv

LEMMA ChatNext == ChatInv /\ [Next]_vars => ChatInv'
<1> SUFFICES ASSUME ChatInv, [Next]_vars PROVE ChatInv'
  OBVIOUS
<1>1. CASE UNCHANGED vars
  <2>1. Typed' /\ \A u \in Turns : Same(u)
    BY <1>1, TypedIs DEF ChatInv, Typed, Same, vars
  <2> QED
    BY <2>1, TypedIs, SameFits DEF ChatInv
<1>2. CASE Next
  <2>1. ASSUME NEW t \in Turns,
               \/ Request(t) \/ RecoverStale(t) \/ RunStep(t) \/ Abort(t)
               \/ \E c \in Calls : ToolStep(t, c)
               \/ Subscribe(t) \/ ReadEvents(t) \/ CheckStatus(t)
               \/ LeaseExpires(t) \/ GrowsOld(t)
        PROVE  ChatInv'
    BY <2>1, RequestInv, RunInv, ToolInv, SubscriberInv, TimeInv
  <2>2. CASE Wake /\ Turns # {}
    BY <2>2, SubscriberInv
  <2>3. CASE Wake /\ Turns = {}
    <3>1. Typed'
      BY <2>3, TypedIs DEF Wake, ChatInv, Typed, Subs
    <3> QED
      BY <2>3, <3>1, TypedIs DEF ChatInv
  <2>4. CASE Crash
    BY <2>4, CrashInv
  <2> QED
    BY <1>2, <2>1, <2>2, <2>3, <2>4 DEF Next
<1> QED
  BY <1>1, <1>2

LEMMA ChatAlways == Spec => []ChatInv
BY ChatInit, ChatNext, PTL DEF Spec

-----------------------------------------------------------------------------
(* What follows *)

\* Rows, runs, records and logs stay in their types; a turn's generation never
\* passes 2: one claim (startChatRun), one recovery (recoverStaleChatRuns).
THEOREM RowsInType == Spec => []TypeOK
<1>1. ChatInv => TypeOK
  BY DEF ChatInv
<1> QED
  BY <1>1, ChatAlways, PTL

\* Whoever comes first of completeChatTurn, finishChatTurn, cancelChatRun,
\* recoverStaleChatRuns and a failed start, the log of a turn gets exactly one
\* closing event, at its end, and it tells the status of the turn; a turn whose
\* stop was requested does not end as completed.
THEOREM EndsOnce == Spec => []OneEnding
<1>1. ASSUME ChatInv PROVE OneEnding
  <2>1. ASSUME NEW t \in Turns
        PROVE  DOMAIN events[t] = 1..Len(events[t]) /\ LogFits(t)
    BY <1>1, InvParts, LenProperties DEF Typed, TurnFits
  <2> QED
    BY <2>1 DEF OneEnding, LogFits
<1> QED
  BY <1>1, ChatAlways, PTL

\* A tool call has its effect at most once, however requests are retried, runs
\* recovered and processes restarted; one that reached its tool is never recorded
\* as failed, and one recorded as succeeded did reach it (wrapChatTools).
THEOREM OutcomesAlwaysHonest == Spec => []OutcomesAreHonest
<1>1. ASSUME ChatInv PROVE OutcomesAreHonest
  <2>1. ASSUME NEW t \in Turns, NEW c \in Calls
        PROVE  CallFits(t, c) /\ conf[t][c] \in Records
    BY <1>1, InvParts DEF Typed, TurnFits
  <2> QED
    BY <2>1 DEF OutcomesAreHonest, CallFits, Records
<1> QED
  BY <1>1, ChatAlways, PTL

\* A turn that ended leaves no call executing, and completes only when the outcome
\* of each of its calls is known (startChatRun, recoverStaleChatRuns).
THEOREM VerdictAlwaysCertain == Spec => []VerdictIsCertain
<1>1. ChatInv => VerdictIsCertain
  BY DEF ChatInv, TurnFits, RunFits, VerdictIsCertain
<1> QED
  BY <1>1, ChatAlways, PTL

\* Every write of a row, a log or a record finds the turn open: the fence of the
\* run, the lock of a stop and of a recovery, and the claim of a call say so.
Frozen(t) == turn'[t] = turn[t] /\ events'[t] = events[t] /\ conf'[t] = conf[t]

LEMMA OtherTurn ==
  ASSUME ChatInv, NEW t \in Turns, NEW u \in Turns \ {t},
         NEW r, NEW e, NEW k,
         turn' = [turn EXCEPT ![u] = r] \/ UNCHANGED turn,
         events' = [events EXCEPT ![u] = e] \/ UNCHANGED events,
         conf' = [conf EXCEPT ![u] = k] \/ UNCHANGED conf
  PROVE  Frozen(t)
BY InvParts DEF Typed, Frozen

LEMMA EndedIsFrozen ==
  ASSUME ChatInv, [Next]_vars, NEW t \in Turns, turn[t].status \in Ends
  PROVE  Frozen(t)
<1>0. ~Pending(t) /\ ~Holds(t) /\ ~Stale(t) /\ turn[t].status # "none"
  BY DEF Pending, Holds, Stale, Ends
<1>1. ASSUME NEW u \in Turns, Request(u) \/ RecoverStale(u)
      PROVE  Frozen(t)
  <2>1. u # t
    BY <1>0, <1>1 DEF Request, BeginChatTurn, StartChatRun, StartFails, CancelChatRun,
                      RecoverStale
  <2>2. \/ \E r : turn' = [turn EXCEPT ![u] = r]
        \/ UNCHANGED turn
    BY <1>1 DEF Request, BeginChatTurn, StartChatRun, StartFails, CancelChatRun,
                RecoverStale, Publish
  <2>3. \/ \E e : events' = [events EXCEPT ![u] = e]
        \/ UNCHANGED events
    BY <1>1 DEF Request, BeginChatTurn, StartChatRun, StartFails, CancelChatRun,
                RecoverStale, Publish, Log
  <2>4. \/ \E k : conf' = [conf EXCEPT ![u] = k]
        \/ UNCHANGED conf
    BY <1>1 DEF Request, BeginChatTurn, StartChatRun, StartFails, CancelChatRun,
                RecoverStale
  <2> QED
    BY <2>1, <2>2, <2>3, <2>4, OtherTurn
<1>2. ASSUME NEW u \in Turns, RunStep(u) \/ Abort(u)
      PROVE  Frozen(t)
  <2>1. CASE u = t
    BY <1>0, <1>2, <2>1
       DEF RunStep, Abort, AppendChatRunEvent, StreamEnds, StreamFails, CountOpenCalls,
           CompleteChatTurn, FinishUnsucceeded, FinalizeFails, MarkUnknown, CountUnknown, FinishChatTurn, Frozen
  <2>2. CASE u # t
    <3>1. \/ \E r : turn' = [turn EXCEPT ![u] = r]
          \/ UNCHANGED turn
      BY <1>2 DEF RunStep, Abort, AppendChatRunEvent, StreamEnds, StreamFails,
           CountOpenCalls, CompleteChatTurn, FinishUnsucceeded, FinalizeFails, MarkUnknown, CountUnknown,
           FinishChatTurn, Publish
    <3>2. \/ \E e : events' = [events EXCEPT ![u] = e]
          \/ UNCHANGED events
      BY <1>2 DEF RunStep, Abort, AppendChatRunEvent, StreamEnds, StreamFails,
           CountOpenCalls, CompleteChatTurn, FinishUnsucceeded, FinalizeFails, MarkUnknown, CountUnknown,
           FinishChatTurn, Publish, Log
    <3>3. \/ \E k : conf' = [conf EXCEPT ![u] = k]
          \/ UNCHANGED conf
      BY <1>2 DEF RunStep, Abort, AppendChatRunEvent, StreamEnds, StreamFails,
           CountOpenCalls, CompleteChatTurn, FinishUnsucceeded, FinalizeFails, MarkUnknown, CountUnknown,
           FinishChatTurn
    <3> QED
      BY <2>2, <3>1, <3>2, <3>3, OtherTurn
  <2> QED
    BY <2>1, <2>2
<1>3. ASSUME NEW u \in Turns, NEW c \in Calls, ToolStep(u, c)
      PROVE  Frozen(t)
  <2>1. CASE u = t
    BY <1>0, <1>3, <2>1
       DEF ToolStep, ClaimCall, InvokeTool, NotDispatched, RecordResult, RecordFailure, Frozen
  <2>2. CASE u # t
    <3>1. UNCHANGED turn
      BY <1>3 DEF ToolStep, ClaimCall, InvokeTool, NotDispatched, RecordResult, RecordFailure
    <3>2. \/ \E e : events' = [events EXCEPT ![u] = e]
          \/ UNCHANGED events
      BY <1>3 DEF ToolStep, ClaimCall, InvokeTool, NotDispatched, RecordResult,
                  RecordFailure, Log
    <3>3. \/ \E k : conf' = [conf EXCEPT ![u] = k]
          \/ UNCHANGED conf
      BY <1>3 DEF ToolStep, ClaimCall, InvokeTool, NotDispatched, RecordResult, RecordFailure
    <3> QED
      BY <2>2, <3>1, <3>2, <3>3, OtherTurn
  <2> QED
    BY <2>1, <2>2
<1>4. ASSUME NEW u \in Turns, LeaseExpires(u) \/ GrowsOld(u)
      PROVE  Frozen(t)
  <2>1. u # t /\ UNCHANGED <<events, conf>>
    BY <1>0, <1>4 DEF LeaseExpires, GrowsOld
  <2>2. \E r : turn' = [turn EXCEPT ![u] = r]
    BY <1>4 DEF LeaseExpires, GrowsOld
  <2> QED
    BY <2>1, <2>2, OtherTurn
<1>5. ASSUME NEW u \in Turns, Subscribe(u) \/ ReadEvents(u) \/ CheckStatus(u)
      PROVE  Frozen(t)
  BY <1>5 DEF Subscribe, ReadEvents, CheckStatus, Frozen
<1>6. CASE Wake \/ Crash \/ UNCHANGED vars
  BY <1>6 DEF Wake, Crash, vars, Frozen
<1> QED
  BY <1>1, <1>2, <1>3, <1>4, <1>5, <1>6 DEF Next

\* A turn that ended is never written again, nor its log, nor the records of its
\* calls: a run that lost its lease, a late result and a second stop find it closed
\* (chatRunFenceWhere, lockChatRun).
THEOREM SettledStaysFrozen == Spec => SettledFrozen
<1>1. ChatInv /\ [Next]_vars =>
        [\A t \in Turns : turn[t].status \in Ends =>
           /\ turn'[t] = turn[t] /\ events'[t] = events[t] /\ conf'[t] = conf[t]]_vars
  BY EndedIsFrozen DEF Frozen
<1> QED
  BY <1>1, ChatAlways, PTL DEF Spec, SettledFrozen
=============================================================================
