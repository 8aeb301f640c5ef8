------------------------- MODULE ChannelInbound_proofs -------------------------
(***************************************************************************)
(* Proofs about ChannelInbound, for any messages, queues, channels and     *)
(* limits.                                                                 *)
(***************************************************************************)
EXTENDS ChannelInbound, FiniteSetTheorems, TLAPS

USE InboundConstants DEF InboundConstants

-----------------------------------------------------------------------------
(* The inductive invariant: the rows and counts, each message, each queue *)

RowType ==
  [status : {"none", "queued", "processing", "done", "failed"},
   attempts : 0..MaxAttempts, leased : BOOLEAN]

DrainType ==
  [at : {"idle", "look", "handle", "run", "observe", "deliver", "complete"},
   on : Messages \cup {"none"}, cut : BOOLEAN]

Stored ==
  /\ row \in [Messages -> RowType] /\ drain \in [Queues -> DrainType]
  /\ arrived \in [Messages -> Nat] /\ effects \in [Messages -> Nat]
  /\ reply \subseteq Messages /\ receipt \subseteq Messages \ Commands

Process ==
  /\ runner \subseteq hosted
  /\ host \in {"up", "stopping", "down"}
  /\ host # "up" => runner = {}

Accepted == {m \in Messages : row[m].status # "none"}

\* The numbers given so far.
Numbered ==
  /\ IsFiniteSet(Accepted)
  /\ \A m \in Messages : arrived[m] <= Cardinality(Accepted)

\* What keeps the one effect of a message: its reply, if it is a command, and the
\* receipt of its task otherwise.
Kept(m) == IF m \in Commands THEN m \in reply ELSE m \in receipt

Answered(m) == m \in refused \/ (m \in reply /\ (IsHosted(QueueOf[m]) => m \in delivered))

Touched(m) == effects[m] > 0 \/ m \in refused \cup reply

MessageFits(m) ==
  /\ row[m].leased => row[m].status = "processing"
  /\ effects[m] = IF Kept(m) THEN 1 ELSE 0
  /\ row[m].status = "none" => ~Touched(m)
  /\ arrived[m] > 0 => row[m].status # "none"
  /\ row[m].status = "done" => Answered(m)

\* Whatever its queue accepted earlier is settled.
Earlier(n) ==
  \A m \in Messages :
    QueueOf[m] = QueueOf[n] /\ 0 < arrived[m] /\ arrived[m] < arrived[n] => Settled(m)

DrainFits(q) ==
  LET m == drain[q].on IN
  /\ drain[q].at \in {"idle", "look"} <=> m = "none"
  /\ m # "none" => QueueOf[m] = q /\ row[m].status = "processing" /\ Earlier(m)
  /\ drain[q].at = "run" => m \notin reply
  /\ drain[q].at = "observe" => m \notin Commands
  /\ drain[q].at = "deliver" => m \in reply
  /\ drain[q].at = "complete" => Answered(m)

InboundInv ==
  /\ Stored /\ Process /\ Numbered
  /\ \A m \in Messages : MessageFits(m) /\ (Touched(m) => Earlier(m))
  /\ \A q \in Queues : DrainFits(q)

LEMMA TypesFollow == (InboundInv => TypeOK) /\ (InboundInv' => TypeOK')
BY DEF InboundInv, Stored, Process, MessageFits, DrainFits, TypeOK, RowType, DrainType

-----------------------------------------------------------------------------
(* What a step leaves alone *)

\* The records the steps of a drain end in.
LEMMA Drains ==
  /\ NoDrain \in DrainType /\ NoDrain.at = "idle" /\ NoDrain.on = "none"
  /\ Looking \in DrainType /\ Looking.at = "look" /\ Looking.on = "none"
BY DEF NoDrain, Looking, DrainType

\* What was settled stays settled, so what was in order stays so.
LEMMA EarlierKept ==
  ASSUME \A m \in Messages : Settled(m) => Settled(m)', UNCHANGED arrived,
         NEW n \in Messages, Earlier(n)
  PROVE  Earlier(n)'
BY DEF Earlier

\* A step that changes no message, and leaves every drain on the one it is on
\* or takes it off it.
DrainsMove ==
  /\ UNCHANGED <<row, arrived, reply, receipt, effects, delivered, refused, hosted>>
  /\ drain' \in [Queues -> DrainType]
  /\ \A q \in Queues :
       \/ drain'[q].on = drain[q].on /\ drain'[q].at = drain[q].at
       \/ drain'[q].on = "none" /\ drain'[q].at \in {"idle", "look"}
  /\ Process'

LEMMA DrainsInv ==
  ASSUME InboundInv, DrainsMove
  PROVE  InboundInv'
<1>1. Stored' /\ Numbered'
  BY DEF InboundInv, Stored, Numbered, Accepted, DrainsMove
<1>2. ASSUME NEW m \in Messages PROVE (MessageFits(m) /\ (Touched(m) => Earlier(m)))'
  BY <1>2 DEF InboundInv, DrainsMove, MessageFits, Kept, Answered, Touched, Earlier, Settled, IsHosted
<1>3. ASSUME NEW q \in Queues PROVE DrainFits(q)'
  BY <1>3 DEF InboundInv, DrainsMove, DrainFits, Answered, Earlier, Settled, IsHosted
<1> QED BY <1>1, <1>2, <1>3 DEF InboundInv, DrainsMove

\* A step of a drain on a message it is on, or takes, or settles: the row of the
\* message becomes x, the drain d, the number of its effects k.
QueueMove(q, m, x, d, k) ==
  /\ q \in Queues /\ m \in Messages /\ QueueOf[m] = q
  /\ x \in RowType /\ d \in DrainType /\ k \in Nat
  /\ row' = [row EXCEPT ![m] = x]
  /\ drain' = [drain EXCEPT ![q] = d]
  /\ effects' = [effects EXCEPT ![m] = k]
  /\ reply \subseteq reply' /\ reply' \subseteq reply \cup {m}
  /\ receipt \subseteq receipt' /\ receipt' \subseteq receipt \cup ({m} \ Commands)
  /\ delivered \subseteq delivered' /\ delivered' \subseteq delivered \cup {m}
  /\ refused \subseteq refused' /\ refused' \subseteq refused \cup {m}
  /\ UNCHANGED <<arrived, host, hosted, runner>>
  /\ row[m].status # "none" /\ x.status # "none"
  /\ Settled(m) => x.status \in {"done", "failed"}
  /\ MessageFits(m)' /\ DrainFits(q)' /\ (Touched(m)' => Earlier(m))

LEMMA QueueInv ==
  ASSUME InboundInv, NEW q, NEW m, NEW x, NEW d, NEW k, QueueMove(q, m, x, d, k)
  PROVE  InboundInv'
<1>1. Stored'
  BY DEF InboundInv, Stored, QueueMove
<1>2. Process'
  BY DEF InboundInv, Process, QueueMove
<1>3. /\ row'[m] = x /\ \A n \in Messages \ {m} : row'[n] = row[n]
      /\ effects'[m] = k /\ \A n \in Messages \ {m} : effects'[n] = effects[n]
      /\ \A p \in Queues \ {q} : drain'[p] = drain[p]
  BY DEF InboundInv, Stored, QueueMove
<1>4. Accepted' = Accepted
  BY <1>3 DEF Accepted, QueueMove
<1>5. Numbered'
  BY <1>4 DEF InboundInv, Numbered, QueueMove
<1>6. \A n \in Messages : Settled(n) => Settled(n)'
  BY <1>3 DEF Settled, QueueMove
<1>7. \A n \in Messages : Earlier(n) => Earlier(n)'
  BY <1>6, EarlierKept DEF QueueMove
<1>8. ASSUME NEW n \in Messages, n # m PROVE (MessageFits(n) /\ (Touched(n) => Earlier(n)))'
  <2>1. MessageFits(n)'
    BY <1>3, <1>8 DEF InboundInv, MessageFits, QueueMove, Kept, Answered, Touched, IsHosted
  <2>2. Touched(n)' => Touched(n)
    BY <1>3, <1>8 DEF Touched, QueueMove
  <2> QED BY <2>1, <2>2, <1>7, <1>8 DEF InboundInv
<1>9. ASSUME NEW p \in Queues, p # q PROVE DrainFits(p)'
  <2>1. drain'[p] = drain[p] /\ DrainFits(p)
    BY <1>3, <1>9 DEF InboundInv
  <2>2. PICK n : n = drain[p].on
    OBVIOUS
  <2>3. n = "none" \/ (n \in Messages /\ n # m)
    BY <2>2, <1>9 DEF InboundInv, Stored, DrainType, DrainFits, QueueMove
  <2>4. CASE n = "none"
    BY <2>1, <2>2, <2>4, <1>9 DEF DrainFits, InboundInv, Stored, DrainType
  <2>5. CASE n \in Messages /\ n # m
    <3>1. row'[n] = row[n] /\ (Earlier(n) => Earlier(n)') /\ (Answered(n) => Answered(n)')
      BY <2>5, <1>3, <1>7 DEF QueueMove, Answered, IsHosted
    <3>2. n \in reply <=> n \in reply'
      BY <2>5 DEF QueueMove
    <3> QED BY <2>1, <2>2, <2>5, <3>1, <3>2 DEF DrainFits
  <2> QED BY <2>3, <2>4, <2>5
<1>10. (MessageFits(m) /\ (Touched(m) => Earlier(m)))' /\ DrainFits(q)'
  BY <1>7 DEF QueueMove
<1> QED
  BY <1>1, <1>2, <1>5, <1>8, <1>9, <1>10 DEF InboundInv
-----------------------------------------------------------------------------
(* Acceptance *)

\* The new message has the greatest number, and nothing of it has happened.
LEMMA PersistInv ==
  ASSUME InboundInv, NEW m \in Messages, PersistChannelInboundEvent(m)
  PROVE  InboundInv'
<1> DEFINE N == Cardinality(Accepted)
<1>1. Accepted' = Accepted \cup {m} /\ m \notin Accepted
  BY DEF PersistChannelInboundEvent, InboundInv, Stored, RowType, Accepted
<1>2. N \in Nat /\ IsFiniteSet(Accepted') /\ Cardinality(Accepted') = N + 1
  BY <1>1, FS_AddElement, FS_CardinalityType DEF InboundInv, Numbered
<1> HIDE DEF N
<1>0. /\ arrived' = [arrived EXCEPT ![m] = N + 1]
      /\ row' = [row EXCEPT ![m].status = "queued"]
      /\ row[m].status = "none"
  BY DEF PersistChannelInboundEvent, Accepted, N
<1>3. /\ arrived'[m] = N + 1
      /\ \A n \in Messages \ {m} : arrived'[n] = arrived[n] /\ row'[n] = row[n]
      /\ row[m].status = "none"
      /\ row'[m] = [row[m] EXCEPT !.status = "queued"]
      /\ arrived' \in [Messages -> Nat]
  BY <1>0, <1>2 DEF InboundInv, Stored
<1>4. row'[m] \in RowType /\ row'[m].status = "queued" /\ ~row'[m].leased
  BY <1>3 DEF InboundInv, Stored, MessageFits, RowType
<1>5. UNCHANGED <<drain, reply, receipt, effects, delivered, refused, host, hosted, runner>>
  BY DEF PersistChannelInboundEvent
<1>6. Stored'
  BY <1>0, <1>3, <1>4, <1>5 DEF InboundInv, Stored
<1>7. Process'
  BY <1>5 DEF InboundInv, Process
<1>8. Numbered'
  BY <1>2, <1>3 DEF InboundInv, Numbered, Stored, N
<1>9. ASSUME NEW n \in Messages PROVE MessageFits(n)'
  <2>1. MessageFits(n) /\ effects'[n] = effects[n] /\ (Kept(n)' <=> Kept(n))
    BY <1>5, <1>9 DEF InboundInv, Kept
  <2>2. (Touched(n)' <=> Touched(n)) /\ (Answered(n)' <=> Answered(n))
    BY <1>5 DEF Touched, Answered, IsHosted
  <2>3. CASE n = m
    BY <2>1, <2>2, <2>3, <1>3, <1>4 DEF MessageFits
  <2>4. CASE n # m
    <3>1. row'[n] = row[n] /\ arrived'[n] = arrived[n]
      BY <2>4, <1>3
    <3> QED BY <3>1, <2>1, <2>2 DEF MessageFits
  <2> QED BY <2>3, <2>4
<1>10. ASSUME NEW n \in Messages, n # m, Earlier(n) PROVE Earlier(n)'
  <2>1. arrived[n] <= N /\ arrived[n] \in Nat
    BY DEF InboundInv, Numbered, Stored, N
  <2>2. ASSUME NEW o \in Messages, (QueueOf[o] = QueueOf[n] /\ 0 < arrived[o] /\ arrived[o] < arrived[n])'
        PROVE Settled(o)'
    <3>1. o # m
      BY <2>1, <2>2, <1>2, <1>3, <1>10
    <3> QED BY <3>1, <2>2, <1>3, <1>10 DEF Earlier, Settled
  <2> QED BY <2>2 DEF Earlier
<1>11. ASSUME NEW n \in Messages PROVE (Touched(n) => Earlier(n))'
  <2>1. Touched(n)' => Touched(n)
    BY <1>5 DEF Touched
  <2>2. n = m => ~Touched(n)
    BY <1>3 DEF InboundInv, MessageFits
  <2> QED BY <2>1, <2>2, <1>10, <1>11 DEF InboundInv
<1>12. ASSUME NEW q \in Queues PROVE DrainFits(q)'
  <2>1. PICK n : n = drain[q].on
    OBVIOUS
  <2>2. drain'[q] = drain[q] /\ DrainFits(q)
    BY <1>5, <1>12 DEF InboundInv
  <2>3. n = "none" \/ (n \in Messages /\ n # m)
    BY <2>1, <1>3, <1>12 DEF InboundInv, Stored, DrainType, DrainFits
  <2>4. CASE n = "none"
    BY <2>1, <2>2, <2>4, <1>12 DEF DrainFits, InboundInv, Stored, DrainType
  <2>5. CASE n \in Messages /\ n # m
    <3>1. row'[n] = row[n] /\ (Earlier(n) => Earlier(n)') /\ (Answered(n) => Answered(n)')
      BY <2>5, <1>3, <1>5, <1>10 DEF Answered, IsHosted
    <3> QED BY <2>1, <2>2, <2>5, <3>1, <1>5 DEF DrainFits
  <2> QED BY <2>3, <2>4, <2>5
<1> QED BY <1>6, <1>7, <1>8, <1>9, <1>11, <1>12 DEF InboundInv

-----------------------------------------------------------------------------
(* What a drain does between two messages *)

LEMMA ProcessInv ==
  ASSUME InboundInv, NEW q \in Queues, ProcessChannelInboundQueue(q)
  PROVE  InboundInv'
<1>1. drain[q].on = "none" /\ drain[q] \in DrainType
  BY DEF ProcessChannelInboundQueue, InboundInv, DrainFits, On, Stored
<1>2. PICK d : d = [drain[q] EXCEPT !.at = "look"]
  OBVIOUS
<1>3. d \in DrainType /\ d.on = "none" /\ d.at = "look"
  BY <1>1, <1>2 DEF DrainType
<1>4. drain' = [drain EXCEPT ![q] = d]
  BY <1>2 DEF ProcessChannelInboundQueue, Goto
<1> QED
  BY <1>3, <1>4, DrainsInv DEF ProcessChannelInboundQueue, DrainsMove, InboundInv, Stored, Process

\* The drain ends: there is nothing to do, or its update was lost.
LEMMA LeaveInv ==
  ASSUME InboundInv, NEW q \in Queues, Leave(q) \/ LoseUpdate(q)
  PROVE  InboundInv'
BY Drains, DrainsInv DEF Leave, LoseUpdate, DrainsMove, InboundInv, Stored, Process

\* The first message of a queue: all it accepted earlier is settled.
LEMMA HeadIsNext ==
  ASSUME InboundInv, NEW q \in Queues, NEW m \in Messages, IsHead(q, m)
  PROVE  QueueOf[m] = q /\ row[m].status \in {"queued", "processing"} /\ Earlier(m)
<1>1. QueueOf[m] = q /\ row[m].status \in {"queued", "processing"}
  BY DEF IsHead, Open
<1>2. ASSUME NEW n \in Messages, QueueOf[n] = q, 0 < arrived[n], arrived[n] < arrived[m]
      PROVE  Settled(n)
  <2>1. n \notin Open(q)
    BY <1>2 DEF IsHead, InboundInv, Stored
  <2>2. row[n].status # "none" /\ row[n] \in RowType
    BY <1>2 DEF InboundInv, MessageFits, Stored
  <2> QED BY <2>1, <2>2, <1>2 DEF Open, Settled, RowType
<1> QED BY <1>1, <1>2 DEF Earlier

\* Nothing of a message changes but its row: what it has in store still fits.
LEMMA RowFits ==
  ASSUME InboundInv, NEW m \in Messages, NEW x \in RowType,
         row' = [row EXCEPT ![m] = x], x.leased => x.status = "processing",
         row[m].status # "none", x.status # "none", x.status = "done" => Answered(m),
         UNCHANGED <<arrived, reply, receipt, effects, delivered, refused, hosted>>
  PROVE  MessageFits(m)' /\ (Touched(m)' => Earlier(m)) /\ row'[m] = x
<1>1. row'[m] = x
  BY DEF InboundInv, Stored
<1> QED BY <1>1 DEF InboundInv, MessageFits, Kept, Answered, Touched, IsHosted

\* Its attempt is counted, and the drain is on it.
LEMMA ClaimInv ==
  ASSUME InboundInv, NEW q \in Queues, NEW m \in Messages, IsHead(q, m), Claim(q, m),
         UNCHANGED <<arrived, reply, receipt, effects, delivered, refused, host, hosted, runner>>
  PROVE  InboundInv'
<1>1. QueueOf[m] = q /\ row[m].status \in {"queued", "processing"} /\ Earlier(m)
  BY HeadIsNext
<1>2. row[m].attempts \in 0..MaxAttempts /\ row[m].attempts < MaxAttempts /\ effects[m] \in Nat
  BY DEF Claim, InboundInv, Stored, RowType
<1>3. PICK x : x = [status |-> "processing", attempts |-> row[m].attempts + 1, leased |-> TRUE]
  OBVIOUS
<1>4. PICK d : d = [at |-> "handle", on |-> m, cut |-> host = "stopping"]
  OBVIOUS
<1>5. x \in RowType /\ x.status = "processing"
  BY <1>2, <1>3 DEF RowType
<1>6. d \in DrainType /\ d.at = "handle" /\ d.on = m
  BY <1>4 DEF DrainType
<1>7. row' = [row EXCEPT ![m] = x] /\ drain' = [drain EXCEPT ![q] = d]
  BY <1>3, <1>4 DEF Claim
<1>8. MessageFits(m)' /\ (Touched(m)' => Earlier(m)) /\ row'[m] = x
  BY <1>1, <1>5, <1>7, RowFits
<1>9. drain'[q] = d
  BY <1>7 DEF InboundInv, Stored
<1>10. Earlier(m)'
  BY <1>1, <1>7, EarlierKept DEF Settled, InboundInv, Stored
<1>11. DrainFits(q)'
  BY <1>1, <1>5, <1>6, <1>8, <1>9, <1>10 DEF DrainFits
<1>12. effects' = [effects EXCEPT ![m] = effects[m]]
  BY DEF InboundInv, Stored
<1>13. QueueMove(q, m, x, d, effects[m])
  BY <1>1, <1>2, <1>5, <1>6, <1>7, <1>8, <1>11, <1>12 DEF QueueMove, Settled, InboundInv, Stored
<1> QED BY <1>13, QueueInv
\* After the last attempt the message is failed, and the drain looks further.
LEMMA GiveUpInv ==
  ASSUME InboundInv, NEW q \in Queues, NEW m \in Messages, IsHead(q, m), GiveUp(m),
         UNCHANGED <<arrived, reply, receipt, effects, delivered, refused, host, hosted, runner>>,
         On(q, "look")
  PROVE  InboundInv'
<1>1. QueueOf[m] = q /\ row[m].status \in {"queued", "processing"} /\ Earlier(m)
  BY HeadIsNext
<1>2. row[m] \in RowType /\ drain[q] \in DrainType /\ drain[q].on = "none"
  BY DEF InboundInv, Stored, DrainFits, On
<1>3. PICK x : x = [row[m] EXCEPT !.status = "failed", !.leased = FALSE]
  OBVIOUS
<1>4. x \in RowType /\ x.status = "failed" /\ ~x.leased
  BY <1>2, <1>3 DEF RowType
<1>5. row' = [row EXCEPT ![m] = x]
  BY <1>3 DEF GiveUp
<1>6. MessageFits(m)' /\ (Touched(m)' => Earlier(m)) /\ row'[m] = x
  BY <1>1, <1>4, <1>5, RowFits
<1>7. /\ drain' = [drain EXCEPT ![q] = drain[q]]
      /\ effects' = [effects EXCEPT ![m] = effects[m]] /\ effects[m] \in Nat
  BY DEF GiveUp, InboundInv, Stored
<1>8. drain'[q] = drain[q] /\ DrainFits(q)'
  BY <1>2 DEF GiveUp, DrainFits, On
<1>9. QueueMove(q, m, x, drain[q], effects[m])
  BY <1>1, <1>2, <1>4, <1>5, <1>6, <1>7, <1>8 DEF QueueMove, InboundInv, Stored
<1> QED BY <1>9, QueueInv

LEMMA TakeInv ==
  ASSUME InboundInv, NEW q \in Queues, Take(q)
  PROVE  InboundInv'
BY ClaimInv, GiveUpInv DEF Take

-----------------------------------------------------------------------------
(* The handler: the drain goes on with the message it is on *)

HandlerMove(q, m, at, k) ==
  /\ drain[q].on = m /\ m \in Messages /\ k \in Nat
  /\ at \in {"run", "observe", "deliver", "complete"}
  /\ Goto(q, at)
  /\ effects' = [effects EXCEPT ![m] = k]
  /\ k = (IF Kept(m)' THEN 1 ELSE 0)
  /\ reply \subseteq reply' /\ reply' \subseteq reply \cup {m}
  /\ receipt \subseteq receipt' /\ receipt' \subseteq receipt \cup ({m} \ Commands)
  /\ delivered \subseteq delivered' /\ delivered' \subseteq delivered \cup {m}
  /\ refused \subseteq refused' /\ refused' \subseteq refused \cup {m}
  /\ UNCHANGED <<row, arrived, host, hosted, runner>>
  /\ at = "run" => m \notin reply'
  /\ at = "observe" => m \notin Commands
  /\ at = "deliver" => m \in reply'
  /\ at = "complete" => Answered(m)'

LEMMA HandlerInv ==
  ASSUME InboundInv, NEW q \in Queues, NEW m, NEW at, NEW k, HandlerMove(q, m, at, k)
  PROVE  InboundInv'
<1>1. m \in Messages /\ m # "none" /\ drain[q].on = m /\ drain[q] \in DrainType
  BY DEF HandlerMove, InboundInv, Stored
<1>2. QueueOf[m] = q /\ row[m].status = "processing" /\ Earlier(m) /\ row[m] \in RowType
  BY <1>1 DEF InboundInv, DrainFits, Stored
<1>3. PICK d : d = [drain[q] EXCEPT !.at = at]
  OBVIOUS
<1>4. d \in DrainType /\ d.at = at /\ d.on = m
  BY <1>1, <1>3 DEF HandlerMove, DrainType
<1>5. drain' = [drain EXCEPT ![q] = d] /\ drain'[q] = d
  BY <1>3 DEF HandlerMove, Goto, InboundInv, Stored
<1>6. row' = [row EXCEPT ![m] = row[m]] /\ row'[m] = row[m]
  BY DEF HandlerMove, InboundInv, Stored
<1>7. MessageFits(m)'
  BY <1>1, <1>2, <1>6 DEF HandlerMove, MessageFits, InboundInv, Stored
<1>8. Earlier(m)'
  BY <1>1, <1>2, EarlierKept DEF HandlerMove, Settled
<1>9. DrainFits(q)'
  BY <1>1, <1>2, <1>4, <1>5, <1>6, <1>8 DEF HandlerMove, DrainFits
<1>10. QueueMove(q, m, row[m], d, k)
  BY <1>1, <1>2, <1>4, <1>5, <1>6, <1>7, <1>9 DEF HandlerMove, QueueMove, Settled
<1> QED BY <1>10, QueueInv

\* What a drain that is on a message knows of it.
LEMMA OnMessage ==
  ASSUME InboundInv, NEW q \in Queues, drain[q].at \notin {"idle", "look"}
  PROVE  /\ drain[q].on \in Messages /\ QueueOf[drain[q].on] = q
         /\ row[drain[q].on].status = "processing"
         /\ effects[drain[q].on] = (IF Kept(drain[q].on) THEN 1 ELSE 0)
         /\ effects = [effects EXCEPT ![drain[q].on] = effects[drain[q].on]]
<1>1. drain[q].on \in Messages
  BY DEF InboundInv, Stored, DrainType, DrainFits
<1> QED BY <1>1 DEF InboundInv, Stored, DrainFits, MessageFits

\* A saved reply is answered when it needs no sending.
LEMMA AnswerMoves ==
  ASSUME NEW q \in Queues, Answer(q), UNCHANGED hosted, NEW m \in reply', QueueOf[m] = q
  PROVE  \E at \in {"deliver", "complete"} : Goto(q, at) /\ (at = "complete" => Answered(m)')
BY DEF Answer, Answered, IsHosted

LEMMA BeginInv ==
  ASSUME InboundInv, NEW q \in Queues, Begin(q)
  PROVE  InboundInv'
<1>1. PICK m : m = drain[q].on
  OBVIOUS
<1>2. /\ m \in Messages /\ QueueOf[m] = q /\ effects[m] = (IF Kept(m) THEN 1 ELSE 0)
      /\ effects' = [effects EXCEPT ![m] = effects[m]]
  BY <1>1, OnMessage DEF Begin, On
<1>3. UNCHANGED <<row, arrived, reply, receipt, delivered, host, hosted, runner>>
  BY DEF Begin
<1>4. Kept(m)' <=> Kept(m)
  BY <1>3 DEF Kept
<1>5. CASE refused' = refused \cup {drain[q].on} /\ Goto(q, "complete")
  <2>1. HandlerMove(q, m, "complete", effects[m])
    BY <1>1, <1>2, <1>3, <1>4, <1>5 DEF HandlerMove, Answered
  <2> QED BY <2>1, HandlerInv
<1>6. CASE m \in reply /\ Answer(q) /\ UNCHANGED refused
  <2>1. PICK at \in {"deliver", "complete"} : Goto(q, at) /\ (at = "complete" => Answered(m)')
    BY <1>2, <1>3, <1>6, AnswerMoves
  <2>2. HandlerMove(q, m, at, effects[m])
    BY <1>1, <1>2, <1>3, <1>4, <1>6, <2>1 DEF HandlerMove
  <2> QED BY <2>2, HandlerInv
<1>7. CASE m \notin reply /\ Goto(q, "run") /\ UNCHANGED refused
  <2>1. HandlerMove(q, m, "run", effects[m])
    BY <1>1, <1>2, <1>3, <1>4, <1>7 DEF HandlerMove
  <2> QED BY <2>1, HandlerInv
<1> QED BY <1>1, <1>5, <1>6, <1>7 DEF Begin

\* A command that is run has no reply, so it has not taken effect.
LEMMA RunCommandInv ==
  ASSUME InboundInv, NEW q \in Queues, RunCommand(q)
  PROVE  InboundInv'
<1>1. PICK m : m = drain[q].on
  OBVIOUS
<1>2. /\ m \in Messages /\ QueueOf[m] = q /\ effects[m] = (IF Kept(m) THEN 1 ELSE 0)
      /\ m \in Commands /\ m \notin reply
  BY <1>1, OnMessage DEF RunCommand, On, InboundInv, DrainFits
<1>3. /\ UNCHANGED <<row, arrived, receipt, delivered, refused, host, hosted, runner>>
      /\ reply' = reply \cup {m} /\ effects' = [effects EXCEPT ![m] = effects[m] + 1]
      /\ Answer(q)
  BY <1>1 DEF RunCommand
<1>4. effects' = [effects EXCEPT ![m] = 1] /\ Kept(m)'
  BY <1>2, <1>3 DEF Kept
<1>5. PICK at \in {"deliver", "complete"} : Goto(q, at) /\ (at = "complete" => Answered(m)')
  BY <1>2, <1>3, AnswerMoves
<1>6. HandlerMove(q, m, at, 1)
  BY <1>1, <1>2, <1>3, <1>4, <1>5 DEF HandlerMove
<1> QED BY <1>6, HandlerInv

\* A turn takes effect with the receipt of its task.
LEMMA RunTurnInv ==
  ASSUME InboundInv, NEW q \in Queues, RunTurn(q)
  PROVE  InboundInv'
<1>1. PICK m : m = drain[q].on
  OBVIOUS
<1>2. /\ m \in Messages /\ QueueOf[m] = q /\ effects[m] = (IF Kept(m) THEN 1 ELSE 0)
      /\ effects = [effects EXCEPT ![m] = effects[m]] /\ m \notin Commands
  BY <1>1, OnMessage DEF RunTurn, On
<1>3. UNCHANGED <<row, arrived, reply, delivered, refused, host, hosted, runner>> /\ Goto(q, "observe")
  BY DEF RunTurn
<1>4. CASE m \notin receipt
  <2>1. receipt' = receipt \cup {m} /\ effects' = [effects EXCEPT ![m] = effects[m] + 1]
    BY <1>1, <1>4 DEF RunTurn
  <2>2. effects' = [effects EXCEPT ![m] = 1] /\ Kept(m)'
    BY <2>1, <1>2, <1>4 DEF Kept
  <2>3. HandlerMove(q, m, "observe", 1)
    BY <2>1, <2>2, <1>1, <1>2, <1>3 DEF HandlerMove
  <2> QED BY <2>3, HandlerInv
<1>5. CASE m \in receipt
  <2>1. receipt' = receipt /\ effects' = effects
    BY <1>1, <1>5 DEF RunTurn
  <2>2. HandlerMove(q, m, "observe", 1)
    BY <2>1, <1>1, <1>2, <1>3, <1>5 DEF HandlerMove, Kept
  <2> QED BY <2>2, HandlerInv
<1> QED BY <1>4, <1>5

LEMMA SaveReplyInv ==
  ASSUME InboundInv, NEW q \in Queues, SaveReply(q)
  PROVE  InboundInv'
<1>1. PICK m : m = drain[q].on
  OBVIOUS
<1>2. /\ m \in Messages /\ QueueOf[m] = q /\ effects[m] = (IF Kept(m) THEN 1 ELSE 0)
      /\ effects' = [effects EXCEPT ![m] = effects[m]] /\ m \notin Commands
  BY <1>1, OnMessage DEF SaveReply, On, InboundInv, DrainFits
<1>3. /\ UNCHANGED <<row, arrived, receipt, delivered, refused, host, hosted, runner>>
      /\ reply' = reply \cup {m} /\ Answer(q)
  BY <1>1 DEF SaveReply
<1>4. Kept(m)' <=> Kept(m)
  BY <1>2, <1>3 DEF Kept
<1>5. PICK at \in {"deliver", "complete"} : Goto(q, at) /\ (at = "complete" => Answered(m)')
  BY <1>2, <1>3, AnswerMoves
<1>6. HandlerMove(q, m, at, effects[m])
  BY <1>1, <1>2, <1>3, <1>4, <1>5 DEF HandlerMove
<1> QED BY <1>6, HandlerInv

\* The reply is sent, or the user is told that there will be none.
LEMMA SendInv ==
  ASSUME InboundInv, NEW q \in Queues, SendMessage(q) \/ Apologize(q)
  PROVE  InboundInv'
<1>1. PICK m : m = drain[q].on
  OBVIOUS
<1>2. /\ m \in Messages /\ QueueOf[m] = q /\ effects[m] = (IF Kept(m) THEN 1 ELSE 0)
      /\ effects' = [effects EXCEPT ![m] = effects[m]]
  BY <1>1, OnMessage DEF SendMessage, Apologize, On
<1>3. /\ UNCHANGED <<row, arrived, reply, receipt, host, hosted, runner>>
      /\ Goto(q, "complete")
      /\ \/ delivered' = delivered \cup {m} /\ refused' = refused /\ m \in reply
         \/ refused' = refused \cup {m} /\ delivered' = delivered
  BY <1>1 DEF SendMessage, Apologize, On, InboundInv, DrainFits
<1>4. (Kept(m)' <=> Kept(m)) /\ Answered(m)'
  BY <1>3 DEF Kept, Answered
<1>5. HandlerMove(q, m, "complete", effects[m])
  BY <1>1, <1>2, <1>3, <1>4 DEF HandlerMove
<1> QED BY <1>5, HandlerInv
-----------------------------------------------------------------------------
(* The end of an attempt *)

\* The drain leaves its message: done, failed or queued again.
EndsAs(m, status) == row' = [row EXCEPT ![m].status = status, ![m].leased = FALSE]

LEMMA AttemptEnds ==
  ASSUME InboundInv, NEW q \in Queues, drain[q].at \notin {"idle", "look"},
         NEW m, m = drain[q].on, NEW status \in {"done", "failed", "queued"},
         NEW d \in {NoDrain, Looking},
         EndsAs(m, status),
         drain' = [drain EXCEPT ![q] = d],
         status = "done" => Answered(m),
         UNCHANGED <<arrived, reply, receipt, effects, delivered, refused, host, hosted, runner>>
  PROVE  InboundInv'
<1>1. /\ m \in Messages /\ QueueOf[m] = q /\ row[m].status = "processing"
      /\ effects' = [effects EXCEPT ![m] = effects[m]]
  BY OnMessage
<1>2. row[m] \in RowType /\ effects[m] \in Nat
  BY <1>1 DEF InboundInv, Stored
<1>3. PICK x : x = [row[m] EXCEPT !.status = status, !.leased = FALSE]
  OBVIOUS
<1>4. x \in RowType /\ x.status = status /\ ~x.leased
  <2>1. PICK e : e = [row[m] EXCEPT !.status = status]
    OBVIOUS
  <2>2. e \in RowType
    BY <1>2, <2>1 DEF RowType
  <2>3. PICK b \in BOOLEAN : b = FALSE
    OBVIOUS
  <2>4. [e EXCEPT !.leased = b] \in RowType
    BY <2>2 DEF RowType
  <2>5. x = [e EXCEPT !.leased = b]
    BY <1>3, <2>1, <2>3
  <2>6. x \in RowType
    BY <2>4, <2>5, Zenon
  <2>7. e.status = status
    BY <1>2, <2>1 DEF RowType
  <2>8. x.status = e.status
    BY <2>2, <2>5 DEF RowType
  <2>9. x.leased = FALSE
    BY <1>2, <1>3, Zenon DEF RowType
  <2> QED BY <2>6, <2>7, <2>8, <2>9, Zenon
<1>5. row' = [row EXCEPT ![m] = x]
  BY <1>3 DEF EndsAs
<1>6. MessageFits(m)' /\ (Touched(m)' => Earlier(m)) /\ row'[m] = x
  <2>1. /\ x \in RowType /\ (x.leased => x.status = "processing")
        /\ x.status # "none" /\ (x.status = "done" => Answered(m))
    BY <1>4
  <2>2. m \in Messages /\ row[m].status # "none"
    BY <1>1
  <2>3. UNCHANGED <<arrived, reply, receipt, effects, delivered, refused, hosted>>
    BY <1>1
  <2> QED BY <1>5, <2>1, <2>2, <2>3, RowFits
<1>7. DrainFits(q)'
  BY Drains DEF DrainFits, InboundInv, Stored
<1>8. QueueMove(q, m, x, d, effects[m])
  BY <1>1, <1>2, <1>4, <1>5, <1>6, <1>7, Drains DEF QueueMove, Settled
<1> QED BY <1>8, QueueInv

LEMMA CompleteInv ==
  ASSUME InboundInv, NEW q \in Queues, Complete(q)
  PROVE  InboundInv'
<1>1. Answered(drain[q].on)
  BY DEF Complete, On, InboundInv, DrainFits
<1>2. EndsAs(drain[q].on, "done") /\ drain' = [drain EXCEPT ![q] = Looking]
  BY DEF Complete, EndsAs
<1> QED BY <1>1, <1>2, AttemptEnds DEF Complete, On

LEMMA ThrowsInv ==
  ASSUME InboundInv, NEW q \in Queues, HandlerThrows(q)
  PROVE  InboundInv'
<1>1. PICK m : m = drain[q].on
  OBVIOUS
<1>2. /\ UNCHANGED <<arrived, reply, receipt, effects, delivered, refused, host, hosted, runner>>
      /\ drain[q].at \notin {"idle", "look"}
  BY DEF HandlerThrows
<1>3. CASE /\ row' = [row EXCEPT ![m].status = "queued", ![m].leased = FALSE]
           /\ drain' = [drain EXCEPT ![q] = NoDrain]
  <2>1. EndsAs(m, "queued") /\ drain' = [drain EXCEPT ![q] = NoDrain]
    BY <1>3 DEF EndsAs
  <2> QED BY <1>1, <1>2, <2>1, AttemptEnds
<1>4. CASE /\ row' = [row EXCEPT
                         ![m].status = IF row[m].attempts >= MaxAttempts THEN "failed" ELSE "queued",
                         ![m].leased = FALSE]
           /\ drain' = [drain EXCEPT ![q] = Looking]
  <2>1. PICK status : status = IF row[m].attempts >= MaxAttempts THEN "failed" ELSE "queued"
    OBVIOUS
  <2>2. EndsAs(m, status) /\ drain' = [drain EXCEPT ![q] = Looking] /\ status \in {"failed", "queued"}
    BY <1>4, <2>1 DEF EndsAs
  <2> QED BY <1>1, <1>2, <2>2, AttemptEnds
<1> QED BY <1>1, <1>3, <1>4 DEF HandlerThrows, FailAttempt

-----------------------------------------------------------------------------
(* The surroundings *)

LEMMA LeaseInv ==
  ASSUME InboundInv, NEW m \in Messages, LeaseExpires(m)
  PROVE  InboundInv'
<1>1. PICK x : x = [row[m] EXCEPT !.leased = FALSE]
  OBVIOUS
<1>2. x \in RowType /\ x.status = row[m].status /\ ~x.leased
  <2>1. row[m] \in RowType
    BY DEF InboundInv, Stored
  <2>2. PICK b \in BOOLEAN : b = FALSE
    OBVIOUS
  <2>3. [row[m] EXCEPT !.leased = b] \in RowType
    BY <2>1 DEF RowType
  <2>4. x \in RowType
    BY <1>1, <2>2, <2>3, Zenon
  <2>5. x.status = row[m].status /\ ~x.leased
    BY <1>1, <2>1 DEF RowType
  <2> QED BY <2>4, <2>5
<1>3. row' = [row EXCEPT ![m] = x]
  BY <1>1 DEF LeaseExpires
<1>4. /\ \A n \in Messages : row'[n].status = row[n].status /\ (row'[n].leased => row[n].leased)
      /\ row' \in [Messages -> RowType]
  BY <1>2, <1>3 DEF InboundInv, Stored
<1>5. UNCHANGED <<arrived, drain, reply, receipt, effects, delivered, refused, host, hosted, runner>>
  BY DEF LeaseExpires
<1>6. Accepted' = Accepted
  BY <1>4 DEF Accepted
<1>7. Stored' /\ Process' /\ Numbered'
  BY <1>4, <1>5, <1>6 DEF InboundInv, Stored, Process, Numbered
<1>8. ASSUME NEW n \in Messages PROVE (MessageFits(n) /\ (Touched(n) => Earlier(n)))'
  BY <1>4, <1>5, <1>8 DEF InboundInv, MessageFits, Kept, Answered, Touched, IsHosted, Earlier, Settled
<1>9. ASSUME NEW q \in Queues PROVE DrainFits(q)'
  <2>1. \A n \in Messages : (Earlier(n) <=> Earlier(n)') /\ (Answered(n) <=> Answered(n)')
    BY <1>4, <1>5 DEF Answered, IsHosted, Earlier, Settled
  <2>2. drain[q].on \in Messages \cup {"none"} /\ drain'[q] = drain[q] /\ DrainFits(q)
    BY <1>5, <1>9 DEF InboundInv, Stored, DrainType
  <2>3. CASE drain[q].on = "none"
    BY <2>2, <2>3 DEF DrainFits
  <2>4. CASE drain[q].on \in Messages
    <3>1. PICK n \in Messages : n = drain[q].on
      BY <2>4
    <3> QED BY <3>1, <2>1, <2>2, <1>4, <1>5 DEF DrainFits
  <2> QED BY <2>2, <2>3, <2>4
<1> QED BY <1>7, <1>8, <1>9 DEF InboundInv

\* A runner that stops, or a shutdown, only cuts the handlers off.
LEMMA CutInv ==
  ASSUME InboundInv, Shutdown \/ \E c \in Connections : StopRunner(c)
  PROVE  InboundInv'
<1>1. CASE Shutdown
  <2>1. ASSUME NEW q \in Queues
        PROVE  drain'[q] \in DrainType /\ drain'[q].on = drain[q].on /\ drain'[q].at = drain[q].at
    <3>1. PICK b \in BOOLEAN : b = (drain[q].on # "none")
      OBVIOUS
    <3>2. drain'[q] = [drain[q] EXCEPT !.cut = b]
      BY <1>1, <2>1, <3>1 DEF Shutdown
    <3> QED BY <2>1, <3>2 DEF InboundInv, Stored, DrainType
  <2>2. drain' \in [Queues -> DrainType]
    <3>1. drain' = [q \in Queues |-> drain'[q]]
      BY <1>1 DEF Shutdown
    <3> QED BY <3>1, <2>1
  <2> QED BY <1>1, <2>1, <2>2, DrainsInv DEF Shutdown, DrainsMove, Process
<1>2. ASSUME NEW c \in Connections, StopRunner(c) PROVE InboundInv'
  <2>1. ASSUME NEW q \in Queues
        PROVE  drain'[q] \in DrainType /\ drain'[q].on = drain[q].on /\ drain'[q].at = drain[q].at
    <3>1. PICK b \in BOOLEAN : b = (drain[q].cut \/ (ConnectionOf[q] = c /\ drain[q].on # "none"))
      BY <2>1 DEF InboundInv, Stored, DrainType
    <3>2. drain'[q] = [drain[q] EXCEPT !.cut = b]
      BY <1>2, <2>1, <3>1 DEF StopRunner
    <3> QED BY <2>1, <3>2 DEF InboundInv, Stored, DrainType
  <2>2. drain' \in [Queues -> DrainType]
    <3>1. drain' = [q \in Queues |-> drain'[q]]
      BY <1>2 DEF StopRunner
    <3> QED BY <3>1, <2>1
  <2> QED BY <1>2, <2>1, <2>2, DrainsInv DEF StopRunner, DrainsMove, Process, InboundInv
<1> QED BY <1>1, <1>2

LEMMA ProcessGoesInv ==
  ASSUME InboundInv, Exit \/ Crash \/ Restart \/ \E c \in Connections : StartRunner(c)
  PROVE  InboundInv'
<1>1. CASE Exit \/ Restart \/ \E c \in Connections : StartRunner(c)
  BY <1>1, DrainsInv DEF Exit, Restart, StartRunner, DrainsMove, Process, InboundInv, Stored
<1>2. CASE Crash
  BY <1>2, Drains, DrainsInv DEF Crash, DrainsMove, Process, InboundInv
<1> QED BY <1>1, <1>2

-----------------------------------------------------------------------------
(* The invariant *)

LEMMA InboundInit == Init => InboundInv
<1> SUFFICES ASSUME Init PROVE InboundInv
  OBVIOUS
<1>1. Accepted = {}
  BY DEF Init, Accepted
<1>2. Numbered
  BY <1>1, FS_EmptySet DEF Init, Numbered
<1>3. Stored
  BY Drains DEF Init, Stored, RowType
<1>4. Process
  BY DEF Init, Process
<1>5. ASSUME NEW m \in Messages PROVE MessageFits(m) /\ ~Touched(m)
  BY <1>5 DEF Init, MessageFits, Touched, Kept
<1>6. ASSUME NEW q \in Queues PROVE DrainFits(q)
  BY <1>6, Drains DEF Init, DrainFits
<1> QED BY <1>2, <1>3, <1>4, <1>5, <1>6 DEF InboundInv

LEMMA InboundNext == InboundInv /\ [Next]_vars => InboundInv'
<1> SUFFICES ASSUME InboundInv, [Next]_vars PROVE InboundInv'
  OBVIOUS
<1>1. ASSUME NEW m \in Messages, PersistChannelInboundEvent(m) \/ LeaseExpires(m)
      PROVE  InboundInv'
  BY <1>1, PersistInv, LeaseInv
<1>2. ASSUME NEW q \in Queues, DrainStep(q) \/ LoseUpdate(q)
      PROVE  InboundInv'
  BY <1>2, ProcessInv, LeaveInv, TakeInv, CompleteInv, BeginInv, RunCommandInv, RunTurnInv,
     SaveReplyInv, SendInv, ThrowsInv DEF DrainStep
<1>3. CASE Shutdown \/ \E c \in Connections : StopRunner(c)
  BY <1>3, CutInv
<1>4. CASE Exit \/ Crash \/ Restart \/ \E c \in Connections : StartRunner(c)
  BY <1>4, ProcessGoesInv
<1>5. CASE UNCHANGED vars
  BY <1>5, DrainsInv DEF vars, DrainsMove, InboundInv, Stored, Process
<1> QED BY <1>1, <1>2, <1>3, <1>4, <1>5 DEF Next

LEMMA InboundAlways == Spec => []InboundInv
BY InboundInit, InboundNext, PTL DEF Spec

\* The rows, the drains, the replies and the process are of their types, and no
\* drain is on a message of another queue or on one that is not in progress.
THEOREM QueuesInType == Spec => []TypeOK
BY InboundAlways, TypesFollow, PTL

\* Whatever the limits and however often it is retried, interrupted or put back
\* by a shutdown (channel-inbound-queue.ts), a message takes effect at most once,
\* for its effect is committed with what keeps it from being repeated (its reply,
\* or the receipt of its task); and one that is done was answered, and sent if
\* its channel is hosted.
THEOREM AlwaysAnsweredOnce == Spec => []AnsweredOnce
<1>1. InboundInv => AnsweredOnce
  BY DEF InboundInv, Stored, MessageFits, Answered, AnsweredOnce
<1> QED BY <1>1, InboundAlways, PTL

\* The messages of a conversation are run and answered in the order they were
\* accepted, for any number of queues, connections, shutdowns and crashes: the
\* drain takes the first message of its queue that is not settled.
THEOREM AlwaysInOrder == Spec => []InOrder
<1>1. InboundInv => InOrder
  BY DEF InboundInv, Touched, Earlier, InOrder
<1> QED BY <1>1, InboundAlways, PTL
=============================================================================
