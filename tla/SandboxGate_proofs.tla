-------------------------- MODULE SandboxGate_proofs --------------------------
(***************************************************************************)
(* Proofs about SandboxGate and the gate of the Agents it rests on, for    *)
(* any number of Agents, sessions and turns.                               *)
(***************************************************************************)
EXTENDS SandboxGate, FiniteSetTheorems, SequenceTheorems, TLAPS

-----------------------------------------------------------------------------
(* Lists without repetitions *)

LEMMA AppendSet ==
  ASSUME NEW S, NEW s \in Seq(S), NEW e \in S, e \notin ToSet(s), IsInjective(s)
  PROVE  /\ Append(s, e) \in Seq(S) /\ Append(s, e) # <<>>
         /\ ToSet(Append(s, e)) = ToSet(s) \cup {e} /\ IsInjective(Append(s, e))
         /\ Head(Append(s, e)) = IF s = <<>> THEN e ELSE Head(s)
<1>1. Len(s) \in Nat /\ DOMAIN s = 1..Len(s)
  BY LenProperties
<1>2. PICK n : n = Len(s) + 1
  OBVIOUS
<1>3. PICK r : r = Append(s, e)
  OBVIOUS
<1>4. r \in Seq(S) /\ r # <<>> /\ Len(r) = n /\ r[n] = e /\ \A i \in 1..Len(s) : r[i] = s[i]
  BY <1>2, <1>3, AppendProperties
<1>5. DOMAIN r = DOMAIN s \cup {n} /\ n \notin DOMAIN s
  <2>1. DOMAIN r = 1..n
    BY <1>4, LenProperties
  <2> QED BY <1>1, <1>2, <2>1
<1>6. ToSet(r) = ToSet(s) \cup {e}
  BY <1>1, <1>4, <1>5 DEF ToSet
<1>7. IsInjective(r)
  BY <1>1, <1>4, <1>5 DEF IsInjective, ToSet
<1>8. Head(r) = IF s = <<>> THEN e ELSE Head(s)
  <2>1. Head(r) = r[1]
    BY <1>4, HeadTailProperties
  <2>2. CASE s = <<>>
    BY <1>2, <1>4, <2>1, <2>2, EmptySeq
  <2>3. CASE s # <<>>
    <3>1. Len(s) >= 1 /\ Head(s) = s[1]
      BY <1>1, <2>3, HeadTailProperties, EmptySeq
    <3> QED BY <1>1, <1>4, <2>1, <2>3, <3>1
  <2> QED BY <2>2, <2>3
<1> QED BY <1>3, <1>4, <1>6, <1>7, <1>8

LEMMA TailSet ==
  ASSUME NEW S, NEW s \in Seq(S), s # <<>>, IsInjective(s)
  PROVE  /\ Tail(s) \in Seq(S) /\ ToSet(Tail(s)) = ToSet(s) \ {Head(s)} /\ IsInjective(Tail(s))
         /\ Head(s) \in ToSet(s)
<1>1. Len(s) \in Nat \ {0} /\ DOMAIN s = 1..Len(s)
  BY LenProperties, EmptySeq
<1>2. PICK r : r = Tail(s)
  OBVIOUS
<1>3. r \in Seq(S) /\ Len(r) = Len(s) - 1 /\ (\A i \in 1..Len(r) : r[i] = s[i + 1]) /\ Head(s) = s[1]
  BY <1>2, HeadTailProperties
<1>4. DOMAIN r = 1..(Len(s) - 1)
  BY <1>3, LenProperties
<1>5. ASSUME NEW e PROVE e \in ToSet(r) <=> e \in ToSet(s) /\ e # Head(s)
  <2>1. ASSUME e \in ToSet(r) PROVE e \in ToSet(s) /\ e # Head(s)
    <3>1. PICK i \in DOMAIN r : r[i] = e
      BY <2>1 DEF ToSet
    <3>2. i + 1 \in DOMAIN s /\ i + 1 # 1 /\ 1 \in DOMAIN s /\ s[i + 1] = e
      BY <1>1, <1>3, <1>4, <3>1
    <3> QED BY <1>3, <3>2 DEF ToSet, IsInjective
  <2>2. ASSUME e \in ToSet(s), e # Head(s) PROVE e \in ToSet(r)
    <3>1. PICK i \in DOMAIN s : s[i] = e
      BY <2>2 DEF ToSet
    <3>2. i - 1 \in DOMAIN r /\ i = (i - 1) + 1
      BY <1>1, <1>3, <1>4, <2>2, <3>1
    <3>3. r[i - 1] = e
      BY <1>3, <1>4, <3>1, <3>2
    <3> QED BY <3>2, <3>3 DEF ToSet
  <2> QED BY <2>1, <2>2
<1>6. IsInjective(r)
  <2> SUFFICES ASSUME NEW i \in DOMAIN r, NEW j \in DOMAIN r, r[i] = r[j] PROVE i = j
    BY DEF IsInjective
  <2>1. i + 1 \in DOMAIN s /\ j + 1 \in DOMAIN s /\ s[i + 1] = s[j + 1]
    BY <1>1, <1>3, <1>4
  <2>2. i + 1 = j + 1
    BY <2>1 DEF IsInjective
  <2> QED BY <1>4, <2>2
<1>7. ToSet(r) = ToSet(s) \ {Head(s)}
  BY <1>5
<1>8. Head(s) \in ToSet(s)
  BY <1>1, <1>3 DEF ToSet
<1> QED BY <1>2, <1>3, <1>6, <1>7, <1>8

LEMMA RemoveAtSet ==
  ASSUME NEW S, NEW s \in Seq(S), IsInjective(s), NEW i \in DOMAIN s
  PROVE  /\ RemoveAt(s, i) \in Seq(S) /\ ToSet(RemoveAt(s, i)) = ToSet(s) \ {s[i]}
         /\ IsInjective(RemoveAt(s, i))
<1>1. Len(s) \in Nat /\ DOMAIN s = 1..Len(s) /\ i \in 1..Len(s)
  BY LenProperties
<1>2. PICK u, v : u = SubSeq(s, 1, i - 1) /\ v = SubSeq(s, i + 1, Len(s))
  OBVIOUS
<1>3. u \in Seq(S) /\ Len(u) = i - 1 /\ \A j \in 1..(i - 1) : u[j] = s[j]
  <2>1. i - 1 \in 1 - 1..Len(s)
    BY <1>1
  <2> QED BY <1>1, <1>2, <2>1, SubSeqProperties
<1>4. v \in Seq(S) /\ Len(v) = Len(s) - i /\ \A j \in 1..(Len(s) - i) : v[j] = s[i + j]
  BY <1>1, <1>2, SubSeqProperties
<1>5. PICK r : r = u \o v
  OBVIOUS
<1>6. /\ r \in Seq(S) /\ Len(r) = Len(s) - 1
      /\ \A j \in 1..Len(r) : r[j] = IF j < i THEN s[j] ELSE s[j + 1]
  <2>1. /\ r \in Seq(S) /\ Len(r) = Len(u) + Len(v)
        /\ \A j \in 1..(Len(u) + Len(v)) : r[j] = IF j <= Len(u) THEN u[j] ELSE v[j - Len(u)]
    BY <1>3, <1>4, <1>5, ConcatProperties
  <2>2. Len(r) = Len(s) - 1
    BY <1>1, <1>3, <1>4, <2>1
  <2>3. ASSUME NEW j \in 1..Len(r) PROVE r[j] = IF j < i THEN s[j] ELSE s[j + 1]
    <3>1. CASE j < i
      BY <1>1, <1>3, <1>4, <2>1, <2>3, <3>1
    <3>2. CASE ~(j < i)
      <4>1. j - (i - 1) \in 1..(Len(s) - i) /\ i + (j - (i - 1)) = j + 1
        BY <1>1, <2>2, <2>3, <3>2
      <4>2. r[j] = v[j - (i - 1)]
        BY <1>1, <1>3, <1>4, <2>1, <2>3, <3>2
      <4>3. v[j - (i - 1)] = s[i + (j - (i - 1))]
        BY <1>4, <4>1
      <4> QED BY <3>2, <4>1, <4>2, <4>3
    <3> QED BY <3>1, <3>2
  <2> QED BY <2>1, <2>2, <2>3
<1>7. DOMAIN r = 1..(Len(s) - 1)
  BY <1>6, LenProperties
<1>8. PICK at : at = [j \in DOMAIN r |-> IF j < i THEN j ELSE j + 1]
  OBVIOUS
<1>9. /\ \A j \in DOMAIN r : at[j] \in DOMAIN s /\ at[j] # i /\ r[j] = s[at[j]]
      /\ \A j, k \in DOMAIN r : at[j] = at[k] => j = k
      /\ \A k \in DOMAIN s : k # i => \E j \in DOMAIN r : at[j] = k
  <2>1. \A j \in DOMAIN r : at[j] \in DOMAIN s /\ at[j] # i /\ r[j] = s[at[j]]
    BY <1>1, <1>6, <1>7, <1>8
  <2>2. \A j, k \in DOMAIN r : at[j] = at[k] => j = k
    BY <1>1, <1>7, <1>8
  <2>3. ASSUME NEW k \in DOMAIN s, k # i PROVE \E j \in DOMAIN r : at[j] = k
    <3>1. CASE k < i
      BY <1>1, <1>7, <1>8, <2>3, <3>1
    <3>2. CASE k > i
      <4>1. k - 1 \in DOMAIN r /\ ~(k - 1 < i) /\ (k - 1) + 1 = k
        BY <1>1, <1>7, <3>2
      <4>2. at[k - 1] = k
        BY <1>8, <4>1
      <4> QED BY <4>1, <4>2
    <3> QED BY <1>1, <2>3, <3>1, <3>2
  <2> QED BY <2>1, <2>2, <2>3
<1>10. ToSet(r) = ToSet(s) \ {s[i]}
  BY <1>1, <1>9 DEF ToSet, IsInjective
<1>11. IsInjective(r)
  BY <1>9 DEF IsInjective
<1> QED BY <1>2, <1>5, <1>6, <1>10, <1>11 DEF RemoveAt

\* What is left of a list.
LEMMA SublistSet ==
  ASSUME NEW S, NEW s \in Seq(S), IsInjective(s), NEW W \in SUBSET DOMAIN s,
         NEW order \in Bijection(1..Cardinality(W), W),
         NEW r, r = [n \in DOMAIN order |-> s[order[n]]]
  PROVE  r \in Seq(S) /\ ToSet(r) = {s[i] : i \in W} /\ IsInjective(r)
<1>1. Len(s) \in Nat /\ DOMAIN s = 1..Len(s) /\ \A i \in DOMAIN s : s[i] \in S
  BY LenProperties, ElementOfSeq
<1>2. Cardinality(W) \in Nat
  <2>1. IsFiniteSet(DOMAIN s)
    BY <1>1, FS_Interval
  <2>2. IsFiniteSet(W)
    BY <2>1, FS_Subset
  <2> QED BY <2>2, FS_CardinalityType
<1>3. /\ order \in [1..Cardinality(W) -> W]
      /\ \A m, n \in 1..Cardinality(W) : order[m] = order[n] => m = n
      /\ \A i \in W : \E n \in 1..Cardinality(W) : order[n] = i
  BY DEF Bijection, Injection, Surjection, IsInjective
<1>4. DOMAIN r = 1..Cardinality(W) /\ \A n \in DOMAIN r : r[n] = s[order[n]] /\ order[n] \in W
  BY <1>3
<1>5. r \in [1..Cardinality(W) -> S]
  BY <1>1, <1>3
<1>6. r \in Seq(S)
  BY <1>2, <1>5, SeqDef
<1>7. ToSet(r) = {s[i] : i \in W}
  BY <1>3, <1>4 DEF ToSet
<1>8. IsInjective(r)
  BY <1>3, <1>4 DEF IsInjective
<1> QED BY <1>6, <1>7, <1>8

-----------------------------------------------------------------------------
(* The invariant *)

Upkeeps == {"none", "draft", "change", "stop", "remove"}

GateTyped ==
  /\ turn \in [Turns -> Places]
  /\ aborted \subseteq Cancellable
  /\ pending \in Seq(Turns) /\ active \subseteq Turns
  /\ drain \in {Idle, Asking} \cup {Answered(l) : l \in Limits}
  /\ dirty \in BOOLEAN /\ unannounced \in BOOLEAN /\ limits \in Limits
  /\ maintenance \in [Agents -> Upkeeps]

BoxTyped ==
  /\ saw \in [Turns -> Status] /\ inner \in [Turns -> BOOLEAN]
  /\ bound \subseteq Sessions /\ holder \in [Sessions -> Turns \cup {NoTurn}]
  /\ exclusive \in [Agents -> Turns \cup {"keeper", NoTurn}]
  /\ frozen \subseteq Agents /\ pty \subseteq Agents /\ used \subseteq Agents
  /\ access \in [Agents -> Nat] /\ viewers \in [Agents -> 0..MaxViewers]
  /\ line \in [Agents -> Seq(Turns \cup {"keeper"})]
  /\ box \in [Agents -> [status : Status, live : BOOLEAN]]
  /\ keeper \in [Agents -> {"none", "lined", "check", "kill", "clear"}]
  /\ idleSaw \in [Agents -> Status]
  /\ upkeep \in 0..MaxUpkeep /\ faults \in 0..MaxFaults

Outside == {"none", "queued", "pending", "ended"}
Ensuring == {"allocated", "reusing", "binding", "lined", "starting", "booting"}

\* Who holds a lease of the Agent, and who waits for one.
Leased ==
  /\ \A t \in Turns : t \in active <=> turn[t] \notin Outside
  /\ \A t \in Turns : t \in ToSet(pending) <=> turn[t] = "pending"
  /\ IsInjective(pending)

\* Nothing executes in an Agent that is maintained.
Calm == \A a \in Agents : InMaintenance(a) => ActiveOf(a, active) = {}

\* The limits the loop has read are those that hold, or it comes round again.
Informed == drain.at = "answered" => unannounced \/ dirty \/ drain.limits = limits

GateInv == GateTyped /\ Leased /\ Calm /\ Informed /\ WaitsForAReason

\* A turn holds its session while it runs, and while it writes a workspace for it.
Occupies(t) == turn[t] = "running" \/ inner[t] \/ (turn[t] = "binding" /\ SessionOf[t] \notin bound)

SessionsFit ==
  /\ \A t \in Turns, s \in Sessions : t = holder[s] <=> SessionOf[t] = s /\ Occupies(t)
  /\ \A t \in Turns : inner[t] => turn[t] \in Ensuring

\* Turns that use a sandbox beside others.
Using(a) == {t \in Turns : AgentOfTurn(t) = a /\ turn[t] \in {"reusing", "binding"}}

AccessFits ==
  \A a \in Agents : /\ access[a] = viewers[a] + Cardinality(Using(a))
                    /\ a \in frozen => access[a] = 0

InLine == {"lined", "starting", "booting"}
Keeping == {"check", "kill", "clear"}

\* The queue of a sandbox: the first may operate, under the exclusive lease.
LineFits(a) ==
  /\ IsInjective(line[a])
  /\ \A t \in Turns :
       /\ t \in ToSet(line[a]) <=> AgentOfTurn(t) = a /\ turn[t] \in InLine
       /\ AgentOfTurn(t) = a /\ turn[t] \in {"starting", "booting"} <=> a \in frozen /\ First(a) = t
  /\ "keeper" \in ToSet(line[a]) <=> keeper[a] # "none"
  /\ keeper[a] \in Keeping <=> a \in frozen /\ First(a) = "keeper"
  /\ a \in frozen => line[a] # <<>>
  /\ exclusive[a] = IF a \in frozen THEN First(a) ELSE NoTurn

KeeperFits == \A a \in Agents : keeper[a] # "none" <=> maintenance[a] \in {"stop", "remove"}

BoxInv == BoxTyped /\ SessionsFit /\ AccessFits /\ (\A a \in Agents : LineFits(a)) /\ KeeperFits

SandboxInv == GateInv /\ BoxInv

-----------------------------------------------------------------------------
(* It says what the properties say *)

LEMMA TurnAgent ==
  ASSUME NEW t \in Turns
  PROVE  SessionOf[t] \in Sessions /\ AgentOfTurn(t) \in Agents
BY GateConstants DEF AgentOfTurn

LEMMA FirstInLine ==
  ASSUME BoxInv, NEW a \in Agents, line[a] # <<>>
  PROVE  First(a) \in ToSet(line[a]) /\ First(a) \in Turns \cup {"keeper"} /\ First(a) = Head(line[a])
<1>1. line[a] \in Seq(Turns \cup {"keeper"}) /\ IsInjective(line[a])
  BY DEF BoxInv, BoxTyped, LineFits
<1> QED BY <1>1, TailSet, HeadTailProperties DEF First

LEMMA InvTyped == SandboxInv => TypeOK
<1> SUFFICES ASSUME SandboxInv PROVE TypeOK
  OBVIOUS
<1>1. ToSet(pending) \subseteq Turns
  BY ElementOfSeq, LenProperties DEF SandboxInv, GateInv, GateTyped, ToSet
<1>2. ASSUME NEW a \in Agents PROVE ToSet(line[a]) \subseteq Turns \cup {"keeper"}
  <2>1. line[a] \in Seq(Turns \cup {"keeper"})
    BY DEF SandboxInv, BoxInv, BoxTyped
  <2> QED BY <2>1, ElementOfSeq, LenProperties DEF ToSet
<1> QED BY <1>1, <1>2 DEF SandboxInv, GateInv, BoxInv, GateTyped, BoxTyped, TypeOK, Upkeeps

LEMMA InvAccounts == SandboxInv => Accounted
<1> SUFFICES ASSUME SandboxInv PROVE Accounted
  OBVIOUS
<1>1. active = {t \in Turns : ~At(t, {"none", "queued", "pending", "ended"})}
  BY DEF SandboxInv, GateInv, GateTyped, Leased, At, Outside
<1>2. ToSet(pending) = {t \in Turns : At(t, {"pending"})} /\ IsInjective(pending)
  <2>1. ToSet(pending) \subseteq Turns
    BY InvTyped DEF TypeOK
  <2> QED BY <2>1 DEF SandboxInv, GateInv, Leased, At
<1>3. ASSUME NEW s \in Sessions, NEW H, NEW B,
             H = {t \in Turns : SessionOf[t] = s /\ (At(t, {"running"}) \/ inner[t])},
             B = {t \in Turns : SessionOf[t] = s /\ At(t, {"binding"}) /\ s \notin bound}
      PROVE  IF holder[s] = NoTurn THEN H \cup B = {} ELSE H \cup B = {holder[s]}
  <2>1. \A t \in Turns : t \in H \cup B <=> t = holder[s]
    BY <1>3 DEF SandboxInv, BoxInv, SessionsFit, Occupies, At
  <2>2. holder[s] \in Turns \cup {NoTurn} /\ NoTurn \notin Turns /\ H \cup B \subseteq Turns
    BY <1>3, SandboxConstants DEF SandboxInv, BoxInv, BoxTyped
  <2> QED BY <2>1, <2>2
<1>4. ASSUME NEW a \in Agents
      PROVE  LET inLine == {t \in Turns : AgentOfTurn(t) = a /\ At(t, {"lined", "starting", "booting"})}
                 operating == {t \in inLine : ~At(t, {"lined"})}
                                \cup (IF keeper[a] \in {"check", "kill", "clear"} THEN {"keeper"} ELSE {})
             IN  /\ access[a] = viewers[a] + Cardinality({t \in Turns : AgentOfTurn(t) = a /\ At(t, {"reusing", "binding"})})
                 /\ ToSet(line[a]) = inLine \cup (IF keeper[a] = "none" THEN {} ELSE {"keeper"})
                 /\ IsInjective(line[a])
                 /\ operating = IF a \in frozen THEN {First(a)} ELSE {}
                 /\ exclusive[a] = IF a \in frozen THEN First(a) ELSE NoTurn
                 /\ (keeper[a] # "none") <=> (maintenance[a] \in {"stop", "remove"})
  <2>a. PICK L : L = {t \in Turns : AgentOfTurn(t) = a /\ At(t, {"lined", "starting", "booting"})}
    OBVIOUS
  <2>b. PICK O : O = {t \in L : ~At(t, {"lined"})} \cup (IF keeper[a] \in {"check", "kill", "clear"} THEN {"keeper"} ELSE {})
    OBVIOUS
  <2>1. access[a] = viewers[a] + Cardinality({t \in Turns : AgentOfTurn(t) = a /\ At(t, {"reusing", "binding"})})
    BY DEF SandboxInv, BoxInv, AccessFits, Using, At
  <2>2. LineFits(a) /\ KeeperFits /\ "keeper" \notin Turns
    BY SandboxConstants DEF SandboxInv, BoxInv
  <2>3. ToSet(line[a]) \subseteq Turns \cup {"keeper"}
    BY InvTyped DEF TypeOK
  <2>4. ToSet(line[a]) = L \cup (IF keeper[a] = "none" THEN {} ELSE {"keeper"})
    BY <2>a, <2>2, <2>3 DEF LineFits, InLine, At
  <2>5. a \in frozen => First(a) \in Turns \cup {"keeper"}
    BY <2>2, FirstInLine DEF SandboxInv, LineFits
  <2>6. \A t \in Turns : t \in O <=> a \in frozen /\ First(a) = t
    BY <2>a, <2>b, <2>2 DEF LineFits, InLine, At
  <2>7. "keeper" \in O <=> a \in frozen /\ First(a) = "keeper"
    BY <2>a, <2>b, <2>2 DEF LineFits, Keeping
  <2>8. O \subseteq Turns \cup {"keeper"}
    BY <2>a, <2>b
  <2>9. O = IF a \in frozen THEN {First(a)} ELSE {}
    BY <2>5, <2>6, <2>7, <2>8
  <2>10. exclusive[a] = IF a \in frozen THEN First(a) ELSE NoTurn
    BY <2>2 DEF LineFits
  <2>11. IsInjective(line[a]) /\ ((keeper[a] # "none") <=> (maintenance[a] \in {"stop", "remove"}))
    BY <2>2 DEF LineFits, KeeperFits
  <2> QED BY <2>a, <2>b, <2>1, <2>4, <2>9, <2>10, <2>11, Zenon
<1>5. ASSUME NEW s \in Sessions
      PROVE  LET holders == {t \in Turns : SessionOf[t] = s /\ (At(t, {"running"}) \/ inner[t])}
                 binders == {t \in Turns : SessionOf[t] = s /\ At(t, {"binding"}) /\ s \notin bound}
             IN  IF holder[s] = NoTurn THEN holders \cup binders = {}
                                       ELSE holders \cup binders = {holder[s]}
  BY <1>3
<1> QED BY <1>1, <1>2, <1>4, <1>5, Zenon DEF Accounted

-----------------------------------------------------------------------------
(* The gate of the Agents *)

LEMMA LoopAt ==
  /\ Idle.at = "idle" /\ Asking.at = "asking"
  /\ \A l \in Limits : Answered(l).at = "answered" /\ Answered(l).limits = l
BY DEF Idle, Asking, Answered

LEMMA LoopIs ==
  ASSUME GateTyped
  PROVE  /\ drain = Idle <=> drain.at = "idle"
         /\ drain.at = "answered" => drain.limits \in Limits
         /\ drain.at \in {"idle", "asking", "answered"}
<1>1. CASE drain = Idle \/ drain = Asking
  BY <1>1, LoopAt
<1>2. CASE \E l \in Limits : drain = Answered(l)
  <2>1. PICK l \in Limits : drain = Answered(l)
    BY <1>2
  <2>2. drain.at = "answered" /\ drain.limits = l
    BY <2>1, LoopAt
  <2> QED BY <2>1, <2>2, LoopAt
<1> QED BY <1>1, <1>2 DEF GateTyped

\* Whoever refreshes leaves the loop under way, or nobody waits.
LEMMA Refreshes ==
  ASSUME GateTyped, NEW p \in Seq(Turns), Refresh(p)
  PROVE  /\ pending' = p /\ dirty' \in BOOLEAN
         /\ drain' \in {Idle, Asking} \cup {Answered(l) : l \in Limits}
         /\ drain' = Idle => p = <<>>
         /\ drain'.at = "answered" => dirty'
<1>1. CASE drain.at = "idle"
  <2>1. Loop(p, TRUE)
    BY <1>1 DEF Refresh
  <2>2. pending' = p /\ dirty' \in BOOLEAN /\ drain' \in {Idle, Asking} /\ (drain' = Idle => p = <<>>)
    <3>1. CASE p # <<>>
      BY <2>1, <3>1, LoopAt DEF Loop, Refresh
    <3>2. CASE p = <<>>
      BY <2>1, <3>2, LoopAt DEF Loop, Refresh
    <3> QED BY <3>1, <3>2
  <2> QED BY <2>2, LoopAt
<1>2. CASE drain.at # "idle"
  BY <1>2, LoopAt DEF Refresh, GateTyped
<1> QED BY <1>1, <1>2

LEMMA RefreshedInv ==
  ASSUME GateTyped, NEW p \in Seq(Turns), Refresh(p), Leased', Calm',
         turn' \in [Turns -> Places], aborted' \subseteq Cancellable, active' \subseteq Turns,
         limits' \in Limits, unannounced' \in BOOLEAN, maintenance' \in [Agents -> Upkeeps]
  PROVE  GateInv'
<1>1. /\ pending' = p /\ dirty' \in BOOLEAN
      /\ drain' \in {Idle, Asking} \cup {Answered(l) : l \in Limits}
      /\ drain' = Idle => p = <<>>
      /\ drain'.at = "answered" => dirty'
  BY Refreshes
<1>2. GateTyped'
  BY <1>1 DEF GateTyped
<1>3. Informed'
  BY <1>1 DEF Informed
<1>4. WaitsForAReason'
  <2>1. DOMAIN <<>> = {}
    OBVIOUS
  <2> QED BY <1>1, <2>1 DEF WaitsForAReason
<1> QED BY <1>2, <1>3, <1>4 DEF GateInv

\* Steps of the gate in which nobody's wait ends or begins.
LEMMA StillGate ==
  ASSUME GateInv, UNCHANGED <<pending, active, drain, dirty, limits, unannounced>>,
         turn' \in [Turns -> Places], aborted' \subseteq Cancellable,
         maintenance' \in [Agents -> Upkeeps],
         \A t \in Turns : /\ turn'[t] \in Outside <=> turn[t] \in Outside
                          /\ turn'[t] = "pending" <=> turn[t] = "pending",
         \A a \in Agents : InMaintenance(a) => InMaintenance(a)',
         \A a \in Agents : InMaintenance(a)' => InMaintenance(a) \/ ActiveOf(a, active) = {}
  PROVE  GateInv'
<1>1. GateTyped'
  BY DEF GateInv, GateTyped
<1>2. Leased'
  BY DEF GateInv, Leased
<1>3. Calm'
  BY DEF GateInv, Calm, ActiveOf
<1>4. Informed'
  BY DEF GateInv, Informed
<1>5. WaitsForAReason'
  <2>1. ASSUME NEW i \in DOMAIN pending, drain = Idle, ~unannounced, Available(pending[i], active, limits)'
        PROVE  FALSE
    <3>1. pending[i] \in Turns
      BY ElementOfSeq, LenProperties DEF GateInv, GateTyped
    <3>2. AgentOfTurn(pending[i]) \in Agents
      BY <3>1, TurnAgent
    <3>3. Available(pending[i], active, limits)
      BY <2>1, <3>2 DEF Available, ActiveOf, AgentOfTurn
    <3> QED BY <2>1, <3>3 DEF GateInv, WaitsForAReason
  <2> QED BY <2>1 DEF WaitsForAReason
<1> QED BY <1>1, <1>2, <1>3, <1>4, <1>5 DEF GateInv

\* A turn goes on under its lease.
LEMMA GoOnInv ==
  ASSUME GateInv, NEW t \in Turns, t \in active, NEW at \in Places \ Outside, Goto(t, at), UNCHANGED Gate
  PROVE  GateInv'
<1>1. turn' = [turn EXCEPT ![t] = at] /\ turn \in [Turns -> Places]
  BY DEF Goto, GateInv, GateTyped
<1>2. turn[t] \notin Outside
  BY DEF GateInv, Leased
<1>3. \A u \in Turns : /\ turn'[u] \in Outside <=> turn[u] \in Outside
                       /\ turn'[u] = "pending" <=> turn[u] = "pending"
  BY <1>1, <1>2 DEF Outside
<1>4. turn' \in [Turns -> Places]
  BY <1>1
<1>5. UNCHANGED <<pending, active, drain, dirty, limits, unannounced, aborted, maintenance>>
  BY DEF Gate
<1> QED BY <1>3, <1>4, <1>5, StillGate DEF InMaintenance, GateInv, GateTyped

LEMMA SameGate ==
  ASSUME GateInv, UNCHANGED gateVars
  PROVE  GateInv'
BY StillGate DEF gateVars, GateInv, GateTyped, InMaintenance

\* Its lease goes back.
LEMMA LeaveGateInv ==
  ASSUME GateInv, NEW t \in Turns, t \in active, NEW to \in {"queued", "ended"}, LeaveGate(t, to)
  PROVE  GateInv'
<1>1. /\ turn' = [turn EXCEPT ![t] = to] /\ active' = active \ {t} /\ Refresh(pending)
      /\ UNCHANGED <<aborted, limits, unannounced, maintenance>>
  BY DEF LeaveGate, ReleaseLease
<1>2. GateTyped /\ Leased /\ Calm
  BY DEF GateInv
<1>3. turn \in [Turns -> Places] /\ to \in Places /\ pending \in Seq(Turns)
  BY <1>2 DEF GateTyped, Places
<1>4. turn'[t] = to /\ \A u \in Turns \ {t} : turn'[u] = turn[u]
  BY <1>1, <1>3
<1>5. pending' = pending
  BY <1>1 DEF Refresh
<1>6. Leased'
  BY <1>1, <1>2, <1>4, <1>5 DEF Leased, Outside
<1>7. Calm'
  BY <1>1, <1>2 DEF Calm, ActiveOf, InMaintenance
<1>8. turn' \in [Turns -> Places]
  BY <1>1, <1>3
<1> QED BY <1>1, <1>2, <1>3, <1>6, <1>7, <1>8, RefreshedInv DEF GateTyped

LEMMA RequestLeaseInv ==
  ASSUME GateInv, NEW t \in Turns, RequestLease(t)
  PROVE  GateInv'
<1>1. /\ turn' = [turn EXCEPT ![t] = "pending"] /\ turn[t] = "queued" /\ Refresh(Append(pending, t))
      /\ UNCHANGED <<aborted, active, limits, unannounced, maintenance>>
  BY DEF RequestLease
<1>2. GateTyped /\ Leased /\ Calm
  BY DEF GateInv
<1>3. turn \in [Turns -> Places] /\ "pending" \in Places /\ pending \in Seq(Turns)
  BY <1>2 DEF GateTyped, Places
<1>4. turn'[t] = "pending" /\ \A u \in Turns \ {t} : turn'[u] = turn[u]
  BY <1>1, <1>3
<1>5. t \notin ToSet(pending)
  BY <1>1, <1>2 DEF Leased
<1>6. /\ Append(pending, t) \in Seq(Turns)
      /\ ToSet(Append(pending, t)) = ToSet(pending) \cup {t} /\ IsInjective(Append(pending, t))
  BY <1>2, <1>3, <1>5, AppendSet DEF Leased
<1>7. pending' = Append(pending, t)
  BY <1>1 DEF Refresh
<1>8. Leased'
  <2>1. \A u \in Turns : u \in active' <=> turn'[u] \notin Outside
    BY <1>1, <1>2, <1>4 DEF Leased, Outside
  <2>2. \A u \in Turns : u \in ToSet(pending') <=> turn'[u] = "pending"
    BY <1>2, <1>4, <1>6, <1>7 DEF Leased
  <2> QED BY <1>6, <1>7, <2>1, <2>2 DEF Leased
<1>9. Calm'
  BY <1>1, <1>2 DEF Calm, ActiveOf, InMaintenance
<1>10. turn' \in [Turns -> Places]
  BY <1>1, <1>3
<1> QED BY <1>1, <1>2, <1>6, <1>8, <1>9, <1>10, RefreshedInv DEF GateTyped

LEMMA AbortInv ==
  ASSUME GateInv, NEW t \in Cancellable, Abort(t)
  PROVE  GateInv'
<1>1. /\ turn' = [turn EXCEPT ![t] = IF @ \in {"queued", "pending"} THEN "ended" ELSE @]
      /\ UNCHANGED <<active, limits, unannounced, maintenance>>
      /\ aborted' = aborted \cup {t} /\ turn[t] # "none"
  BY DEF Abort
<1>2. GateTyped /\ Leased /\ Calm /\ t \in Turns
  BY SandboxConstants DEF GateInv
<1>3. turn \in [Turns -> Places] /\ "ended" \in Places /\ pending \in Seq(Turns)
  BY <1>2 DEF GateTyped, Places
<1>4. turn' \in [Turns -> Places] /\ aborted' \subseteq Cancellable
  BY <1>1, <1>2, <1>3 DEF GateTyped
<1>5. /\ turn'[t] = IF turn[t] \in {"queued", "pending"} THEN "ended" ELSE turn[t]
      /\ \A u \in Turns \ {t} : turn'[u] = turn[u]
  BY <1>1, <1>2, <1>3
<1>6. CASE turn[t] # "pending"
  <2>1. \A i \in DOMAIN pending : pending[i] # t
    BY <1>2, <1>6 DEF Leased, ToSet
  <2>2. UNCHANGED <<pending, drain, dirty>>
    BY <2>1 DEF Abort
  <2>3. \A u \in Turns : /\ turn'[u] \in Outside <=> turn[u] \in Outside
                         /\ turn'[u] = "pending" <=> turn[u] = "pending"
    BY <1>2, <1>5, <1>6 DEF Outside
  <2> QED BY <1>1, <1>2, <1>4, <2>2, <2>3, StillGate DEF InMaintenance, GateTyped
<1>7. CASE turn[t] = "pending"
  <2>1. PICK i \in DOMAIN pending : pending[i] = t /\ Refresh(RemoveAt(pending, i))
    BY <1>7 DEF Abort
  <2>2. /\ RemoveAt(pending, i) \in Seq(Turns)
        /\ ToSet(RemoveAt(pending, i)) = ToSet(pending) \ {t} /\ IsInjective(RemoveAt(pending, i))
    BY <1>2, <1>3, <2>1, RemoveAtSet DEF Leased
  <2>3. pending' = RemoveAt(pending, i)
    BY <2>1 DEF Refresh
  <2>4. \A u \in Turns : u \in active' <=> turn'[u] \notin Outside
    BY <1>1, <1>2, <1>5, <1>7 DEF Leased, Outside
  <2>5. \A u \in Turns : u \in ToSet(pending') <=> turn'[u] = "pending"
    BY <1>2, <1>5, <1>7, <2>2, <2>3 DEF Leased
  <2>6. Leased'
    BY <2>2, <2>3, <2>4, <2>5 DEF Leased
  <2>7. Calm'
    BY <1>1, <1>2 DEF Calm, ActiveOf, InMaintenance
  <2> QED BY <1>1, <1>2, <1>4, <2>1, <2>2, <2>6, <2>7, RefreshedInv DEF GateTyped
<1> QED BY <1>6, <1>7

\* An end of maintenance, and new limits that are announced.
LEMMA AnnounceInv ==
  ASSUME GateInv, Refresh(pending), UNCHANGED <<turn, aborted, active, limits>>, unannounced' \in BOOLEAN,
         maintenance' \in [Agents -> Upkeeps],
         \A a \in Agents : InMaintenance(a)' => InMaintenance(a)
  PROVE  GateInv'
<1>1. GateTyped /\ Leased /\ Calm
  BY DEF GateInv
<1>2. pending' = pending
  BY DEF Refresh
<1>3. Leased'
  BY <1>1, <1>2 DEF Leased
<1>4. Calm'
  BY <1>1 DEF Calm, ActiveOf
<1> QED BY <1>1, <1>3, <1>4, RefreshedInv DEF GateTyped

LEMMA EndMaintenanceInv ==
  ASSUME GateInv, NEW a \in Agents, EndMaintenance(a), UNCHANGED <<turn, aborted, active, limits, unannounced>>
  PROVE  GateInv'
<1>1. maintenance' = [maintenance EXCEPT ![a] = "none"] /\ Refresh(pending)
  BY DEF EndMaintenance
<1>2. maintenance \in [Agents -> Upkeeps] /\ "none" \in Upkeeps
  BY DEF GateInv, GateTyped, Upkeeps
<1>3. \A b \in Agents : InMaintenance(b)' => InMaintenance(b)
  BY <1>1, <1>2 DEF InMaintenance
<1>4. maintenance' \in [Agents -> Upkeeps]
  BY <1>1, <1>2
<1> QED BY <1>1, <1>3, <1>4, AnnounceInv DEF GateInv, GateTyped

LEMMA TakeMaintenanceInv ==
  ASSUME GateInv, NEW a \in Agents, NEW kind \in Upkeeps \ {"none"}, TakeMaintenance(a, kind),
         UNCHANGED <<turn, aborted, pending, active, drain, dirty, limits, unannounced>>
  PROVE  GateInv' /\ maintenance[a] = "none" /\ maintenance' = [maintenance EXCEPT ![a] = kind]
<1>1. maintenance' = [maintenance EXCEPT ![a] = kind] /\ maintenance[a] = "none"
      /\ (kind # "draft" => ActiveOf(a, active) = {})
  BY DEF TakeMaintenance, AgentExecutionBusy
<1>2. maintenance \in [Agents -> Upkeeps]
  BY DEF GateInv, GateTyped
<1>3. \A b \in Agents : InMaintenance(b) => InMaintenance(b)'
  BY <1>1, <1>2 DEF InMaintenance
<1>4. \A b \in Agents : InMaintenance(b)' => InMaintenance(b) \/ ActiveOf(b, active) = {}
  BY <1>1, <1>2 DEF InMaintenance
<1>5. maintenance' \in [Agents -> Upkeeps]
  BY <1>1, <1>2
<1> QED BY <1>1, <1>3, <1>4, <1>5, StillGate DEF GateInv, GateTyped

LEMMA SaveLimitsInv ==
  ASSUME GateInv, SaveLimits
  PROVE  GateInv'
<1>1. /\ UNCHANGED <<turn, aborted, pending, active, drain, dirty, maintenance>>
      /\ unannounced' = TRUE /\ limits' \in Limits
  BY DEF SaveLimits
<1>2. GateTyped'
  BY <1>1 DEF GateInv, GateTyped
<1>3. Leased' /\ Calm'
  BY <1>1 DEF GateInv, Leased, Calm, ActiveOf, InMaintenance
<1>4. Informed' /\ WaitsForAReason'
  BY <1>1 DEF Informed, WaitsForAReason
<1> QED BY <1>2, <1>3, <1>4 DEF GateInv

LEMMA ReadLimitsInv ==
  ASSUME GateInv, ReadLimits
  PROVE  GateInv'
<1>1. /\ UNCHANGED <<turn, aborted, pending, active, dirty, limits, unannounced, maintenance>>
      /\ drain' = Answered(limits) /\ limits \in Limits
  BY DEF ReadLimits, GateInv, GateTyped
<1>2. GateTyped'
  BY <1>1 DEF GateInv, GateTyped
<1>3. Leased' /\ Calm'
  BY <1>1 DEF GateInv, Leased, Calm, ActiveOf, InMaintenance
<1>4. drain'.limits = limits' /\ drain' # Idle
  BY <1>1, LoopAt
<1>5. Informed' /\ WaitsForAReason'
  BY <1>4 DEF Informed, WaitsForAReason
<1> QED BY <1>2, <1>3, <1>5 DEF GateInv

\* Every request is rejected.
LEMMA ReadLimitsFailsInv ==
  ASSUME GateInv, ReadLimitsFails
  PROVE  GateInv'
<1>1. /\ UNCHANGED <<aborted, active, dirty, limits, unannounced, maintenance>>
      /\ pending' = <<>> /\ drain' = Idle
      /\ turn' = [t \in Turns |-> IF turn[t] = "pending" THEN "ended" ELSE turn[t]]
  BY DEF ReadLimitsFails
<1>2. turn \in [Turns -> Places] /\ "ended" \in Places
  BY DEF GateInv, GateTyped, Places
<1>3. turn' \in [Turns -> Places]
  BY <1>1, <1>2
<1>4. pending' \in Seq(Turns) /\ ToSet(pending') = {} /\ IsInjective(pending') /\ DOMAIN pending' = {}
  BY <1>1, EmptySeq DEF ToSet, IsInjective
<1>5. GateTyped'
  BY <1>1, <1>3, <1>4 DEF GateInv, GateTyped
<1>6. Leased'
  BY <1>1, <1>4 DEF GateInv, Leased, Outside
<1>7. Calm'
  BY <1>1 DEF GateInv, Calm, ActiveOf, InMaintenance
<1>8. Informed' /\ WaitsForAReason'
  BY <1>1, <1>4, LoopAt DEF Informed, WaitsForAReason
<1> QED BY <1>5, <1>6, <1>7, <1>8 DEF GateInv

\* One pass: a request that was turned away stays turned away, as the leases of
\* the pass only grow.
LEMMA LessAvailable ==
  ASSUME NEW t \in Turns, NEW few \in SUBSET Turns, NEW many \in SUBSET Turns, few \subseteq many,
         NEW l \in Limits, Available(t, many, l)
  PROVE  Available(t, few, l)
<1>1. IsFiniteSet(many) /\ IsFiniteSet(few)
  <2>1. IsFiniteSet(Turns)
    BY GateConstants
  <2> QED BY <2>1, FS_Subset
<1>2. Cardinality(few) <= Cardinality(many) /\ Cardinality(few) \in Nat /\ Cardinality(many) \in Nat
  BY <1>1, FS_Subset, FS_CardinalityType
<1>3. PICK x, y : x = ActiveOf(AgentOfTurn(t), few) /\ y = ActiveOf(AgentOfTurn(t), many)
  OBVIOUS
<1>4. x \subseteq y /\ y \subseteq many
  BY <1>3 DEF ActiveOf
<1>5. IsFiniteSet(x) /\ IsFiniteSet(y)
  BY <1>1, <1>4, FS_Subset
<1>6. Cardinality(x) <= Cardinality(y) /\ Cardinality(x) \in Nat /\ Cardinality(y) \in Nat
  BY <1>4, <1>5, FS_Subset, FS_CardinalityType
<1>7. l.total \in Nat /\ l.perAgent \in Nat
  BY GateConstants
<1> QED BY <1>2, <1>3, <1>6, <1>7 DEF Available

LEMMA DrainInv ==
  ASSUME GateInv, Drain
  PROVE  GateInv'
<1>1. GateTyped /\ Leased /\ Calm /\ Informed /\ drain.at = "answered"
  BY DEF GateInv, Drain
<1>2. PICK granted \in SUBSET DOMAIN pending :
        \E order \in Bijection(1..Cardinality(Waiting(granted)), Waiting(granted)) :
          /\ Pass(drain.limits, granted)
          /\ active' = active \cup {pending[i] : i \in granted}
          /\ pending' = [n \in DOMAIN order |-> pending[order[n]]]
          /\ turn' = [t \in Turns |->
                        IF t \in {pending[i] : i \in granted} THEN "granted"
                        ELSE IF t \in ToSet(pending) \ Patient THEN "queued" ELSE turn[t]]
          /\ Loop([n \in DOMAIN order |-> pending[order[n]]], dirty)
  BY DEF Drain
<1>3. PICK order \in Bijection(1..Cardinality(Waiting(granted)), Waiting(granted)) :
          /\ Pass(drain.limits, granted)
          /\ active' = active \cup {pending[i] : i \in granted}
          /\ pending' = [n \in DOMAIN order |-> pending[order[n]]]
          /\ turn' = [t \in Turns |->
                        IF t \in {pending[i] : i \in granted} THEN "granted"
                        ELSE IF t \in ToSet(pending) \ Patient THEN "queued" ELSE turn[t]]
          /\ Loop([n \in DOMAIN order |-> pending[order[n]]], dirty)
  BY <1>2
<1>4. PICK leases, left : /\ leases = {pending[i] : i \in granted}
                          /\ left = [n \in DOMAIN order |-> pending[order[n]]]
  OBVIOUS
<1>5. /\ active' = active \cup leases /\ pending' = left /\ Loop(left, dirty)
      /\ turn' = [t \in Turns |-> IF t \in leases THEN "granted"
                                  ELSE IF t \in ToSet(pending) \ Patient THEN "queued" ELSE turn[t]]
      /\ UNCHANGED <<aborted, limits, unannounced, maintenance>>
  BY <1>3, <1>4 DEF Drain
<1>6. /\ pending \in Seq(Turns) /\ active \subseteq Turns /\ turn \in [Turns -> Places] /\ IsInjective(pending)
      /\ {"granted", "queued"} \subseteq Places
  BY <1>1 DEF GateTyped, Leased, Places
<1>7. Waiting(granted) \subseteq DOMAIN pending /\ \A i \in DOMAIN pending : pending[i] \in Turns
  BY <1>6, ElementOfSeq, LenProperties DEF Waiting
<1>8. left \in Seq(Turns) /\ ToSet(left) = {pending[i] : i \in Waiting(granted)} /\ IsInjective(left)
  BY <1>4, <1>6, <1>7, SublistSet
<1>9. leases \subseteq Turns /\ leases \subseteq ToSet(pending)
  BY <1>4, <1>7 DEF ToSet
<1>10. /\ dirty' \in BOOLEAN /\ drain' \in {Idle, Asking}
       /\ drain' = Idle => left = <<>> \/ ~dirty
  BY <1>1, <1>5, LoopAt DEF Loop, GateTyped
<1>11. GateTyped'
  <2>1. turn' \in [Turns -> Places]
    BY <1>5, <1>6
  <2> QED BY <1>1, <1>5, <1>6, <1>8, <1>9, <1>10, <2>1 DEF GateTyped
<1>12. Leased'
  <2>1. ASSUME NEW t \in Turns PROVE t \in active' <=> turn'[t] \notin Outside
    BY <1>1, <1>5, <1>9, <2>1 DEF Leased, Outside
  <2>2. ASSUME NEW t \in Turns PROVE t \in ToSet(left) <=> turn'[t] = "pending"
    <3>1. CASE t \notin ToSet(pending)
      <4>1. t \notin ToSet(left) /\ t \notin leases
        BY <1>7, <1>8, <1>9, <3>1 DEF ToSet
      <4> QED BY <1>1, <1>5, <3>1, <4>1 DEF Leased
    <3>2. CASE t \in ToSet(pending)
      <4>1. PICK i \in DOMAIN pending : pending[i] = t
        BY <3>2 DEF ToSet
      <4>2. /\ t \in ToSet(left) <=> i \in Waiting(granted)
            /\ t \in leases <=> i \in granted
        BY <1>4, <1>6, <1>7, <1>8, <4>1 DEF IsInjective
      <4>3. i \in Waiting(granted) <=> i \notin granted /\ t \in Patient
        BY <4>1 DEF Waiting
      <4> QED BY <1>1, <1>5, <3>2, <4>2, <4>3 DEF Leased
    <3> QED BY <3>1, <3>2
  <2> QED BY <1>5, <1>8, <2>1, <2>2 DEF Leased
<1>13. ASSUME NEW i \in DOMAIN pending
       PROVE  /\ i \in granted => ~InMaintenance(AgentOfTurn(pending[i]))
              /\ i \notin granted => ~Available(pending[i], active', drain.limits)
  <2>1. PICK before : before = active \cup {pending[j] : j \in {k \in granted : k < i}}
    OBVIOUS
  <2>2. i \in granted <=> Available(pending[i], before, drain.limits)
    BY <1>3, <2>1 DEF Pass
  <2>3. before \subseteq active' /\ active' \subseteq Turns /\ drain.limits \in Limits
    BY <1>1, <1>4, <1>5, <1>6, <1>9, <2>1, LoopIs
  <2>4. Available(pending[i], active', drain.limits) => Available(pending[i], before, drain.limits)
    BY <1>7, <2>3, LessAvailable
  <2> QED BY <2>2, <2>4 DEF Available
<1>14. Calm'
  BY <1>1, <1>4, <1>5, <1>13 DEF Calm, ActiveOf, InMaintenance
<1>15. Informed'
  BY <1>10, LoopAt DEF Informed
<1>16. WaitsForAReason'
  <2>1. ASSUME NEW n \in DOMAIN left, drain' = Idle, ~unannounced
        PROVE  ~Available(left[n], active, limits)'
    <3>1. ~dirty
      BY <1>10, <2>1
    <3>2. drain.limits = limits
      BY <1>1, <2>1, <3>1 DEF Informed
    <3>3. left[n] \in {pending[i] : i \in Waiting(granted)}
      BY <1>8, <2>1 DEF ToSet
    <3>4. PICK i \in Waiting(granted) : left[n] = pending[i]
      BY <3>3
    <3>5. ~Available(pending[i], active', limits)
      BY <1>13, <3>2, <3>4 DEF Waiting
    <3> QED BY <1>5, <3>4, <3>5 DEF Available, InMaintenance
  <2> QED BY <1>5, <2>1 DEF WaitsForAReason
<1> QED BY <1>11, <1>12, <1>14, <1>15, <1>16 DEF GateInv

-----------------------------------------------------------------------------
(* The sandboxes: what the parts of the invariant see of a step *)

\* A step of one turn.
Alone(t) == \A u \in Turns \ {t} : turn'[u] = turn[u] /\ inner'[u] = inner[u]

Operating == {"starting", "booting"}

\* A step the queue of a sandbox does not see.
Unseen(u) == /\ turn'[u] \in InLine <=> turn[u] \in InLine
             /\ turn'[u] \in Operating <=> turn[u] \in Operating

Uses(u) == turn[u] \in {"reusing", "binding"}

LEMMA SessionsMove ==
  ASSUME BoxInv, NEW t \in Turns, Alone(t), inner'[t] => turn'[t] \in Ensuring,
         \A u \in Turns \ {t} : Occupies(u)' <=> Occupies(u),
         \A s \in Sessions \ {SessionOf[t]} : holder'[s] = holder[s],
         \A u \in Turns \ {t} : u = holder'[SessionOf[t]] <=> u = holder[SessionOf[t]],
         t = holder'[SessionOf[t]] <=> Occupies(t)'
  PROVE  SessionsFit'
<1>1. SessionsFit
  BY DEF BoxInv
<1>2. ASSUME NEW u \in Turns, NEW s \in Sessions PROVE u = holder'[s] <=> SessionOf[u] = s /\ Occupies(u)'
  <2>1. CASE s # SessionOf[t]
    <3>1. u = holder'[s] <=> SessionOf[u] = s /\ Occupies(u)
      BY <1>1, <2>1 DEF SessionsFit
    <3> QED BY <2>1, <3>1
  <2>2. CASE s = SessionOf[t] /\ u # t
    <3>1. u = holder'[s] <=> SessionOf[u] = s /\ Occupies(u)
      BY <1>1, <2>2 DEF SessionsFit
    <3> QED BY <2>2, <3>1
  <2> QED BY <2>1, <2>2
<1>3. ASSUME NEW u \in Turns PROVE inner'[u] => turn'[u] \in Ensuring
  BY <1>1 DEF SessionsFit, Alone
<1> QED BY <1>2, <1>3 DEF SessionsFit

LEMMA SessionsStay ==
  ASSUME BoxInv, NEW t \in Turns, Alone(t), inner'[t] => turn'[t] \in Ensuring,
         UNCHANGED <<bound, holder>>, Occupies(t)' <=> Occupies(t)
  PROVE  SessionsFit'
<1>1. \A u \in Turns \ {t} : Occupies(u)' <=> Occupies(u)
  BY DEF Alone, Occupies
<1>2. t = holder'[SessionOf[t]] <=> Occupies(t)'
  BY TurnAgent DEF BoxInv, SessionsFit
<1> QED BY <1>1, <1>2, SessionsMove

LEMMA AccessStays ==
  ASSUME BoxInv, UNCHANGED <<access, viewers>>, \A u \in Turns : Uses(u)' <=> Uses(u),
         \A a \in Agents : a \in frozen' => access[a] = 0
  PROVE  AccessFits'
<1>1. ASSUME NEW a \in Agents PROVE Using(a)' = Using(a)
  BY DEF Using, Uses, AgentOfTurn
<1> QED BY <1>1 DEF BoxInv, AccessFits

LEMMA UsingCounts ==
  ASSUME BoxInv, NEW a \in Agents
  PROVE  /\ IsFiniteSet(Using(a)) /\ Cardinality(Using(a)) \in Nat
         /\ access[a] = viewers[a] + Cardinality(Using(a))
         /\ access[a] \in Nat /\ viewers[a] \in Nat
         /\ access[a] = 0 => viewers[a] = 0 /\ Using(a) = {}
<1>1. Using(a) \subseteq Turns /\ IsFiniteSet(Turns)
  BY GateConstants DEF Using
<1>2. IsFiniteSet(Using(a)) /\ Cardinality(Using(a)) \in Nat
  BY <1>1, FS_Subset, FS_CardinalityType
<1>3. access[a] \in Nat /\ viewers[a] \in 0..MaxViewers /\ MaxViewers \in Nat
  BY SandboxConstants DEF BoxInv, BoxTyped
<1>4. access[a] = viewers[a] + Cardinality(Using(a))
  BY DEF BoxInv, AccessFits
<1>5. Cardinality(Using(a)) = 0 => Using(a) = {}
  BY <1>2, FS_EmptySet
<1> QED BY <1>2, <1>3, <1>4, <1>5

\* A turn begins to use a sandbox.
LEMMA AccessTaken ==
  ASSUME BoxInv, NEW t \in Turns, NEW a \in Agents, a = AgentOfTurn(t), Alone(t), ~Uses(t), Uses(t)',
         access' = [access EXCEPT ![a] = @ + 1], a \notin frozen, UNCHANGED <<viewers, frozen>>
  PROVE  AccessFits' /\ access' \in [Agents -> Nat]
<1>1. access \in [Agents -> Nat] /\ AccessFits
  BY DEF BoxInv, BoxTyped
<1>2. access' \in [Agents -> Nat]
  BY <1>1
<1>3. ASSUME NEW b \in Agents, b # a PROVE access'[b] = access[b] /\ Using(b)' = Using(b)
  BY <1>1, <1>3 DEF Using, Alone, AgentOfTurn
<1>4. Using(a)' = Using(a) \cup {t} /\ t \notin Using(a)
  BY DEF Using, Uses, Alone, AgentOfTurn
<1>5. Cardinality(Using(a)') = Cardinality(Using(a)) + 1
  BY <1>4, UsingCounts, FS_AddElement
<1>6. access'[a] = access[a] + 1 /\ access'[a] = viewers[a] + Cardinality(Using(a)')
  BY <1>1, <1>5, UsingCounts
<1> QED BY <1>1, <1>2, <1>3, <1>6 DEF AccessFits

\* It lets go of it.
LEMMA AccessReleased ==
  ASSUME BoxInv, NEW t \in Turns, NEW a \in Agents, a = AgentOfTurn(t), Alone(t), Uses(t), ~Uses(t)',
         ReleaseAccess(a), UNCHANGED <<viewers, frozen>>
  PROVE  AccessFits' /\ access' \in [Agents -> Nat]
<1>1. access \in [Agents -> Nat] /\ AccessFits
  BY DEF BoxInv, BoxTyped
<1>2. Using(a)' = Using(a) \ {t} /\ t \in Using(a)
  BY DEF Using, Uses, Alone, AgentOfTurn
<1>3. Cardinality(Using(a)') = Cardinality(Using(a)) - 1 /\ Cardinality(Using(a)) # 0
  <2>1. Cardinality(Using(a) \ {t}) = Cardinality(Using(a)) - 1
    BY <1>2, UsingCounts, FS_RemoveElement
  <2>2. Cardinality(Using(a)) # 0
    BY <1>2, UsingCounts, FS_EmptySet
  <2> QED BY <1>2, <2>1, <2>2
<1>4. access[a] - 1 \in Nat /\ access[a] - 1 = viewers[a] + Cardinality(Using(a)')
  BY <1>3, UsingCounts
<1>5. access' \in [Agents -> Nat] /\ access'[a] = access[a] - 1
  BY <1>1, <1>4 DEF ReleaseAccess
<1>6. ASSUME NEW b \in Agents, b # a PROVE access'[b] = access[b] /\ Using(b)' = Using(b)
  BY <1>1, <1>6 DEF Using, Alone, AgentOfTurn, ReleaseAccess
<1>7. a \notin frozen
  BY <1>1, <1>3, UsingCounts DEF AccessFits
<1> QED BY <1>1, <1>4, <1>5, <1>6, <1>7 DEF AccessFits

LEMMA LineStays ==
  ASSUME BoxInv, NEW a \in Agents, line'[a] = line[a], exclusive'[a] = exclusive[a], a \in frozen' <=> a \in frozen,
         keeper'[a] # "none" <=> keeper[a] # "none", keeper'[a] \in Keeping <=> keeper[a] \in Keeping,
         \A u \in Turns : AgentOfTurn(u) = a => Unseen(u)
  PROVE  LineFits(a)'
<1>1. First(a)' = First(a) /\ LineFits(a)
  BY DEF First, BoxInv
<1>2. \A u \in Turns : /\ u \in ToSet(line[a]) <=> AgentOfTurn(u) = a /\ turn'[u] \in InLine
                       /\ AgentOfTurn(u) = a /\ turn'[u] \in {"starting", "booting"} <=> a \in frozen /\ First(a) = u
  BY <1>1 DEF LineFits, Unseen, Operating
<1> QED BY <1>1, <1>2 DEF LineFits

\* Queues of other sandboxes.
LEMMA OtherLines ==
  ASSUME BoxInv, NEW a \in Agents,
         \A b \in Agents \ {a} : /\ line'[b] = line[b] /\ exclusive'[b] = exclusive[b]
                                 /\ b \in frozen' <=> b \in frozen
                                 /\ keeper'[b] = keeper[b],
         \A u \in Turns : AgentOfTurn(u) # a => Unseen(u),
         LineFits(a)'
  PROVE  \A b \in Agents : LineFits(b)'
<1> SUFFICES ASSUME NEW b \in Agents, b # a PROVE LineFits(b)'
  OBVIOUS
<1> QED BY LineStays

\* Who operates, and who does not.
LEMMA Operates ==
  ASSUME BoxInv, NEW a \in Agents
  PROVE  /\ \A u \in Turns : u # First(a) /\ AgentOfTurn(u) = a => turn[u] \notin Operating
         /\ "keeper" # First(a) => keeper[a] \notin Keeping
         /\ a \notin frozen => exclusive[a] = NoTurn
BY DEF BoxInv, LineFits, Operating

\* An operation joins the queue.
LEMMA LineJoined ==
  ASSUME BoxInv, NEW a \in Agents, NEW e \in Turns \cup {"keeper"}, e \notin ToSet(line[a]),
         line'[a] = Append(line[a], e), exclusive'[a] = exclusive[a], a \in frozen' <=> a \in frozen,
         e \in Turns => AgentOfTurn(e) = a /\ turn'[e] = "lined",
         keeper'[a] = IF e = "keeper" THEN "lined" ELSE keeper[a],
         \A u \in Turns \ {e} : Unseen(u)
  PROVE  LineFits(a)'
<1>1. LineFits(a) /\ line[a] \in Seq(Turns \cup {"keeper"}) /\ "keeper" \notin Turns
  BY SandboxConstants DEF BoxInv, BoxTyped
<1>2. PICK l : l = Append(line[a], e)
  OBVIOUS
<1>3. /\ l # <<>> /\ ToSet(l) = ToSet(line[a]) \cup {e} /\ IsInjective(l)
      /\ Head(l) = IF line[a] = <<>> THEN e ELSE Head(line[a])
  BY <1>1, <1>2, AppendSet DEF LineFits
<1>4. line'[a] = l
  BY <1>2
<1>5. a \in frozen => First(a)' = First(a)
  BY <1>1, <1>3, <1>4 DEF LineFits, First
<1>6. e \in Turns => turn[e] \notin InLine /\ ~(a \in frozen /\ First(a) = e)
  BY <1>1, FirstInLine DEF LineFits
<1>7. e = "keeper" => keeper[a] = "none" /\ ~(a \in frozen /\ First(a) = e)
  BY <1>1, FirstInLine DEF LineFits
<1>8. ASSUME NEW u \in Turns
      PROVE  /\ u \in ToSet(l) <=> AgentOfTurn(u) = a /\ turn'[u] \in InLine
             /\ AgentOfTurn(u) = a /\ turn'[u] \in {"starting", "booting"} <=> a \in frozen /\ First(a)' = u
  <2>1. CASE u = e
    BY <1>3, <1>5, <1>6, <2>1 DEF InLine
  <2>2. CASE u # e
    <3>1. /\ u \in ToSet(line[a]) <=> AgentOfTurn(u) = a /\ turn[u] \in InLine
          /\ AgentOfTurn(u) = a /\ turn[u] \in {"starting", "booting"} <=> a \in frozen /\ First(a) = u
      BY <1>1 DEF LineFits
    <3> QED BY <1>3, <1>5, <2>2, <3>1 DEF Unseen, Operating
  <2> QED BY <2>1, <2>2
<1>9. /\ "keeper" \in ToSet(l) <=> keeper'[a] # "none"
      /\ keeper'[a] \in Keeping <=> a \in frozen /\ First(a)' = "keeper"
  <2>1. CASE e = "keeper"
    BY <1>3, <1>5, <1>7, <2>1 DEF Keeping
  <2>2. CASE e # "keeper"
    BY <1>1, <1>3, <1>5, <2>2 DEF LineFits
  <2> QED BY <2>1, <2>2
<1>10. exclusive'[a] = IF a \in frozen THEN First(a)' ELSE NoTurn
  BY <1>1, <1>5 DEF LineFits
<1> QED BY <1>3, <1>4, <1>8, <1>9, <1>10 DEF LineFits

\* The first of the queue operates.
LEMMA LineOperates ==
  ASSUME BoxInv, NEW a \in Agents, NEW e \in Turns \cup {"keeper"}, ItsTurn(a, e), line[a] # <<>>,
         line'[a] = line[a], exclusive'[a] = e, a \in frozen',
         e \in Turns => AgentOfTurn(e) = a /\ turn'[e] = "starting",
         keeper'[a] = IF e = "keeper" THEN "check" ELSE keeper[a],
         \A u \in Turns \ {e} : Unseen(u)
  PROVE  LineFits(a)'
<1>1. LineFits(a) /\ "keeper" \notin Turns /\ First(a) = e /\ First(a)' = e /\ a \notin frozen /\ e \in ToSet(line[a])
  BY SandboxConstants, FirstInLine DEF BoxInv, First, ItsTurn
<1>2. ASSUME NEW u \in Turns
      PROVE  /\ u \in ToSet(line[a]) <=> AgentOfTurn(u) = a /\ turn'[u] \in InLine
             /\ AgentOfTurn(u) = a /\ turn'[u] \in {"starting", "booting"} <=> u = e
  <2>1. CASE u = e
    BY <1>1, <2>1 DEF InLine
  <2>2. CASE u # e
    BY <1>1, <2>2 DEF LineFits, Unseen, Operating
  <2> QED BY <2>1, <2>2
<1>3. /\ "keeper" \in ToSet(line[a]) <=> keeper'[a] # "none"
      /\ keeper'[a] \in Keeping <=> e = "keeper"
  <2>1. CASE e = "keeper"
    BY <1>1, <2>1 DEF Keeping
  <2>2. CASE e # "keeper"
    BY <1>1, <2>2 DEF LineFits
  <2> QED BY <2>1, <2>2
<1> QED BY <1>1, <1>2, <1>3 DEF LineFits

\* The first of the queue leaves it, whether it has operated or not.
LEMMA LineLeft ==
  ASSUME BoxInv, NEW a \in Agents, NEW e \in Turns \cup {"keeper"}, First(a) = e, line[a] # <<>>,
         line'[a] = Tail(line[a]), exclusive'[a] = NoTurn, a \notin frozen',
         e \in Turns => turn'[e] \notin InLine,
         keeper'[a] = IF e = "keeper" THEN "none" ELSE keeper[a],
         \A u \in Turns \ {e} : Unseen(u)
  PROVE  LineFits(a)'
<1>1. LineFits(a) /\ line[a] \in Seq(Turns \cup {"keeper"}) /\ "keeper" \notin Turns /\ e = Head(line[a])
  BY SandboxConstants, FirstInLine DEF BoxInv, BoxTyped
<1>2. PICK l : l = Tail(line[a])
  OBVIOUS
<1>3. ToSet(l) = ToSet(line[a]) \ {e} /\ IsInjective(l) /\ line'[a] = l
  BY <1>1, <1>2, TailSet DEF LineFits
<1>4. ASSUME NEW u \in Turns
      PROVE  /\ u \in ToSet(l) <=> AgentOfTurn(u) = a /\ turn'[u] \in InLine
             /\ ~(AgentOfTurn(u) = a /\ turn'[u] \in {"starting", "booting"})
  <2>1. CASE u = e
    BY <1>3, <2>1 DEF InLine
  <2>2. CASE u # e
    BY <1>1, <1>3, <2>2 DEF LineFits, Unseen, Operating
  <2> QED BY <2>1, <2>2
<1>5. /\ "keeper" \in ToSet(l) <=> keeper'[a] # "none"
      /\ keeper'[a] \notin Keeping
  <2>1. CASE e = "keeper"
    BY <1>3, <2>1 DEF Keeping
  <2>2. CASE e # "keeper"
    BY <1>1, <1>3, <2>2 DEF LineFits
  <2> QED BY <2>1, <2>2
<1> QED BY <1>3, <1>4, <1>5 DEF LineFits

\* Steps that only change what the sandboxes do not look at.
LEMMA FitsStill ==
  ASSUME BoxInv, UNCHANGED <<inner, bound, holder, exclusive, frozen, access, viewers, line, keeper>>,
         \A u \in Turns : turn'[u] = turn[u] \/ {turn[u], turn'[u]} \cap (Ensuring \cup {"running"}) = {},
         \A a \in Agents : maintenance'[a] \in {"stop", "remove"} <=> maintenance[a] \in {"stop", "remove"},
         BoxTyped'
  PROVE  BoxInv'
<1>1. ASSUME NEW u \in Turns
      PROVE  (Occupies(u)' <=> Occupies(u)) /\ (inner[u] => turn'[u] \in Ensuring) /\ (Uses(u)' <=> Uses(u)) /\ Unseen(u)
  <2>1. CASE turn'[u] = turn[u]
    BY <2>1 DEF BoxInv, SessionsFit, Occupies, Uses, Unseen
  <2>2. CASE turn[u] \notin Ensuring \cup {"running"} /\ turn'[u] \notin Ensuring \cup {"running"}
    <3>1. ~inner[u]
      BY <2>2 DEF BoxInv, SessionsFit
    <3> QED BY <2>2, <3>1 DEF Occupies, Uses, Unseen, Ensuring, InLine, Operating
  <2> QED BY <2>1, <2>2
<1>2. SessionsFit'
  BY <1>1 DEF BoxInv, SessionsFit
<1>3. AccessFits'
  <2>1. \A a \in Agents : a \in frozen => access[a] = 0
    BY DEF BoxInv, AccessFits
  <2> QED BY <1>1, <2>1, AccessStays
<1>4. \A a \in Agents : LineFits(a)'
  BY <1>1, LineStays
<1>5. KeeperFits'
  BY DEF BoxInv, KeeperFits
<1> QED BY <1>2, <1>3, <1>4, <1>5 DEF BoxInv

\* A turn moves, and nothing looks at where it was or where it is.
LEMMA FitsMove ==
  ASSUME BoxInv, NEW t \in Turns, Alone(t),
         UNCHANGED <<bound, holder, exclusive, frozen, access, viewers, line, keeper, maintenance>>,
         Uses(t)' <=> Uses(t), Unseen(t), Occupies(t)' <=> Occupies(t), inner'[t] => turn'[t] \in Ensuring,
         BoxTyped'
  PROVE  BoxInv'
<1>1. \A u \in Turns : (Uses(u)' <=> Uses(u)) /\ Unseen(u)
  BY DEF Alone, Uses, Unseen
<1>2. SessionsFit'
  BY SessionsStay
<1>3. AccessFits'
  BY <1>1, AccessStays DEF BoxInv, AccessFits
<1>4. \A a \in Agents : LineFits(a)'
  BY <1>1, LineStays
<1>5. KeeperFits'
  BY DEF BoxInv, KeeperFits
<1> QED BY <1>2, <1>3, <1>4, <1>5 DEF BoxInv

LEMMA BoxStatus ==
  ASSUME BoxTyped, NEW a \in Agents, NEW v \in Status, box' = [box EXCEPT ![a].status = v]
  PROVE  /\ box' \in [Agents -> [status : Status, live : BOOLEAN]]
         /\ box'[a].status = v /\ \A b \in Agents : box'[b].live = box[b].live
<1>1. box \in [Agents -> [status : Status, live : BOOLEAN]]
  BY DEF BoxTyped
<1> QED BY <1>1

LEMMA BoxLive ==
  ASSUME BoxTyped, NEW a \in Agents, box' = [box EXCEPT ![a].live = FALSE]
  PROVE  /\ box' \in [Agents -> [status : Status, live : BOOLEAN]]
         /\ \A b \in Agents \ {a} : box'[b].live = box[b].live
<1>1. box \in [Agents -> [status : Status, live : BOOLEAN]]
  BY DEF BoxTyped
<1> QED BY <1>1

LEMMA BoxSet ==
  ASSUME BoxTyped, NEW a \in Agents, NEW v \in Status, NEW b \in BOOLEAN,
         box' = [box EXCEPT ![a] = [status |-> v, live |-> b]]
  PROVE  box' \in [Agents -> [status : Status, live : BOOLEAN]]
<1>1. box \in [Agents -> [status : Status, live : BOOLEAN]]
  BY DEF BoxTyped
<1> QED BY <1>1

-----------------------------------------------------------------------------
(* What a turn's own steps do in the gate *)

LEMMA GoesOn ==
  ASSUME SandboxInv, NEW t \in Turns, turn[t] \notin Outside, NEW at \in Places \ Outside, Goto(t, at),
         UNCHANGED Gate, UNCHANGED inner
  PROVE  /\ GateInv' /\ Alone(t) /\ turn'[t] = at /\ UNCHANGED maintenance
         /\ inner' \in [Turns -> BOOLEAN] /\ inner'[t] = inner[t]
<1>1. turn \in [Turns -> Places] /\ t \in active
  BY DEF SandboxInv, GateInv, GateTyped, Leased
<1>2. turn'[t] = at /\ \A u \in Turns \ {t} : turn'[u] = turn[u]
  BY <1>1 DEF Goto
<1> QED BY <1>1, <1>2, GoOnInv DEF SandboxInv, BoxInv, BoxTyped, Alone, Gate

\* Where a turn is when it has been refused, and when its sandbox is there.
Settled(t) ==
  /\ GateInv' /\ Alone(t) /\ UNCHANGED maintenance
  /\ turn'[t] \in IF inner[t] THEN {"running"} ELSE {"prepared", "queued", "ended"}
  /\ inner' \in [Turns -> BOOLEAN] /\ ~inner'[t]

LEMMA InnerGoes ==
  ASSUME SandboxInv, NEW t \in Turns, inner' = [inner EXCEPT ![t] = FALSE]
  PROVE  inner' \in [Turns -> BOOLEAN] /\ ~inner'[t] /\ \A u \in Turns \ {t} : inner'[u] = inner[u]
BY DEF SandboxInv, BoxInv, BoxTyped

LEMMA Refuses ==
  ASSUME SandboxInv, NEW t \in Turns, turn[t] \notin Outside, NEW to \in {"queued", "ended"}, Refused(t, to)
  PROVE  Settled(t)
<1>1. turn \in [Turns -> Places] /\ t \in active /\ inner \in [Turns -> BOOLEAN]
  BY DEF SandboxInv, GateInv, GateTyped, Leased, BoxInv, BoxTyped
<1>2. CASE inner[t]
  <2>1. Goto(t, "running") /\ inner' = [inner EXCEPT ![t] = FALSE] /\ UNCHANGED Gate
    BY <1>2 DEF Refused
  <2>2. "running" \in Places \ Outside
    BY DEF Places, Outside
  <2>3. GateInv'
    BY <1>1, <2>1, <2>2, GoOnInv DEF SandboxInv
  <2>4. turn'[t] = "running" /\ \A u \in Turns \ {t} : turn'[u] = turn[u]
    BY <1>1, <2>1 DEF Goto
  <2> QED BY <1>2, <2>1, <2>3, <2>4, InnerGoes DEF Settled, Alone, Gate
<1>3. CASE ~inner[t]
  <2>1. LeaveGate(t, to) /\ inner' = inner
    BY <1>3 DEF Refused
  <2>2. GateInv' /\ UNCHANGED maintenance
    BY <1>1, <2>1, LeaveGateInv DEF SandboxInv, LeaveGate
  <2>3. turn'[t] = to /\ \A u \in Turns \ {t} : turn'[u] = turn[u]
    BY <1>1, <2>1 DEF LeaveGate, ReleaseLease
  <2> QED BY <1>1, <1>3, <2>1, <2>2, <2>3 DEF Settled, Alone
<1> QED BY <1>2, <1>3

LEMMA Ensures ==
  ASSUME SandboxInv, NEW t \in Turns, turn[t] \notin Outside, Ensured(t)
  PROVE  Settled(t)
<1>1. turn \in [Turns -> Places] /\ t \in active
  BY DEF SandboxInv, GateInv, GateTyped, Leased
<1>2. PICK at : at = IF inner[t] THEN "running" ELSE "prepared"
  OBVIOUS
<1>3. at \in Places \ Outside /\ Goto(t, at) /\ UNCHANGED Gate /\ inner' = [inner EXCEPT ![t] = FALSE]
  BY <1>2 DEF Places, Outside, Ensured
<1>4. GateInv'
  BY <1>1, <1>3, GoOnInv DEF SandboxInv
<1>5. turn'[t] = at /\ \A u \in Turns \ {t} : turn'[u] = turn[u]
  BY <1>1, <1>3 DEF Goto
<1> QED BY <1>2, <1>3, <1>4, <1>5, InnerGoes DEF Settled, Alone, Gate

\* What a turn that has settled does not do.
LEMMA SettledSees ==
  ASSUME SandboxInv, NEW t \in Turns, Settled(t), turn[t] \in Ensuring
  PROVE  /\ ~Uses(t)' /\ turn'[t] \notin InLine \cup Operating
         /\ Occupies(t)' <=> inner[t]
         /\ ~inner'[t] /\ \A u \in Turns \ {t} : Unseen(u) /\ (Uses(u)' <=> Uses(u))
BY DEF Settled, Alone, Uses, Unseen, Occupies, InLine, Operating

-----------------------------------------------------------------------------
(* A turn *)

LEMMA SubmitInv ==
  ASSUME SandboxInv, NEW t \in Turns, Submit(t)
  PROVE  SandboxInv'
<1>1. /\ turn[t] = "none" /\ turn' = [turn EXCEPT ![t] = "queued"] /\ turn \in [Turns -> Places]
      /\ UNCHANGED <<aborted, pending, active, drain, dirty, limits, unannounced, maintenance>> /\ UNCHANGED boxVars
  BY DEF Submit, Goto, Gate, SandboxInv, GateInv, GateTyped
<1>2. turn'[t] = "queued" /\ \A u \in Turns \ {t} : turn'[u] = turn[u]
  BY <1>1
<1>3. GateInv'
  <2>1. turn' \in [Turns -> Places]
    BY <1>1 DEF Places
  <2>2. \A u \in Turns : /\ turn'[u] \in Outside <=> turn[u] \in Outside
                         /\ turn'[u] = "pending" <=> turn[u] = "pending"
    BY <1>1, <1>2 DEF Outside
  <2> QED BY <1>1, <2>1, <2>2, StillGate DEF SandboxInv, GateInv, GateTyped, InMaintenance
<1>4. BoxInv'
  <2>1. \A u \in Turns : turn'[u] = turn[u] \/ {turn[u], turn'[u]} \cap (Ensuring \cup {"running"}) = {}
    BY <1>1, <1>2 DEF Ensuring
  <2>2. BoxTyped'
    BY <1>1 DEF SandboxInv, BoxInv, BoxTyped, boxVars, sessionVars, operationVars, useVars, processVars, keepVars
  <2> QED BY <1>1, <2>1, <2>2, FitsStill
          DEF SandboxInv, boxVars, sessionVars, operationVars, useVars, processVars, keepVars
<1> QED BY <1>3, <1>4 DEF SandboxInv

\* A step of the gate that leaves the sandboxes alone.
LEMMA GateOnly ==
  ASSUME SandboxInv, GateInv', UNCHANGED <<saw, inner, bound, holder>>, UNCHANGED <<exclusive, frozen, line>>,
         UNCHANGED <<access, viewers, used, box, pty, keeper, idleSaw>>,
         upkeep' \in 0..MaxUpkeep, faults' \in 0..MaxFaults,
         \A u \in Turns : turn'[u] = turn[u] \/ {turn[u], turn'[u]} \cap (Ensuring \cup {"running"}) = {},
         \A a \in Agents : maintenance'[a] \in {"stop", "remove"} <=> maintenance[a] \in {"stop", "remove"}
  PROVE  SandboxInv'
<1>1. BoxTyped'
  BY DEF SandboxInv, BoxInv, BoxTyped
<1> QED BY <1>1, FitsStill DEF SandboxInv

LEMMA RequestLeaseStep ==
  ASSUME SandboxInv, NEW t \in Turns, RequestLease(t), UNCHANGED boxVars
  PROVE  SandboxInv'
<1>1. /\ turn[t] = "queued" /\ turn' = [turn EXCEPT ![t] = "pending"] /\ turn \in [Turns -> Places]
      /\ UNCHANGED maintenance
  BY DEF RequestLease, SandboxInv, GateInv, GateTyped
<1>2. \A u \in Turns : turn'[u] = turn[u] \/ {turn[u], turn'[u]} \cap (Ensuring \cup {"running"}) = {}
  BY <1>1 DEF Ensuring
<1>3. upkeep' \in 0..MaxUpkeep /\ faults' \in 0..MaxFaults
  BY DEF boxVars, keepVars, SandboxInv, BoxInv, BoxTyped
<1> QED BY <1>1, <1>2, <1>3, RequestLeaseInv, GateOnly
        DEF SandboxInv, boxVars, sessionVars, operationVars, useVars, processVars, keepVars

LEMMA AbortStep ==
  ASSUME SandboxInv, NEW t \in Cancellable, Abort(t), UNCHANGED boxVars
  PROVE  SandboxInv'
<1>1. /\ turn' = [turn EXCEPT ![t] = IF @ \in {"queued", "pending"} THEN "ended" ELSE @] /\ turn \in [Turns -> Places]
      /\ UNCHANGED maintenance /\ t \in Turns
  BY SandboxConstants DEF Abort, SandboxInv, GateInv, GateTyped
<1>2. \A u \in Turns : turn'[u] = turn[u] \/ {turn[u], turn'[u]} \cap (Ensuring \cup {"running"}) = {}
  BY <1>1 DEF Ensuring
<1>3. upkeep' \in 0..MaxUpkeep /\ faults' \in 0..MaxFaults
  BY DEF boxVars, keepVars, SandboxInv, BoxInv, BoxTyped
<1> QED BY <1>1, <1>2, <1>3, AbortInv, GateOnly
        DEF SandboxInv, boxVars, sessionVars, operationVars, useVars, processVars, keepVars

LEMMA GateStepInv ==
  ASSUME SandboxInv, GateStep
  PROVE  SandboxInv'
<1>1. upkeep' \in 0..MaxUpkeep /\ faults' \in 0..MaxFaults /\ UNCHANGED boxVars
  BY DEF GateStep, boxVars, keepVars, SandboxInv, BoxInv, BoxTyped
<1>2. CASE ReadLimits
  <2>1. UNCHANGED <<turn, maintenance>>
    BY <1>2 DEF ReadLimits
  <2> QED BY <1>1, <1>2, <2>1, ReadLimitsInv, GateOnly
          DEF SandboxInv, boxVars, sessionVars, operationVars, useVars, processVars, keepVars
<1>3. CASE Drain
  <2>1. UNCHANGED maintenance /\ turn \in [Turns -> Places]
    BY <1>3 DEF Drain, SandboxInv, GateInv, GateTyped
  <2>2. PICK granted \in SUBSET DOMAIN pending :
          turn' = [t \in Turns |->
                     IF t \in {pending[i] : i \in granted} THEN "granted"
                     ELSE IF t \in ToSet(pending) \ Patient THEN "queued" ELSE turn[t]]
    BY <1>3 DEF Drain
  <2>3. ASSUME NEW u \in Turns
        PROVE  turn'[u] = turn[u] \/ {turn[u], turn'[u]} \cap (Ensuring \cup {"running"}) = {}
    <3>1. u \in {pending[i] : i \in granted} => u \in ToSet(pending)
      BY DEF ToSet
    <3>2. u \in ToSet(pending) => turn[u] = "pending"
      BY DEF SandboxInv, GateInv, Leased
    <3> QED BY <2>2, <3>1, <3>2 DEF Ensuring
  <2> QED BY <1>1, <1>3, <2>1, <2>3, DrainInv, GateOnly
          DEF SandboxInv, boxVars, sessionVars, operationVars, useVars, processVars, keepVars
<1> QED BY <1>2, <1>3 DEF GateStep

LEMMA FaultCounted ==
  ASSUME SandboxInv, CountFault
  PROVE  faults' \in 0..MaxFaults
<1>1. faults \in 0..MaxFaults /\ MaxFaults \in Nat
  BY SandboxConstants DEF SandboxInv, BoxInv, BoxTyped
<1> QED BY <1>1 DEF CountFault

LEMMA UpkeepCounted ==
  ASSUME SandboxInv, upkeep < MaxUpkeep, upkeep' = upkeep + 1
  PROVE  upkeep' \in 0..MaxUpkeep
<1>1. upkeep \in 0..MaxUpkeep /\ MaxUpkeep \in Nat
  BY SandboxConstants DEF SandboxInv, BoxInv, BoxTyped
<1> QED BY <1>1

LEMMA ReadLimitsFailsStep ==
  ASSUME SandboxInv, ReadLimitsFails, CountFault,
         UNCHANGED <<sessionVars, operationVars, useVars, processVars, keepVars>>
  PROVE  SandboxInv'
<1>1. /\ turn' = [t \in Turns |-> IF turn[t] = "pending" THEN "ended" ELSE turn[t]] /\ turn \in [Turns -> Places]
      /\ UNCHANGED maintenance
  BY DEF ReadLimitsFails, SandboxInv, GateInv, GateTyped
<1>2. \A u \in Turns : turn'[u] = turn[u] \/ {turn[u], turn'[u]} \cap (Ensuring \cup {"running"}) = {}
  BY <1>1 DEF Ensuring
<1>3. upkeep' \in 0..MaxUpkeep /\ faults' \in 0..MaxFaults
  BY FaultCounted DEF keepVars, SandboxInv, BoxInv, BoxTyped
<1> QED BY <1>1, <1>2, <1>3, ReadLimitsFailsInv, GateOnly
        DEF SandboxInv, sessionVars, operationVars, useVars, processVars, keepVars

LEMMA SaveLimitsStep ==
  ASSUME SandboxInv, SaveLimits, upkeep < MaxUpkeep, upkeep' = upkeep + 1,
         UNCHANGED <<sessionVars, operationVars, useVars, processVars, keeper, idleSaw, faults>>
  PROVE  SandboxInv'
<1>1. UNCHANGED <<turn, maintenance>>
  BY DEF SaveLimits
<1>2. upkeep' \in 0..MaxUpkeep /\ faults' \in 0..MaxFaults
  BY UpkeepCounted DEF SandboxInv, BoxInv, BoxTyped
<1> QED BY <1>1, <1>2, SaveLimitsInv, GateOnly
        DEF SandboxInv, sessionVars, operationVars, useVars, processVars

LEMMA AnnounceLimitsStep ==
  ASSUME SandboxInv, AnnounceLimits, UNCHANGED boxVars
  PROVE  SandboxInv'
<1>1. UNCHANGED <<turn, aborted, active, limits, maintenance>> /\ Refresh(pending) /\ unannounced' \in BOOLEAN
  BY DEF AnnounceLimits
<1>2. upkeep' \in 0..MaxUpkeep /\ faults' \in 0..MaxFaults
  BY DEF boxVars, keepVars, SandboxInv, BoxInv, BoxTyped
<1>3. GateInv'
  BY <1>1, AnnounceInv DEF SandboxInv, GateInv, GateTyped, InMaintenance
<1> QED BY <1>1, <1>2, <1>3, GateOnly
        DEF SandboxInv, boxVars, sessionVars, operationVars, useVars, processVars, keepVars

\* Drafts and changes, which the sandboxes do not see.
LEMMA BeginUpkeepInv ==
  ASSUME SandboxInv, NEW a \in Agents, NEW kind \in {"draft", "change"}, BeginUpkeep(a, kind)
  PROVE  SandboxInv'
<1>1. /\ GateInv' /\ maintenance[a] = "none" /\ maintenance' = [maintenance EXCEPT ![a] = kind] /\ UNCHANGED turn
      /\ maintenance \in [Agents -> Upkeeps]
  <2>1. kind \in Upkeeps \ {"none"}
    BY DEF Upkeeps
  <2> QED BY <2>1, TakeMaintenanceInv DEF BeginUpkeep, SandboxInv, GateInv, GateTyped
<1>2. \A b \in Agents : maintenance'[b] \in {"stop", "remove"} <=> maintenance[b] \in {"stop", "remove"}
  BY <1>1
<1>3. upkeep' \in 0..MaxUpkeep /\ faults' \in 0..MaxFaults
  BY UpkeepCounted DEF BeginUpkeep, SandboxInv, BoxInv, BoxTyped
<1> QED BY <1>1, <1>2, <1>3, GateOnly DEF BeginUpkeep, sessionVars, operationVars, useVars, processVars

LEMMA EndUpkeepInv ==
  ASSUME SandboxInv, NEW a \in Agents, EndUpkeep(a)
  PROVE  SandboxInv'
<1>1. /\ GateInv' /\ maintenance[a] \in {"draft", "change"} /\ maintenance' = [maintenance EXCEPT ![a] = "none"]
      /\ UNCHANGED turn /\ maintenance \in [Agents -> Upkeeps] /\ UNCHANGED boxVars
  BY EndMaintenanceInv DEF EndUpkeep, EndMaintenance, SandboxInv, GateInv, GateTyped
<1>2. \A b \in Agents : maintenance'[b] \in {"stop", "remove"} <=> maintenance[b] \in {"stop", "remove"}
  BY <1>1
<1>3. upkeep' \in 0..MaxUpkeep /\ faults' \in 0..MaxFaults
  BY <1>1 DEF boxVars, keepVars, SandboxInv, BoxInv, BoxTyped
<1> QED BY <1>1, <1>2, <1>3, GateOnly DEF boxVars, sessionVars, operationVars, useVars, processVars, keepVars

\* The row of a sandbox that a turn allocates.
LEMMA Allocates ==
  ASSUME SandboxInv, NEW t \in Turns, Allocate(t)
  PROVE  /\ box' \in [Agents -> [status : Status, live : BOOLEAN]] /\ saw' \in [Turns -> Status]
         /\ \A b \in Agents : box'[b].live = box[b].live
<1>1. BoxTyped /\ AgentOfTurn(t) \in Agents
  BY TurnAgent DEF SandboxInv, BoxInv
<1>2. PICK a \in Agents : a = AgentOfTurn(t)
  BY <1>1
<1>3. PICK v : v = IF box[a].status = "none" THEN "copying" ELSE box[a].status
  OBVIOUS
<1>4. box[a].status \in Status
  BY <1>1 DEF BoxTyped
<1>5. v \in Status
  BY <1>3, <1>4 DEF Status
<1>6. box' = [box EXCEPT ![a].status = v]
  BY <1>2, <1>3 DEF Allocate
<1>7. /\ box' \in [Agents -> [status : Status, live : BOOLEAN]] /\ box'[a].status = v
      /\ \A b \in Agents : box'[b].live = box[b].live
  BY <1>1, <1>5, <1>6, BoxStatus
<1>8. saw' = [saw EXCEPT ![t] = v]
  BY <1>2, <1>7 DEF Allocate
<1> QED BY <1>1, <1>5, <1>7, <1>8 DEF BoxTyped

LEMMA PrepareInv ==
  ASSUME SandboxInv, NEW t \in Turns, Prepare(t)
  PROVE  SandboxInv'
<1>1. turn[t] = "granted" /\ t \in active /\ turn \in [Turns -> Places] /\ ~inner[t]
  BY DEF Prepare, SandboxInv, GateInv, GateTyped, Leased, Outside, BoxInv, SessionsFit, Ensuring
<1>2. CASE LeaveGate(t, "ended") /\ UNCHANGED boxVars
  <2>1. GateInv' /\ UNCHANGED maintenance
    BY <1>1, <1>2, LeaveGateInv DEF SandboxInv, LeaveGate
  <2>2. turn' = [turn EXCEPT ![t] = "ended"]
    BY <1>2 DEF LeaveGate, ReleaseLease
  <2>3. \A u \in Turns : turn'[u] = turn[u] \/ {turn[u], turn'[u]} \cap (Ensuring \cup {"running"}) = {}
    BY <1>1, <2>2 DEF Ensuring
  <2>4. upkeep' \in 0..MaxUpkeep /\ faults' \in 0..MaxFaults
    BY <1>2 DEF boxVars, keepVars, SandboxInv, BoxInv, BoxTyped
  <2> QED BY <1>2, <2>1, <2>3, <2>4, GateOnly DEF boxVars, sessionVars, operationVars, useVars, processVars, keepVars
<1>3. CASE Allocate(t) /\ UNCHANGED inner
  <2>1. Goto(t, "allocated") /\ UNCHANGED Gate /\ "allocated" \in Places \ Outside
    BY <1>3 DEF Allocate, Places, Outside
  <2>2. /\ GateInv' /\ Alone(t) /\ turn'[t] = "allocated" /\ UNCHANGED maintenance
        /\ inner' \in [Turns -> BOOLEAN] /\ inner'[t] = inner[t]
    BY <1>1, <1>3, <2>1, GoesOn DEF Outside
  <2>3. BoxTyped'
    BY <1>3, <2>2, Allocates DEF Allocate, SandboxInv, BoxInv, BoxTyped, operationVars, useVars, keepVars
  <2>4. (Uses(t)' <=> Uses(t)) /\ Unseen(t) /\ (Occupies(t)' <=> Occupies(t))
    BY <1>1, <2>2 DEF Uses, Unseen, InLine, Operating, Occupies
  <2> QED BY <1>1, <1>3, <2>2, <2>3, <2>4, FitsMove DEF Allocate, SandboxInv, operationVars, useVars, keepVars
<1> QED BY <1>2, <1>3 DEF Prepare

LEMMA EnsureAgainInv ==
  ASSUME SandboxInv, NEW t \in Turns, EnsureAgain(t)
  PROVE  SandboxInv'
<1>1. turn[t] = "running" /\ turn \in [Turns -> Places] /\ inner \in [Turns -> BOOLEAN] /\ t \in active
  BY DEF EnsureAgain, SandboxInv, GateInv, GateTyped, BoxInv, BoxTyped, Leased, Outside
<1>2. Allocate(t) /\ inner' = [inner EXCEPT ![t] = TRUE]
  BY DEF EnsureAgain
<1>3. inner' \in [Turns -> BOOLEAN] /\ inner'[t] /\ \A u \in Turns \ {t} : inner'[u] = inner[u]
  BY <1>1, <1>2
<1>4. Goto(t, "allocated") /\ UNCHANGED Gate /\ "allocated" \in Places \ Outside
  BY <1>2 DEF Allocate, Places, Outside
<1>5. GateInv' /\ UNCHANGED maintenance
  BY <1>1, <1>4, GoOnInv DEF SandboxInv, Gate
<1>6. turn'[t] = "allocated" /\ Alone(t)
  BY <1>1, <1>3, <1>4 DEF Goto, Alone
<1>7. BoxTyped'
  BY <1>2, <1>3, Allocates DEF Allocate, SandboxInv, BoxInv, BoxTyped, operationVars, useVars, keepVars
<1>8. (Uses(t)' <=> Uses(t)) /\ Unseen(t) /\ (Occupies(t)' <=> Occupies(t)) /\ turn'[t] \in Ensuring
  BY <1>1, <1>3, <1>6 DEF Uses, Unseen, InLine, Operating, Occupies, Ensuring
<1> QED BY <1>2, <1>5, <1>6, <1>7, <1>8, FitsMove DEF Allocate, SandboxInv, operationVars, useVars, keepVars

LEMMA Forgets ==
  ASSUME SandboxInv, NEW t \in Turns, Forget(t)
  PROVE  saw' \in [Turns -> Status]
BY DEF Forget, SandboxInv, BoxInv, BoxTyped, Status

LEMMA Marks ==
  ASSUME SandboxInv, NEW a \in Agents, Use(a)
  PROVE  used' \subseteq Agents
<1>1. used \subseteq Agents
  BY DEF SandboxInv, BoxInv, BoxTyped
<1> QED BY <1>1 DEF Use

LEMMA ReuseInv ==
  ASSUME SandboxInv, NEW t \in Turns, Reuse(t)
  PROVE  SandboxInv'
<1>1. turn[t] = "allocated" /\ "reusing" \in Places \ Outside /\ turn[t] \notin Outside
  BY DEF Reuse, Places, Outside
<1>2. PICK a \in Agents : a = AgentOfTurn(t)
  BY TurnAgent
<1>3. /\ Goto(t, "reusing") /\ UNCHANGED Gate /\ UNCHANGED inner /\ Forget(t) /\ a \notin frozen /\ Use(a)
      /\ access' = [access EXCEPT ![a] = @ + 1]
      /\ UNCHANGED <<bound, holder, exclusive, frozen, line, viewers, box, pty, keeper, idleSaw, upkeep, faults>>
  BY <1>2 DEF Reuse, MayReuse, operationVars, processVars, keepVars
<1>4. /\ GateInv' /\ Alone(t) /\ turn'[t] = "reusing" /\ UNCHANGED maintenance
      /\ inner' \in [Turns -> BOOLEAN] /\ inner'[t] = inner[t]
  BY <1>1, <1>3, GoesOn
<1>5. AccessFits' /\ access' \in [Agents -> Nat]
  BY <1>1, <1>2, <1>3, <1>4, AccessTaken DEF SandboxInv, Uses
<1>6. SessionsFit'
  <2>1. (Occupies(t)' <=> Occupies(t)) /\ turn'[t] \in Ensuring
    BY <1>1, <1>3, <1>4 DEF Occupies, Ensuring
  <2> QED BY <1>3, <1>4, <2>1, SessionsStay DEF SandboxInv
<1>7. \A b \in Agents : LineFits(b)'
  <2>1. \A u \in Turns : Unseen(u)
    BY <1>1, <1>4 DEF Unseen, InLine, Operating, Alone
  <2> QED BY <1>3, <2>1, LineStays DEF SandboxInv
<1>8. KeeperFits'
  BY <1>3, <1>4 DEF SandboxInv, BoxInv, KeeperFits
<1>9. BoxTyped'
  BY <1>3, <1>4, <1>5, Forgets, Marks DEF SandboxInv, BoxInv, BoxTyped
<1> QED BY <1>4, <1>5, <1>6, <1>7, <1>8, <1>9 DEF SandboxInv, BoxInv

LEMMA EnqueueInv ==
  ASSUME SandboxInv, NEW t \in Turns, Enqueue(t)
  PROVE  SandboxInv'
<1>1. turn[t] = "allocated" /\ "lined" \in Places \ Outside /\ turn[t] \notin Outside
  BY DEF Enqueue, Places, Outside
<1>2. PICK a \in Agents : a = AgentOfTurn(t)
  BY TurnAgent
<1>3. /\ Goto(t, "lined") /\ UNCHANGED Gate /\ UNCHANGED inner /\ Forget(t)
      /\ line' = [line EXCEPT ![a] = Append(@, t)]
      /\ UNCHANGED <<bound, holder, exclusive, frozen, access, used, viewers, box, pty, keeper, idleSaw, upkeep, faults>>
  BY <1>2 DEF Enqueue, useVars, processVars, keepVars
<1>4. /\ GateInv' /\ Alone(t) /\ turn'[t] = "lined" /\ UNCHANGED maintenance
      /\ inner' \in [Turns -> BOOLEAN] /\ inner'[t] = inner[t]
  BY <1>1, <1>3, GoesOn
<1>5. AccessFits'
  <2>1. \A u \in Turns : Uses(u)' <=> Uses(u)
    BY <1>1, <1>4 DEF Uses, Alone
  <2> QED BY <1>3, <2>1, AccessStays DEF SandboxInv, BoxInv, AccessFits
<1>6. SessionsFit'
  <2>1. (Occupies(t)' <=> Occupies(t)) /\ turn'[t] \in Ensuring
    BY <1>1, <1>3, <1>4 DEF Occupies, Ensuring
  <2> QED BY <1>3, <1>4, <2>1, SessionsStay DEF SandboxInv
<1>7. LineFits(a) /\ line \in [Agents -> Seq(Turns \cup {"keeper"})] /\ t # "keeper"
  BY SandboxConstants DEF SandboxInv, BoxInv, BoxTyped
<1>8. t \notin ToSet(line[a])
  BY <1>1, <1>7 DEF LineFits, InLine
<1>9. line'[a] = Append(line[a], t) /\ \A b \in Agents \ {a} : line'[b] = line[b]
  BY <1>3, <1>7
<1>10. \A u \in Turns \ {t} : Unseen(u)
  BY <1>4 DEF Unseen, Alone
<1>11. LineFits(a)'
  BY <1>2, <1>3, <1>4, <1>7, <1>8, <1>9, <1>10, LineJoined DEF SandboxInv
<1>12. \A b \in Agents : LineFits(b)'
  BY <1>2, <1>3, <1>9, <1>10, <1>11, OtherLines DEF SandboxInv
<1>13. line' \in [Agents -> Seq(Turns \cup {"keeper"})]
  BY <1>3, <1>7, AppendProperties
<1>14. KeeperFits'
  BY <1>3, <1>4 DEF SandboxInv, BoxInv, KeeperFits
<1>15. BoxTyped'
  BY <1>3, <1>4, <1>13, Forgets DEF SandboxInv, BoxInv, BoxTyped
<1> QED BY <1>4, <1>5, <1>6, <1>12, <1>14, <1>15 DEF SandboxInv, BoxInv

LEMMA BindInv ==
  ASSUME SandboxInv, NEW t \in Turns, Bind(t)
  PROVE  SandboxInv'
<1>1. /\ turn[t] = "reusing" /\ "binding" \in Places \ Outside /\ turn[t] \notin Outside /\ turn[t] \in Ensuring
      /\ NoTurn \notin Turns
  BY SandboxConstants DEF Bind, Places, Outside, Ensuring
<1>2. PICK a \in Agents, s \in Sessions : a = AgentOfTurn(t) /\ s = SessionOf[t]
  BY TurnAgent
<1>3. /\ UNCHANGED <<saw, bound, exclusive, frozen, line, viewers, box, pty, keeper, idleSaw, upkeep, used, faults>>
      /\ \/ ~inner[t] /\ ReleaseAccess(a) /\ Refused(t, "queued") /\ UNCHANGED holder
         \/ /\ ~(s \notin bound /\ ~inner[t] /\ SandboxSessionBusy(t))
            /\ Goto(t, "binding") /\ holder' = [holder EXCEPT ![s] = IF s \in bound THEN @ ELSE t]
            /\ UNCHANGED Gate /\ UNCHANGED inner /\ UNCHANGED access
  BY <1>2 DEF Bind, operationVars, processVars, keepVars
<1>4. CASE ~inner[t] /\ ReleaseAccess(a) /\ Refused(t, "queued") /\ UNCHANGED holder
  <2>1. Settled(t)
    BY <1>1, <1>4, Refuses
  <2>2. /\ ~Uses(t)' /\ turn'[t] \notin InLine \cup Operating /\ (Occupies(t)' <=> inner[t])
        /\ ~inner'[t] /\ \A u \in Turns \ {t} : Unseen(u) /\ (Uses(u)' <=> Uses(u))
    BY <1>1, <2>1, SettledSees
  <2>3. AccessFits' /\ access' \in [Agents -> Nat]
    BY <1>1, <1>2, <1>3, <1>4, <2>1, <2>2, AccessReleased DEF SandboxInv, Uses, Settled
  <2>4. SessionsFit'
    <3>1. Occupies(t)' <=> Occupies(t)
      BY <1>1, <1>4, <2>2 DEF Occupies
    <3> QED BY <1>3, <1>4, <2>1, <2>2, <3>1, SessionsStay DEF SandboxInv, Settled
  <2>5. \A b \in Agents : LineFits(b)'
    <3>1. \A u \in Turns : Unseen(u)
      BY <1>1, <2>2 DEF Unseen, InLine, Operating
    <3> QED BY <1>3, <3>1, LineStays DEF SandboxInv
  <2>6. KeeperFits'
    BY <1>3, <2>1 DEF SandboxInv, BoxInv, KeeperFits, Settled
  <2>7. BoxTyped'
    BY <1>3, <1>4, <2>1, <2>3 DEF SandboxInv, BoxInv, BoxTyped, Settled
  <2> QED BY <2>1, <2>3, <2>4, <2>5, <2>6, <2>7 DEF SandboxInv, BoxInv, Settled
<1>5. CASE /\ ~(s \notin bound /\ ~inner[t] /\ SandboxSessionBusy(t))
           /\ Goto(t, "binding") /\ holder' = [holder EXCEPT ![s] = IF s \in bound THEN @ ELSE t]
           /\ UNCHANGED Gate /\ UNCHANGED inner /\ UNCHANGED access
  <2>1. /\ GateInv' /\ Alone(t) /\ turn'[t] = "binding" /\ UNCHANGED maintenance
        /\ inner' \in [Turns -> BOOLEAN] /\ inner'[t] = inner[t]
    BY <1>1, <1>5, GoesOn
  <2>2. holder \in [Sessions -> Turns \cup {NoTurn}]
    BY DEF SandboxInv, BoxInv, BoxTyped
  <2>3. /\ holder' \in [Sessions -> Turns \cup {NoTurn}]
        /\ holder'[s] = (IF s \in bound THEN holder[s] ELSE t)
        /\ \A r \in Sessions \ {s} : holder'[r] = holder[r]
    BY <1>5, <2>2
  <2>4. Occupies(t)' <=> inner[t] \/ s \notin bound
    BY <1>2, <1>3, <1>5, <2>1 DEF Occupies
  <2>5. (t = holder[s] <=> inner[t]) /\ (holder[s] \in Turns => holder[s] = t \/ s \in bound)
    <3>1. t = holder[s] <=> inner[t]
      BY <1>1, <1>2 DEF SandboxInv, BoxInv, SessionsFit, Occupies
    <3>2. CASE s \in bound \/ inner[t]
      BY <3>1, <3>2
    <3>3. CASE ~SandboxSessionBusy(t)
      BY <1>1, <1>2, <3>1, <3>3 DEF SandboxSessionBusy
    <3> QED BY <1>5, <3>1, <3>2, <3>3
  <2>6. SessionsFit'
    <3>1. \A u \in Turns \ {t} : Occupies(u)' <=> Occupies(u)
      BY <1>3, <2>1 DEF Occupies, Alone
    <3>2. \A u \in Turns \ {t} : u = holder'[s] <=> u = holder[s]
      BY <2>3, <2>5
    <3>3. (t = holder'[s] <=> Occupies(t)') /\ turn'[t] \in Ensuring
      BY <2>1, <2>3, <2>4, <2>5 DEF Ensuring
    <3> QED BY <1>2, <2>1, <2>3, <3>1, <3>2, <3>3, SessionsMove DEF SandboxInv
  <2>7. AccessFits'
    <3>1. \A u \in Turns : Uses(u)' <=> Uses(u)
      BY <1>1, <2>1 DEF Uses, Alone
    <3> QED BY <1>3, <1>5, <3>1, AccessStays DEF SandboxInv, BoxInv, AccessFits
  <2>8. \A b \in Agents : LineFits(b)'
    <3>1. \A u \in Turns : Unseen(u)
      BY <1>1, <2>1 DEF Unseen, InLine, Operating, Alone
    <3> QED BY <1>3, <3>1, LineStays DEF SandboxInv
  <2>9. KeeperFits'
    BY <1>3, <2>1 DEF SandboxInv, BoxInv, KeeperFits
  <2>10. BoxTyped'
    BY <1>3, <1>5, <2>1, <2>3 DEF SandboxInv, BoxInv, BoxTyped
  <2> QED BY <2>1, <2>6, <2>7, <2>8, <2>9, <2>10 DEF SandboxInv, BoxInv
<1> QED BY <1>3, <1>4, <1>5

LEMMA ReusedInv ==
  ASSUME SandboxInv, NEW t \in Turns, Reused(t)
  PROVE  SandboxInv'
<1>1. /\ turn[t] = "binding" /\ "lined" \in Places \ Outside /\ turn[t] \notin Outside /\ turn[t] \in Ensuring
      /\ NoTurn \notin Turns /\ Uses(t)
  BY SandboxConstants DEF Reused, Places, Outside, Ensuring, Uses
<1>2. PICK a \in Agents, s \in Sessions : a = AgentOfTurn(t) /\ s = SessionOf[t]
  BY TurnAgent
<1>3. /\ UNCHANGED <<saw, exclusive, frozen, viewers, box, pty, keeper, idleSaw, upkeep, used, faults>>
      /\ bound' = bound \cup {s} /\ ReleaseAccess(a)
      /\ holder' = [holder EXCEPT ![s] = IF @ = t /\ ~inner[t] THEN NoTurn ELSE @]
      /\ \/ (Refused(t, "ended") \/ Ensured(t)) /\ UNCHANGED line
         \/ /\ Goto(t, "lined") /\ line' = [line EXCEPT ![a] = Append(@, t)]
            /\ UNCHANGED Gate /\ UNCHANGED inner
  BY <1>2 DEF Reused, processVars, keepVars
<1>4. /\ GateInv' /\ Alone(t) /\ UNCHANGED maintenance /\ inner' \in [Turns -> BOOLEAN]
      /\ inner'[t] => turn'[t] \in Ensuring
      /\ Occupies(t)' <=> inner[t]
      /\ ~Uses(t)'
      /\ \/ UNCHANGED line /\ turn'[t] \notin InLine \cup Operating
         \/ turn'[t] = "lined" /\ line' = [line EXCEPT ![a] = Append(@, t)]
  <2>1. CASE (Refused(t, "ended") \/ Ensured(t)) /\ UNCHANGED line
    <3>1. Settled(t)
      BY <1>1, <2>1, Refuses, Ensures
    <3> QED BY <1>1, <2>1, <3>1, SettledSees DEF Settled
  <2>2. CASE /\ Goto(t, "lined") /\ line' = [line EXCEPT ![a] = Append(@, t)]
             /\ UNCHANGED Gate /\ UNCHANGED inner
    <3>1. /\ GateInv' /\ Alone(t) /\ turn'[t] = "lined" /\ UNCHANGED maintenance
          /\ inner' \in [Turns -> BOOLEAN] /\ inner'[t] = inner[t]
      BY <1>1, <2>2, GoesOn
    <3>2. (Occupies(t)' <=> inner[t]) /\ ~Uses(t)' /\ turn'[t] \in Ensuring
      BY <2>2, <3>1 DEF Occupies, Uses, Ensuring
    <3> QED BY <2>2, <3>1, <3>2
  <2> QED BY <1>3, <2>1, <2>2
<1>5. /\ holder \in [Sessions -> Turns \cup {NoTurn}] /\ line \in [Agents -> Seq(Turns \cup {"keeper"})]
      /\ SessionsFit /\ LineFits(a) /\ t # "keeper"
  BY SandboxConstants DEF SandboxInv, BoxInv, BoxTyped
<1>6. /\ holder' \in [Sessions -> Turns \cup {NoTurn}]
      /\ holder'[s] = (IF holder[s] = t /\ ~inner[t] THEN NoTurn ELSE holder[s])
      /\ \A r \in Sessions \ {s} : holder'[r] = holder[r]
  BY <1>3, <1>5
<1>7. SessionsFit'
  <2>1. inner[t] => holder[s] = t
    BY <1>2, <1>5 DEF SessionsFit, Occupies
  <2>2. ASSUME NEW u \in Turns \ {t} PROVE Occupies(u)' <=> Occupies(u)
    <3>1. CASE SessionOf[u] = s /\ turn[u] = "binding" /\ s \notin bound
      <4>1. u = holder[s] /\ t = holder[s]
        BY <1>1, <1>2, <1>5, <3>1 DEF SessionsFit, Occupies
      <4> QED BY <2>2, <4>1
    <3>2. CASE ~(SessionOf[u] = s /\ turn[u] = "binding" /\ s \notin bound)
      BY <1>3, <1>4, <3>2 DEF Occupies, Alone
    <3> QED BY <3>1, <3>2
  <2>3. \A u \in Turns \ {t} : u = holder'[s] <=> u = holder[s]
    BY <1>1, <1>6
  <2>4. t = holder'[s] <=> Occupies(t)'
    BY <1>1, <1>4, <1>6, <2>1
  <2> QED BY <1>2, <1>4, <1>6, <2>2, <2>3, <2>4, SessionsMove DEF SandboxInv
<1>8. AccessFits' /\ access' \in [Agents -> Nat]
  BY <1>1, <1>2, <1>3, <1>4, AccessReleased DEF SandboxInv
<1>9. \A u \in Turns \ {t} : Unseen(u)
  BY <1>4 DEF Unseen, Alone
<1>10. (\A b \in Agents : LineFits(b)') /\ line' \in [Agents -> Seq(Turns \cup {"keeper"})]
  <2>1. CASE UNCHANGED line /\ turn'[t] \notin InLine \cup Operating
    <3>1. \A u \in Turns : Unseen(u)
      BY <1>1, <1>9, <2>1 DEF Unseen, InLine, Operating
    <3> QED BY <1>3, <1>5, <2>1, <3>1, LineStays DEF SandboxInv
  <2>2. CASE turn'[t] = "lined" /\ line' = [line EXCEPT ![a] = Append(@, t)]
    <3>1. t \notin ToSet(line[a])
      BY <1>1, <1>5 DEF LineFits, InLine
    <3>2. line'[a] = Append(line[a], t) /\ \A b \in Agents \ {a} : line'[b] = line[b]
      BY <1>5, <2>2
    <3>3. LineFits(a)'
      BY <1>2, <1>3, <1>5, <1>9, <2>2, <3>1, <3>2, LineJoined DEF SandboxInv
    <3>4. \A b \in Agents : LineFits(b)'
      BY <1>2, <1>3, <1>9, <3>2, <3>3, OtherLines DEF SandboxInv
    <3>5. line' \in [Agents -> Seq(Turns \cup {"keeper"})]
      BY <1>5, <2>2, AppendProperties
    <3> QED BY <3>4, <3>5
  <2> QED BY <1>4, <2>1, <2>2
<1>11. KeeperFits'
  BY <1>3, <1>4 DEF SandboxInv, BoxInv, KeeperFits
<1>12. BoxTyped'
  BY <1>2, <1>3, <1>4, <1>6, <1>8, <1>10 DEF SandboxInv, BoxInv, BoxTyped
<1> QED BY <1>4, <1>7, <1>8, <1>10, <1>11, <1>12 DEF SandboxInv, BoxInv

\* A turn is first in the queue of its sandbox.
LEMMA IsFirst ==
  ASSUME SandboxInv, NEW t \in Turns, turn[t] \in Operating \/ First(AgentOfTurn(t)) = t
  PROVE  /\ First(AgentOfTurn(t)) = t /\ line[AgentOfTurn(t)] # <<>>
         /\ turn[t] \in Operating <=> AgentOfTurn(t) \in frozen
<1>1. PICK a \in Agents : a = AgentOfTurn(t)
  BY TurnAgent
<1>2. LineFits(a) /\ NoTurn \notin Turns
  BY SandboxConstants DEF SandboxInv, BoxInv
<1> QED BY <1>1, <1>2 DEF LineFits, Operating, First

\* Its step leaves the queue, and the sandbox unfrozen.
LEMMA TurnLeaves ==
  ASSUME SandboxInv, NEW t \in Turns, NEW a \in Agents, a = AgentOfTurn(t), turn[t] \in InLine,
         First(a) = t, line[a] # <<>>, Settled(t), StepAside(a),
         exclusive'[a] = NoTurn, \A b \in Agents \ {a} : exclusive'[b] = exclusive[b],
         frozen' = frozen \ {a}, UNCHANGED <<holder, access, viewers, keeper>>,
         bound' = bound \/ (a \in frozen /\ bound' = bound \cup {SessionOf[t]})
  PROVE  /\ SessionsFit' /\ AccessFits' /\ (\A b \in Agents : LineFits(b)') /\ KeeperFits'
         /\ line' \in [Agents -> Seq(Turns \cup {"keeper"})]
<1>1. BoxInv /\ line \in [Agents -> Seq(Turns \cup {"keeper"})] /\ t # "keeper" /\ turn[t] \in Ensuring
  BY SandboxConstants DEF SandboxInv, BoxInv, BoxTyped, InLine, Ensuring
<1>2. /\ ~Uses(t)' /\ turn'[t] \notin InLine \cup Operating
      /\ Occupies(t)' <=> inner[t]
      /\ ~inner'[t] /\ \A u \in Turns \ {t} : Unseen(u) /\ (Uses(u)' <=> Uses(u))
  BY <1>1, SettledSees
<1>3. line' = [line EXCEPT ![a] = Tail(@)]
  BY DEF StepAside
<1>4. line'[a] = Tail(line[a]) /\ \A b \in Agents \ {a} : line'[b] = line[b]
  BY <1>1, <1>3
<1>5. line' \in [Agents -> Seq(Turns \cup {"keeper"})]
  BY <1>1, <1>3, HeadTailProperties
<1>6. LineFits(a)'
  BY <1>1, <1>2, <1>4, LineLeft
<1>7. \A b \in Agents : LineFits(b)'
  BY <1>1, <1>2, <1>4, <1>6, OtherLines
<1>8. AccessFits'
  <2>1. \A u \in Turns : Uses(u)' <=> Uses(u)
    BY <1>2 DEF Uses, InLine
  <2>2. \A b \in Agents : b \in frozen' => access[b] = 0
    BY <1>1 DEF BoxInv, AccessFits
  <2> QED BY <1>1, <2>1, <2>2, AccessStays
<1>9. SessionsFit'
  <2>1. Occupies(t)' <=> Occupies(t)
    BY <1>2 DEF Occupies, InLine
  <2>2. ASSUME NEW u \in Turns \ {t} PROVE Occupies(u)' <=> Occupies(u)
    <3>1. CASE bound' = bound
      BY <3>1 DEF Occupies, Settled, Alone
    <3>2. CASE a \in frozen /\ bound' = bound \cup {SessionOf[t]}
      <4>1. SessionOf[u] = SessionOf[t] => turn[u] # "binding"
        <5>1. Using(a) = {}
          BY <1>1, <3>2, UsingCounts DEF BoxInv, AccessFits
        <5> QED BY <5>1 DEF Using, AgentOfTurn
      <4> QED BY <3>2, <4>1 DEF Occupies, Settled, Alone
    <3> QED BY <3>1, <3>2
  <2>3. t = holder'[SessionOf[t]] <=> Occupies(t)'
    BY <1>1, <2>1, TurnAgent DEF BoxInv, SessionsFit
  <2> QED BY <1>1, <1>2, <2>2, <2>3, SessionsMove DEF Settled
<1>10. KeeperFits'
  BY <1>1 DEF BoxInv, KeeperFits, Settled
<1> QED BY <1>5, <1>7, <1>8, <1>9, <1>10

LEMMA OperationEnds ==
  ASSUME SandboxInv, NEW a \in Agents, EndOperation(a)
  PROVE  /\ exclusive'[a] = NoTurn /\ (\A b \in Agents \ {a} : exclusive'[b] = exclusive[b])
         /\ frozen' = frozen \ {a} /\ frozen' \subseteq Agents /\ StepAside(a)
         /\ exclusive' \in [Agents -> Turns \cup {"keeper", NoTurn}]
BY DEF EndOperation, SandboxInv, BoxInv, BoxTyped

LEMMA BeginStartInv ==
  ASSUME SandboxInv, NEW t \in Turns, BeginStart(t)
  PROVE  SandboxInv'
<1>1. turn[t] = "lined" /\ turn[t] \in InLine /\ "starting" \in Places \ Outside /\ turn[t] \notin Outside
      /\ NoTurn \notin Turns /\ t # "keeper"
  BY SandboxConstants DEF BeginStart, Places, Outside, InLine
<1>2. PICK a \in Agents : a = AgentOfTurn(t)
  BY TurnAgent
<1>3. /\ UNCHANGED <<saw, bound, holder, access, viewers, used, box, pty, keeper, idleSaw, upkeep, faults>>
      /\ ItsTurn(a, t)
      /\ \/ StepAside(a) /\ (Refused(t, "queued") \/ Refused(t, "ended")) /\ UNCHANGED <<exclusive, frozen>>
         \/ /\ access[a] = 0
            /\ exclusive' = [exclusive EXCEPT ![a] = t]
            /\ frozen' = frozen \cup {a}
            /\ Goto(t, "starting") /\ UNCHANGED Gate /\ UNCHANGED inner /\ UNCHANGED line
  BY <1>2 DEF BeginStart, useVars, processVars, keepVars
<1>4. First(a) = t /\ line[a] # <<>> /\ a \notin frozen
  BY <1>2, <1>3, IsFirst DEF ItsTurn
<1>5. BoxInv /\ exclusive \in [Agents -> Turns \cup {"keeper", NoTurn}] /\ exclusive[a] = NoTurn
  BY <1>4, Operates DEF SandboxInv, BoxInv, BoxTyped
<1>6. CASE StepAside(a) /\ (Refused(t, "queued") \/ Refused(t, "ended")) /\ UNCHANGED <<exclusive, frozen>>
  <2>1. Settled(t)
    BY <1>1, <1>6, Refuses
  <2>2. frozen' = frozen \ {a}
    BY <1>4, <1>6
  <2>3. /\ SessionsFit' /\ AccessFits' /\ (\A b \in Agents : LineFits(b)') /\ KeeperFits'
        /\ line' \in [Agents -> Seq(Turns \cup {"keeper"})]
    BY <1>1, <1>2, <1>3, <1>4, <1>5, <1>6, <2>1, <2>2, TurnLeaves
  <2>4. BoxTyped'
    BY <1>3, <1>5, <1>6, <2>1, <2>3 DEF BoxInv, BoxTyped, Settled
  <2> QED BY <2>1, <2>3, <2>4 DEF SandboxInv, BoxInv, Settled
<1>7. CASE /\ access[a] = 0
           /\ exclusive' = [exclusive EXCEPT ![a] = t]
           /\ frozen' = frozen \cup {a}
           /\ Goto(t, "starting") /\ UNCHANGED Gate /\ UNCHANGED inner /\ UNCHANGED line
  <2>1. /\ GateInv' /\ Alone(t) /\ turn'[t] = "starting" /\ UNCHANGED maintenance
        /\ inner' \in [Turns -> BOOLEAN] /\ inner'[t] = inner[t]
    BY <1>1, <1>7, GoesOn
  <2>2. /\ exclusive'[a] = t /\ (\A b \in Agents \ {a} : exclusive'[b] = exclusive[b])
        /\ exclusive' \in [Agents -> Turns \cup {"keeper", NoTurn}]
    BY <1>5, <1>7
  <2>3. \A u \in Turns \ {t} : Unseen(u)
    BY <2>1 DEF Unseen, Alone
  <2>4. LineFits(a)'
    BY <1>1, <1>2, <1>3, <1>4, <1>5, <1>7, <2>1, <2>2, <2>3, LineOperates
  <2>5. \A b \in Agents : LineFits(b)'
    BY <1>2, <1>3, <1>5, <1>7, <2>2, <2>3, <2>4, OtherLines
  <2>6. SessionsFit'
    <3>1. (Occupies(t)' <=> Occupies(t)) /\ turn'[t] \in Ensuring
      BY <1>1, <1>7, <2>1 DEF Occupies, Ensuring
    <3> QED BY <1>3, <1>5, <2>1, <3>1, SessionsStay
  <2>7. AccessFits'
    <3>1. \A u \in Turns : Uses(u)' <=> Uses(u)
      BY <1>1, <2>1 DEF Uses, Alone
    <3>2. \A b \in Agents : b \in frozen' => access[b] = 0
      BY <1>5, <1>7 DEF BoxInv, AccessFits
    <3> QED BY <1>3, <1>5, <3>1, <3>2, AccessStays
  <2>8. KeeperFits'
    BY <1>3, <1>5, <2>1 DEF BoxInv, KeeperFits
  <2>9. BoxTyped'
    BY <1>3, <1>5, <1>7, <2>1, <2>2 DEF BoxInv, BoxTyped
  <2> QED BY <2>1, <2>5, <2>6, <2>7, <2>8, <2>9 DEF SandboxInv, BoxInv
<1> QED BY <1>3, <1>6, <1>7

LEMMA StartInv ==
  ASSUME SandboxInv, NEW t \in Turns, Start(t)
  PROVE  SandboxInv'
<1>1. /\ turn[t] = "starting" /\ turn[t] \in InLine \cap Operating /\ "booting" \in Places \ Outside
      /\ turn[t] \notin Outside
  BY DEF Start, Places, Outside, InLine, Operating
<1>2. PICK a \in Agents, s \in Sessions : a = AgentOfTurn(t) /\ s = SessionOf[t]
  BY TurnAgent
<1>3. /\ UNCHANGED <<saw, holder, access, viewers, pty, keeper, idleSaw, upkeep, faults>>
      /\ \/ /\ EndOperation(a) /\ (Refused(t, "ended") \/ Ensured(t)) /\ UNCHANGED box
            /\ bound' = bound \/ bound' = bound \cup {s}
            /\ used' = used \/ Use(a)
         \/ /\ bound' = bound \cup {s} /\ Goto(t, "booting")
            /\ box' = [box EXCEPT ![a] = [status |-> "provisioning", live |-> FALSE]]
            /\ UNCHANGED Gate /\ UNCHANGED inner /\ UNCHANGED <<exclusive, frozen, line, used>>
  BY <1>2, Zenon DEF Start, keepVars, operationVars
<1>4. First(a) = t /\ line[a] # <<>> /\ a \in frozen
  BY <1>1, <1>2, IsFirst
<1>5. BoxInv
  BY DEF SandboxInv
<1>6. CASE /\ EndOperation(a) /\ (Refused(t, "ended") \/ Ensured(t)) /\ UNCHANGED box
           /\ bound' = bound \/ bound' = bound \cup {s}
           /\ used' = used \/ Use(a)
  <2>1. Settled(t)
    BY <1>1, <1>6, Refuses, Ensures
  <2>2. /\ exclusive'[a] = NoTurn /\ (\A b \in Agents \ {a} : exclusive'[b] = exclusive[b])
        /\ frozen' = frozen \ {a} /\ frozen' \subseteq Agents /\ StepAside(a)
        /\ exclusive' \in [Agents -> Turns \cup {"keeper", NoTurn}]
    BY <1>6, OperationEnds
  <2>3. /\ SessionsFit' /\ AccessFits' /\ (\A b \in Agents : LineFits(b)') /\ KeeperFits'
        /\ line' \in [Agents -> Seq(Turns \cup {"keeper"})]
    BY <1>1, <1>2, <1>3, <1>4, <1>6, <2>1, <2>2, TurnLeaves
  <2>4. used' \subseteq Agents
    BY <1>5, <1>6, Marks DEF BoxInv, BoxTyped
  <2>5. BoxTyped'
    BY <1>2, <1>3, <1>5, <1>6, <2>1, <2>2, <2>3, <2>4 DEF BoxInv, BoxTyped, Settled
  <2> QED BY <2>1, <2>3, <2>5 DEF SandboxInv, BoxInv, Settled
<1>7. CASE /\ bound' = bound \cup {s} /\ Goto(t, "booting")
           /\ box' = [box EXCEPT ![a] = [status |-> "provisioning", live |-> FALSE]]
           /\ UNCHANGED Gate /\ UNCHANGED inner /\ UNCHANGED <<exclusive, frozen, line, used>>
  <2>1. /\ GateInv' /\ Alone(t) /\ turn'[t] = "booting" /\ UNCHANGED maintenance
        /\ inner' \in [Turns -> BOOLEAN] /\ inner'[t] = inner[t]
    BY <1>1, <1>7, GoesOn
  <2>2. \A u \in Turns : Unseen(u) /\ (Uses(u)' <=> Uses(u))
    BY <1>1, <2>1 DEF Unseen, Alone, Uses, InLine, Operating
  <2>3. \A b \in Agents : LineFits(b)'
    BY <1>3, <1>5, <1>7, <2>2, LineStays
  <2>4. AccessFits'
    BY <1>3, <1>5, <1>7, <2>2, AccessStays DEF BoxInv, AccessFits
  <2>5. SessionsFit'
    <3>1. ASSUME NEW u \in Turns \ {t} PROVE Occupies(u)' <=> Occupies(u)
      <4>1. Using(a) = {}
        BY <1>4, <1>5, UsingCounts DEF BoxInv, AccessFits
      <4>2. SessionOf[u] = s => turn[u] # "binding"
        BY <1>2, <4>1 DEF Using, AgentOfTurn
      <4> QED BY <1>7, <2>1, <4>2 DEF Occupies, Alone
    <3>2. (Occupies(t)' <=> Occupies(t)) /\ turn'[t] \in Ensuring
      BY <1>1, <1>7, <2>1 DEF Occupies, Ensuring
    <3>3. t = holder'[s] <=> Occupies(t)'
      BY <1>2, <1>3, <1>5, <3>2 DEF BoxInv, SessionsFit
    <3> QED BY <1>2, <1>3, <1>5, <2>1, <3>1, <3>2, <3>3, SessionsMove
  <2>6. KeeperFits'
    BY <1>3, <1>5, <2>1 DEF BoxInv, KeeperFits
  <2>7. box' \in [Agents -> [status : Status, live : BOOLEAN]]
    <3>1. "provisioning" \in Status /\ FALSE \in BOOLEAN
      BY DEF Status
    <3> QED BY <1>5, <1>7, <3>1, BoxSet DEF BoxInv
  <2>8. BoxTyped'
    BY <1>2, <1>3, <1>5, <1>7, <2>1, <2>7 DEF BoxInv, BoxTyped
  <2> QED BY <2>1, <2>3, <2>4, <2>5, <2>6, <2>8 DEF SandboxInv, BoxInv
<1> QED BY <1>3, <1>6, <1>7

\* The end of an operation of a turn that may have written nothing.
LEMMA BootEnds ==
  ASSUME SandboxInv, NEW t \in Turns, NEW a \in Agents, a = AgentOfTurn(t), turn[t] = "booting", EndOperation(a),
         Refused(t, "ended") \/ Ensured(t), UNCHANGED <<saw, bound, holder, access, viewers, pty, keeper, idleSaw, upkeep>>,
         box' \in [Agents -> [status : Status, live : BOOLEAN]], used' \subseteq Agents, faults' \in 0..MaxFaults
  PROVE  SandboxInv'
<1>1. turn[t] \in InLine \cap Operating /\ turn[t] \notin Outside /\ BoxInv
  BY DEF SandboxInv, InLine, Operating, Outside
<1>2. First(a) = t /\ line[a] # <<>>
  BY <1>1, IsFirst
<1>3. Settled(t)
  BY <1>1, Refuses, Ensures
<1>4. /\ exclusive'[a] = NoTurn /\ (\A b \in Agents \ {a} : exclusive'[b] = exclusive[b])
      /\ frozen' = frozen \ {a} /\ frozen' \subseteq Agents /\ StepAside(a)
      /\ exclusive' \in [Agents -> Turns \cup {"keeper", NoTurn}]
  BY OperationEnds
<1>5. /\ SessionsFit' /\ AccessFits' /\ (\A b \in Agents : LineFits(b)') /\ KeeperFits'
      /\ line' \in [Agents -> Seq(Turns \cup {"keeper"})]
  BY <1>1, <1>2, <1>3, <1>4, TurnLeaves
<1>6. BoxTyped'
  BY <1>1, <1>3, <1>4, <1>5 DEF BoxInv, BoxTyped, Settled
<1> QED BY <1>3, <1>5, <1>6 DEF SandboxInv, BoxInv, Settled

LEMMA BootedInv ==
  ASSUME SandboxInv, NEW t \in Turns, Booted(t)
  PROVE  SandboxInv'
<1>1. PICK a \in Agents : a = AgentOfTurn(t)
  BY TurnAgent
<1>2. /\ turn[t] = "booting" /\ EndOperation(a) /\ Ensured(t) /\ Use(a)
      /\ box' = [box EXCEPT ![a] = [status |-> "running", live |-> TRUE]]
      /\ UNCHANGED <<saw, bound, holder, access, viewers, pty, keeper, idleSaw, upkeep, faults>>
  BY <1>1 DEF Booted, keepVars
<1>3. "running" \in Status /\ TRUE \in BOOLEAN /\ BoxTyped
  BY DEF Status, SandboxInv, BoxInv
<1>4. box' \in [Agents -> [status : Status, live : BOOLEAN]]
  BY <1>2, <1>3, BoxSet
<1>5. used' \subseteq Agents /\ faults' \in 0..MaxFaults
  BY <1>2, <1>3, Marks DEF BoxTyped
<1> QED BY <1>1, <1>2, <1>4, <1>5, BootEnds

LEMMA BootFailsInv ==
  ASSUME SandboxInv, NEW t \in Turns, BootFails(t)
  PROVE  SandboxInv'
<1>1. PICK a \in Agents : a = AgentOfTurn(t)
  BY TurnAgent
<1>2. /\ turn[t] = "booting" /\ EndOperation(a) /\ Refused(t, "ended") /\ CountFault
      /\ box' = [box EXCEPT ![a].status = "error"]
      /\ UNCHANGED <<saw, bound, holder, access, viewers, used, pty, keeper, idleSaw, upkeep>>
  BY <1>1 DEF BootFails, keepVars, useVars
<1>3. "error" \in Status /\ BoxTyped
  BY DEF Status, SandboxInv, BoxInv
<1>4. box' \in [Agents -> [status : Status, live : BOOLEAN]]
  BY <1>2, <1>3, BoxStatus
<1>5. used' \subseteq Agents /\ faults' \in 0..MaxFaults
  BY <1>2, <1>3, FaultCounted DEF BoxTyped
<1> QED BY <1>1, <1>2, <1>4, <1>5, BootEnds

\* A turn takes or gives back its session.
LEMMA SessionChanges ==
  ASSUME SandboxInv, NEW t \in Turns, GateInv', Alone(t), UNCHANGED <<maintenance, inner, bound>>,
         UNCHANGED <<saw, exclusive, frozen, line, access, viewers, used, box, pty, keeper, idleSaw, upkeep, faults>>,
         turn[t] \in {"prepared", "running"}, turn'[t] \in {"queued", "running", "ended"},
         NEW h \in Turns \cup {NoTurn}, holder' = [holder EXCEPT ![SessionOf[t]] = h],
         h = holder[SessionOf[t]] \/ {h, holder[SessionOf[t]]} = {t, NoTurn},
         h = t <=> turn'[t] = "running"
  PROVE  SandboxInv'
<1>1. BoxInv /\ holder \in [Sessions -> Turns \cup {NoTurn}] /\ SessionOf[t] \in Sessions /\ NoTurn \notin Turns
  BY SandboxConstants, TurnAgent DEF SandboxInv, BoxInv, BoxTyped
<1>2. /\ holder' \in [Sessions -> Turns \cup {NoTurn}] /\ holder'[SessionOf[t]] = h
      /\ \A s \in Sessions \ {SessionOf[t]} : holder'[s] = holder[s]
  BY <1>1
<1>3. ~inner[t]
  BY <1>1 DEF BoxInv, SessionsFit, Ensuring
<1>4. SessionsFit'
  <2>1. \A u \in Turns \ {t} : Occupies(u)' <=> Occupies(u)
    BY DEF Occupies, Alone
  <2>2. \A u \in Turns \ {t} : u = holder'[SessionOf[t]] <=> u = holder[SessionOf[t]]
    BY <1>1, <1>2
  <2>3. t = holder'[SessionOf[t]] <=> Occupies(t)'
    BY <1>2, <1>3 DEF Occupies
  <2> QED BY <1>1, <1>2, <1>3, <2>1, <2>2, <2>3, SessionsMove
<1>5. \A u \in Turns : Unseen(u) /\ (Uses(u)' <=> Uses(u))
  BY DEF Unseen, Uses, InLine, Operating, Alone
<1>6. \A a \in Agents : LineFits(a)'
  BY <1>1, <1>5, LineStays
<1>7. AccessFits'
  BY <1>1, <1>5, AccessStays DEF BoxInv, AccessFits
<1>8. KeeperFits'
  BY <1>1 DEF BoxInv, KeeperFits
<1>9. BoxTyped'
  BY <1>1, <1>2 DEF BoxInv, BoxTyped
<1> QED BY <1>4, <1>6, <1>7, <1>8, <1>9 DEF SandboxInv, BoxInv

LEMMA LeavesAlone ==
  ASSUME SandboxInv, NEW t \in Turns, turn[t] \notin Outside, NEW to \in {"queued", "ended"}, LeaveGate(t, to),
         UNCHANGED inner
  PROVE  GateInv' /\ Alone(t) /\ turn'[t] = to /\ UNCHANGED maintenance
<1>1. turn \in [Turns -> Places] /\ t \in active
  BY DEF SandboxInv, GateInv, GateTyped, Leased
<1>2. GateInv' /\ UNCHANGED maintenance
  BY <1>1, LeaveGateInv DEF SandboxInv, LeaveGate
<1>3. turn' = [turn EXCEPT ![t] = to]
  BY DEF LeaveGate, ReleaseLease
<1> QED BY <1>1, <1>2, <1>3 DEF Alone

LEMMA ReserveInv ==
  ASSUME SandboxInv, NEW t \in Turns, Reserve(t)
  PROVE  SandboxInv'
<1>1. /\ turn[t] = "prepared" /\ turn[t] \notin Outside /\ "running" \in Places \ Outside
      /\ holder \in [Sessions -> Turns \cup {NoTurn}] /\ SessionOf[t] \in Sessions /\ NoTurn \notin Turns
  BY SandboxConstants, TurnAgent DEF Reserve, Outside, Places, SandboxInv, BoxInv, BoxTyped
<1>2. /\ UNCHANGED <<inner, bound>>
      /\ UNCHANGED <<saw, exclusive, frozen, line, access, viewers, used, box, pty, keeper, idleSaw, upkeep, faults>>
  BY DEF Reserve, operationVars, useVars, processVars, keepVars
<1>3. holder[SessionOf[t]] # t
  BY <1>1 DEF SandboxInv, BoxInv, SessionsFit, Occupies, Ensuring
<1>4. CASE SandboxSessionBusy(t)
  <2>1. LeaveGate(t, "queued") /\ holder' = holder
    BY <1>4 DEF Reserve
  <2>2. GateInv' /\ Alone(t) /\ turn'[t] = "queued" /\ UNCHANGED maintenance
    BY <1>1, <1>2, <2>1, LeavesAlone
  <2>3. PICK h \in Turns \cup {NoTurn} : h = holder[SessionOf[t]]
    BY <1>1
  <2>4. holder' = [holder EXCEPT ![SessionOf[t]] = h]
    BY <1>1, <2>1, <2>3
  <2> QED BY <1>1, <1>2, <1>3, <2>2, <2>3, <2>4, SessionChanges
<1>5. CASE ~SandboxSessionBusy(t)
  <2>1. Goto(t, "running") /\ UNCHANGED Gate /\ holder' = [holder EXCEPT ![SessionOf[t]] = t]
    BY <1>5 DEF Reserve
  <2>2. GateInv' /\ Alone(t) /\ turn'[t] = "running" /\ UNCHANGED maintenance
    BY <1>1, <1>2, <2>1, GoesOn
  <2>3. holder[SessionOf[t]] = NoTurn
    BY <1>5 DEF SandboxSessionBusy
  <2> QED BY <1>1, <1>2, <2>1, <2>2, <2>3, SessionChanges
<1> QED BY <1>4, <1>5

LEMMA EndTurnInv ==
  ASSUME SandboxInv, NEW t \in Turns, EndTurn(t)
  PROVE  SandboxInv'
<1>1. /\ turn[t] = "running" /\ turn[t] \notin Outside /\ SessionOf[t] \in Sessions /\ NoTurn \notin Turns
      /\ holder' = [holder EXCEPT ![SessionOf[t]] = NoTurn]
  BY SandboxConstants, TurnAgent DEF EndTurn, Outside
<1>2. /\ UNCHANGED <<inner, bound>> /\ LeaveGate(t, "ended")
      /\ UNCHANGED <<saw, exclusive, frozen, line, access, viewers, used, box, pty, keeper, idleSaw, upkeep, faults>>
  BY DEF EndTurn, operationVars, useVars, processVars, keepVars
<1>3. holder[SessionOf[t]] = t
  BY <1>1 DEF SandboxInv, BoxInv, SessionsFit, Occupies
<1>4. GateInv' /\ Alone(t) /\ turn'[t] = "ended" /\ UNCHANGED maintenance
  BY <1>1, <1>2, LeavesAlone
<1> QED BY <1>1, <1>2, <1>3, <1>4, SessionChanges

-----------------------------------------------------------------------------
(* The keeper, the process and the users of a sandbox *)

\* What the turns and the queues do not see.
LEMMA BoxOnly ==
  ASSUME SandboxInv, UNCHANGED gateVars, UNCHANGED <<saw, inner, bound, holder>>, UNCHANGED <<exclusive, frozen, line>>,
         UNCHANGED <<access, viewers, keeper>>,
         box' \in [Agents -> [status : Status, live : BOOLEAN]], used' \subseteq Agents, pty' \subseteq Agents,
         idleSaw' \in [Agents -> Status], upkeep' \in 0..MaxUpkeep, faults' \in 0..MaxFaults
  PROVE  SandboxInv'
<1>1. GateInv'
  BY SameGate DEF SandboxInv
<1>2. BoxTyped'
  BY DEF SandboxInv, BoxInv, BoxTyped
<1> QED BY <1>1, <1>2, FitsStill DEF SandboxInv, gateVars

LEMMA ReadIdleInv ==
  ASSUME SandboxInv, NEW a \in Agents, ReadIdle(a)
  PROVE  SandboxInv'
<1>1. BoxTyped
  BY DEF SandboxInv, BoxInv
<1>2. /\ UNCHANGED gateVars /\ UNCHANGED <<saw, inner, bound, holder>> /\ UNCHANGED <<exclusive, frozen, line>>
      /\ UNCHANGED <<access, viewers, keeper, box, pty, faults>>
      /\ idleSaw' = [idleSaw EXCEPT ![a] = box[a].status] /\ used' = used \ {a}
  BY DEF ReadIdle, sessionVars, operationVars, processVars
<1>3. box[a].status \in Status
  BY <1>1 DEF BoxTyped
<1>4. idleSaw' \in [Agents -> Status] /\ used' \subseteq Agents
  BY <1>1, <1>2, <1>3 DEF BoxTyped
<1>5. upkeep' \in 0..MaxUpkeep
  BY UpkeepCounted DEF ReadIdle
<1> QED BY <1>1, <1>2, <1>4, <1>5, BoxOnly DEF BoxTyped

LEMMA SandboxDiesInv ==
  ASSUME SandboxInv, NEW a \in Agents, SandboxDies(a)
  PROVE  SandboxInv'
<1>1. BoxTyped
  BY DEF SandboxInv, BoxInv
<1>2. /\ UNCHANGED gateVars /\ UNCHANGED <<saw, inner, bound, holder>> /\ UNCHANGED <<exclusive, frozen, line>>
      /\ UNCHANGED <<access, viewers, used, keeper, idleSaw, upkeep>>
      /\ box' = [box EXCEPT ![a].live = FALSE] /\ pty' = pty \ {a} /\ CountFault
  BY DEF SandboxDies, sessionVars, operationVars, useVars, keepVars
<1>3. box' \in [Agents -> [status : Status, live : BOOLEAN]]
  BY <1>1, <1>2, BoxLive
<1>4. faults' \in 0..MaxFaults /\ pty' \subseteq Agents
  BY <1>1, <1>2, FaultCounted DEF BoxTyped
<1> QED BY <1>1, <1>2, <1>3, <1>4, BoxOnly DEF BoxTyped

\* Users come and go.
LEMMA ViewersChange ==
  ASSUME SandboxInv, NEW a \in Agents, UNCHANGED gateVars, UNCHANGED <<saw, inner, bound, holder>>,
         UNCHANGED <<exclusive, frozen, line>>, UNCHANGED <<box, keeper, idleSaw, upkeep, faults>>, pty' \subseteq Agents,
         used' \subseteq Agents, NEW n \in 0..MaxViewers, NEW m \in Nat, m - access[a] = n - viewers[a],
         a \notin frozen,
         access' = [access EXCEPT ![a] = m], viewers' = [viewers EXCEPT ![a] = n]
  PROVE  SandboxInv'
<1>1. BoxInv /\ access \in [Agents -> Nat] /\ viewers \in [Agents -> 0..MaxViewers] /\ AccessFits
  BY DEF SandboxInv, BoxInv, BoxTyped
<1>2. GateInv'
  BY SameGate DEF SandboxInv
<1>3. /\ access' \in [Agents -> Nat] /\ viewers' \in [Agents -> 0..MaxViewers]
      /\ access'[a] = m /\ viewers'[a] = n
      /\ \A b \in Agents \ {a} : access'[b] = access[b] /\ viewers'[b] = viewers[b]
  BY <1>1
<1>4. BoxTyped'
  BY <1>1, <1>3 DEF BoxInv, BoxTyped
<1>5. AccessFits'
  <2>1. ASSUME NEW b \in Agents PROVE Using(b)' = Using(b)
    BY DEF Using, gateVars, AgentOfTurn
  <2>2. n \in Nat /\ m = n + Cardinality(Using(a))
    <3>1. n \in Nat
      BY SandboxConstants
    <3> QED BY <1>1, <3>1, UsingCounts
  <2> QED BY <1>1, <1>3, <2>1, <2>2 DEF AccessFits
<1>6. SessionsFit'
  BY <1>1 DEF BoxInv, SessionsFit, Occupies, gateVars
<1>7. \A b \in Agents : LineFits(b)'
  BY <1>1, LineStays DEF Unseen, gateVars
<1>8. KeeperFits'
  BY <1>1 DEF BoxInv, KeeperFits, gateVars
<1> QED BY <1>2, <1>4, <1>5, <1>6, <1>7, <1>8 DEF SandboxInv, BoxInv

LEMMA OpenAccessInv ==
  ASSUME SandboxInv, NEW a \in Agents, OpenAccess(a)
  PROVE  SandboxInv'
<1>1. BoxInv /\ viewers[a] \in 0..MaxViewers /\ access[a] \in Nat /\ MaxViewers \in Nat /\ pty \subseteq Agents
  BY SandboxConstants DEF SandboxInv, BoxInv, BoxTyped
<1>2. /\ UNCHANGED gateVars /\ UNCHANGED <<saw, inner, bound, holder>> /\ UNCHANGED <<exclusive, frozen, line>>
      /\ UNCHANGED <<box, pty, keeper, idleSaw, upkeep, faults>> /\ a \notin frozen /\ Use(a) /\ viewers[a] < MaxViewers
      /\ access' = [access EXCEPT ![a] = @ + 1] /\ viewers' = [viewers EXCEPT ![a] = @ + 1]
  BY DEF OpenAccess, sessionVars, operationVars, processVars, keepVars
<1>3. PICK n, m : n = viewers[a] + 1 /\ m = access[a] + 1
  OBVIOUS
<1>4. n \in 0..MaxViewers /\ m \in Nat /\ m - access[a] = n - viewers[a]
  BY <1>1, <1>2, <1>3
<1>5. access' = [access EXCEPT ![a] = m] /\ viewers' = [viewers EXCEPT ![a] = n]
  BY <1>2, <1>3
<1>6. used' \subseteq Agents
  BY <1>2, Marks
<1> QED BY <1>1, <1>2, <1>4, <1>5, <1>6, ViewersChange

LEMMA CloseAccessInv ==
  ASSUME SandboxInv, NEW a \in Agents, CloseAccess(a)
  PROVE  SandboxInv'
<1>1. BoxInv /\ viewers[a] \in 0..MaxViewers /\ access[a] \in Nat /\ MaxViewers \in Nat /\ pty \subseteq Agents
  BY SandboxConstants DEF SandboxInv, BoxInv, BoxTyped
<1>2. /\ UNCHANGED gateVars /\ UNCHANGED <<saw, inner, bound, holder>> /\ UNCHANGED <<exclusive, frozen, line>>
      /\ UNCHANGED <<box, keeper, idleSaw, upkeep, faults>> /\ Use(a) /\ viewers[a] > 0
      /\ access' = [access EXCEPT ![a] = @ - 1] /\ viewers' = [viewers EXCEPT ![a] = @ - 1]
      /\ pty' \subseteq Agents
  BY <1>1 DEF CloseAccess, ReleaseAccess, sessionVars, operationVars, keepVars
<1>3. PICK n, m : n = viewers[a] - 1 /\ m = access[a] - 1
  OBVIOUS
<1>4. access[a] > 0 /\ a \notin frozen
  BY <1>1, <1>2, UsingCounts DEF BoxInv, AccessFits
<1>5. n \in 0..MaxViewers /\ m \in Nat /\ m - access[a] = n - viewers[a]
  BY <1>1, <1>2, <1>3, <1>4
<1>6. access' = [access EXCEPT ![a] = m] /\ viewers' = [viewers EXCEPT ![a] = n]
  BY <1>2, <1>3
<1>7. used' \subseteq Agents
  BY <1>2, Marks
<1> QED BY <1>1, <1>2, <1>4, <1>5, <1>6, <1>7, ViewersChange

\* A stop or a removal takes the lease of the Agent and its place in the queue.
LEMMA LineUpInv ==
  ASSUME SandboxInv, NEW a \in Agents, NEW kind \in {"stop", "remove"}, LineUp(a, kind), keeper[a] = "none",
         UNCHANGED <<saw, inner, bound, holder>>,
         UNCHANGED <<exclusive, frozen, access, viewers, used, box, pty, idleSaw, faults>>, upkeep' \in 0..MaxUpkeep
  PROVE  SandboxInv'
<1>1. /\ BoxInv /\ LineFits(a) /\ line \in [Agents -> Seq(Turns \cup {"keeper"})]
      /\ keeper \in [Agents -> {"none", "lined", "check", "kill", "clear"}]
      /\ kind \in Upkeeps \ {"none"} /\ maintenance \in [Agents -> Upkeeps]
  BY DEF SandboxInv, BoxInv, BoxTyped, Upkeeps, GateInv, GateTyped
<1>2. /\ TakeMaintenance(a, kind) /\ line' = [line EXCEPT ![a] = Append(@, "keeper")]
      /\ keeper' = [keeper EXCEPT ![a] = "lined"]
      /\ UNCHANGED <<turn, aborted, pending, active, drain, dirty, limits, unannounced>>
  BY DEF LineUp
<1>3. GateInv' /\ maintenance' = [maintenance EXCEPT ![a] = kind]
  BY <1>1, <1>2, TakeMaintenanceInv DEF SandboxInv
<1>4. /\ line'[a] = Append(line[a], "keeper") /\ keeper'[a] = "lined"
      /\ \A b \in Agents \ {a} : line'[b] = line[b] /\ keeper'[b] = keeper[b]
      /\ line' \in [Agents -> Seq(Turns \cup {"keeper"})]
      /\ keeper' \in [Agents -> {"none", "lined", "check", "kill", "clear"}]
  BY <1>1, <1>2, AppendProperties
<1>5. \A u \in Turns : Unseen(u) /\ (Uses(u)' <=> Uses(u))
  BY <1>2 DEF Unseen, Uses
<1>6. "keeper" \notin ToSet(line[a])
  BY <1>1 DEF LineFits
<1>7. LineFits(a)'
  <2>1. "keeper" \notin Turns
    BY SandboxConstants
  <2> QED BY <1>1, <1>4, <1>5, <1>6, <2>1, LineJoined
<1>8. \A b \in Agents : LineFits(b)'
  BY <1>1, <1>4, <1>5, <1>7, OtherLines
<1>9. AccessFits'
  BY <1>1, <1>5, AccessStays DEF BoxInv, AccessFits
<1>10. SessionsFit'
  BY <1>1, <1>2 DEF BoxInv, SessionsFit, Occupies
<1>11. KeeperFits'
  BY <1>1, <1>3, <1>4 DEF BoxInv, KeeperFits
<1>12. BoxTyped'
  BY <1>1, <1>4 DEF BoxInv, BoxTyped
<1> QED BY <1>3, <1>8, <1>9, <1>10, <1>11, <1>12 DEF SandboxInv, BoxInv

\* It gives both back.
LEMMA KeeperLeaves ==
  ASSUME SandboxInv, NEW a \in Agents, keeper[a] # "none", First(a) = "keeper", StepAside(a), LeaveKeeping(a),
         UNCHANGED <<saw, inner, bound, holder>>, UNCHANGED <<access, viewers, pty, upkeep>>,
         exclusive'[a] = NoTurn, \A b \in Agents \ {a} : exclusive'[b] = exclusive[b],
         exclusive' \in [Agents -> Turns \cup {"keeper", NoTurn}], frozen' = frozen \ {a},
         box' \in [Agents -> [status : Status, live : BOOLEAN]], faults' \in 0..MaxFaults
  PROVE  SandboxInv'
<1>1. /\ BoxInv /\ LineFits(a) /\ line \in [Agents -> Seq(Turns \cup {"keeper"})]
      /\ keeper \in [Agents -> {"none", "lined", "check", "kill", "clear"}] /\ maintenance \in [Agents -> Upkeeps]
      /\ "keeper" \notin Turns \cup {NoTurn}
  BY SandboxConstants DEF SandboxInv, BoxInv, BoxTyped, GateInv, GateTyped
<1>2. /\ EndMaintenance(a) /\ keeper' = [keeper EXCEPT ![a] = "none"]
      /\ idleSaw' = [idleSaw EXCEPT ![a] = "none"] /\ used' = used \ {a}
      /\ maintenance' = [maintenance EXCEPT ![a] = "none"]
      /\ UNCHANGED <<turn, aborted, active, limits, unannounced>>
  BY DEF LeaveKeeping, ForgetIdle, EndMaintenance
<1>3. GateInv'
  BY <1>2, EndMaintenanceInv DEF SandboxInv
<1>4. line' = [line EXCEPT ![a] = Tail(@)] /\ line[a] # <<>>
  BY <1>1 DEF StepAside, First
<1>5. /\ line'[a] = Tail(line[a]) /\ keeper'[a] = "none"
      /\ \A b \in Agents \ {a} : line'[b] = line[b] /\ keeper'[b] = keeper[b]
      /\ line' \in [Agents -> Seq(Turns \cup {"keeper"})]
      /\ keeper' \in [Agents -> {"none", "lined", "check", "kill", "clear"}]
  BY <1>1, <1>2, <1>4, HeadTailProperties
<1>6. \A u \in Turns : Unseen(u) /\ (Uses(u)' <=> Uses(u))
  BY <1>2 DEF Unseen, Uses
<1>7. LineFits(a)'
  BY <1>1, <1>4, <1>5, <1>6, LineLeft
<1>8. \A b \in Agents : LineFits(b)'
  BY <1>1, <1>5, <1>6, <1>7, OtherLines
<1>9. AccessFits'
  BY <1>1, <1>6, AccessStays DEF BoxInv, AccessFits
<1>10. SessionsFit'
  BY <1>1, <1>2 DEF BoxInv, SessionsFit, Occupies
<1>11. KeeperFits'
  BY <1>1, <1>2, <1>5 DEF BoxInv, KeeperFits
<1>12. idleSaw' \in [Agents -> Status] /\ used' \subseteq Agents /\ frozen' \subseteq Agents
  BY <1>1, <1>2 DEF BoxInv, BoxTyped, Status
<1>13. BoxTyped'
  BY <1>1, <1>5, <1>12 DEF BoxInv, BoxTyped
<1> QED BY <1>3, <1>8, <1>9, <1>10, <1>11, <1>13 DEF SandboxInv, BoxInv

LEMMA KeepIdleInv ==
  ASSUME SandboxInv, NEW a \in Agents, KeepIdle(a)
  PROVE  SandboxInv'
<1>1. BoxTyped
  BY DEF SandboxInv, BoxInv
<1>2. /\ UNCHANGED <<saw, inner, bound, holder>> /\ UNCHANGED <<exclusive, frozen, access, viewers, box, pty, upkeep, faults>>
      /\ keeper[a] = "none"
  BY DEF KeepIdle, sessionVars, processVars
<1>3. CASE MayKeep(a)
  <2>1. PICK kind \in {"stop", "remove"} : LineUp(a, kind) /\ UNCHANGED <<idleSaw, used>>
    BY <1>3 DEF KeepIdle
  <2> QED BY <1>1, <1>2, <2>1, LineUpInv DEF BoxTyped
<1>4. CASE ~MayKeep(a)
  <2>1. ForgetIdle(a) /\ UNCHANGED gateVars /\ UNCHANGED <<line, keeper>>
    BY <1>4 DEF KeepIdle
  <2>2. idleSaw' \in [Agents -> Status] /\ used' \subseteq Agents
    BY <1>1, <2>1 DEF ForgetIdle, BoxTyped, Status
  <2> QED BY <1>1, <1>2, <2>1, <2>2, BoxOnly DEF BoxTyped
<1> QED BY <1>3, <1>4

LEMMA DeleteSandboxInv ==
  ASSUME SandboxInv, NEW a \in Agents, DeleteSandbox(a)
  PROVE  SandboxInv'
<1>1. /\ UNCHANGED <<saw, inner, bound, holder>>
      /\ UNCHANGED <<exclusive, frozen, access, viewers, used, box, pty, idleSaw, faults>>
      /\ keeper[a] = "none" /\ LineUp(a, "remove")
  BY DEF DeleteSandbox, sessionVars, useVars, processVars
<1>2. upkeep' \in 0..MaxUpkeep
  BY UpkeepCounted DEF DeleteSandbox
<1> QED BY <1>1, <1>2, LineUpInv

\* Who keeps a sandbox is first in its queue, and nobody uses it.
LEMMA KeepsAlone ==
  ASSUME SandboxInv, NEW a \in Agents, keeper[a] \in Keeping
  PROVE  a \in frozen /\ First(a) = "keeper" /\ line[a] # <<>>
<1>1. LineFits(a)
  BY DEF SandboxInv, BoxInv
<1> QED BY <1>1 DEF LineFits

\* Its operation goes on.
LEMMA KeepsOn ==
  ASSUME SandboxInv, NEW a \in Agents, keeper[a] \in Keeping, NEW to \in {"kill", "clear"},
         keeper' = [keeper EXCEPT ![a] = to], UNCHANGED gateVars, UNCHANGED <<saw, inner, bound, holder>>,
         UNCHANGED <<exclusive, frozen, line>>, UNCHANGED <<access, viewers, used, idleSaw, upkeep, faults>>,
         box' \in [Agents -> [status : Status, live : BOOLEAN]], pty' \subseteq Agents
  PROVE  SandboxInv'
<1>1. BoxInv /\ keeper \in [Agents -> {"none", "lined", "check", "kill", "clear"}] /\ LineFits(a)
  BY DEF SandboxInv, BoxInv, BoxTyped
<1>2. /\ keeper' \in [Agents -> {"none", "lined", "check", "kill", "clear"}] /\ keeper'[a] = to
      /\ \A b \in Agents \ {a} : keeper'[b] = keeper[b]
  BY <1>1
<1>3. \A b \in Agents : (keeper'[b] # "none" <=> keeper[b] # "none") /\ (keeper'[b] \in Keeping <=> keeper[b] \in Keeping)
  BY <1>2 DEF Keeping
<1>4. \A u \in Turns : Unseen(u) /\ (Uses(u)' <=> Uses(u))
  BY DEF Unseen, Uses, gateVars
<1>5. \A b \in Agents : LineFits(b)'
  BY <1>1, <1>3, <1>4, LineStays
<1>6. AccessFits'
  BY <1>1, <1>4, AccessStays DEF BoxInv, AccessFits
<1>7. SessionsFit'
  BY <1>1 DEF BoxInv, SessionsFit, Occupies, gateVars
<1>8. KeeperFits'
  BY <1>1, <1>3 DEF BoxInv, KeeperFits, gateVars
<1>9. BoxTyped'
  BY <1>1, <1>2 DEF BoxInv, BoxTyped
<1> QED BY <1>5, <1>6, <1>7, <1>8, <1>9, SameGate DEF SandboxInv, BoxInv

LEMMA BeginKeepingInv ==
  ASSUME SandboxInv, NEW a \in Agents, BeginKeeping(a)
  PROVE  SandboxInv'
<1>1. /\ keeper[a] = "lined" /\ First(a) = "keeper" /\ a \notin frozen
      /\ UNCHANGED <<saw, inner, bound, holder>> /\ UNCHANGED <<access, viewers, box, pty, upkeep, faults>>
  BY DEF BeginKeeping, ItsTurn, sessionVars, processVars
<1>2. /\ BoxInv /\ exclusive \in [Agents -> Turns \cup {"keeper", NoTurn}] /\ exclusive[a] = NoTurn
      /\ keeper \in [Agents -> {"none", "lined", "check", "kill", "clear"}]
      /\ "keeper" \notin Turns \cup {NoTurn} /\ line[a] # <<>>
  <2>1. "keeper" \notin Turns \cup {NoTurn}
    BY SandboxConstants
  <2> QED BY <1>1, <2>1, Operates DEF SandboxInv, BoxInv, BoxTyped, First
<1>3. CASE ExclusiveRefused(a, {}) \/ access[a] > 0
  <2>1. StepAside(a) /\ LeaveKeeping(a) /\ UNCHANGED <<exclusive, frozen>>
    BY <1>3 DEF BeginKeeping
  <2>2. frozen' = frozen \ {a}
    BY <1>1, <2>1
  <2> QED BY <1>1, <1>2, <2>1, <2>2, KeeperLeaves DEF BoxInv, BoxTyped
<1>4. CASE ~(ExclusiveRefused(a, {}) \/ access[a] > 0)
  <2>1. /\ exclusive' = [exclusive EXCEPT ![a] = "keeper"] /\ frozen' = frozen \cup {a}
        /\ keeper' = [keeper EXCEPT ![a] = "check"] /\ UNCHANGED gateVars /\ UNCHANGED <<line, idleSaw, used>>
    BY <1>4 DEF BeginKeeping, KeeperStep
  <2>2. access[a] = 0
    <3>1. access[a] \in Nat
      BY <1>2 DEF BoxInv, BoxTyped
    <3> QED BY <1>4, <3>1
  <2>3. /\ exclusive'[a] = "keeper" /\ (\A b \in Agents \ {a} : exclusive'[b] = exclusive[b])
        /\ exclusive' \in [Agents -> Turns \cup {"keeper", NoTurn}]
        /\ keeper'[a] = "check" /\ (\A b \in Agents \ {a} : keeper'[b] = keeper[b])
        /\ keeper' \in [Agents -> {"none", "lined", "check", "kill", "clear"}]
    BY <1>2, <2>1
  <2>4. \A u \in Turns : Unseen(u) /\ (Uses(u)' <=> Uses(u))
    BY <2>1 DEF Unseen, Uses, gateVars
  <2>5. LineFits(a)'
    BY <1>1, <1>2, <2>1, <2>3, <2>4, LineOperates DEF ItsTurn
  <2>6. \A b \in Agents : LineFits(b)'
    BY <1>2, <2>1, <2>3, <2>4, <2>5, OtherLines
  <2>7. AccessFits'
    <3>1. \A b \in Agents : b \in frozen' => access[b] = 0
      BY <1>2, <2>1, <2>2 DEF BoxInv, AccessFits
    <3> QED BY <1>1, <1>2, <2>4, <3>1, AccessStays
  <2>8. SessionsFit'
    BY <1>1, <1>2, <2>1 DEF BoxInv, SessionsFit, Occupies, gateVars
  <2>9. KeeperFits'
    BY <1>1, <1>2, <2>1, <2>3 DEF BoxInv, KeeperFits, gateVars
  <2>10. BoxTyped'
    BY <1>1, <1>2, <2>1, <2>3 DEF BoxInv, BoxTyped
  <2> QED BY <2>1, <2>6, <2>7, <2>8, <2>9, <2>10, SameGate DEF SandboxInv, BoxInv
<1> QED BY <1>3, <1>4

\* An end of its operation.
LEMMA KeepingEnds ==
  ASSUME SandboxInv, NEW a \in Agents, keeper[a] \in Keeping, EndOperation(a), LeaveKeeping(a),
         UNCHANGED <<saw, inner, bound, holder>>, UNCHANGED <<access, viewers, pty, upkeep>>,
         box' \in [Agents -> [status : Status, live : BOOLEAN]], faults' \in 0..MaxFaults
  PROVE  SandboxInv'
<1>1. First(a) = "keeper" /\ keeper[a] # "none"
  BY KeepsAlone DEF Keeping
<1> QED BY <1>1, OperationEnds, KeeperLeaves

LEMMA CheckKeepingInv ==
  ASSUME SandboxInv, NEW a \in Agents, CheckKeeping(a)
  PROVE  SandboxInv'
<1>1. /\ keeper[a] = "check" /\ keeper[a] \in Keeping /\ BoxTyped
      /\ UNCHANGED <<saw, inner, bound, holder>> /\ UNCHANGED <<access, viewers, pty, upkeep, faults>>
  BY DEF CheckKeeping, Keeping, sessionVars, SandboxInv, BoxInv
<1>2. CASE Spared(a)
  <2>1. EndOperation(a) /\ LeaveKeeping(a) /\ UNCHANGED box
    BY <1>2 DEF CheckKeeping
  <2> QED BY <1>1, <2>1, KeepingEnds DEF BoxTyped
<1>3. CASE ~Spared(a)
  <2>1. PICK v : v = IF maintenance[a] = "stop" THEN "stopping" ELSE "deleting"
    OBVIOUS
  <2>2. v \in Status /\ box' = [box EXCEPT ![a].status = v]
    BY <1>3, <2>1 DEF CheckKeeping, Status
  <2>3. /\ keeper' = [keeper EXCEPT ![a] = "kill"] /\ UNCHANGED gateVars /\ UNCHANGED <<exclusive, frozen, line>>
        /\ UNCHANGED <<idleSaw, used>>
    BY <1>3 DEF CheckKeeping, KeeperStep, operationVars
  <2>4. box' \in [Agents -> [status : Status, live : BOOLEAN]]
    BY <1>1, <2>2, BoxStatus
  <2> QED BY <1>1, <2>3, <2>4, KeepsOn DEF BoxTyped
<1> QED BY <1>2, <1>3

LEMMA KillProcessInv ==
  ASSUME SandboxInv, NEW a \in Agents, KillProcess(a)
  PROVE  SandboxInv'
<1>1. /\ keeper[a] \in Keeping /\ BoxTyped /\ keeper' = [keeper EXCEPT ![a] = "clear"]
      /\ UNCHANGED gateVars /\ UNCHANGED <<saw, inner, bound, holder>> /\ UNCHANGED <<exclusive, frozen, line>>
      /\ UNCHANGED <<access, viewers, used, idleSaw, upkeep, faults>>
      /\ box' = [box EXCEPT ![a].live = FALSE] /\ pty' = pty \ {a}
  BY DEF KillProcess, KeeperStep, Keeping, sessionVars, operationVars, useVars, SandboxInv, BoxInv
<1>2. box' \in [Agents -> [status : Status, live : BOOLEAN]] /\ pty' \subseteq Agents
  BY <1>1, BoxLive DEF BoxTyped
<1> QED BY <1>1, <1>2, KeepsOn

LEMMA FinishKeepingInv ==
  ASSUME SandboxInv, NEW a \in Agents, FinishKeeping(a)
  PROVE  SandboxInv'
<1>1. /\ keeper[a] \in Keeping /\ BoxTyped /\ EndOperation(a) /\ LeaveKeeping(a)
      /\ UNCHANGED <<saw, inner, bound, holder>> /\ UNCHANGED <<access, viewers, pty, upkeep, faults>>
  BY DEF FinishKeeping, Keeping, sessionVars, SandboxInv, BoxInv
<1>2. PICK v : v = IF maintenance[a] = "stop" THEN "stopped" ELSE "gone"
  OBVIOUS
<1>3. v \in Status /\ box' = [box EXCEPT ![a].status = v]
  BY <1>2 DEF FinishKeeping, Status
<1>4. box' \in [Agents -> [status : Status, live : BOOLEAN]]
  BY <1>1, <1>3, BoxStatus
<1> QED BY <1>1, <1>4, KeepingEnds DEF BoxTyped

LEMMA KeepingFailsInv ==
  ASSUME SandboxInv, NEW a \in Agents, KeepingFails(a)
  PROVE  SandboxInv'
<1>1. /\ keeper[a] \in Keeping /\ BoxTyped /\ EndOperation(a) /\ LeaveKeeping(a) /\ CountFault
      /\ UNCHANGED <<saw, inner, bound, holder>> /\ UNCHANGED <<access, viewers, box, pty, upkeep>>
  BY DEF KeepingFails, Keeping, sessionVars, processVars, SandboxInv, BoxInv
<1> QED BY <1>1, FaultCounted, KeepingEnds DEF BoxTyped

-----------------------------------------------------------------------------
(* Every step *)

LEMMA SandboxInit == Init => SandboxInv
<1> SUFFICES ASSUME Init PROVE SandboxInv
  OBVIOUS
<1>1. /\ turn = [t \in Turns |-> "none"] /\ aborted = {} /\ pending = <<>> /\ active = {} /\ drain = Idle
      /\ dirty = FALSE /\ limits \in Limits /\ unannounced = FALSE /\ maintenance = [a \in Agents |-> "none"]
  BY DEF Init, GateInit
<1>2. /\ inner = [t \in Turns |-> FALSE] /\ bound = {} /\ holder = [s \in Sessions |-> NoTurn]
      /\ exclusive = [a \in Agents |-> NoTurn] /\ frozen = {} /\ access = [a \in Agents |-> 0]
      /\ viewers = [a \in Agents |-> 0] /\ line = [a \in Agents |-> <<>>] /\ keeper = [a \in Agents |-> "none"]
      /\ box = [a \in Agents |-> [status |-> "none", live |-> FALSE]]
  BY DEF Init
<1>3. pending \in Seq(Turns) /\ ToSet(pending) = {} /\ IsInjective(pending) /\ DOMAIN pending = {}
  BY <1>1, EmptySeq DEF ToSet, IsInjective
<1>4. GateTyped
  BY <1>1, <1>3 DEF GateTyped, Places, Upkeeps
<1>5. Leased /\ Calm /\ Informed /\ WaitsForAReason
  BY <1>1, <1>3, LoopAt DEF Leased, Calm, Informed, WaitsForAReason, ActiveOf, Outside
<1>6. BoxTyped
  <2>1. {MaxViewers, MaxUpkeep, MaxFaults} \subseteq Nat
    BY SandboxConstants
  <2>2. line \in [Agents -> Seq(Turns \cup {"keeper"})]
    BY <1>2, EmptySeq
  <2>3. box \in [Agents -> [status : Status, live : BOOLEAN]]
    BY <1>2 DEF Status
  <2> QED BY <1>2, <2>1, <2>2, <2>3 DEF Init, BoxTyped, Status
<1>7. SessionsFit
  BY <1>1, <1>2, SandboxConstants DEF SessionsFit, Occupies
<1>8. AccessFits
  <2>1. ASSUME NEW a \in Agents PROVE Using(a) = {}
    BY <1>1 DEF Using
  <2>2. ASSUME NEW a \in Agents PROVE Cardinality(Using(a)) = 0
    BY <2>1, FS_EmptySet
  <2>3. ASSUME NEW a \in Agents PROVE access[a] = 0 /\ viewers[a] = 0
    BY <1>2
  <2> QED BY <2>2, <2>3 DEF AccessFits
<1>9. ASSUME NEW a \in Agents PROVE LineFits(a)
  <2>1. line[a] = <<>> /\ ToSet(line[a]) = {} /\ IsInjective(line[a])
    BY <1>2, EmptySeq DEF ToSet, IsInjective
  <2> QED BY <1>1, <1>2, <2>1 DEF LineFits, InLine, Keeping
<1>10. KeeperFits
  BY <1>1, <1>2 DEF KeeperFits
<1> QED BY <1>4, <1>5, <1>6, <1>7, <1>8, <1>9, <1>10 DEF SandboxInv, GateInv, BoxInv

LEMMA TurnStepInv ==
  ASSUME SandboxInv, NEW t \in Turns, TurnStep(t) \/ EndTurn(t) \/ Submit(t) \/ EnsureAgain(t) \/ BootFails(t)
  PROVE  SandboxInv'
<1>1. CASE RequestLease(t) /\ UNCHANGED boxVars
  BY <1>1, RequestLeaseStep
<1>2. CASE Prepare(t) \/ Reuse(t) \/ Bind(t) \/ Reused(t) \/ Enqueue(t)
  BY <1>2, PrepareInv, ReuseInv, BindInv, ReusedInv, EnqueueInv
<1>3. CASE BeginStart(t) \/ Start(t) \/ Booted(t) \/ Reserve(t)
  BY <1>3, BeginStartInv, StartInv, BootedInv, ReserveInv
<1>4. CASE EndTurn(t) \/ Submit(t) \/ EnsureAgain(t) \/ BootFails(t)
  BY <1>4, EndTurnInv, SubmitInv, EnsureAgainInv, BootFailsInv
<1> QED BY <1>1, <1>2, <1>3, <1>4 DEF TurnStep

LEMMA KeepingStepInv ==
  ASSUME SandboxInv, NEW a \in Agents,
         \/ KeepingStep(a) \/ EndUpkeep(a) \/ ReadIdle(a) \/ DeleteSandbox(a) \/ KeepingFails(a) \/ SandboxDies(a)
         \/ OpenAccess(a) \/ CloseAccess(a) \/ BeginUpkeep(a, "draft") \/ BeginUpkeep(a, "change")
  PROVE  SandboxInv'
<1>1. CASE KeepingStep(a)
  BY <1>1, KeepIdleInv, BeginKeepingInv, CheckKeepingInv, KillProcessInv, FinishKeepingInv DEF KeepingStep
<1>2. CASE EndUpkeep(a) \/ ReadIdle(a) \/ DeleteSandbox(a) \/ KeepingFails(a) \/ SandboxDies(a)
  BY <1>2, EndUpkeepInv, ReadIdleInv, DeleteSandboxInv, KeepingFailsInv, SandboxDiesInv
<1>3. CASE OpenAccess(a) \/ CloseAccess(a)
  BY <1>3, OpenAccessInv, CloseAccessInv
<1>4. CASE BeginUpkeep(a, "draft") \/ BeginUpkeep(a, "change")
  BY <1>4, BeginUpkeepInv
<1> QED BY <1>1, <1>2, <1>3, <1>4

LEMMA SandboxStep == SandboxInv /\ [Next]_vars => SandboxInv'
<1> SUFFICES ASSUME SandboxInv, [Next]_vars PROVE SandboxInv'
  OBVIOUS
<1>1. CASE UNCHANGED vars
  <2>1. UNCHANGED gateVars /\ UNCHANGED boxVars
    BY <1>1 DEF vars
  <2> QED BY <2>1, BoxOnly DEF SandboxInv, BoxInv, BoxTyped, boxVars, sessionVars, operationVars, useVars, processVars, keepVars
<1>2. CASE \E t \in Turns : TurnStep(t) \/ EndTurn(t)
  BY <1>2, TurnStepInv
<1>3. CASE GateStep
  BY <1>3, GateStepInv
<1>4. CASE AnnounceLimits /\ UNCHANGED boxVars
  BY <1>4, AnnounceLimitsStep
<1>5. CASE \E a \in Agents : KeepingStep(a) \/ EndUpkeep(a)
  BY <1>5, KeepingStepInv
<1>6. CASE Environment
  <2>1. CASE \E t \in Turns : Submit(t) \/ EnsureAgain(t) \/ BootFails(t)
    BY <2>1, TurnStepInv
  <2>2. CASE \E t \in Cancellable : Abort(t) /\ UNCHANGED boxVars
    BY <2>2, AbortStep
  <2>3. CASE /\ ReadLimitsFails /\ CountFault
             /\ UNCHANGED <<sessionVars, operationVars, useVars, processVars, keepVars>>
    BY <2>3, ReadLimitsFailsStep
  <2>4. CASE /\ SaveLimits /\ upkeep < MaxUpkeep /\ upkeep' = upkeep + 1
             /\ UNCHANGED <<sessionVars, operationVars, useVars, processVars, keeper, idleSaw, faults>>
    BY <2>4, SaveLimitsStep
  <2>5. CASE \E a \in Agents :
               \/ ReadIdle(a) \/ DeleteSandbox(a) \/ KeepingFails(a) \/ SandboxDies(a)
               \/ OpenAccess(a) \/ CloseAccess(a)
               \/ BeginUpkeep(a, "draft") \/ BeginUpkeep(a, "change")
    BY <2>5, KeepingStepInv
  <2> QED BY <1>6, <2>1, <2>2, <2>3, <2>4, <2>5 DEF Environment
<1> QED BY <1>1, <1>2, <1>3, <1>4, <1>5, <1>6 DEF Next

LEMMA SandboxInvariant == Spec => []SandboxInv
BY SandboxInit, SandboxStep, PTL DEF Spec

\* A keeper that kills a process has found nobody: nothing executes in an Agent
\* that is maintained, and nothing is used in a sandbox that is frozen.
LEMMA KillsNobody ==
  ASSUME SandboxInv, NEW a \in Agents, keeper[a] \in Keeping
  PROVE  Users(a) = {} /\ viewers[a] = 0
<1>1. maintenance[a] \in {"stop", "remove"} /\ a \in frozen /\ access[a] = 0
  BY KeepsAlone DEF SandboxInv, BoxInv, KeeperFits, Keeping, AccessFits
<1>2. ActiveOf(a, active) = {}
  BY <1>1 DEF SandboxInv, GateInv, Calm, InMaintenance
<1>3. ASSUME NEW t \in Turns, AgentOfTurn(t) = a,
             inner[t] \/ At(t, {"reusing", "binding", "prepared", "running"})
      PROVE  t \in active
  <2>1. inner[t] => turn[t] \in Ensuring
    BY DEF SandboxInv, BoxInv, SessionsFit
  <2>2. turn[t] \notin Outside
    BY <1>3, <2>1 DEF At, Ensuring, Outside
  <2> QED BY <2>2 DEF SandboxInv, GateInv, Leased
<1>4. Users(a) = {}
  BY <1>2, <1>3 DEF Users, ActiveOf
<1>5. viewers[a] = 0
  BY <1>1, UsingCounts DEF SandboxInv
<1> QED BY <1>4, <1>5

\* Whose step takes the process of a sandbox away.
LEMMA LivesOn ==
  ASSUME SandboxInv, [Next]_vars, NEW a \in Agents, box[a].live, ~box'[a].live
  PROVE  SandboxDies(a) \/ KillProcess(a)
<1>1. BoxTyped /\ box # box'
  BY DEF SandboxInv, BoxInv
<1>2. ASSUME NEW t \in Turns PROVE ~Allocate(t)
  BY Allocates
<1>3. ASSUME NEW t \in Turns PROVE ~Start(t)
  <2> SUFFICES ASSUME Start(t) PROVE FALSE
    OBVIOUS
  <2>1. PICK b \in Agents : b = AgentOfTurn(t)
    BY TurnAgent
  <2>2. ~box[b].live /\ box' = [box EXCEPT ![b] = [status |-> "provisioning", live |-> FALSE]]
    BY <1>1, <2>1 DEF Start
  <2> QED BY <1>1, <2>2 DEF BoxTyped
<1>4. ASSUME NEW t \in Turns PROVE ~Booted(t) /\ ~BootFails(t)
  <2>1. PICK b \in Agents : b = AgentOfTurn(t)
    BY TurnAgent
  <2>2. ASSUME Booted(t) PROVE FALSE
    <3>1. box' = [box EXCEPT ![b] = [status |-> "running", live |-> TRUE]]
      BY <2>1, <2>2 DEF Booted
    <3> QED BY <1>1, <3>1 DEF BoxTyped
  <2>3. ASSUME BootFails(t) PROVE FALSE
    <3>1. box' = [box EXCEPT ![b].status = "error"] /\ "error" \in Status
      BY <2>1, <2>3 DEF BootFails, Status
    <3> QED BY <1>1, <3>1, BoxStatus
  <2> QED BY <2>2, <2>3
<1>5. ASSUME NEW b \in Agents PROVE ~CheckKeeping(b) /\ ~FinishKeeping(b)
  <2>1. ASSUME NEW v \in Status, box' = [box EXCEPT ![b].status = v] PROVE FALSE
    BY <1>1, <2>1, BoxStatus
  <2>2. {"stopping", "deleting", "stopped", "gone"} \subseteq Status
    BY DEF Status
  <2>3. ~CheckKeeping(b)
    BY <1>1, <2>1, <2>2 DEF CheckKeeping
  <2>4. ~FinishKeeping(b)
    BY <2>1, <2>2 DEF FinishKeeping
  <2> QED BY <2>3, <2>4
<1>6. ASSUME NEW b \in Agents, b # a PROVE ~KillProcess(b) /\ ~SandboxDies(b)
  BY <1>1, <1>6, BoxLive DEF KillProcess, SandboxDies
<1>7. ASSUME NEW t \in Turns PROVE ~(TurnStep(t) \/ EndTurn(t) \/ Submit(t) \/ EnsureAgain(t))
  <2>1. ~(RequestLease(t) /\ UNCHANGED boxVars) /\ ~Submit(t)
    BY <1>1 DEF boxVars, processVars, Submit
  <2>2. ~Prepare(t) /\ ~EnsureAgain(t)
    BY <1>1, <1>2 DEF Prepare, EnsureAgain, boxVars, processVars
  <2>3. ~Reuse(t) /\ ~Bind(t) /\ ~Reused(t) /\ ~Enqueue(t)
    BY <1>1 DEF Reuse, Bind, Reused, Enqueue, processVars
  <2>4. ~BeginStart(t) /\ ~Reserve(t) /\ ~EndTurn(t)
    BY <1>1 DEF BeginStart, Reserve, EndTurn, processVars
  <2> QED BY <1>3, <1>4, <2>1, <2>2, <2>3, <2>4 DEF TurnStep
<1>8. ASSUME NEW b \in Agents
      PROVE  /\ ~KeepIdle(b) /\ ~BeginKeeping(b) /\ ~EndUpkeep(b) /\ ~ReadIdle(b) /\ ~DeleteSandbox(b)
             /\ ~KeepingFails(b) /\ ~OpenAccess(b) /\ ~CloseAccess(b)
             /\ ~BeginUpkeep(b, "draft") /\ ~BeginUpkeep(b, "change")
  <2>1. ~KeepIdle(b) /\ ~BeginKeeping(b) /\ ~EndUpkeep(b)
    BY <1>1 DEF KeepIdle, BeginKeeping, EndUpkeep, boxVars, processVars
  <2>2. ~ReadIdle(b) /\ ~DeleteSandbox(b) /\ ~KeepingFails(b)
    BY <1>1 DEF ReadIdle, DeleteSandbox, KeepingFails, processVars
  <2>3. ~OpenAccess(b) /\ ~CloseAccess(b) /\ ~BeginUpkeep(b, "draft") /\ ~BeginUpkeep(b, "change")
    BY <1>1 DEF OpenAccess, CloseAccess, BeginUpkeep, processVars
  <2> QED BY <2>1, <2>2, <2>3
<1>9. ~(GateStep \/ (AnnounceLimits /\ UNCHANGED boxVars) \/ UNCHANGED vars)
  BY <1>1 DEF GateStep, vars, boxVars, processVars
<1>10. Environment => \E b \in Agents : SandboxDies(b)
  BY <1>1, <1>4, <1>7, <1>8 DEF Environment, boxVars, processVars
<1> QED BY <1>5, <1>6, <1>7, <1>8, <1>9, <1>10 DEF Next, KeepingStep

-----------------------------------------------------------------------------
(* The theorems *)

\* The two gates and the sandboxes stay within their types
\* (agents/agent-execution-gate.ts, agents/sandbox-execution-gate.ts,
\* sandboxes/lifecycle.ts), for any number of Agents, sessions and turns.
THEOREM GatesInType == Spec => []TypeOK
BY SandboxInvariant, InvTyped, PTL

\* No lease, access or place in a queue leaks: each belongs to a turn, a user or
\* a keeper that is still under way, whatever the order in which turns are
\* granted, refused, aborted and fail (withAgentExecutionLease and
\* withSandboxExecutionLease in their finally, beginAgentConversationSandboxAccess
\* in its release, enqueueSandboxOperation when its operation settles).
THEOREM AlwaysAccounted == Spec => []Accounted
BY SandboxInvariant, InvAccounts, PTL

\* While the loop of the gate sleeps, who waits has no place: a release, an abort,
\* an end of maintenance or new limits that arrive while it awaits the settings
\* mark it dirty, and it comes round again (drain of agents/agent-execution-gate.ts).
THEOREM AlwaysWaitsForAReason == Spec => []WaitsForAReason
<1>1. SandboxInv => WaitsForAReason
  BY DEF SandboxInv, GateInv
<1> QED BY <1>1, SandboxInvariant, PTL

\* A stop or a removal takes the process of a sandbox away only when no turn
\* counts on it and no user has a file or a terminal of it open: the lease of the
\* Agent keeps turns out, the freeze of withSandboxExecutionLease users
\* (stopIdleAgentConversationSandboxes, deleteAgentConversationSandboxes).
THEOREM NeverDisturbed == Spec => Undisturbed
<1>1. SandboxInv /\ [Next]_vars =>
        [\A a \in Agents : box[a].live /\ ~box'[a].live =>
           SandboxDies(a) \/ (Users(a) = {} /\ viewers[a] = 0)]_vars
  <2> SUFFICES ASSUME SandboxInv, [Next]_vars, NEW a \in Agents, box[a].live, ~box'[a].live
               PROVE  SandboxDies(a) \/ (Users(a) = {} /\ viewers[a] = 0)
    OBVIOUS
  <2>1. SandboxDies(a) \/ KillProcess(a)
    BY LivesOn
  <2>2. KillProcess(a) => keeper[a] \in Keeping
    BY DEF KillProcess, KeeperStep, Keeping
  <2> QED BY <2>1, <2>2, KillsNobody
<1> QED BY <1>1, SandboxInvariant, PTL DEF Spec, Undisturbed
=============================================================================
