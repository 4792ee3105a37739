-------------------------- MODULE McpSessionProofs --------------------------
(***************************************************************************)
(* The permits and the capability cell of McpSession, for any number of    *)
(* calls, permits and attempts.                                            *)
(***************************************************************************)
EXTENDS McpSession, FiniteSetTheorems, SequenceTheorems, TLAPS

AtCell == Probing \cup {"queued"}

\* A call asleep has an attempt left.
LeftInv == \A c \in Calls : op[c] \in Asleep => left[c] > 1

\* Every permit is free or with one running call.
PermitInv == free + Cardinality(RunningCalls) = Permits

\* Until the cell is set, the queue holds the calls at it, each once, and its
\* head alone probes.
CellInv ==
    /\ known # "unknown" => queue = <<>> /\ \A c \in Calls : op[c] \notin Probing
    /\ known = "unknown" =>
         /\ \A c \in Calls : op[c] \in AtCell => \E i \in 1..Len(queue) : queue[i] = c
         /\ \A i \in 1..Len(queue) : op[queue[i]] = "queued" \/ (i = 1 /\ op[queue[i]] \in Probing)
         /\ \A i \in 1..Len(queue) : i = 1 => op[queue[i]] \in Probing
         /\ \A i, j \in 1..Len(queue) : queue[i] = queue[j] => i = j

Inv == CallsTypeOK /\ LeftInv /\ PermitInv /\ CellInv

(* A call that is not at the cell leaves the queue as it is.               *)
LEMMA LeaveAbsent ==
  ASSUME NEW c \in Calls, queue \in Seq(Calls), \A i \in 1..Len(queue) : queue[i] # c
  PROVE  Leave(c) = queue
<1>1. DOMAIN queue = 1..Len(queue)
  BY LenProperties
<1> QED
  BY <1>1 DEF Leave, ToSet

(* The removal of a call from the queue closes the gap.                    *)
LEMMA LeavePlace ==
  ASSUME NEW c \in Calls, queue \in Seq(Calls), NEW k \in 1..Len(queue), queue[k] = c,
         \A i, j \in 1..Len(queue) : queue[i] = queue[j] => i = j
  PROVE  /\ Leave(c) \in Seq(Calls) /\ Len(Leave(c)) = Len(queue) - 1
         /\ \A i \in 1..(Len(queue) - 1) : Leave(c)[i] = queue[IF i < k THEN i ELSE i + 1]
<1>1. DOMAIN queue = 1..Len(queue) /\ Len(queue) \in Nat /\ queue \in [1..Len(queue) -> Calls]
  BY LenProperties
<1>2. c \in ToSet(queue)
  BY <1>1 DEF ToSet
<1>3. (CHOOSE i \in DOMAIN queue : queue[i] = c) = k
  BY <1>1
<1> DEFINE n == Len(queue) - 1
           s == [i \in 1..n |-> queue[IF i < k THEN i ELSE i + 1]]
<1>4. Leave(c) = s
  BY <1>2, <1>3 DEF Leave
<1>5. n \in Nat /\ s \in [1..n -> Calls]
  BY <1>1
<1>6. s \in Seq(Calls) /\ DOMAIN s = 1..n
  BY <1>5, SeqDef
<1>7. Len(s) = n
  BY <1>5, <1>6, LenProperties
<1> QED
  BY <1>4, <1>6, <1>7

(* The calls are finitely many.                                            *)
LEMMA CallsAreFinite == ASSUME NEW S \in SUBSET Calls PROVE IsFiniteSet(S) /\ Cardinality(S) \in Nat
BY SessionAssumption, FS_Subset, FS_CardinalityType

(* What a call that ends leaves behind.                                    *)
LEMMA EndStep ==
  ASSUME Inv, NEW c \in Calls, Running(c), NEW how \in Answers, End(c, how), UNCHANGED known
  PROVE  Inv'
<1> USE DEF Inv
<1>a. MaxAttempts \in Nat \ {0} /\ Permits \in Nat \ {0}
  BY SessionAssumption
<1>0. queue \in Seq(Calls) /\ Len(queue) \in Nat /\ DOMAIN queue = 1..Len(queue)
      /\ queue \in [1..Len(queue) -> Calls]
  BY LenProperties DEF CallsTypeOK
<1>1. \/ /\ Leave(c) = queue /\ NextProber(c) = {}
         /\ known = "unknown" => \A i \in 1..Len(queue) : queue[i] # c
      \/ /\ known = "unknown" /\ op[c] \in AtCell
         /\ Leave(c) \in Seq(Calls) /\ Len(Leave(c)) = Len(queue) - 1
         /\ \E k \in 1..Len(queue) :
              /\ queue[k] = c
              /\ \A i \in 1..(Len(queue) - 1) : Leave(c)[i] = queue[IF i < k THEN i ELSE i + 1]
              /\ NextProber(c) = IF k = 1 /\ Len(queue) > 1 THEN {queue[2]} ELSE {}
  <2>1. CASE known # "unknown"
    <3>1. queue = <<>> /\ op[c] \notin Probing
      BY <2>1 DEF CellInv
    <3>2. Leave(c) = queue
      BY <3>1, <1>0, LeaveAbsent, EmptySeq
    <3> QED
      BY <2>1, <3>1, <3>2 DEF NextProber
  <2>2. CASE known = "unknown" /\ op[c] \notin AtCell
    <3>1. \A i \in 1..Len(queue) : queue[i] # c
      BY <2>2 DEF CellInv, AtCell
    <3>2. Leave(c) = queue
      BY <3>1, <1>0, LeaveAbsent
    <3> QED
      BY <2>2, <3>1, <3>2 DEF NextProber, AtCell
  <2>3. CASE known = "unknown" /\ op[c] \in AtCell
    <3>1. PICK k \in 1..Len(queue) : queue[k] = c
      BY <2>3 DEF CellInv
    <3>2. \A i, j \in 1..Len(queue) : queue[i] = queue[j] => i = j
      BY <2>3 DEF CellInv
    <3>3. /\ Leave(c) \in Seq(Calls) /\ Len(Leave(c)) = Len(queue) - 1
          /\ \A i \in 1..(Len(queue) - 1) : Leave(c)[i] = queue[IF i < k THEN i ELSE i + 1]
      BY <1>0, <3>1, <3>2, LeavePlace
    <3>4. op[c] \in Probing <=> k = 1
      BY <2>3, <3>1 DEF CellInv, Probing
    <3>5. CASE k = 1 /\ Len(queue) > 1
      <4>1. Leave(c) # <<>> /\ Head(Leave(c)) = queue[2]
        BY <3>3, <3>5, <1>0
      <4> QED
        BY <4>1, <2>3, <3>1, <3>3, <3>4, <3>5 DEF NextProber
    <3>6. CASE ~(k = 1 /\ Len(queue) > 1)
      <4>1. k = 1 => Leave(c) = <<>>
        BY <3>3, <3>6, <1>0, EmptySeq
      <4> QED
        BY <4>1, <2>3, <3>1, <3>3, <3>4, <3>6 DEF NextProber
    <3> QED
      BY <3>5, <3>6
  <2> QED
    BY <2>1, <2>2, <2>3
<1>2. NextProber(c) \subseteq Calls /\ \A x \in NextProber(c) : op[x] = "queued" /\ x # c
  <2>1. CASE NextProber(c) = {}
    BY <2>1
  <2>2. CASE known = "unknown" /\ queue[1] = c /\ Len(queue) > 1 /\ NextProber(c) = {queue[2]}
    BY <2>2, <1>0 DEF CellInv
  <2> QED
    BY <1>1, <2>1, <2>2
<1>3. /\ op' = [x \in Calls |-> IF x = c THEN "over"
                               ELSE IF x \in NextProber(c) THEN "probing" ELSE op[x]]
      /\ left' = [x \in Calls |-> IF x = c THEN 0
                                 ELSE IF x \in NextProber(c) THEN MaxAttempts ELSE left[x]]
      /\ queue' = Leave(c) /\ free' = free + 1
      /\ late' = late \ {c} /\ ct' = ct \ {c}
  BY DEF End
<1>4. PermitInv'
  <2>1. RunningCalls' = RunningCalls \ {c} /\ c \in RunningCalls
    BY <1>2, <1>3 DEF RunningCalls, Running
  <2>2. RunningCalls \subseteq Calls
    BY DEF RunningCalls
  <2>3. IsFiniteSet(RunningCalls) /\ Cardinality(RunningCalls) \in Nat
    BY <2>2, CallsAreFinite
  <2>4. Cardinality(RunningCalls \ {c}) = Cardinality(RunningCalls) - 1
    BY <2>1, <2>3, FS_RemoveElement
  <2>5. free \in Nat /\ free + Cardinality(RunningCalls) = Permits
    BY <1>a DEF CallsTypeOK, PermitInv
  <2>6. free' + Cardinality(RunningCalls)' = Permits
    BY <2>1, <2>3, <2>4, <2>5, <1>3
  <2> QED
    BY <2>6 DEF PermitInv
<1>5. CallsTypeOK'
  <2>1. free' \in 0..Permits
    BY <1>3, <1>4, <1>a, CallsAreFinite DEF PermitInv, RunningCalls, CallsTypeOK
  <2>2. queue' \in Seq(Calls)
    BY <1>0, <1>1, <1>3
  <2>3. outbox' \subseteq {Reply(x, a) : x \in Calls, a \in Answers}
    <3>1. Outcome(c, how) \in Answers
      BY DEF Outcome, Answers
    <3> QED
      BY <3>1 DEF End, CallsTypeOK
  <2>4. op' \in [Calls -> Steps] /\ left' \in [Calls -> 0..MaxAttempts]
    BY <1>2, <1>3, <1>a DEF CallsTypeOK, Steps
  <2> QED
    BY <1>3, <2>1, <2>2, <2>3, <2>4 DEF CallsTypeOK
<1>6. LeftInv'
  BY <1>3 DEF LeftInv, Asleep
<1>7. CellInv'
  <2>1. CASE Leave(c) = queue /\ NextProber(c) = {}
             /\ (known = "unknown" => \A i \in 1..Len(queue) : queue[i] # c)
    BY <1>0, <1>3, <2>1 DEF CellInv, AtCell, Probing
  <2>2. ASSUME NEW k \in 1..Len(queue),
               known = "unknown", op[c] \in AtCell, queue[k] = c,
               Len(Leave(c)) = Len(queue) - 1,
               \A i \in 1..(Len(queue) - 1) : Leave(c)[i] = queue[IF i < k THEN i ELSE i + 1],
               NextProber(c) = IF k = 1 /\ Len(queue) > 1 THEN {queue[2]} ELSE {}
        PROVE  CellInv'
    <3>0. /\ \A x \in Calls : op[x] \in AtCell => \E i \in 1..Len(queue) : queue[i] = x
          /\ \A i \in 1..Len(queue) : op[queue[i]] = "queued" \/ (i = 1 /\ op[queue[i]] \in Probing)
          /\ \A i \in 1..Len(queue) : i = 1 => op[queue[i]] \in Probing
          /\ \A i, j \in 1..Len(queue) : queue[i] = queue[j] => i = j
      BY <2>2 DEF CellInv
    <3>1. ASSUME NEW x \in Calls, op'[x] \in AtCell PROVE \E i \in 1..Len(queue') : queue'[i] = x
      <4>1. x # c /\ op[x] \in AtCell
        BY <3>1, <1>2, <1>3 DEF AtCell, Probing
      <4>2. PICK i \in 1..Len(queue) : queue[i] = x
        BY <3>0, <4>1
      <4>3. i # k
        BY <4>1, <4>2, <2>2
      <4>4. CASE i < k
        BY <4>2, <4>4, <2>2, <1>3, <1>0
      <4>5. CASE i > k
        <5>1. i - 1 \in 1..(Len(queue) - 1) /\ queue'[i - 1] = x
          BY <4>2, <4>5, <2>2, <1>3, <1>0
        <5> QED
          BY <5>1, <2>2, <1>3
      <4> QED
        BY <4>3, <4>4, <4>5, <1>0
    <3>2. ASSUME NEW i \in 1..Len(queue')
          PROVE  /\ op'[queue'[i]] = "queued" \/ (i = 1 /\ op'[queue'[i]] \in Probing)
                 /\ i = 1 => op'[queue'[i]] \in Probing
      <4> DEFINE j == IF i < k THEN i ELSE i + 1
      <4>1. j \in 1..Len(queue) /\ j # k /\ queue'[i] = queue[j] /\ queue[j] \in Calls
        BY <2>2, <1>0, <1>3
      <4>2. queue[j] # c
        BY <4>1, <3>0, <2>2
      <4>3. CASE k = 1 /\ i = 1
        BY <4>1, <4>2, <4>3, <2>2, <1>0, <1>3 DEF Probing
      <4>4. CASE k = 1 /\ i # 1
        <5>1. j > 2 /\ queue[j] \notin NextProber(c)
          BY <4>1, <4>4, <3>0, <2>2, <1>0
        <5> QED
          BY <4>1, <4>2, <4>4, <5>1, <3>0, <1>0, <1>3
      <4>5. CASE k # 1
        <5>1. (j = 1 <=> i = 1) /\ op'[queue[j]] = op[queue[j]]
          BY <4>1, <4>2, <4>5, <2>2, <1>0, <1>3
        <5> QED
          BY <4>1, <5>1, <3>0
      <4> QED
        BY <4>3, <4>4, <4>5
    <3>3. ASSUME NEW i \in 1..Len(queue'), NEW j \in 1..Len(queue'), queue'[i] = queue'[j]
          PROVE  i = j
      <4> DEFINE u == IF i < k THEN i ELSE i + 1
                 v == IF j < k THEN j ELSE j + 1
      <4>1. Len(queue') = Len(queue) - 1
        BY <2>2, <1>3
      <4>2. i \in Nat /\ j \in Nat /\ k \in Nat /\ i < Len(queue) /\ j < Len(queue)
            /\ i > 0 /\ j > 0
        BY <4>1, <1>0
      <4>3. u \in 1..Len(queue) /\ v \in 1..Len(queue)
        BY <4>2, <1>0
      <4>4. queue'[i] = queue[u] /\ queue'[j] = queue[v]
        BY <4>2, <2>2, <1>0, <1>3
      <4>5. u = v
        <5> HIDE DEF u, v
        <5> QED
          BY <4>3, <4>4, <3>0, <3>3
      <4> QED
        BY <4>2, <4>5
    <3>4. known' = "unknown"
      BY <2>2
    <3> QED
      BY <3>1, <3>2, <3>3, <3>4 DEF CellInv
  <2> QED
    BY <1>1, <2>1, <2>2
<1> QED
  BY <1>4, <1>5, <1>6, <1>7

(* A call that goes on keeps its permit, wherever it goes.                 *)
LEMMA StaysStep ==
  ASSUME Inv, NEW c \in Calls, Running(c), NEW to \in Steps, to \notin {"new", "over"},
         op' = [op EXCEPT ![c] = to], free' = free
  PROVE  PermitInv'
<1>1. RunningCalls' = RunningCalls
  BY DEF Inv, CallsTypeOK, RunningCalls, Running
<1> QED
  BY <1>1 DEF Inv, PermitInv

(* A call that is answered without a permit changes nothing else.          *)
LEMMA RefuseStep ==
  ASSUME Inv, NEW c \in Calls, op[c] = "new", Refuse(c) \/ EndAtOnce(c)
  PROVE  Inv'
<1> USE DEF Inv
<1>1. /\ op' = [op EXCEPT ![c] = "over"]
      /\ outbox' = outbox \cup {Reply(c, "error")}
      /\ UNCHANGED <<free, left, late, ct, known, queue>>
  BY DEF Refuse, EndAtOnce
<1>2. RunningCalls' = RunningCalls
  BY <1>1 DEF CallsTypeOK, RunningCalls, Running
<1>3. PermitInv'
  BY <1>1, <1>2 DEF PermitInv
<1>4. CallsTypeOK'
  BY <1>1 DEF CallsTypeOK, Steps, Answers
<1>5. LeftInv'
  BY <1>1 DEF LeftInv, CallsTypeOK, Asleep
<1>6. CellInv'
  <2>0. queue \in [1..Len(queue) -> Calls]
    BY LenProperties DEF CallsTypeOK
  <2>1. known = "unknown" => \A i \in 1..Len(queue) : queue[i] # c
    BY DEF CellInv, Probing
  <2>2. \A x \in Calls \ {c} : op'[x] = op[x]
    BY <1>1 DEF CallsTypeOK
  <2>3. op'[c] = "over"
    BY <1>1 DEF CallsTypeOK
  <2>4. CASE known # "unknown"
    BY <2>2, <2>3, <2>4, <1>1 DEF CellInv, Probing
  <2>5. CASE known = "unknown"
    BY <2>0, <2>1, <2>2, <2>3, <2>5, <1>1 DEF CellInv, AtCell, Probing
  <2> QED
    BY <2>4, <2>5
<1> QED
  BY <1>3, <1>4, <1>5, <1>6

(* An admitted call takes one of the free permits.                         *)
LEMMA StartStep ==
  ASSUME Inv, NEW c \in Calls, NEW t \in Tools, op[c] = "new", free # 0, Start(c, t)
  PROVE  Inv'
<1> USE DEF Inv
<1>0. MaxAttempts \in Nat \ {0} /\ Permits \in Nat \ {0}
  BY SessionAssumption
<1>1. PICK to \in {"probing", "queued", "querying", "requesting"}, n \in 0..MaxAttempts :
        op' = [op EXCEPT ![c] = to] /\ left' = [left EXCEPT ![c] = n]
  BY <1>0 DEF Start, Request
<1>2. UNCHANGED <<late, ct, outbox, known>> /\ free' = free - 1
  BY DEF Start
<1>3. /\ \A x \in Calls \ {c} : op'[x] = op[x]
      /\ op'[c] = to /\ c \notin RunningCalls
  BY <1>1 DEF CallsTypeOK, RunningCalls, Running
<1>4. PermitInv'
  <2>1. RunningCalls' = RunningCalls \cup {c}
    BY <1>3 DEF RunningCalls, Running
  <2>2. RunningCalls \subseteq Calls
    BY DEF RunningCalls
  <2>3. IsFiniteSet(RunningCalls) /\ Cardinality(RunningCalls) \in Nat
    BY <2>2, CallsAreFinite
  <2>4. Cardinality(RunningCalls \cup {c}) = Cardinality(RunningCalls) + 1
    BY <1>3, <2>3, FS_AddElement
  <2>5. free \in Nat /\ free + Cardinality(RunningCalls) = Permits
    BY <1>0 DEF CallsTypeOK, PermitInv
  <2>6. free' + Cardinality(RunningCalls)' = Permits
    BY <2>1, <2>3, <2>4, <2>5, <1>2
  <2> QED
    BY <2>6 DEF PermitInv
<1>5. queue \in Seq(Calls) /\ queue \in [1..Len(queue) -> Calls] /\ Len(queue) \in Nat
  BY LenProperties DEF CallsTypeOK
<1>6. \/ queue' = queue /\ to \in {"querying", "requesting"}
      \/ /\ known = "unknown" /\ queue' = Append(queue, c)
         /\ to = IF queue = <<>> THEN "probing" ELSE "queued"
  <2>1. CASE t = "gated" /\ known = "unknown"
    BY <1>3, <2>1 DEF Start, Request, CallsTypeOK
  <2>2. CASE ~(t = "gated" /\ known = "unknown")
    BY <1>3, <2>2 DEF Start, Request, CallsTypeOK
  <2> QED
    BY <2>1, <2>2
<1>7. CallsTypeOK'
  <2>1. queue' \in Seq(Calls)
    BY <1>5, <1>6, AppendProperties
  <2>2. free' \in 0..Permits
    BY <1>0, <1>2 DEF CallsTypeOK
  <2>3. op' \in [Calls -> Steps] /\ left' \in [Calls -> 0..MaxAttempts]
    BY <1>1 DEF CallsTypeOK, Steps
  <2> QED
    BY <1>2, <2>1, <2>2, <2>3 DEF CallsTypeOK
<1>8. LeftInv'
  BY <1>1 DEF LeftInv, CallsTypeOK, Asleep
<1>9. CellInv'
  <2>1. CASE queue' = queue /\ to \in {"querying", "requesting"}
    <3>1. known = "unknown" => \A i \in 1..Len(queue) : queue[i] # c
      BY DEF CellInv, Probing
    <3>2. CASE known # "unknown"
      BY <1>2, <1>3, <2>1, <3>2 DEF CellInv, Probing
    <3>3. CASE known = "unknown"
      BY <1>2, <1>3, <1>5, <2>1, <3>1, <3>3 DEF CellInv, AtCell, Probing
    <3> QED
      BY <3>2, <3>3
  <2>2. CASE /\ known = "unknown" /\ queue' = Append(queue, c)
             /\ to = IF queue = <<>> THEN "probing" ELSE "queued"
    <3>0. /\ \A x \in Calls : op[x] \in AtCell => \E i \in 1..Len(queue) : queue[i] = x
          /\ \A i \in 1..Len(queue) : op[queue[i]] = "queued" \/ (i = 1 /\ op[queue[i]] \in Probing)
          /\ \A i \in 1..Len(queue) : i = 1 => op[queue[i]] \in Probing
          /\ \A i, j \in 1..Len(queue) : queue[i] = queue[j] => i = j
      BY <2>2 DEF CellInv
    <3>1. /\ Len(queue') = Len(queue) + 1
          /\ \A i \in 1..Len(queue) : queue'[i] = queue[i]
          /\ queue'[Len(queue) + 1] = c
      BY <2>2, <1>5, AppendProperties
    <3>2. \A i \in 1..Len(queue) : queue[i] # c /\ queue[i] \in Calls
      BY <3>0, <1>5 DEF Probing
    <3>3. queue = <<>> <=> Len(queue) = 0
      BY <1>5, EmptySeq
    <3>4. ASSUME NEW x \in Calls, op'[x] \in AtCell PROVE \E i \in 1..Len(queue') : queue'[i] = x
      <4>1. CASE x = c
        <5>1. Len(queue) + 1 \in 1..Len(queue')
          BY <3>1, <1>5
        <5> QED
          BY <3>1, <4>1, <5>1
      <4>2. CASE x # c
        <5>1. PICK i \in 1..Len(queue) : queue[i] = x
          BY <3>0, <3>4, <4>2, <1>3
        <5> QED
          BY <3>1, <5>1, <1>5
      <4> QED
        BY <4>1, <4>2
    <3>5. ASSUME NEW i \in 1..Len(queue')
          PROVE  /\ op'[queue'[i]] = "queued" \/ (i = 1 /\ op'[queue'[i]] \in Probing)
                 /\ i = 1 => op'[queue'[i]] \in Probing
      <4>1. CASE i = Len(queue) + 1
        <5>1. queue'[i] = c
          BY <3>1, <4>1
        <5>2. op'[queue'[i]] = to
          BY <5>1, <1>3
        <5>3. CASE queue = <<>>
          <6>1. i = 1 /\ to = "probing"
            BY <2>2, <3>3, <4>1, <5>3
          <6> QED
            BY <5>2, <6>1 DEF Probing
        <5>4. CASE queue # <<>>
          <6>1. Len(queue) # 0
            BY <3>3, <5>4
          <6>2. i # 1
            BY <4>1, <6>1, <1>5
          <6>3. to = "queued"
            BY <2>2, <5>4
          <6> QED
            BY <5>2, <6>2, <6>3
        <5> QED
          BY <5>3, <5>4
      <4>2. CASE i \in 1..Len(queue)
        BY <3>0, <3>1, <3>2, <4>2, <1>3
      <4> QED
        BY <3>1, <4>1, <4>2, <1>5
    <3>6. ASSUME NEW i \in 1..Len(queue'), NEW j \in 1..Len(queue'), queue'[i] = queue'[j]
          PROVE  i = j
      BY <3>0, <3>1, <3>2, <3>6, <1>5
    <3>7. known' = "unknown"
      BY <2>2, <1>2
    <3> QED
      BY <3>4, <3>5, <3>6, <3>7 DEF CellInv
  <2> QED
    BY <1>6, <2>1, <2>2
<1> QED
  BY <1>4, <1>7, <1>8, <1>9

(* The answer of the probe releases the cell.                              *)
LEMMA ProbeOkStep ==
  ASSUME Inv, NEW c \in Calls, ProbeOk(c)
  PROVE  Inv'
<1> USE DEF Inv
<1>0. MaxAttempts \in Nat \ {0}
  BY SessionAssumption
<1>1. PICK to \in {"requesting", "failing"} : op' = [op EXCEPT ![c] = to]
  BY DEF ProbeOk, Request
<1>2. /\ op[c] = "probing" /\ UNCHANGED <<free, late, ct, outbox>> /\ queue' = <<>>
      /\ known' \in {"supported", "unsupported"}
      /\ left' = left \/ left' = [left EXCEPT ![c] = MaxAttempts]
  BY DEF ProbeOk, Request, Stays
<1>3. PermitInv'
  <2>1. Running(c) /\ to \in Steps /\ to \notin {"new", "over"}
    BY <1>1, <1>2 DEF Running, Steps
  <2> QED
    BY <1>1, <1>2, <2>1, StaysStep
<1>4. CallsTypeOK'
  <2>1. queue' \in Seq(Calls)
    BY <1>2, EmptySeq
  <2>2. op' \in [Calls -> Steps]
    BY <1>1 DEF CallsTypeOK, Steps
  <2>3. left' \in [Calls -> 0..MaxAttempts]
    BY <1>0, <1>2 DEF CallsTypeOK
  <2> QED
    BY <1>2, <2>1, <2>2, <2>3 DEF CallsTypeOK
<1>5. LeftInv'
  BY <1>1, <1>2 DEF LeftInv, CallsTypeOK, Asleep
<1>6. CellInv'
  <2>1. known = "unknown"
    BY <1>2 DEF CellInv, Probing
  <2>2. \A x \in Calls \ {c} : op[x] \notin Probing
    BY <2>1, <1>2 DEF CellInv, AtCell, Probing
  <2> QED
    BY <1>1, <1>2, <2>2 DEF CellInv, CallsTypeOK, Probing
<1> QED
  BY <1>3, <1>4, <1>5, <1>6

(* A call moves on without touching the cell: to another step of the probe *)
(* when it probes, away from the cell otherwise.                           *)
LEMMA MoveStep ==
  ASSUME Inv, NEW c \in Calls, NEW to \in Steps, NEW n \in 0..MaxAttempts,
         Running(c), op' = [op EXCEPT ![c] = to], left' = [left EXCEPT ![c] = n],
         op[c] \in Probing <=> to \in Probing, to \notin {"new", "over", "queued"},
         op[c] = "queued" => known # "unknown", to \in Asleep => n > 1,
         Stays, UNCHANGED <<known, queue>>
  PROVE  Inv'
<1> USE DEF Inv, Stays
<1>1. PermitInv'
  BY StaysStep
<1>2. CallsTypeOK'
  BY DEF CallsTypeOK
<1>3. LeftInv'
  BY DEF LeftInv, CallsTypeOK
<1>4. \A x \in Calls \ {c} : op'[x] = op[x]
  BY DEF CallsTypeOK
<1>5. op'[c] = to
  BY DEF CallsTypeOK
<1>6. CellInv'
  <2>0. queue \in [1..Len(queue) -> Calls]
    BY LenProperties DEF CallsTypeOK
  <2>1. \A x \in Calls : op'[x] \in Probing <=> op[x] \in Probing
    BY <1>4, <1>5
  <2>2. CASE known # "unknown"
    BY <2>1, <2>2 DEF CellInv
  <2>3. CASE known = "unknown"
    <3>1. \A x \in Calls : op'[x] = "queued" <=> op[x] = "queued"
      BY <1>4, <1>5, <2>3
    <3> QED
      BY <2>0, <2>1, <2>3, <3>1 DEF CellInv, AtCell
  <2> QED
    BY <2>2, <2>3
<1> QED
  BY <1>1, <1>2, <1>3, <1>6

(* Steps that leave every call where it is.                                *)
LEMMA FrameStep ==
  ASSUME Inv, UNCHANGED <<free, op, left, known, queue>>,
         late' \subseteq Calls, ct' \subseteq Calls,
         outbox' \subseteq {Reply(x, a) : x \in Calls, a \in Answers}
  PROVE  Inv'
<1>1. CallsTypeOK'
  BY DEF Inv, CallsTypeOK
<1>2. LeftInv' /\ CellInv'
  BY DEF Inv, LeftInv, CellInv
<1>3. PermitInv'
  <2>1. RunningCalls' = RunningCalls
    BY DEF RunningCalls, Running
  <2> QED
    BY <2>1 DEF Inv, PermitInv
<1> QED
  BY <1>1, <1>2, <1>3 DEF Inv

(* The runtime drops whatever still runs.                                  *)
LEMMA RuntimeEndsStep == ASSUME Inv, RuntimeEnds PROVE Inv'
<1> USE DEF Inv
<1>0. Permits \in Nat \ {0}
  BY SessionAssumption
<1>1. /\ op' = [c \in Calls |-> IF Running(c) THEN "over" ELSE op[c]]
      /\ free' = Permits /\ outbox' = {} /\ queue' = <<>> /\ late' = {} /\ ct' = {}
      /\ UNCHANGED <<left, known>>
  BY DEF RuntimeEnds
<1>2. \A c \in Calls : op'[c] \in {"new", "over"}
  BY <1>1 DEF Running
<1>3. PermitInv'
  <2>1. RunningCalls' = {}
    BY <1>2 DEF RunningCalls, Running
  <2> QED
    BY <1>0, <1>1, <2>1, FS_EmptySet DEF PermitInv
<1>4. CallsTypeOK'
  BY <1>0, <1>1, EmptySeq DEF CallsTypeOK, Steps
<1>5. LeftInv'
  BY <1>2 DEF LeftInv, Asleep
<1>6. CellInv'
  <2>1. Len(queue') = 0
    BY <1>1, EmptySeq
  <2> QED
    BY <1>1, <1>2, <2>1 DEF CellInv, AtCell, Probing
<1> QED
  BY <1>3, <1>4, <1>5, <1>6

(* Every step of a call.                                                   *)
LEMMA CallStep == ASSUME Inv, NEW c \in Calls, Call(c) PROVE Inv'
<1>0. MaxAttempts \in Nat \ {0} /\ left \in [Calls -> 0..MaxAttempts] /\ op \in [Calls -> Steps]
  BY SessionAssumption DEF Inv, CallsTypeOK
<1>a. {"success", "error"} = Answers
  BY DEF Answers
<1>1. ASSUME NEW t \in Tools, ReceiveCall(c, t) PROVE Inv'
  <2>1. op[c] = "new" /\ (Refuse(c) \/ CallTool(c, t))
    BY <1>1, Zenon DEF ReceiveCall
  <2>2. CASE Refuse(c) \/ EndAtOnce(c)
    BY <2>1, <2>2, RefuseStep
  <2>3. CASE Start(c, t) /\ free # 0
    BY <2>1, <2>3, StartStep
  <2> QED
    BY <2>1, <2>2, <2>3, Zenon DEF CallTool
<1>2. CASE CancelNotice(c)
  BY <1>2, FrameStep DEF CancelNotice, Inv, CallsTypeOK
<1>3. CASE ProbeOk(c)
  BY <1>3, ProbeOkStep
<1>4. CASE FeatureRefused(c)
  BY <1>4, <1>a, EndStep DEF FeatureRefused, Running
<1>5. CASE WaiterWakes(c)
  <2>1. Running(c) /\ op[c] = "queued" /\ known # "unknown" /\ UNCHANGED known
    BY <1>5 DEF WaiterWakes, Running
  <2>2. CASE End(c, "error")
    BY <2>1, <2>2, <1>a, EndStep
  <2>3. CASE Request(c, "requesting", MaxAttempts) /\ Stays /\ UNCHANGED queue
    <3>1. /\ op' = [op EXCEPT ![c] = "requesting"] /\ left' = [left EXCEPT ![c] = MaxAttempts]
          /\ "requesting" \in Steps /\ "requesting" \notin Asleep /\ MaxAttempts \in 0..MaxAttempts
          /\ op[c] \notin Probing /\ "requesting" \notin Probing
      BY <2>1, <2>3, <1>0 DEF Request, Steps, Probing, Asleep
    <3> QED
      BY <2>1, <2>3, <3>1, MoveStep
  <2> QED
    BY <1>5, <2>2, <2>3 DEF WaiterWakes
<1>6. CASE RequestOk(c)
  <2>1. Running(c) /\ op[c] \notin Probing \cup {"queued"} /\ UNCHANGED known
    BY <1>6 DEF RequestOk, Running, Probing
  <2>2. CASE End(c, "success")
    BY <2>1, <2>2, <1>a, EndStep
  <2>3. CASE Request(c, "requesting", MaxAttempts) /\ Stays /\ UNCHANGED queue
    <3>1. /\ op' = [op EXCEPT ![c] = "requesting"] /\ left' = [left EXCEPT ![c] = MaxAttempts]
          /\ "requesting" \in Steps /\ "requesting" \notin Asleep /\ MaxAttempts \in 0..MaxAttempts
          /\ op[c] \notin Probing /\ "requesting" \notin Probing
      BY <2>1, <2>3, <1>0 DEF Request, Steps, Probing, Asleep
    <3> QED
      BY <2>1, <2>3, <3>1, MoveStep
  <2> QED
    BY <1>6, <2>2, <2>3 DEF RequestOk
<1>7. CASE Transient(c)
  <2>1. Running(c) /\ op[c] \in Sending /\ UNCHANGED known
    BY <1>7 DEF Transient, Running, Sending
  <2>2. CASE End(c, "error")
    BY <2>1, <2>2, <1>a, EndStep
  <2>3. CASE /\ left[c] > 1 /\ Stays /\ UNCHANGED <<left, queue>>
             /\ op' = [op EXCEPT ![c] = IF @ = "probing" THEN "probe_backoff" ELSE "backoff"]
    <3>1. left' = [left EXCEPT ![c] = left[c]] /\ left[c] \in 0..MaxAttempts
      BY <1>0, <2>3
    <3>2. PICK to \in {"probe_backoff", "backoff"} :
            op' = [op EXCEPT ![c] = to] /\ (op[c] = "probing" <=> to = "probe_backoff")
      BY <2>3
    <3> QED
      BY <2>1, <2>3, <3>1, <3>2, MoveStep DEF Steps, Probing, Sending
  <2> QED
    BY <1>7, <2>2, <2>3 DEF Transient
<1>8. CASE BackoffEnds(c)
  <2>1. Running(c) /\ op[c] \in Asleep /\ Stays /\ UNCHANGED <<known, queue>>
    BY <1>8 DEF BackoffEnds, Running, Asleep
  <2>2. left' = [left EXCEPT ![c] = left[c] - 1] /\ left[c] - 1 \in 0..MaxAttempts
    BY <1>0, <1>8, <2>1 DEF BackoffEnds, Inv, LeftInv
  <2>3. PICK to \in {"requesting", "probing"} :
          op' = [op EXCEPT ![c] = to] /\ (op[c] = "backoff" <=> to = "requesting")
    BY <1>8 DEF BackoffEnds
  <2> QED
    BY <2>1, <2>2, <2>3, MoveStep DEF Steps, Probing, Asleep
<1>9. CASE RequestFails(c)
  BY <1>9, <1>a, EndStep DEF RequestFails, Running, Sending
<1>10. CASE DeadlinePasses(c)
  BY <1>10, FrameStep DEF DeadlinePasses, Inv, CallsTypeOK
<1>11. CASE DeadlineSeen(c)
  BY <1>11, <1>a, EndStep DEF DeadlineSeen
<1>12. CASE CancelSeen(c)
  BY <1>12, <1>a, EndStep DEF CancelSeen
<1> QED
  BY <1>1, <1>2, <1>3, <1>4, <1>5, <1>6, <1>7, <1>8, <1>9, <1>10, <1>11, <1>12 DEF Call

(* The invariant is inductive.                                             *)
LEMMA InvStep == Inv /\ [Next]_vars => Inv'
<1> SUFFICES ASSUME Inv, [Next]_vars PROVE Inv'
  OBVIOUS
<1>1. ASSUME UNCHANGED callVars PROVE Inv'
  BY <1>1, FrameStep DEF callVars, Inv, CallsTypeOK
<1>2. ASSUME NEW c \in Calls, Call(c) PROVE Inv'
  BY <1>2, CallStep
<1>3. ASSUME NEW r \in outbox, Write(r) PROVE Inv'
  BY <1>3, FrameStep DEF Write, Inv, CallsTypeOK
<1>4. CASE RuntimeEnds
  BY <1>4, RuntimeEndsStep
<1>5. CASE FirstFrame \/ LegacyInitialize \/ BadFrame \/ ProtocolErrorRead \/ EndOfInput
             \/ StartupCut \/ CloseInput \/ Interrupt \/ ServiceEnds
  BY <1>1, <1>5 DEF FirstFrame, LegacyInitialize, BadFrame, ProtocolErrorRead, EndOfInput,
                    StartupCut, CloseInput, Interrupt, ServiceEnds
<1>6. CASE UNCHANGED vars
  BY <1>1, <1>6 DEF vars
<1> QED
  BY <1>2, <1>3, <1>4, <1>5, <1>6 DEF Next

(* It holds before the first frame.                                        *)
LEMMA InvInit == Init => Inv
<1> SUFFICES ASSUME Init PROVE Inv
  OBVIOUS
<1>0. Permits \in Nat \ {0} /\ MaxAttempts \in Nat \ {0}
  BY SessionAssumption
<1>1. RunningCalls = {}
  BY DEF Init, RunningCalls, Running
<1>2. PermitInv
  BY <1>0, <1>1, FS_EmptySet DEF Init, PermitInv
<1>3. CallsTypeOK
  BY <1>0, EmptySeq DEF Init, CallsTypeOK, Steps
<1>4. LeftInv
  BY DEF Init, LeftInv, Asleep
<1>5. CellInv
  <2>1. Len(queue) = 0
    BY EmptySeq DEF Init
  <2> QED
    BY <2>1 DEF Init, CellInv, AtCell, Probing
<1> QED
  BY <1>2, <1>3, <1>4, <1>5 DEF Inv

(* The invariant says what PermitsAddUp does.                              *)
LEMMA InvAddsUp == Inv => PermitsAddUp
<1> SUFFICES ASSUME Inv PROVE PermitsAddUp
  OBVIOUS
<1>0. queue \in Seq(Calls) /\ Len(queue) \in Nat /\ DOMAIN queue = 1..Len(queue)
      /\ queue \in [1..Len(queue) -> Calls]
  BY LenProperties DEF Inv, CallsTypeOK
<1>1. known # "unknown" => ProbingCalls = {} /\ queue = <<>>
  BY DEF Inv, CellInv, ProbingCalls
<1>2. ASSUME known = "unknown" PROVE ToSet(queue) = ProbingCalls \cup WaitingCalls
  <2>1. ASSUME NEW x \in ToSet(queue) PROVE x \in ProbingCalls \cup WaitingCalls
    BY <1>0, <1>2, <2>1 DEF Inv, CellInv, ToSet, ProbingCalls, WaitingCalls
  <2>2. ASSUME NEW x \in ProbingCalls \cup WaitingCalls PROVE x \in ToSet(queue)
    BY <1>0, <1>2, <2>2 DEF Inv, CellInv, AtCell, ToSet, ProbingCalls, WaitingCalls
  <2> QED
    BY <2>1, <2>2
<1>3. ASSUME known = "unknown", NEW x \in ProbingCalls PROVE Len(queue) > 0 /\ x = queue[1]
  <2>1. PICK i \in 1..Len(queue) : queue[i] = x
    BY <1>3 DEF Inv, CellInv, AtCell, ProbingCalls
  <2>2. op[queue[i]] # "queued"
    BY <2>1, <1>3 DEF ProbingCalls, Probing
  <2>3. i = 1
    BY <2>2, <1>3 DEF Inv, CellInv
  <2> QED
    BY <1>0, <2>1, <2>3
<1>4. ASSUME known = "unknown", WaitingCalls # {} PROVE ProbingCalls # {}
  <2>1. PICK x \in Calls : op[x] = "queued"
    BY <1>4 DEF WaitingCalls
  <2>2. PICK i \in 1..Len(queue) : queue[i] = x
    BY <1>4, <2>1 DEF Inv, CellInv, AtCell
  <2>3. 1 \in 1..Len(queue) /\ queue[1] \in Calls
    BY <1>0, <2>2
  <2>4. op[queue[1]] \in Probing
    BY <1>4, <2>3 DEF Inv, CellInv
  <2> QED
    BY <2>3, <2>4 DEF ProbingCalls
<1>5. Cardinality(ProbingCalls) <= 1
  <2>1. CASE ProbingCalls = {}
    BY <2>1, FS_EmptySet
  <2>2. CASE ProbingCalls # {}
    <3>1. known = "unknown"
      BY <1>1, <2>2
    <3>2. ProbingCalls = {queue[1]}
      BY <1>3, <2>2, <3>1
    <3> QED
      BY <3>2, FS_Singleton
  <2> QED
    BY <2>1, <2>2
<1> QED
  BY <1>1, <1>2, <1>4, <1>5 DEF PermitsAddUp, Inv, PermitInv

(* The flags are Boolean; they are kept apart from the other variables.    *)
LEMMA FlagsStep == FlagsTypeOK /\ [Next]_vars => FlagsTypeOK'
<1> SUFFICES ASSUME FlagsTypeOK, [Next]_vars PROVE FlagsTypeOK'
  OBVIOUS
<1> USE DEF FlagsTypeOK, sessionVars
<1>1. ASSUME NEW c \in Calls, Call(c) PROVE FlagsTypeOK'
  <2>1. UNCHANGED <<eof, root>>
    BY <1>1, Zenon DEF Call, ReceiveCall, CancelNotice, ProbeOk, FeatureRefused, WaiterWakes,
                RequestOk, Transient, BackoffEnds, RequestFails, DeadlinePasses, DeadlineSeen,
                CancelSeen
  <2> QED
    BY <2>1, Zenon
<1>2. ASSUME NEW r \in outbox, Write(r) PROVE FlagsTypeOK'
  BY <1>2, Zenon DEF Write
<1>3. CASE FirstFrame
  BY <1>3, Zenon DEF FirstFrame
<1>4. CASE LegacyInitialize
  BY <1>4, Zenon DEF LegacyInitialize
<1>5. CASE BadFrame \/ ProtocolErrorRead
  BY <1>5, Zenon DEF BadFrame, ProtocolErrorRead
<1>6. CASE EndOfInput
  BY <1>6 DEF EndOfInput
<1>7. CASE StartupCut \/ ServiceEnds \/ RuntimeEnds
  BY <1>7, Zenon DEF StartupCut, ServiceEnds, RuntimeEnds
<1>8. CASE CloseInput
  BY <1>8 DEF CloseInput
<1>9. CASE Interrupt
  BY <1>9 DEF Interrupt
<1>10. CASE UNCHANGED vars
  BY <1>10, Zenon DEF vars
<1> QED
  BY <1>1, <1>2, <1>3, <1>4, <1>5, <1>6, <1>7, <1>8, <1>9, <1>10 DEF Next

(* The lifecycle, the receive loop and the session.                        *)
LifeTypeOK ==
    /\ life \in {"first", "open", "awaiting", "rejected"}
    /\ receiver \in {"reading", "replying"}
    /\ session \in {"serving", "closing", "closed"}

(* They keep their types, too.                                             *)
LEMMA LifeStep == LifeTypeOK /\ [Next]_vars => LifeTypeOK'
<1> SUFFICES ASSUME LifeTypeOK, [Next]_vars PROVE LifeTypeOK'
  OBVIOUS
<1> USE DEF LifeTypeOK, sessionVars
<1>1. ASSUME NEW c \in Calls, Call(c) PROVE LifeTypeOK'
  <2>1. ASSUME NEW t \in Tools, ReceiveCall(c, t) PROVE LifeTypeOK'
    BY <2>1 DEF ReceiveCall
  <2>2. CASE UNCHANGED sessionVars
    BY <2>2
  <2> QED
    BY <1>1, <2>1, <2>2 DEF Call, CancelNotice, ProbeOk, FeatureRefused, WaiterWakes,
       RequestOk, Transient, BackoffEnds, RequestFails, DeadlinePasses, DeadlineSeen, CancelSeen
<1>2. ASSUME NEW r \in outbox, Write(r) PROVE LifeTypeOK'
  BY <1>2 DEF Write
<1>3. CASE FirstFrame \/ LegacyInitialize \/ BadFrame \/ ProtocolErrorRead \/ EndOfInput
             \/ StartupCut \/ CloseInput \/ Interrupt \/ ServiceEnds \/ RuntimeEnds
  BY <1>3 DEF FirstFrame, LegacyInitialize, BadFrame, ProtocolErrorRead, EndOfInput,
              StartupCut, CloseInput, Interrupt, ServiceEnds, RuntimeEnds
<1>4. CASE UNCHANGED vars
  BY <1>4 DEF vars
<1> QED
  BY <1>1, <1>2, <1>3, <1>4 DEF Next

(* Every variable of a session keeps its type (the permits stay between    *)
(* none and all).                                                          *)
THEOREM SessionTypeCorrect == Spec => []TypeOK
<1>1. Init => FlagsTypeOK /\ LifeTypeOK
  BY DEF Init, FlagsTypeOK, LifeTypeOK
<1>2. Inv /\ FlagsTypeOK /\ LifeTypeOK => TypeOK
  BY DEF Inv, LifeTypeOK, TypeOK
<1> QED
  BY <1>1, <1>2, InvInit, InvStep, FlagsStep, LifeStep, PTL DEF Spec

(* However calls end, every permit is free or with one running call, and   *)
(* while a call waits for the capability cell exactly one call probes.     *)
THEOREM PermitsComeBack == Spec => []PermitsAddUp
BY InvInit, InvStep, InvAddsUp, PTL DEF Spec

\* Only a running call is marked late or cancelled.
MarksInv == late \cup ct \subseteq RunningCalls

(* What a step of a call does to its answer and its marks: a call that ends *)
(* is answered unless its token is cancelled, and never with a success     *)
(* behind its deadline; one that is refused was not running.               *)
LEMMA AnswerStep ==
  ASSUME CallsTypeOK, MarksInv, NEW c \in Calls, Call(c)
  PROVE  /\ MarksInv'
         /\ \A r \in outbox' \ outbox :
              r.call \notin ct /\ (r.answer = "success" => r.call \notin late)
<1> DEFINE Timely == \A r \in outbox' \ outbox :
                       r.call \notin ct /\ (r.answer = "success" => r.call \notin late)
<1>1. ASSUME NEW how, End(c, how) PROVE MarksInv' /\ Timely
  <2>1. \A x \in RunningCalls \ {c} : x \in RunningCalls'
    BY <1>1 DEF End, RunningCalls, Running
  <2>2. MarksInv'
    BY <1>1, <2>1 DEF End, MarksInv
  <2>3. Timely
    BY <1>1 DEF End, Outcome, Cancelled, Reply
  <2> QED
    BY <2>2, <2>3
<1>2. ASSUME op[c] = "new", Refuse(c) \/ EndAtOnce(c) PROVE MarksInv' /\ Timely
  <2>1. UNCHANGED <<late, ct>> /\ op' = [op EXCEPT ![c] = "over"]
        /\ outbox' = outbox \cup {Reply(c, "error")}
    BY <1>2 DEF Refuse, EndAtOnce
  <2>2. c \notin late \cup ct
    BY <1>2 DEF MarksInv, RunningCalls, Running
  <2>3. MarksInv'
    BY <2>1, <2>2 DEF MarksInv, RunningCalls, Running, CallsTypeOK
  <2>4. Timely
    BY <2>1, <2>2 DEF Reply
  <2> QED
    BY <2>3, <2>4
<1>3. ASSUME NEW to, to \notin {"new", "over"}, op' = [op EXCEPT ![c] = to],
             UNCHANGED <<late, ct, outbox>>
      PROVE  MarksInv' /\ Timely
  BY <1>3 DEF MarksInv, RunningCalls, Running, CallsTypeOK
<1>4. ASSUME NEW t \in Tools, ReceiveCall(c, t) PROVE MarksInv' /\ Timely
  <2>1. op[c] = "new" /\ (Refuse(c) \/ EndAtOnce(c) \/ Start(c, t))
    BY <1>4, Zenon DEF ReceiveCall, CallTool
  <2>2. CASE Start(c, t)
    <3>1. UNCHANGED <<late, ct, outbox>>
      BY <2>2 DEF Start
    <3>2. PICK to \in {"probing", "queued", "querying", "requesting"} : op' = [op EXCEPT ![c] = to]
      BY <2>2 DEF Start, Request
    <3> QED
      BY <1>3, <3>1, <3>2
  <2> QED
    BY <1>2, <2>1, <2>2
<1>5. CASE CancelNotice(c)
  BY <1>5 DEF CancelNotice, MarksInv, RunningCalls, Running
<1>6. CASE ProbeOk(c)
  <2>1. UNCHANGED <<late, ct, outbox>>
    BY <1>6 DEF ProbeOk, Stays
  <2>2. PICK to \in {"requesting", "failing"} : op' = [op EXCEPT ![c] = to]
    BY <1>6 DEF ProbeOk, Request
  <2> QED
    BY <1>3, <2>1, <2>2
<1>7. CASE FeatureRefused(c) \/ RequestFails(c) \/ DeadlineSeen(c) \/ CancelSeen(c)
  BY <1>1, <1>7 DEF FeatureRefused, RequestFails, DeadlineSeen, CancelSeen
<1>8. CASE WaiterWakes(c)
  BY <1>1, <1>3, <1>8 DEF WaiterWakes, Request, Stays
<1>9. CASE RequestOk(c)
  BY <1>1, <1>3, <1>9 DEF RequestOk, Request, Stays
<1>10. CASE Transient(c)
  <2>1. CASE End(c, "error")
    BY <1>1, <2>1
  <2>2. CASE /\ op' = [op EXCEPT ![c] = IF @ = "probing" THEN "probe_backoff" ELSE "backoff"]
             /\ Stays
    <3>1. PICK to \in {"probe_backoff", "backoff"} : op' = [op EXCEPT ![c] = to]
      BY <2>2
    <3> QED
      BY <1>3, <2>2, <3>1 DEF Stays
  <2> QED
    BY <1>10, <2>1, <2>2 DEF Transient
<1>11. CASE BackoffEnds(c)
  <2>1. PICK to \in {"requesting", "probing"} : op' = [op EXCEPT ![c] = to]
    BY <1>11 DEF BackoffEnds
  <2> QED
    BY <1>3, <1>11, <2>1 DEF BackoffEnds, Stays
<1>12. CASE DeadlinePasses(c)
  BY <1>12 DEF DeadlinePasses, MarksInv, RunningCalls, Running
<1> QED
  BY <1>4, <1>5, <1>6, <1>7, <1>8, <1>9, <1>10, <1>11, <1>12 DEF Call

(* Every other step only takes answers away and leaves or clears the marks. *)
LEMMA OtherSteps ==
  ASSUME MarksInv, [Next]_vars, \A c \in Calls : ~Call(c)
  PROVE  MarksInv' /\ outbox' \subseteq outbox
<1>1. CASE \E r \in outbox : Write(r)
  BY <1>1 DEF Write, MarksInv, RunningCalls, Running
<1>2. CASE RuntimeEnds
  BY <1>2 DEF RuntimeEnds, MarksInv
<1>3. CASE UNCHANGED callVars
  BY <1>3 DEF callVars, MarksInv, RunningCalls, Running
<1> QED
  BY <1>1, <1>2, <1>3 DEF Next, FirstFrame, LegacyInitialize, BadFrame, ProtocolErrorRead,
     EndOfInput, StartupCut, CloseInput, Interrupt, ServiceEnds, vars

(* No success is handed to the SDK behind the deadline of its call, and a  *)
(* call whose token was cancelled while it ran is never answered.          *)
THEOREM AnswersComeInTime == Spec => AnswersAreTimely
<1>1. Init => MarksInv
  BY DEF Init, MarksInv
<1>2. Inv /\ MarksInv /\ [Next]_vars => MarksInv'
  BY AnswerStep, OtherSteps DEF Inv
<1>3. Inv /\ MarksInv /\ [Next]_vars =>
        [\A r \in outbox' \ outbox :
           /\ r.call \notin ct
           /\ r.answer = "success" => r.call \notin late]_vars
  BY AnswerStep, OtherSteps DEF Inv
<1> QED
  BY <1>1, <1>2, <1>3, InvInit, InvStep, PTL DEF Spec, AnswersAreTimely
=============================================================================
