---------------------------- MODULE SequenceFacts ----------------------------
(***************************************************************************)
(* Where a message can be in a queue: lemmas for the proofs about messages *)
(* that are passed on from queue to queue.                                 *)
(***************************************************************************)
EXTENDS Integers, Sequences, TLAPS

In(m, s)   == \E i \in 1..Len(s) : s[i] = m
Once(m, s) == \A i, j \in 1..Len(s) : s[i] = m /\ s[j] = m => i = j

LEMMA EmptyIn == ASSUME NEW m PROVE ~In(m, <<>>) /\ Once(m, <<>>)
  BY DEF In, Once

LEMMA AppendIn ==
  ASSUME NEW S, NEW s \in Seq(S), NEW n \in S, NEW m
  PROVE  /\ In(m, Append(s, n)) <=> In(m, s) \/ m = n
         /\ Once(m, s) /\ (m = n => ~In(m, s)) => Once(m, Append(s, n))
<1>1. In(m, Append(s, n)) => In(m, s) \/ m = n
  BY DEF In
<1>2. In(m, s) => In(m, Append(s, n))
  <2> SUFFICES ASSUME NEW i \in 1..Len(s), s[i] = m PROVE In(m, Append(s, n))
    BY DEF In
  <2>1. i \in 1..Len(Append(s, n)) /\ Append(s, n)[i] = m
    OBVIOUS
  <2> QED BY <2>1 DEF In
<1>3. m = n => In(m, Append(s, n))
  <2>1. Len(s) + 1 \in 1..Len(Append(s, n)) /\ Append(s, n)[Len(s) + 1] = n
    OBVIOUS
  <2> QED BY <2>1 DEF In
<1>4. Once(m, s) /\ (m = n => ~In(m, s)) => Once(m, Append(s, n))
  BY DEF In, Once
<1> QED BY <1>1, <1>2, <1>3, <1>4

LEMMA TailIn ==
  ASSUME NEW S, NEW s \in Seq(S), s # <<>>, NEW m
  PROVE  /\ Tail(s) \in Seq(S) /\ Head(s) \in S
         /\ In(m, Tail(s)) => In(m, s)
         /\ In(m, s) => m = Head(s) \/ In(m, Tail(s))
         /\ In(Head(s), s)
         /\ Once(m, s) => Once(m, Tail(s))
         /\ Once(m, s) /\ m = Head(s) => ~In(m, Tail(s))
<1>1. Len(s) \in Nat /\ Len(s) > 0 /\ Len(Tail(s)) = Len(s) - 1 /\ Head(s) = s[1]
  OBVIOUS
<1>2. \A i \in 1..Len(Tail(s)) : i + 1 \in 1..Len(s) /\ Tail(s)[i] = s[i + 1]
  OBVIOUS
<1>3. Tail(s) \in Seq(S) /\ Head(s) \in S
  OBVIOUS
<1>4. In(m, Tail(s)) => In(m, s)
  BY <1>2 DEF In
<1>5. In(Head(s), s)
  BY <1>1 DEF In
<1>6. Once(m, s) => Once(m, Tail(s))
  BY <1>1, <1>2 DEF Once
<1>7. Once(m, s) /\ m = Head(s) => ~In(m, Tail(s))
  BY <1>1, <1>2 DEF Once, In
<1>8. In(m, s) => m = Head(s) \/ In(m, Tail(s))
  <2> SUFFICES ASSUME NEW i \in 1..Len(s), s[i] = m, i # 1 PROVE In(m, Tail(s))
    BY <1>1 DEF In
  <2>1. i - 1 \in 1..Len(Tail(s)) /\ Tail(s)[i - 1] = m
    BY <1>1, <1>2
  <2> QED BY <2>1 DEF In
<1> QED BY <1>3, <1>4, <1>5, <1>6, <1>7, <1>8

LEMMA ConcatIn ==
  ASSUME NEW S, NEW s \in Seq(S), NEW r \in Seq(S), NEW m
  PROVE  In(m, s \o r) <=> In(m, s) \/ In(m, r)
<1>1. In(m, s \o r) => In(m, s) \/ In(m, r)
  <2> SUFFICES ASSUME NEW i \in 1..Len(s \o r), (s \o r)[i] = m PROVE In(m, s) \/ In(m, r)
    BY DEF In
  <2>1. CASE i <= Len(s)
    BY <2>1 DEF In
  <2>2. CASE i > Len(s)
    <3>1. i - Len(s) \in 1..Len(r) /\ r[i - Len(s)] = m
      BY <2>2
    <3> QED BY <3>1 DEF In
  <2> QED BY <2>1, <2>2
<1>2. In(m, s) => In(m, s \o r)
  <2> SUFFICES ASSUME NEW i \in 1..Len(s), s[i] = m PROVE In(m, s \o r)
    BY DEF In
  <2>1. i \in 1..Len(s \o r) /\ (s \o r)[i] = m
    OBVIOUS
  <2> QED BY <2>1 DEF In
<1>3. In(m, r) => In(m, s \o r)
  <2> SUFFICES ASSUME NEW i \in 1..Len(r), r[i] = m PROVE In(m, s \o r)
    BY DEF In
  <2>1. Len(s) + i \in 1..Len(s \o r) /\ (s \o r)[Len(s) + i] = m
    OBVIOUS
  <2> QED BY <2>1 DEF In
<1> QED BY <1>1, <1>2, <1>3

LEMMA ElementsIn ==
  ASSUME NEW S, NEW s \in Seq(S), NEW m
  PROVE  m \in {s[i] : i \in DOMAIN s} <=> In(m, s)
BY DEF In

=============================================================================
