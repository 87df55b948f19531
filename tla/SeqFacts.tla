------------------------------ MODULE SeqFacts ------------------------------
(***************************************************************************)
(* What appending to and popping from a queue does to the set of its       *)
(* elements, for queues that hold nothing twice.                           *)
(***************************************************************************)
EXTENDS Integers, Sequences, Functions, FiniteSetTheorems, TLAPS

\* Insertion at the tail (STAILQ_INSERT_TAIL) adds one element.
LEMMA AppendRange ==
  ASSUME NEW S, NEW q \in Seq(S), NEW e \in S
  PROVE  Append(q, e) \in Seq(S) /\ Range(Append(q, e)) = Range(q) \cup {e}
<1> DEFINE a == Append(q, e)
<1>1. a \in Seq(S) /\ Len(a) = Len(q) + 1 /\ a[Len(q) + 1] = e
      /\ \A i \in 1 .. Len(q) : a[i] = q[i]
  OBVIOUS
<1>2. DOMAIN a = 1 .. Len(q) + 1 /\ DOMAIN q = 1 .. Len(q) /\ Len(q) \in Nat
  BY <1>1
<1>3. ASSUME NEW x PROVE x \in Range(a) <=> x \in Range(q) \cup {e}
  BY <1>1, <1>2 DEF Range
<1> QED BY <1>1, <1>3

\* Insertion of a new element keeps a queue free of duplicates.
LEMMA AppendNew ==
  ASSUME NEW S, NEW q \in Seq(S), NEW e \in S, IsInjective(q), e \notin Range(q)
  PROVE  IsInjective(Append(q, e))
<1>1. /\ DOMAIN Append(q, e) = 1 .. Len(q) + 1 /\ DOMAIN q = 1 .. Len(q) /\ Len(q) \in Nat
      /\ Append(q, e)[Len(q) + 1] = e
      /\ \A i \in 1 .. Len(q) : Append(q, e)[i] = q[i]
  OBVIOUS
<1>2. \A i \in 1 .. Len(q) : q[i] # e
  BY <1>1 DEF Range
<1>3. \A i, j \in 1 .. Len(q) : q[i] = q[j] => i = j
  BY <1>1 DEF IsInjective
<1> QED BY <1>1, <1>2, <1>3 DEF IsInjective

\* Removal of the head (STAILQ_FIRST, STAILQ_REMOVE_HEAD) from a queue free of
\* duplicates removes one element.
LEMMA PopRange ==
  ASSUME NEW S, NEW q \in Seq(S), q # <<>>, IsInjective(q)
  PROVE  /\ Head(q) \in S /\ Head(q) \in Range(q) /\ Tail(q) \in Seq(S)
         /\ IsInjective(Tail(q))
         /\ Range(Tail(q)) = Range(q) \ {Head(q)}
<1>1. /\ Len(q) \in Nat /\ Len(q) > 0 /\ DOMAIN q = 1 .. Len(q)
      /\ Tail(q) \in Seq(S) /\ DOMAIN Tail(q) = 1 .. Len(q) - 1
      /\ \A i \in 1 .. Len(q) - 1 : Tail(q)[i] = q[i + 1]
      /\ Head(q) = q[1] /\ 1 \in DOMAIN q /\ q[1] \in S
  OBVIOUS
<1>2. \A i, j \in 1 .. Len(q) : q[i] = q[j] => i = j
  BY <1>1 DEF IsInjective
<1>3. IsInjective(Tail(q))
  BY <1>1, <1>2 DEF IsInjective
<1>4. ASSUME NEW x \in Range(Tail(q)) PROVE x \in Range(q) /\ x # Head(q)
  BY <1>1, <1>2 DEF Range
<1>5. ASSUME NEW x \in Range(q), x # Head(q) PROVE x \in Range(Tail(q))
  <2>1. PICK i \in 1 .. Len(q) : x = q[i]
    BY <1>1 DEF Range
  <2>2. i # 1 /\ i - 1 \in 1 .. Len(q) - 1
    BY <2>1, <1>1, <1>5
  <2>3. Tail(q)[i - 1] = q[i]
    BY <2>2, <1>1
  <2> QED BY <2>1, <2>2, <2>3, <1>1 DEF Range
<1> QED BY <1>1, <1>3, <1>4, <1>5 DEF Range

\* Insertion at the head (STAILQ_INSERT_HEAD) adds one element too.
LEMMA PrependRange ==
  ASSUME NEW S, NEW q \in Seq(S), NEW e \in S
  PROVE  <<e>> \o q \in Seq(S) /\ Range(<<e>> \o q) = Range(q) \cup {e}
<1> DEFINE a == <<e>> \o q
<1>1. /\ a \in Seq(S) /\ Len(a) = Len(q) + 1 /\ Len(q) \in Nat
      /\ a[1] = e /\ \A i \in 1 .. Len(q) : a[i + 1] = q[i]
  OBVIOUS
<1>2. DOMAIN a = 1 .. Len(q) + 1 /\ DOMAIN q = 1 .. Len(q)
  BY <1>1
<1>3. ASSUME NEW i \in 1 .. Len(q) + 1 PROVE a[i] = e \/ \E j \in 1 .. Len(q) : a[i] = q[j]
  <2>1. CASE i = 1 BY <1>1, <2>1
  <2>2. CASE i # 1
    <3>1. i - 1 \in 1 .. Len(q) /\ (i - 1) + 1 = i BY <1>1, <2>2
    <3>2. a[i] = q[i - 1] BY <1>1, <3>1
    <3> QED BY <3>1, <3>2
  <2> QED BY <2>1, <2>2
<1>4. ASSUME NEW i \in 1 .. Len(q) PROVE i + 1 \in DOMAIN a /\ a[i + 1] = q[i]
  <2>1. i + 1 \in 1 .. Len(q) + 1 BY <1>1
  <2> QED BY <1>1, <1>2, <2>1
<1>5. Range(a) \subseteq Range(q) \cup {e} BY <1>2, <1>3 DEF Range
<1>6. 1 \in DOMAIN a BY <1>1, <1>2
<1>7. ASSUME NEW x \in Range(q) PROVE x \in Range(a)
  <2>1. PICK i \in 1 .. Len(q) : x = q[i] BY <1>2 DEF Range
  <2> QED BY <1>4, <2>1 DEF Range
<1>8. e \in Range(a) BY <1>1, <1>6 DEF Range
<1> QED BY <1>1, <1>5, <1>7, <1>8

LEMMA PrependInjective ==
  ASSUME NEW S, NEW q \in Seq(S), NEW e \in S, IsInjective(q), e \notin Range(q)
  PROVE  IsInjective(<<e>> \o q)
<1> DEFINE a == <<e>> \o q
<1>1. /\ DOMAIN a = 1 .. Len(q) + 1 /\ Len(q) \in Nat /\ DOMAIN q = 1 .. Len(q)
      /\ a[1] = e /\ \A i \in 1 .. Len(q) : a[i + 1] = q[i]
  OBVIOUS
<1>2. \A i \in 1 .. Len(q) : q[i] # e
  BY <1>1 DEF Range
<1>3. \A i \in DOMAIN a : i # 1 => i - 1 \in 1 .. Len(q) /\ a[i] = q[i - 1]
  <2> SUFFICES ASSUME NEW i \in DOMAIN a, i # 1
               PROVE  i - 1 \in 1 .. Len(q) /\ a[i] = q[i - 1]
    OBVIOUS
  <2>1. i - 1 \in 1 .. Len(q) /\ (i - 1) + 1 = i BY <1>1
  <2> QED BY <1>1, <2>1
<1>4. ASSUME NEW i \in DOMAIN a, NEW j \in DOMAIN a, a[i] = a[j] PROVE i = j
  <2>1. CASE i = 1 \/ j = 1 BY <1>1, <1>2, <1>3, <1>4, <2>1
  <2>2. CASE i # 1 /\ j # 1
    <3>1. i - 1 = j - 1 BY <1>1, <1>3, <1>4, <2>2 DEF IsInjective
    <3> QED BY <1>1, <3>1
  <2> QED BY <2>1, <2>2
<1> QED BY <1>4 DEF IsInjective

\* A queue without its last element.
LEMMA ButLast ==
  ASSUME NEW S, NEW q \in Seq(S)
  PROVE  /\ \A e \in S : SubSeq(Append(q, e), 1, Len(Append(q, e)) - 1) = q
         /\ q # <<>> => Append(SubSeq(q, 1, Len(q) - 1), q[Len(q)]) = q
         /\ Range(SubSeq(q, 1, Len(q) - 1)) \subseteq Range(q)
<1> DEFINE b == SubSeq(q, 1, Len(q) - 1)
<1>1. ASSUME NEW e \in S PROVE SubSeq(Append(q, e), 1, Len(Append(q, e)) - 1) = q
  OBVIOUS
<1>2. ASSUME q # <<>> PROVE Append(b, q[Len(q)]) = q
  BY <1>2
<1>3. Range(b) \subseteq Range(q)
  <2>1. /\ Len(q) \in Nat /\ DOMAIN q = 1 .. Len(q)
        /\ DOMAIN b = 1 .. Len(b) /\ Len(b) \in Nat
        /\ \A i \in DOMAIN b : i \in DOMAIN q /\ b[i] = q[i]
    OBVIOUS
  <2> QED BY <2>1 DEF Range
<1> QED BY <1>1, <1>2, <1>3

\* A queue free of duplicates is no longer than there are elements.
LEMMA InjectiveLength ==
  ASSUME NEW S, IsFiniteSet(S), NEW q \in Seq(S), IsInjective(q)
  PROVE  Len(q) <= Cardinality(S)
<1>1. Len(q) \in Nat /\ DOMAIN q = 1 .. Len(q) /\ \A i \in 1 .. Len(q) : q[i] \in S
  OBVIOUS
<1> DEFINE f == [i \in 1 .. Len(q) |-> q[i]]
<1>2. f \in Injection(1 .. Len(q), S)
  <2>1. f \in [1 .. Len(q) -> S] BY <1>1
  <2>2. \A i, j \in 1 .. Len(q) : f[i] = f[j] => i = j BY <1>1 DEF IsInjective
  <2> QED BY <2>1, <2>2 DEF Injection, IsInjective
<1>3. Cardinality(1 .. Len(q)) = Len(q)
  <2>1. \A n \in Nat : Cardinality(1 .. n) = IF 1 > n THEN 0 ELSE n - 1 + 1
    BY FS_Interval
  <2> QED BY <1>1, <2>1
<1>4. Cardinality(1 .. Len(q)) <= Cardinality(S) BY <1>2, FS_Injection
<1> QED BY <1>3, <1>4
============================================================================
