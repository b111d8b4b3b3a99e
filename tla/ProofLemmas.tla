---------------------------- MODULE ProofLemmas ----------------------------
(* Facts about numbers, sequences and finite sets that the proofs of       *)
(* several components rest on.                                             *)
EXTENDS Integers, Sequences, FiniteSets, SequenceTheorems, FiniteSetTheorems,
        WellFoundedInduction, TLAPS

(* Every non-empty set of natural numbers has a least element. *)
LEMMA LeastNumber ==
    ASSUME NEW T \in SUBSET Nat, T # {}
    PROVE  \E m \in T : \A n \in T : m <= n
<1>1. PICK m \in T : \A n \in T : <<n, m>> \notin OpToRel(<, Nat)
  BY NatLessThanWellFounded, WFMin
<1>2. \A n \in T : <<n, m>> \in OpToRel(<, Nat) <=> n < m
  <2>1. OpToRel(<, Nat) = {ss \in Nat \X Nat : ss[1] < ss[2]}
    BY DEF OpToRel
  <2> SUFFICES ASSUME NEW n \in T
               PROVE  <<n, m>> \in {ss \in Nat \X Nat : ss[1] < ss[2]} <=> n < m
    BY <2>1, Zenon
  <2> QED OBVIOUS
<1>3. \A n \in T : ~(n < m)
  BY <1>1, <1>2, Zenon
<1> QED BY <1>3

(* An interval from 1 has as many elements as its end says. *)
LEMMA UpTo ==
    ASSUME NEW n \in Nat
    PROVE  IsFiniteSet(1 .. n) /\ Cardinality(1 .. n) = n
<1>1. \A a, b \in Int : /\ IsFiniteSet(a .. b)
                        /\ Cardinality(a .. b) = IF a > b THEN 0 ELSE b - a + 1
  BY FS_Interval
<1>2. IsFiniteSet(1 .. n) /\ Cardinality(1 .. n) = IF 1 > n THEN 0 ELSE n - 1 + 1
  <2>1. 1 \in Int /\ n \in Int
    OBVIOUS
  <2> QED BY <1>1, <2>1, Zenon
<1> QED BY <1>2

(* A sequence without its (i + 1)-st element: what SequencesExt calls RemoveAt. *)
LEMMA CutOut ==
    ASSUME NEW S, NEW s \in Seq(S), NEW i \in 0 .. Len(s) - 1,
           NEW r, r = SubSeq(s, 1, i) \o SubSeq(s, i + 2, Len(s))
    PROVE  /\ r \in Seq(S)
           /\ Len(r) = Len(s) - 1
           /\ \A k \in 1 .. Len(s) - 1 : r[k] = IF k <= i THEN s[k] ELSE s[k + 1]
<1> DEFINE u == SubSeq(s, 1, i)
           v == SubSeq(s, i + 2, Len(s))
<1>1. Len(s) \in Nat /\ i \in Nat /\ i + 2 \in Nat /\ i + 2 <= Len(s) + 1
  BY LenProperties
<1>2. u \in Seq(S) /\ Len(u) = i /\ \A k \in 1 .. i : u[k] = s[k]
  <2>1. \A k \in 1 .. i : k \in 1 .. Len(s)
    BY <1>1
  <2>2. \A k \in 1 .. i : s[k] \in S
    BY <2>1, ElementOfSeq
  <2> QED BY <1>1, <2>2
<1>3. v \in Seq(S) /\ Len(v) = Len(s) - 1 - i
      /\ \A k \in 1 .. Len(s) - 1 - i : v[k] = s[i + 1 + k]
  <2>1. \A k \in i + 2 .. Len(s) : k \in 1 .. Len(s)
    BY <1>1
  <2>2. \A k \in i + 2 .. Len(s) : s[k] \in S
    BY <2>1, ElementOfSeq
  <2> QED BY <1>1, <2>2
<1>4. r = u \o v
  OBVIOUS
<1> HIDE DEF u, v
<1>5. /\ u \o v \in Seq(S)
      /\ Len(u \o v) = Len(u) + Len(v)
      /\ \A k \in 1 .. Len(u) + Len(v) : (u \o v)[k] = IF k <= Len(u) THEN u[k] ELSE v[k - Len(u)]
  BY <1>2, <1>3, ConcatProperties
<1>6. \A k \in 1 .. Len(s) - 1 : (u \o v)[k] = IF k <= i THEN s[k] ELSE s[k + 1]
  <2> SUFFICES ASSUME NEW k \in 1 .. Len(s) - 1
               PROVE  (u \o v)[k] = IF k <= i THEN s[k] ELSE s[k + 1]
    OBVIOUS
  <2>1. CASE k <= i
    BY <1>1, <1>2, <1>3, <1>5, <2>1
  <2>2. CASE k > i
    <3>1. PICK j \in 1 .. Len(s) - 1 - i : j = k - i /\ i + 1 + j = k + 1
      BY <1>1, <2>2
    <3>2. (u \o v)[k] = v[j]
      BY <1>1, <1>2, <1>3, <1>5, <2>2, <3>1
    <3>3. v[j] = s[k + 1]
      BY <1>3, <3>1
    <3>4. ~(k <= i)
      BY <1>1, <2>2
    <3> QED BY <3>2, <3>3, <3>4, Zenon
  <2>3. k <= i \/ k > i
    BY <1>1
  <2> QED BY <2>1, <2>2, <2>3
<1>7. Len(u \o v) = Len(s) - 1
  BY <1>1, <1>2, <1>3, <1>5
<1> QED BY <1>4, <1>5, <1>6, <1>7
=============================================================================
