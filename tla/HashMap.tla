------------------------------- MODULE HashMap -------------------------------
(***************************************************************************)
(* The chained hash map of week06 (ds/hashmap.c): a function from buckets  *)
(* to the sequences of the values in their chains.                         *)
(*                                                                         *)
(* hashmap_add_element and hashmap_remove_element hand the comparison the  *)
(* chain's entry where hashmap_look_up_element hands it the entry's value. *)
(* What a comparison makes of an entry does not depend on what is in it:   *)
(* strcmp finds the bytes of a pointer different from any name, and the    *)
(* reference counter finds the address of a record different from that of  *)
(* an object, which it reports as equal.  So it is a Boolean, `equal'.     *)
(***************************************************************************)
EXTENDS Integers, Sequences, SequencesExt

EmptyMap(size) == [b \in 0 .. size - 1 |-> <<>>]

\* Mutant: the comparison is handed the values, and an element replaces its equal.
AddCompared(t, b, e, equal) ==
    LET same(x) == equal \/ ("filename" \in DOMAIN x /\ x.filename = e.filename)
        k == SelectInSeq(t[b], same)
    IN  IF k = 0 THEN [t EXCEPT ![b] = Append(@, e)] ELSE [t EXCEPT ![b][k] = e]

AddElement(t, b, e, equal) ==
    IF equal /\ t[b] # <<>> THEN [t EXCEPT ![b][1] = e]
                            ELSE [t EXCEPT ![b] = Append(@, e)]

RemoveElement(t, b, equal) ==
    IF equal /\ t[b] # <<>> THEN [t EXCEPT ![b] = Tail(@)] ELSE t

\* Bucket by bucket, each chain from its head.
EntriesOf(t) == FlattenSeq([i \in 1 .. Cardinality(DOMAIN t) |-> t[i - 1]])

\* Where the look-up finds an element: its bucket and its place in the chain, if anywhere.
Place(t, Matches(_)) ==
    LET hits(b) == {k \in 1 .. Len(t[b]) : Matches(t[b][k])}
        buckets == {b \in DOMAIN t : hits(b) # {}}
    IN  IF buckets = {} THEN <<>> ELSE <<Min(buckets), Min(hits(Min(buckets)))>>

\* The value found, as a sequence that is empty for NULL.
LookUp(t, Matches(_)) ==
    LET at == Place(t, Matches) IN IF at = <<>> THEN <<>> ELSE <<t[at[1]][at[2]]>>

-----------------------------------------------------------------------------
(* polynomial_hash, of a name as a sequence of bytes *)

SignedChar(c) == IF c > 127 THEN c - 256 ELSE c

\* C's remainder has the sign of the dividend.
Remainder(a, m) == IF a >= 0 THEN a % m ELSE -((-a) % m)

PolynomialHash(s, p, m) ==
    FoldLeft(LAMBDA h, c : Remainder((h + SignedChar(c)) * p, m), 0, s)

\* Is the hash the index of a bucket?  A negative one is not: data[hash] is then undefined.
Hashable(s, size) == PolynomialHash(s, 257, size) >= 0
=============================================================================
