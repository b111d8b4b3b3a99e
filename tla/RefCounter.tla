----------------------------- MODULE RefCounter -----------------------------
(***************************************************************************)
(* The reference counter of week06 (ds/refcounter.c) over its hash map,    *)
(* under calls that balance: an object is released as often as it was      *)
(* taken at most.                                                          *)
(*                                                                         *)
(* refcounter_compare_fn returns 1 for equal pointers, where the hash map  *)
(* takes 0 for equal.  So a look-up finds the first record of another      *)
(* object, and an insertion takes the first entry of its bucket for its    *)
(* own.  Nothing in week06 calls it yet; all hashes are in range.          *)
(***************************************************************************)
EXTENDS HashMap

CONSTANTS
    Objects,
    Bucket,         \* refcounter_hash_fn
    MaxHeld         \* bound of the model: references to one object at a time

ASSUME RefCounterConstants ==
    /\ IsFiniteSet(Objects) /\ Objects # {}
    /\ Bucket \in [Objects -> Nat]
    /\ MaxHeld \in Nat

VARIABLES
    counters,       \* refcounter_hashmap
    held,           \* references taken and not released: history
    taken, again,   \* objects ever taken; was one of them taken again? history
    freed           \* objects that were freed

refVars == <<counters, held, taken, again, freed>>

Buckets == Max({Bucket[p] : p \in Objects}) + 1

RefInit ==
    /\ counters = EmptyMap(Buckets)
    /\ held = [p \in Objects |-> 0]
    /\ taken = {} /\ again = FALSE /\ freed = {}

\* Mutant: the comparison tells objects apart.
FoundSame(p) == Place(counters, LAMBDA e : e.ptr = p)

\* The record that a look-up for p returns.
Found(p) == Place(counters, LAMBDA e : e.ptr # p)

Refs(at) == counters[at[1]][at[2]].refs

Incref(p) ==
    /\ held[p] < MaxHeld /\ p \notin freed
    /\ held' = [held EXCEPT ![p] = @ + 1]
    /\ taken' = taken \cup {p}
    /\ again' = (again \/ p \in taken)
    /\ LET at == Found(p)
       IN  counters' = IF at # <<>> THEN [counters EXCEPT ![at[1]][at[2]].refs = @ + 1]
                       ELSE AddElement(counters, Bucket[p], [ptr |-> p, refs |-> 1], TRUE)
    /\ UNCHANGED freed

Decref(p) ==
    /\ held[p] > 0
    /\ held' = [held EXCEPT ![p] = @ - 1]
    /\ LET at == Found(p)
       IN  IF at = <<>> THEN UNCHANGED <<counters, freed>>
           ELSE LET value == counters[at[1]][at[2]]
                    less  == [counters EXCEPT ![at[1]][at[2]].refs = @ - 1]
                IN  IF value.refs > 1 THEN counters' = less /\ UNCHANGED freed
                    ELSE /\ freed' = freed \cup {value.ptr}
                         /\ counters' = RemoveElement(less, Bucket[value.ptr], TRUE)
    /\ UNCHANGED <<taken, again>>

RefNext == \E p \in Objects : Incref(p) \/ Decref(p)

RefSpec == RefInit /\ [][RefNext]_refVars

(***************************************************************************)
(* One object is counted at a time, with one reference more than are taken *)
(* of all the others.  So as long as no object is taken a second time      *)
(* nothing is ever freed, however often everything is released; when one   *)
(* is, its count starts over and another object's release frees it.        *)
(***************************************************************************)
NothingFreedUnlessTwice ==
    LET entries == EntriesOf(counters) IN
    /\ Len(entries) <= 1
    /\ ~again =>
          /\ freed = {}
          /\ \A e \in ToSet(entries) :
                e.refs = 1 + MapThenSumSet(LAMBDA q : held[q], Objects \ {e.ptr})
=============================================================================
