------------------------------- MODULE Vector -------------------------------
(***************************************************************************)
(* The growing array of week06 (ds/vector.c), and what its callers take it *)
(* for, a sequence.                                                        *)
(*                                                                         *)
(* vector_create allocates three pointers; growing and shrinking then call *)
(* realloc with the number of elements where it takes bytes.  What memory  *)
(* there is depends on the allocator: an exact one gives what it is asked  *)
(* for, a roomy one (glibc's smallest block) never less than 24 bytes.     *)
(* Once an operation leaves the memory there is, everything may happen,    *)
(* and `fate' is undefined for good.                                       *)
(***************************************************************************)
EXTENDS Integers, Sequences, SequencesExt

CONSTANTS
    Values, Junk,
    SizeMod            \* 2^w for a size_t of w bits

Prealloc   == 3     \* VECTOR_PREALLOC
GrowFactor == 2     \* VECTOR_GROW_FACTOR
Pointer    == 8     \* bytes

ASSUME VectorConstants == SizeMod \in Nat /\ SizeMod > 4 * GrowFactor * Prealloc

VARIABLES
    roomy,          \* the allocator
    data, length, capacity,
    room,           \* pointers that the memory behind data holds
    fate,
    items,          \* what the calls so far have made of a sequence
    calm,           \* were all of them in range, and no insertion before the end?
    most, least     \* its greatest length, and its least after a removal

vectorVars == <<roomy, data, length, capacity, room, fate, items, calm, most, least>>

VectorInit ==
    /\ roomy \in BOOLEAN
    /\ data = [i \in 0 .. Prealloc - 1 |-> Junk]
    /\ length = 0 /\ capacity = Prealloc /\ room = Prealloc
    /\ fate = "ok"
    /\ items = <<>> /\ calm = TRUE /\ most = 0 /\ least = Prealloc

\* Bound of the model: nothing is claimed of a vector after a call out of range.
Going == fate = "ok" /\ calm

\* The calls as the sequence sees them.
Meant(s, good) ==
    /\ items' = IF good THEN s ELSE items
    /\ calm' = (calm /\ good)
    /\ most' = IF Len(items') > most THEN Len(items') ELSE most
    /\ least' = IF Len(items') < Len(items) /\ Len(items') < least THEN Len(items') ELSE least
    /\ UNCHANGED roomy

Breaks == fate' = "undefined" /\ UNCHANGED <<data, length, capacity, room>>

\* The pointers that realloc(data, bytes) leaves.
BlockOf(bytes) ==
    IF roomy /\ bytes \div Pointer < Prealloc THEN Prealloc ELSE bytes \div Pointer

\* The loop that makes place counts up from the end, away from i.
Insert(i, x) ==
    LET full == length = capacity
        cap  == IF full THEN capacity * GrowFactor ELSE capacity
        r    == IF full THEN BlockOf(cap) ELSE room
    IN  IF i < length \/ i >= r \/ (full /\ length > r) THEN Breaks
        ELSE /\ data' = [data EXCEPT ![i] = x]
             /\ length' = (length + 1) % SizeMod
             /\ capacity' = cap /\ room' = r
             /\ UNCHANGED fate

VectorInsert(i, x) ==
    /\ Going
    /\ Insert(i, x)
    /\ Meant(Append(items, x), i = Len(items))

VectorAppend(x) ==
    /\ Going
    /\ Insert(length, x)
    /\ Meant(Append(items, x), TRUE)

\* An index equal to the length passes the check.
VectorReplace(i, x) ==
    /\ Going
    /\ IF i > length THEN UNCHANGED <<data, length, capacity, room, fate>>
       ELSE IF i >= room THEN Breaks
       ELSE /\ data' = [data EXCEPT ![i] = x]
            /\ UNCHANGED <<length, capacity, room, fate>>
    /\ Meant([k \in DOMAIN items |-> IF k = i + 1 THEN x ELSE items[k]], i < Len(items))

\* Mutant: one element too few is moved.
TakeTooFew(i) ==
    LET last   == (length - 1) % SizeMod
        shrink == capacity > (last * GrowFactor) % SizeMod /\ capacity > 1
        cap    == IF shrink THEN capacity \div GrowFactor ELSE capacity
        r      == IF shrink THEN BlockOf(cap) ELSE room
    IN  IF (i < last /\ last >= room) \/ (shrink /\ last > r) THEN Breaks
        ELSE /\ data' = [k \in DOMAIN data |->
                            IF i <= k /\ k + 1 < last THEN data[k + 1] ELSE data[k]]
             /\ length' = last
             /\ capacity' = cap /\ room' = r
             /\ UNCHANGED fate

\* An empty vector has a last index of 2^w - 1, and a length of that after the removal.
Take(i) ==
    LET last   == (length - 1) % SizeMod
        shrink == capacity > (last * GrowFactor) % SizeMod /\ capacity > 1
        cap    == IF shrink THEN capacity \div GrowFactor ELSE capacity
        r      == IF shrink THEN BlockOf(cap) ELSE room
    IN  IF (i < last /\ last >= room) \/ (shrink /\ last > r) THEN Breaks
        ELSE /\ data' = [k \in DOMAIN data |->
                            IF i <= k /\ k < last THEN data[k + 1] ELSE data[k]]
             /\ length' = last
             /\ capacity' = cap /\ room' = r
             /\ UNCHANGED fate

Without(i) == IF i < Len(items) THEN RemoveAt(items, i + 1) ELSE items

VectorRemove(i) ==
    /\ Going
    /\ Take(i)
    /\ Meant(Without(i), i < Len(items))

VectorPop ==
    /\ Going
    /\ Take((length - 1) % SizeMod)
    /\ Meant(Without(Len(items) - 1), items # <<>>)

VectorNext ==
    \/ \E x \in Values :
          \/ VectorAppend(x)
          \/ \E i \in 0 .. Prealloc : VectorInsert(i, x) \/ VectorReplace(i, x)
    \/ \E i \in 0 .. Prealloc : VectorRemove(i)
    \/ VectorPop

VectorSpec == VectorInit /\ [][VectorNext]_vectorVars

\* Past the memory there is vector_index reads whatever is there.
VectorIndex(i) == IF i > length THEN "NULL" ELSE IF i < room THEN data[i] ELSE Junk

(***************************************************************************)
(* As long as every index is in range and nothing is inserted before the   *)
(* end, a vector holds what the sequence holds or is undefined, and it is  *)
(* not undefined before its fourth element; under an exact allocator, not  *)
(* before its fourth or a removal that leaves fewer than two.              *)
(***************************************************************************)
VectorIsSequence ==
    calm =>
        /\ fate = "ok" => /\ length = Len(items)
                          /\ \A i \in 1 .. length : VectorIndex(i - 1) = items[i]
        /\ most <= Prealloc /\ (roomy \/ least >= 2) => fate = "ok"
=============================================================================
