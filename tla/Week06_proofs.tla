--------------------------- MODULE Week06_proofs ---------------------------
(* Proofs about week06: what the callers of Vector may take for a sequence,    *)
(* with any values, any width of a size_t and either allocator; what           *)
(* RefCounter counts, with any objects and any hashes; that the JSON parser    *)
(* reads every message as the grammar says; that names of ASCII characters     *)
(* have a bucket; and that the index of files loses nothing it has found.      *)
EXTENDS Vector, RefCounter, JsonReader, FileIndex, ProofLemmas

-----------------------------------------------------------------------------
(* The vector *)

(***************************************************************************)
(* The inductive invariant.  A vector that is not undefined has the length *)
(* of the sequence and memory for it; an exact allocator leaves it its     *)
(* first block or, after a removal of all but one, none at all.  A vector  *)
(* that is undefined has been through one of the two calls that make it so. *)
(***************************************************************************)
Holds ==
    /\ length = Len(items) /\ length <= room
    /\ data = [k \in 0 .. Prealloc - 1 |-> data[k]]
    /\ \A i \in 1 .. Len(items) : data[i - 1] = items[i]
    /\ capacity \in 1 .. 4
    /\ roomy => room = Prealloc
    /\ ~roomy => \/ room = Prealloc /\ capacity = Prealloc
                 \/ room = 0 /\ capacity = 1 /\ least < 2

Overgrown == most > Prealloc \/ (~roomy /\ least < 2)

VectorInv ==
    /\ roomy \in BOOLEAN /\ calm \in BOOLEAN /\ fate \in {"ok", "undefined"}
    /\ items \in Seq(Values)
    /\ most \in Nat /\ least \in Nat
    /\ calm => IF fate = "ok" THEN Holds ELSE Overgrown

-----------------------------------------------------------------------------
(* Arithmetic and sequences *)

(* Lengths and capacities are far from the width of a size_t. *)
LEMMA NoWrap ==
    ASSUME NEW n \in Nat, n <= 24
    PROVE  n % SizeMod = n
BY VectorConstants DEF GrowFactor, Prealloc

(* The bytes that realloc is asked for are less than a pointer: it leaves the smallest block. *)
LEMMA SmallestBlock ==
    ASSUME NEW n \in 1 .. 7
    PROVE  BlockOf(n) = IF roomy THEN Prealloc ELSE 0
BY DEF BlockOf, Pointer, Prealloc

(* A sequence without its (i + 1)-st element. *)
LEMMA RemovedAt ==
    ASSUME NEW s \in Seq(Values), NEW i \in 0 .. Len(s) - 1
    PROVE  /\ RemoveAt(s, i + 1) \in Seq(Values)
           /\ Len(RemoveAt(s, i + 1)) = Len(s) - 1
           /\ \A k \in 1 .. Len(s) - 1 :
                 RemoveAt(s, i + 1)[k] = IF k <= i THEN s[k] ELSE s[k + 1]
<1>1. (i + 1) - 1 = i /\ (i + 1) + 1 = i + 2
  BY LenProperties
<1>2. RemoveAt(s, i + 1) = SubSeq(s, 1, (i + 1) - 1) \o SubSeq(s, (i + 1) + 1, Len(s))
  BY Zenon DEF RemoveAt
<1>3. RemoveAt(s, i + 1) = SubSeq(s, 1, i) \o SubSeq(s, i + 2, Len(s))
  BY <1>1, <1>2
<1> QED BY <1>3, CutOut

-----------------------------------------------------------------------------
(* The invariant is inductive *)

(* A new vector is an empty sequence with memory for three. *)
LEMMA InitVectorInv == VectorInit => VectorInv
<1> SUFFICES ASSUME VectorInit PROVE VectorInv
  OBVIOUS
<1>1. items = <<>> /\ <<>> \in Seq(Values) /\ Len(<<>>) = 0
  BY EmptySeq DEF VectorInit
<1>2. data = [k \in 0 .. Prealloc - 1 |-> data[k]]
  BY DEF VectorInit
<1>3. Holds
  BY <1>1, <1>2 DEF VectorInit, Holds, Prealloc
<1> QED BY <1>1, <1>3 DEF VectorInit, VectorInv, Prealloc

(* What a call does to the history, whatever it does to the vector. *)
LEMMA MeantTypes ==
    ASSUME VectorInv, NEW s \in Seq(Values), NEW good \in BOOLEAN, Meant(s, good)
    PROVE  /\ roomy' = roomy /\ roomy \in BOOLEAN /\ calm' = (calm /\ good)
           /\ items' = IF good THEN s ELSE items
           /\ items' \in Seq(Values)
           /\ most' \in Nat /\ least' \in Nat
           /\ Len(items') <= most' /\ most <= most' /\ least' <= least
           /\ Len(items') < Len(items) => least' <= Len(items')
<1>1. Len(items) \in Nat /\ Len(s) \in Nat
  BY LenProperties DEF VectorInv
<1> QED BY <1>1 DEF Meant, VectorInv

(* Appending: beyond the memory there is only with a fourth element, or after a shrinking. *)
LEMMA InsertAtEnd ==
    ASSUME VectorInv, Holds, calm, fate = "ok", NEW x \in Values, Insert(length, x),
           Meant(Append(items, x), TRUE)
    PROVE  VectorInv'
<1> DEFINE n == length
<1>1. n \in 0 .. 3 /\ n = Len(items) /\ room \in {0, 3} /\ room \in Nat
  BY LenProperties DEF VectorInv, Holds, Prealloc
<1>2. /\ Append(items, x) \in Seq(Values) /\ Len(Append(items, x)) = n + 1
      /\ \A k \in 1 .. n : Append(items, x)[k] = items[k]
      /\ Append(items, x)[n + 1] = x
  BY <1>1, AppendProperties DEF VectorInv
<1>3. /\ roomy' = roomy /\ roomy \in BOOLEAN /\ calm' = TRUE
      /\ items' = Append(items, x)
      /\ most' \in Nat /\ least' \in Nat
      /\ Len(items') <= most' /\ most <= most' /\ least' <= least
  BY <1>2, MeantTypes
<1>4. (n + 1) % SizeMod = n + 1
  BY <1>1, NoWrap
<1> DEFINE full == n = capacity
           cap  == IF full THEN capacity * GrowFactor ELSE capacity
           r    == IF full THEN BlockOf(cap) ELSE room
<1>5. capacity \in 1 .. 4 /\ cap \in 1 .. 8 /\ (full => cap \in 1 .. 7)
  BY <1>1 DEF Holds, GrowFactor
<1>6. r = IF full THEN (IF roomy THEN Prealloc ELSE 0) ELSE room
  BY <1>5, SmallestBlock
<1> HIDE DEF cap, r
<1>7. \/ Breaks /\ (n >= r \/ (full /\ n > r))
      \/ /\ n < r /\ data' = [data EXCEPT ![n] = x]
         /\ length' = (n + 1) % SizeMod /\ capacity' = cap /\ room' = r /\ fate' = fate
  <2>1. r \in Nat
    BY <1>1, <1>6 DEF Prealloc
  <2> QED BY <1>1, <2>1 DEF Insert, full, cap, r
<1>8. CASE Breaks /\ (n >= r \/ (full /\ n > r))
  <2>1. n = 3 \/ (~roomy /\ least < 2)
    BY <1>1, <1>6, <1>8 DEF Holds, Prealloc
  <2>2. Overgrown'
    BY <1>2, <1>3, <2>1 DEF Overgrown, VectorInv, Prealloc
  <2> QED BY <1>2, <1>3, <1>8, <2>2 DEF VectorInv, Breaks
<1>9. CASE /\ n < r /\ data' = [data EXCEPT ![n] = x]
           /\ length' = (n + 1) % SizeMod /\ capacity' = cap /\ room' = r /\ fate' = fate
  <2>1. r <= 3 /\ n \in 0 .. 2
    BY <1>1, <1>6, <1>9 DEF Prealloc
  <2>2. data' = [k \in 0 .. Prealloc - 1 |-> data'[k]]
    BY <1>9 DEF Holds
  <2>3. \A k \in 0 .. 2 : data'[k] = IF k = n THEN x ELSE data[k]
    BY <1>9 DEF Holds, Prealloc
  <2>4. \A k \in 1 .. n + 1 : data'[k - 1] = items'[k]
    <3> SUFFICES ASSUME NEW k \in 1 .. n + 1
                 PROVE  data'[k - 1] = items'[k]
      OBVIOUS
    <3>1. PICK m \in 0 .. 2 : m = k - 1
      BY <2>1
    <3>2. data'[k - 1] = IF m = n THEN x ELSE data[m]
      BY <2>3, <3>1
    <3>3. CASE k = n + 1
      <4>1. m = n
        BY <1>1, <3>1, <3>3
      <4> QED BY <1>2, <1>3, <3>2, <3>3, <4>1
    <3>4. CASE k \in 1 .. n
      <4>1. m # n /\ k - 1 = m
        BY <1>1, <3>1, <3>4
      <4>2. data[k - 1] = items[k]
        BY <1>1, <3>4 DEF Holds
      <4> QED BY <1>2, <1>3, <3>2, <3>4, <4>1, <4>2
    <3>5. k = n + 1 \/ k \in 1 .. n
      BY <1>1
    <3> QED BY <3>3, <3>4, <3>5
  <2>5. capacity' \in 1 .. 4 /\ room' \in {0, 3} /\ (roomy => room' = Prealloc)
    BY <1>1, <1>6, <1>9, <2>1 DEF Holds, Prealloc, GrowFactor, cap
  <2>6. ~roomy => room' = Prealloc /\ capacity' = Prealloc
    BY <1>1, <1>6, <1>9 DEF Holds, Prealloc, cap
  <2>7. Holds'
    BY <1>1, <1>2, <1>3, <1>4, <1>9, <2>1, <2>2, <2>4, <2>5, <2>6 DEF Holds
  <2> QED BY <1>2, <1>3, <1>9, <2>7 DEF VectorInv
<1> QED BY <1>7, <1>8, <1>9

(* Removing: an exact allocator takes the memory away with the last but one. *)
LEMMA TakeInRange ==
    ASSUME VectorInv, Holds, calm, fate = "ok", NEW i \in 0 .. Len(items) - 1, Take(i),
           Meant(Without(i), TRUE)
    PROVE  VectorInv'
<1> DEFINE last   == (length - 1) % SizeMod
           shrink == capacity > (last * GrowFactor) % SizeMod /\ capacity > 1
           cap    == IF shrink THEN capacity \div GrowFactor ELSE capacity
           r      == IF shrink THEN BlockOf(cap) ELSE room
<1>1. length \in 1 .. 3 /\ length = Len(items) /\ room \in {0, 3} /\ i \in 0 .. length - 1
      /\ room = 3 /\ capacity \in 1 .. 4
  BY LenProperties DEF VectorInv, Holds, Prealloc
<1>2. PICK n \in 0 .. 2 : n = length - 1 /\ last = n /\ (last * GrowFactor) % SizeMod = 2 * n
  <2>1. PICK n \in 0 .. 2 : n = length - 1
    BY <1>1
  <2>2. n % SizeMod = n /\ (2 * n) % SizeMod = 2 * n /\ n * 2 = 2 * n
    BY NoWrap
  <2> QED BY <2>1, <2>2 DEF GrowFactor
<1>3. /\ Without(i) \in Seq(Values) /\ Len(Without(i)) = n
      /\ \A k \in 1 .. n : Without(i)[k] = IF k <= i THEN items[k] ELSE items[k + 1]
  <2>1. Without(i) = RemoveAt(items, i + 1)
    BY <1>1 DEF Without
  <2> QED BY <1>1, <1>2, <2>1, RemovedAt DEF VectorInv
<1>4. /\ roomy' = roomy /\ roomy \in BOOLEAN /\ calm' = TRUE
      /\ items' = Without(i)
      /\ most' \in Nat /\ least' \in Nat
      /\ most <= most' /\ least' <= least /\ least' <= n
  <2>1. /\ roomy' = roomy /\ roomy \in BOOLEAN /\ calm' = (calm /\ TRUE)
        /\ items' = Without(i)
        /\ most' \in Nat /\ least' \in Nat
        /\ most <= most' /\ least' <= least
        /\ Len(items') < Len(items) => least' <= Len(items')
    BY <1>3, MeantTypes
  <2>2. Len(items') = n /\ n < Len(items)
    BY <1>1, <1>2, <1>3, <2>1
  <2> QED BY <2>1, <2>2
<1>5. shrink <=> capacity > 2 * n /\ capacity > 1
  BY <1>2
<1>6. cap \in 1 .. 4 /\ (shrink => cap \in 1 .. 2)
  BY <1>1, <1>5 DEF GrowFactor
<1>7. r = IF shrink THEN (IF roomy THEN Prealloc ELSE 0) ELSE 3
  BY <1>1, <1>6, SmallestBlock
<1>8. ~roomy => capacity = 3 /\ (shrink <=> n <= 1) /\ (n <= 1 => cap = 1)
  BY <1>1, <1>5 DEF Holds, Prealloc, GrowFactor
<1>9. \/ Breaks /\ shrink /\ n > r
      \/ /\ n <= r
         /\ data' = [k \in DOMAIN data |-> IF i <= k /\ k < n THEN data[k + 1] ELSE data[k]]
         /\ length' = n /\ capacity' = cap /\ room' = r /\ fate' = fate
  <2>1. r \in Nat
    BY <1>7 DEF Prealloc
  <2>2. ~(n >= room) /\ (~shrink => n <= r)
    BY <1>1, <1>2, <1>7
  <2> HIDE DEF r, cap, shrink
  <2>3. IF (i < n /\ n >= room) \/ (shrink /\ n > r) THEN Breaks
        ELSE /\ data' = [k \in DOMAIN data |-> IF i <= k /\ k < n THEN data[k + 1] ELSE data[k]]
             /\ length' = n
             /\ capacity' = cap /\ room' = r
             /\ UNCHANGED fate
    BY <1>2 DEF Take, r, cap, shrink
  <2> QED BY <2>1, <2>2, <2>3
<1> HIDE DEF last, shrink, cap, r
<1>10. CASE Breaks /\ shrink /\ n > r
  <2>1. ~roomy /\ n <= 1
    BY <1>7, <1>8, <1>10 DEF Prealloc
  <2>2. Overgrown'
    BY <1>4, <2>1 DEF Overgrown, VectorInv
  <2> QED BY <1>3, <1>4, <1>10, <2>2 DEF VectorInv, Breaks
<1>11. CASE /\ n <= r
            /\ data' = [k \in DOMAIN data |-> IF i <= k /\ k < n THEN data[k + 1] ELSE data[k]]
            /\ length' = n /\ capacity' = cap /\ room' = r /\ fate' = fate
  <2>1. data' = [k \in 0 .. Prealloc - 1 |-> data'[k]]
    BY <1>11 DEF Holds
  <2>2. \A k \in 0 .. 2 : data'[k] = IF i <= k /\ k < n THEN data[k + 1] ELSE data[k]
    BY <1>11 DEF Holds, Prealloc
  <2>3. \A k \in 1 .. n : data'[k - 1] = items'[k]
    <3> SUFFICES ASSUME NEW k \in 1 .. n
                 PROVE  data'[k - 1] = items'[k]
      OBVIOUS
    <3>1. PICK m \in 0 .. 1 : m = k - 1 /\ m < n /\ k = m + 1 /\ k \in 1 .. 2
      BY <1>2
    <3>2. data'[k - 1] = IF i <= m THEN data[m + 1] ELSE data[m]
      BY <2>2, <3>1
    <3>3. data[m] = items[k] /\ data[m + 1] = items[k + 1]
      <4>1. \A j \in 1 .. length : data[j - 1] = items[j]
        BY DEF Holds
      <4>2. k \in 1 .. length /\ k + 1 \in 1 .. length /\ (k + 1) - 1 = m + 1
        BY <1>1, <1>2, <3>1
      <4> QED BY <3>1, <4>1, <4>2
    <3>4. items'[k] = IF k <= i THEN items[k] ELSE items[k + 1]
      BY <1>3, <1>4
    <3>5. k <= i <=> ~(i <= m)
      BY <1>1, <3>1
    <3> QED BY <3>2, <3>3, <3>4, <3>5
  <2>4. /\ capacity' \in 1 .. 4 /\ length' <= room'
        /\ (roomy => room' = Prealloc)
        /\ (~roomy => \/ room' = Prealloc /\ capacity' = Prealloc
                      \/ room' = 0 /\ capacity' = 1 /\ least' < 2)
    BY <1>1, <1>4, <1>6, <1>7, <1>8, <1>11 DEF Prealloc, cap, VectorInv
  <2>5. Holds'
    BY <1>3, <1>4, <1>11, <2>1, <2>3, <2>4 DEF Holds
  <2> QED BY <1>3, <1>4, <1>11, <2>5 DEF VectorInv
<1> QED BY <1>9, <1>10, <1>11

(* A call out of range: nothing is claimed of the vector any more. *)
LEMMA OutOfRange ==
    ASSUME VectorInv, NEW s \in Seq(Values), Meant(s, FALSE), fate' \in {"ok", "undefined"}
    PROVE  VectorInv'
BY MeantTypes DEF VectorInv

(* Every call keeps the invariant. *)
LEMMA VectorKeeps == VectorInv /\ [VectorNext]_vectorVars => VectorInv'
<1> SUFFICES ASSUME VectorInv, [VectorNext]_vectorVars
             PROVE  VectorInv'
  OBVIOUS
<1>1. CASE UNCHANGED vectorVars
  BY <1>1 DEF vectorVars, VectorInv, Holds, Overgrown
<1>2. Going => Holds /\ calm /\ fate = "ok" /\ Len(items) \in Nat /\ length = Len(items)
  BY LenProperties DEF Going, VectorInv, Holds
<1>3. \A x \in Values : Append(items, x) \in Seq(Values)
  BY AppendProperties DEF VectorInv
<1>4. ASSUME NEW x \in Values, VectorAppend(x)
      PROVE  VectorInv'
  BY <1>2, <1>4, InsertAtEnd DEF VectorAppend
<1>5. ASSUME NEW x \in Values, NEW i \in 0 .. Prealloc, VectorInsert(i, x)
      PROVE  VectorInv'
  <2>1. CASE i = Len(items)
    <3>1. Insert(length, x) /\ Meant(Append(items, x), TRUE)
      BY <1>2, <1>5, <2>1 DEF VectorInsert
    <3> QED BY <1>2, <1>5, <3>1, InsertAtEnd DEF VectorInsert
  <2>2. CASE i # Len(items)
    <3>1. fate' \in {"ok", "undefined"}
      BY <1>5 DEF VectorInsert, Insert, Breaks, VectorInv
    <3>2. Meant(Append(items, x), FALSE)
      BY <1>5, <2>2 DEF VectorInsert, Meant
    <3> QED BY <1>3, <3>1, <3>2, OutOfRange
  <2> QED BY <2>1, <2>2
<1>6. ASSUME NEW x \in Values, NEW i \in 0 .. Prealloc, VectorReplace(i, x)
      PROVE  VectorInv'
  <2> DEFINE s == [k \in DOMAIN items |-> IF k = i + 1 THEN x ELSE items[k]]
  <2>1. s \in Seq(Values) /\ Len(s) = Len(items)
        /\ \A k \in 1 .. Len(items) : s[k] = IF k = i + 1 THEN x ELSE items[k]
    <3>1. items \in [1 .. Len(items) -> Values] /\ DOMAIN items = 1 .. Len(items)
          /\ Len(items) \in Nat
      BY LenProperties DEF VectorInv
    <3> QED BY <3>1
  <2> HIDE DEF s
  <2>2. Going /\ Meant(s, i < Len(items))
    BY <1>6 DEF VectorReplace, s
  <2>3. CASE ~(i < Len(items))
    <3>1. fate' \in {"ok", "undefined"}
      BY <1>6 DEF VectorReplace, Breaks, VectorInv
    <3>2. Meant(s, FALSE)
      BY <2>2, <2>3 DEF Meant
    <3> QED BY <2>1, <3>1, <3>2, OutOfRange
  <2>4. CASE i < Len(items)
    <3>1. /\ roomy' = roomy /\ calm' /\ items' = s
          /\ most' \in Nat /\ least' \in Nat /\ least' <= least
      BY <2>1, <2>2, <2>4, MeantTypes DEF Going
    <3>2. i \in 0 .. 2 /\ i < room /\ ~(i > length) /\ room \in {0, 3}
      BY <1>2, <2>2, <2>4 DEF Prealloc, Holds, VectorInv
    <3>3. /\ data' = [data EXCEPT ![i] = x]
          /\ UNCHANGED <<length, capacity, room, fate>>
      BY <1>6, <3>2 DEF VectorReplace
    <3>4. data' = [k \in 0 .. Prealloc - 1 |-> data'[k]]
      BY <1>2, <2>2, <3>3 DEF Holds
    <3>5. \A k \in 0 .. 2 : data'[k] = IF k = i THEN x ELSE data[k]
      BY <1>2, <2>2, <3>3 DEF Holds, Prealloc
    <3>6. \A k \in 1 .. Len(items) : data'[k - 1] = s[k]
      <4> SUFFICES ASSUME NEW k \in 1 .. Len(items)
                   PROVE  data'[k - 1] = s[k]
        OBVIOUS
      <4>1. PICK m \in 0 .. 2 : m = k - 1 /\ (m = i <=> k = i + 1)
        BY <1>2, <2>2, <3>2 DEF Holds
      <4>2. data[m] = items[k]
        BY <1>2, <2>2, <4>1 DEF Holds
      <4> QED BY <2>1, <3>5, <4>1, <4>2
    <3>7. Holds'
      BY <1>2, <2>1, <2>2, <3>1, <3>3, <3>4, <3>6 DEF Holds, VectorInv
    <3> QED BY <2>1, <2>2, <3>1, <3>3, <3>7 DEF VectorInv, Going
  <2> QED BY <2>3, <2>4
<1>7. ASSUME NEW i \in 0 .. Prealloc, VectorRemove(i)
      PROVE  VectorInv'
  <2>1. CASE i < Len(items)
    <3>1. i \in 0 .. Len(items) - 1 /\ Take(i)
      BY <1>2, <1>7, <2>1 DEF VectorRemove
    <3>2. Meant(Without(i), TRUE)
      BY <1>7, <2>1 DEF VectorRemove, Meant
    <3> QED BY <1>2, <1>7, <3>1, <3>2, TakeInRange DEF VectorRemove
  <2>2. CASE ~(i < Len(items))
    <3>1. fate' \in {"ok", "undefined"}
      BY <1>7 DEF VectorRemove, Take, Breaks, VectorInv
    <3>2. Without(i) \in Seq(Values)
      BY <2>2 DEF Without, VectorInv
    <3>3. Meant(Without(i), FALSE)
      BY <1>7, <2>2 DEF VectorRemove, Meant
    <3> QED BY <3>1, <3>2, <3>3, OutOfRange
  <2> QED BY <2>1, <2>2
<1>8. CASE VectorPop
  <2>1. CASE items # <<>>
    <3>1. Len(items) > 0
      BY <1>2, <1>8, <2>1, EmptySeq DEF VectorPop, VectorInv
    <3>2. length \in 1 .. 3 /\ length = Len(items)
      BY <1>2, <1>8, <3>1 DEF VectorPop, Holds, VectorInv, Prealloc
    <3>3. (length - 1) % SizeMod = Len(items) - 1
      <4>1. PICK n \in 0 .. 2 : n = length - 1
        BY <3>2
      <4>2. n % SizeMod = n
        BY NoWrap
      <4> QED BY <3>2, <4>1, <4>2
    <3>4. Take(Len(items) - 1) /\ Meant(Without(Len(items) - 1), TRUE)
      BY <1>8, <2>1, <3>3 DEF VectorPop, Meant
    <3>5. Len(items) - 1 \in 0 .. Len(items) - 1
      BY <3>2
    <3> QED BY <1>2, <1>8, <3>4, <3>5, TakeInRange DEF VectorPop
  <2>2. CASE items = <<>>
    <3>1. fate' \in {"ok", "undefined"}
      BY <1>8 DEF VectorPop, Take, Breaks, VectorInv
    <3>2. Meant(Without(Len(items) - 1), FALSE)
      BY <1>8, <2>2 DEF VectorPop, Meant
    <3>3. Without(Len(items) - 1) \in Seq(Values)
      BY <2>2 DEF Without, RemoveAt, VectorInv
    <3> QED BY <3>1, <3>2, <3>3, OutOfRange
  <2> QED BY <2>1, <2>2
<1> QED BY <1>1, <1>4, <1>5, <1>6, <1>7, <1>8 DEF VectorNext

(* A vector that is not undefined has memory for what its callers have put in, always. *)
THEOREM VectorInvariant == VectorSpec => []VectorInv
BY InitVectorInv, VectorKeeps, PTL DEF VectorSpec

(***************************************************************************)
(* As long as every index is in range and nothing is inserted before the   *)
(* end, a vector is the sequence its callers take it for; an allocator     *)
(* with glibc's smallest block is enough for three elements, an exact one  *)
(* for three until a removal leaves fewer than two.                        *)
(***************************************************************************)
THEOREM AVectorIsASequence == VectorSpec => []VectorIsSequence
<1>1. VectorInv => VectorIsSequence
  <2> SUFFICES ASSUME VectorInv, calm
               PROVE  /\ fate = "ok" => /\ length = Len(items)
                                        /\ \A i \in 1 .. length : VectorIndex(i - 1) = items[i]
                      /\ most <= Prealloc /\ (roomy \/ least >= 2) => fate = "ok"
    BY DEF VectorIsSequence
  <2>1. CASE fate = "ok"
    <3>1. Holds /\ Len(items) \in Nat /\ room \in Nat
      BY <2>1, LenProperties DEF VectorInv, Holds, Prealloc
    <3>2. ASSUME NEW i \in 1 .. length
          PROVE  VectorIndex(i - 1) = items[i]
      <4>1. ~(i - 1 > length) /\ i - 1 < room
        BY <3>1 DEF Holds
      <4>2. data[i - 1] = items[i]
        BY <3>1 DEF Holds
      <4> QED BY <4>1, <4>2 DEF VectorIndex
    <3> QED BY <2>1, <3>1, <3>2 DEF Holds
  <2>2. CASE fate # "ok"
    BY <2>2 DEF VectorInv, Overgrown, Prealloc
  <2> QED BY <2>1, <2>2
<1> QED BY <1>1, VectorInvariant, PTL

-----------------------------------------------------------------------------
(* The reference counter.  Sums over finite sets, by the least counterexample *)

\* The sum of a function's values on a set.
SumOf(f, S) == MapThenSumSet(LAMBDA q : f[q], S)

\* The element that a sum takes next.
Next1(s) == CHOOSE x \in s : TRUE

IsSum(u, f, D) ==
    u = [s \in D |-> IF s = {} THEN 0 ELSE f[Next1(s)] + u[s \ {Next1(s)}]]

UpToSize(S, n) == {s \in SUBSET S : Cardinality(s) <= n}

(* A finite set of numbers has a greatest one. *)
LEMMA GreatestNumber ==
    ASSUME NEW M \in SUBSET Nat, M # {}, IsFiniteSet(M)
    PROVE  Max(M) \in M /\ \A n \in M : Max(M) >= n
<1> DEFINE HasMax(A) == \E m \in A : \A n \in A : m >= n
           T == {k \in Nat : \E A \in SUBSET M : A # {} /\ Cardinality(A) = k /\ ~HasMax(A)}
<1>1. T = {}
  <2>1. SUFFICES ASSUME T # {} PROVE FALSE
    OBVIOUS
  <2>2. PICK k \in T : \A j \in T : k <= j
    <3>1. T \in SUBSET Nat
      OBVIOUS
    <3> HIDE DEF T
    <3> QED BY <2>1, <3>1, LeastNumber
  <2>3. PICK A \in SUBSET M : A # {} /\ Cardinality(A) = k /\ ~HasMax(A)
    OBVIOUS
  <2>4. PICK a \in A : TRUE
    BY <2>3
  <2> DEFINE B == A \ {a}
  <2>5. IsFiniteSet(A) /\ B \in SUBSET M
    BY <2>3, FS_Subset
  <2>6. Cardinality(B) = k - 1 /\ k \in Nat /\ Cardinality(B) \in Nat
    BY <2>3, <2>4, <2>5, FS_RemoveElement, FS_CardinalityType
  <2>7. B # {} => HasMax(B)
    <3>1. ~(k <= k - 1)
      BY <2>6
    <3>2. k - 1 \in Nat /\ k - 1 \notin T
      BY <2>2, <2>6, <3>1
    <3> QED BY <2>5, <2>6, <3>2
  <2>8. a \in Nat /\ \A n \in A : n \in Nat
    BY <2>3, <2>4
  <2>9. HasMax(A)
    <3>1. CASE B = {}
      <4>1. \A n \in A : n = a
        BY <3>1
      <4> QED BY <2>4, <2>8, <4>1
    <3>2. CASE B # {}
      <4>1. PICK m \in B : \A n \in B : m >= n
        BY <2>7, <3>2
      <4>2. CASE m >= a
        BY <4>1, <4>2
      <4>3. CASE a >= m
        <5>1. \A n \in A : a >= n
          BY <2>8, <4>1, <4>3
        <5> QED BY <2>4, <5>1
      <4> QED BY <2>8, <4>1, <4>2, <4>3
    <3> QED BY <3>1, <3>2
  <2> QED BY <2>3, <2>9
<1>2. HasMax(M)
  <2>1. Cardinality(M) \in Nat /\ Cardinality(M) \notin T
    BY <1>1, FS_CardinalityType
  <2> QED BY <2>1
<1> QED BY <1>2 DEF Max

(* There is something that sums. *)
LEMMA SumExists ==
    ASSUME NEW S, IsFiniteSet(S), NEW f
    PROVE  \E u : IsSum(u, f, SUBSET S)
<1> DEFINE Lacking == {n \in Nat : ~ \E u : IsSum(u, f, UpToSize(S, n))}
<1>0. \A s \in SUBSET S : IsFiniteSet(s) /\ Cardinality(s) \in Nat
  BY FS_Subset, FS_CardinalityType
<1>1. Lacking = {}
  <2>1. SUFFICES ASSUME Lacking # {} PROVE FALSE
    OBVIOUS
  <2>2. PICK m \in Lacking : \A n \in Lacking : m <= n
    <3>1. Lacking \in SUBSET Nat
      OBVIOUS
    <3> HIDE DEF Lacking
    <3> QED BY <2>1, <3>1, LeastNumber
  <2>3. m # 0
    <3>1. SUFFICES ASSUME m = 0 PROVE FALSE
      OBVIOUS
    <3>2. \A s \in UpToSize(S, 0) : s = {}
      <4> SUFFICES ASSUME NEW s \in SUBSET S, Cardinality(s) <= 0 PROVE s = {}
        BY DEF UpToSize
      <4>1. IsFiniteSet(s) /\ Cardinality(s) = 0
        BY <1>0
      <4> QED BY <4>1, FS_EmptySet
    <3> DEFINE v == [s \in UpToSize(S, 0) |-> 0]
    <3>3. IsSum(v, f, UpToSize(S, 0))
      BY <3>2 DEF IsSum
    <3> QED BY <3>1, <3>3
  <2>4. m \in Nat /\ m - 1 \in Nat /\ m - 1 \notin Lacking
    <3>1. m \in Nat /\ m - 1 \in Nat /\ ~(m <= m - 1)
      BY <2>3
    <3> HIDE DEF Lacking
    <3> QED BY <2>2, <3>1
  <2>5. PICK u : IsSum(u, f, UpToSize(S, m - 1))
    BY <2>4
  <2> DEFINE D == UpToSize(S, m - 1)
             v == [s \in UpToSize(S, m) |-> IF s \in D THEN u[s]
                                            ELSE f[Next1(s)] + u[s \ {Next1(s)}]]
  <2>6. ASSUME NEW s \in UpToSize(S, m), s # {}
        PROVE  s \ {Next1(s)} \in D /\ s \ {Next1(s)} \in UpToSize(S, m)
    <3>1. s \in SUBSET S /\ Next1(s) \in s /\ Cardinality(s) <= m
      BY <2>6 DEF UpToSize, Next1
    <3>2. Cardinality(s \ {Next1(s)}) = Cardinality(s) - 1 /\ Cardinality(s) \in Nat
      BY <1>0, <3>1, FS_RemoveElement
    <3>3. s \ {Next1(s)} \in SUBSET S
      BY <3>1
    <3> QED BY <2>4, <3>1, <3>2, <3>3 DEF UpToSize
  <2>7. ASSUME NEW s \in UpToSize(S, m)
        PROVE  v[s] = IF s = {} THEN 0 ELSE f[Next1(s)] + v[s \ {Next1(s)}]
    <3>1. s \in D => u[s] = IF s = {} THEN 0 ELSE f[Next1(s)] + u[s \ {Next1(s)}]
      BY <2>5 DEF IsSum
    <3>2. s = {} => s \in D
      BY <2>4, FS_EmptySet DEF UpToSize
    <3>3. s # {} => v[s \ {Next1(s)}] = u[s \ {Next1(s)}]
      BY <2>6
    <3> HIDE DEF D
    <3>4. v[s] = IF s \in D THEN u[s] ELSE f[Next1(s)] + u[s \ {Next1(s)}]
      OBVIOUS
    <3> HIDE DEF v
    <3> QED BY <3>1, <3>2, <3>3, <3>4
  <2>8. IsSum(v, f, UpToSize(S, m))
    <3>1. v = [s \in UpToSize(S, m) |-> v[s]]
      OBVIOUS
    <3> HIDE DEF v
    <3> QED BY <2>7, <3>1 DEF IsSum
  <2> QED BY <2>4, <2>8
<1>2. UpToSize(S, Cardinality(S)) = SUBSET S
  BY FS_Subset DEF UpToSize
<1>3. Cardinality(S) \in Nat /\ Cardinality(S) \notin Lacking
  BY <1>1, FS_CardinalityType
<1> QED BY <1>2, <1>3

(* The library's sum of a finite set is that of one such function. *)
LEMMA SumIs ==
    ASSUME NEW S, IsFiniteSet(S), NEW f
    PROVE  \E u : IsSum(u, f, SUBSET S) /\ SumOf(f, S) = u[S]
<1>1. SumOf(f, S) = (CHOOSE u : IsSum(u, f, SUBSET S))[S]
  BY DEF SumOf, MapThenSumSet, MapThenFoldSet, IsSum, Next1
<1>2. IsSum(CHOOSE u : IsSum(u, f, SUBSET S), f, SUBSET S)
  BY SumExists
<1> QED BY <1>1, <1>2

(* Sums of functions that differ at one place differ by as much. *)
LEMMA SumsCompare ==
    ASSUME NEW O, NEW f \in [O -> Nat], NEW g \in [O -> Nat], NEW p \in O,
           \A q \in O : q # p => g[q] = f[q],
           NEW S \in SUBSET O, IsFiniteSet(S)
    PROVE  /\ SumOf(f, S) \in Nat /\ SumOf(g, S) \in Nat
           /\ p \notin S => SumOf(g, S) = SumOf(f, S)
           /\ p \in S => SumOf(g, S) + f[p] = SumOf(f, S) + g[p]
<1>1. PICK u : IsSum(u, f, SUBSET S) /\ SumOf(f, S) = u[S]
  BY SumIs
<1>2. PICK v : IsSum(v, g, SUBSET S) /\ SumOf(g, S) = v[S]
  BY SumIs
<1> DEFINE Good(s) == /\ u[s] \in Nat /\ v[s] \in Nat
                      /\ p \notin s => v[s] = u[s]
                      /\ p \in s => v[s] + f[p] = u[s] + g[p]
           Bad == {n \in Nat : \E s \in SUBSET S : Cardinality(s) = n /\ ~Good(s)}
<1>3. Bad = {}
  <2>1. SUFFICES ASSUME Bad # {} PROVE FALSE
    OBVIOUS
  <2>2. PICK n \in Bad : \A k \in Bad : n <= k
    <3>1. Bad \in SUBSET Nat
      OBVIOUS
    <3> HIDE DEF Bad
    <3> QED BY <2>1, <3>1, LeastNumber
  <2>3. PICK s \in SUBSET S : Cardinality(s) = n /\ ~Good(s)
    OBVIOUS
  <2> DEFINE x == Next1(s)
             r == s \ {x}
  <2>4. /\ u[s] = IF s = {} THEN 0 ELSE f[x] + u[r]
        /\ v[s] = IF s = {} THEN 0 ELSE g[x] + v[r]
    BY <1>1, <1>2 DEF IsSum
  <2>5. s # {}
    <3>1. SUFFICES ASSUME s = {} PROVE Good(s)
      BY <2>3
    <3>2. u[s] = 0 /\ v[s] = 0 /\ p \notin s
      BY <2>4, <3>1
    <3> QED BY <3>2
  <2>6. x \in s /\ x \in O
    BY <2>5 DEF Next1
  <2>7. Good(r)
    <3>1. IsFiniteSet(s) /\ r \in SUBSET S
      BY FS_Subset
    <3>2. Cardinality(r) = n - 1 /\ Cardinality(r) \in Nat
      BY <2>3, <2>6, <3>1, FS_RemoveElement, FS_CardinalityType, FS_Subset
    <3>3. Cardinality(r) \notin Bad
      <4>1. n \in Nat /\ ~(n <= n - 1)
        OBVIOUS
      <4> HIDE DEF Bad
      <4> QED BY <2>2, <3>2, <4>1
    <3> HIDE DEF Good, r
    <3> QED BY <3>1, <3>2, <3>3
  <2>8. f[x] \in Nat /\ g[x] \in Nat /\ f[p] \in Nat /\ g[p] \in Nat
    BY <2>6
  <2>9. x # p => g[x] = f[x]
    BY <2>6
  <2>10. p \in r <=> p \in s /\ p # x
    OBVIOUS
  <2> HIDE DEF r, x
  <2>11. u[s] = f[x] + u[r] /\ v[s] = g[x] + v[r]
    BY <2>4, <2>5
  <2>12. Good(s)
    <3>1. CASE p \notin s
      BY <2>6, <2>7, <2>8, <2>9, <2>10, <2>11, <3>1
    <3>2. CASE p \in s /\ p # x
      BY <2>7, <2>8, <2>9, <2>10, <2>11, <3>2
    <3>3. CASE p \in s /\ p = x
      BY <2>7, <2>8, <2>10, <2>11, <3>3
    <3> QED BY <3>1, <3>2, <3>3
  <2> QED BY <2>3, <2>12
<1>4. Good(S)
  <2>1. Cardinality(S) \in Nat /\ Cardinality(S) \notin Bad
    BY <1>3, FS_CardinalityType
  <2> HIDE DEF Good
  <2> QED BY <2>1
<1> QED BY <1>1, <1>2, <1>4

(* What a sum has of one element, and of none. *)
LEMMA SumsHave ==
    ASSUME NEW O, NEW f \in [O -> Nat], NEW S \in SUBSET O, IsFiniteSet(S)
    PROVE  /\ SumOf(f, S) \in Nat
           /\ \A p \in S : f[p] <= SumOf(f, S)
           /\ (\A q \in S : f[q] = 0) => SumOf(f, S) = 0
<1>1. ASSUME NEW p \in S
      PROVE  SumOf(f, S) \in Nat /\ f[p] <= SumOf(f, S)
  <2> DEFINE g == [f EXCEPT ![p] = 0]
  <2>1. g \in [O -> Nat] /\ g[p] = 0 /\ \A q \in O : q # p => g[q] = f[q]
    OBVIOUS
  <2> HIDE DEF g
  <2>2. SumOf(f, S) \in Nat /\ SumOf(g, S) \in Nat /\ SumOf(g, S) + f[p] = SumOf(f, S) + g[p]
    BY <2>1, SumsCompare
  <2>3. f[p] \in Nat
    OBVIOUS
  <2> QED BY <2>1, <2>2, <2>3
<1>2. ASSUME \A q \in S : f[q] = 0
      PROVE  SumOf(f, S) = 0
  <2>1. PICK u : IsSum(u, f, SUBSET S) /\ SumOf(f, S) = u[S]
    BY SumIs
  <2> DEFINE Bad == {n \in Nat : \E s \in SUBSET S : Cardinality(s) = n /\ u[s] # 0}
  <2>2. Bad = {}
    <3>1. SUFFICES ASSUME Bad # {} PROVE FALSE
      OBVIOUS
    <3>2. PICK n \in Bad : \A k \in Bad : n <= k
      <4>1. Bad \in SUBSET Nat
        OBVIOUS
      <4> HIDE DEF Bad
      <4> QED BY <3>1, <4>1, LeastNumber
    <3>3. PICK s \in SUBSET S : Cardinality(s) = n /\ u[s] # 0
      OBVIOUS
    <3> DEFINE x == Next1(s)
               r == s \ {x}
    <3>4. u[s] = IF s = {} THEN 0 ELSE f[x] + u[r]
      BY <2>1 DEF IsSum
    <3>5. s # {} /\ x \in s
      BY <3>3, <3>4 DEF Next1
    <3>6. IsFiniteSet(s) /\ r \in SUBSET S
      BY FS_Subset
    <3>7. Cardinality(r) = n - 1 /\ Cardinality(r) \in Nat
      BY <3>3, <3>5, <3>6, FS_RemoveElement, FS_CardinalityType, FS_Subset
    <3>8. Cardinality(r) \notin Bad
      <4>1. n \in Nat /\ ~(n <= n - 1)
        OBVIOUS
      <4> HIDE DEF Bad
      <4> QED BY <3>2, <3>7, <4>1
    <3>9. u[r] = 0 /\ f[x] = 0
      BY <1>2, <3>5, <3>6, <3>7, <3>8
    <3> QED BY <3>3, <3>4, <3>5, <3>9
  <2>3. Cardinality(S) \in Nat /\ Cardinality(S) \notin Bad
    BY <2>2, FS_CardinalityType
  <2> QED BY <2>1, <2>3
<1>3. S = {} => SumOf(f, S) = 0
  BY <1>2
<1>4. SumOf(f, S) \in Nat
  <2>1. CASE S = {}
    BY <1>3, <2>1
  <2>2. CASE S # {}
    BY <1>1, <2>2
  <2> QED BY <2>1, <2>2
<1> QED BY <1>1, <1>2, <1>4

-----------------------------------------------------------------------------
(* Maps with one record, or none *)

Record == [ptr : Objects, refs : Nat]

\* The map whose one record is e, in the bucket of its object.
With(e) == [b \in 0 .. Buckets - 1 |-> IF b = Bucket[e.ptr] THEN <<e>> ELSE <<>>]

(* Every object has a bucket. *)
LEMMA BucketsAre == Buckets \in Nat \ {0} /\ \A p \in Objects : Bucket[p] \in 0 .. Buckets - 1
<1> DEFINE M == {Bucket[p] : p \in Objects}
<1>1. M \in SUBSET Nat /\ M # {}
  BY RefCounterConstants
<1>2. IsFiniteSet(M)
  <2>1. IsFiniteSet(Objects)
    BY RefCounterConstants
  <2>2. Bucket \in Surjection(Objects, M)
    BY RefCounterConstants DEF Surjection
  <2> HIDE DEF M
  <2> QED BY <2>1, <2>2, FS_Surjection
<1>3. Max(M) \in M /\ \A n \in M : Max(M) >= n
  <2> HIDE DEF M
  <2> QED BY <1>1, <1>2, GreatestNumber
<1>4. Buckets = Max(M) + 1
  BY DEF Buckets
<1>5. \A p \in Objects : Bucket[p] \in M
  OBVIOUS
<1> HIDE DEF M
<1>6. Max(M) \in Nat /\ \A n \in M : n \in Nat
  BY <1>1, <1>3
<1> QED BY <1>3, <1>4, <1>5, <1>6

\* What flattening has put together after so many sequences.
IsFlatten(g, q) == g = [i \in 1 .. Len(q) |-> IF i = 1 THEN q[i] ELSE g[i - 1] \o q[i]]

(* A sequence of sequences all empty but for one, and that of one element. *)
LEMMA Flattened ==
    ASSUME NEW n \in Nat \ {0}, NEW h \in 0 .. n, NEW e,
           NEW q, q = [i \in 1 .. n |-> IF i = h THEN <<e>> ELSE <<>>]
    PROVE  FlattenSeq(q) = IF h = 0 THEN <<>> ELSE <<e>>
<1> DEFINE G(i) == IF h = 0 \/ i < h THEN <<>> ELSE <<e>>
           g == [i \in 1 .. n |-> G(i)]
<1>1. Len(q) = n
  OBVIOUS
<1>2. \A i \in 1 .. n : G(i) = IF i = 1 THEN q[i] ELSE G(i - 1) \o q[i]
  <2> SUFFICES ASSUME NEW i \in 1 .. n
               PROVE  G(i) = IF i = 1 THEN q[i] ELSE G(i - 1) \o q[i]
    OBVIOUS
  <2>1. q[i] = IF i = h THEN <<e>> ELSE <<>>
    OBVIOUS
  <2>2. <<>> \o <<>> = <<>> /\ <<>> \o <<e>> = <<e>> /\ <<e>> \o <<>> = <<e>>
    OBVIOUS
  <2>3. CASE h = 0
    <3>1. q[i] = <<>> /\ G(i) = <<>> /\ G(i - 1) = <<>>
      BY <2>1, <2>3
    <3> HIDE DEF G
    <3> QED BY <2>2, <3>1
  <2>4. CASE h # 0 /\ i = h
    <3>1. q[i] = <<e>> /\ G(i) = <<e>> /\ G(i - 1) = <<>>
      BY <2>1, <2>4
    <3> HIDE DEF G
    <3> QED BY <2>2, <3>1
  <2>5. CASE h # 0 /\ i < h
    <3>1. q[i] = <<>> /\ G(i) = <<>> /\ G(i - 1) = <<>>
      BY <2>1, <2>5
    <3> HIDE DEF G
    <3> QED BY <2>2, <3>1
  <2>6. CASE h # 0 /\ h < i
    <3>1. q[i] = <<>> /\ G(i) = <<e>> /\ G(i - 1) = <<e>> /\ i # 1
      BY <2>1, <2>6
    <3> HIDE DEF G
    <3> QED BY <2>2, <3>1
  <2> QED BY <2>3, <2>4, <2>5, <2>6
<1>3. IsFlatten(g, q)
  <2>1. ASSUME NEW i \in 1 .. n
        PROVE  G(i) = IF i = 1 THEN q[i] ELSE g[i - 1] \o q[i]
    <3>1. i # 1 => g[i - 1] = G(i - 1)
      OBVIOUS
    <3> HIDE DEF g, G
    <3> QED BY <1>2, <3>1
  <2> HIDE DEF G
  <2> QED BY <1>1, <2>1 DEF IsFlatten
<1> DEFINE u == CHOOSE v : IsFlatten(v, q)
<1>4. IsFlatten(u, q)
  BY <1>3
<1>5. FlattenSeq(q) = u[n]
  BY <1>1 DEF FlattenSeq, IsFlatten
<1> HIDE DEF u
<1> DEFINE Bad == {i \in 1 .. n : u[i] # G(i)}
<1>6. Bad = {}
  <2>1. SUFFICES ASSUME Bad # {} PROVE FALSE
    OBVIOUS
  <2>2. PICK i \in Bad : \A k \in Bad : i <= k
    <3>1. Bad \in SUBSET Nat
      OBVIOUS
    <3> HIDE DEF Bad
    <3> QED BY <2>1, <3>1, LeastNumber
  <2>3. u[i] = IF i = 1 THEN q[i] ELSE u[i - 1] \o q[i]
    BY <1>1, <1>4 DEF IsFlatten
  <2>4. i # 1 => u[i - 1] = G(i - 1)
    <3>1. SUFFICES ASSUME i # 1 PROVE i - 1 \in 1 .. n /\ i - 1 \notin Bad
      OBVIOUS
    <3>2. i - 1 \in 1 .. n /\ ~(i <= i - 1)
      BY <3>1
    <3> HIDE DEF Bad
    <3> QED BY <2>2, <3>2
  <2> HIDE DEF G
  <2>5. u[i] = G(i)
    BY <1>2, <2>3, <2>4
  <2> QED BY <2>5
<1>7. u[n] = G(n)
  <2>1. n \in 1 .. n
    OBVIOUS
  <2> HIDE DEF G
  <2> QED BY <1>6, <2>1
<1> QED BY <1>5, <1>7

(* The records in a map. *)
LEMMA EntriesAre ==
    /\ EntriesOf(EmptyMap(Buckets)) = <<>>
    /\ \A e \in Record : EntriesOf(With(e)) = <<e>>
<1>1. Buckets \in Nat \ {0}
  BY BucketsAre
<1>2. Cardinality(0 .. Buckets - 1) = Buckets
  <2>1. 0 \in Int /\ Buckets - 1 \in Int
    BY <1>1
  <2>2. Cardinality(0 .. Buckets - 1) = IF 0 > Buckets - 1 THEN 0 ELSE Buckets - 1 - 0 + 1
    BY <2>1, FS_Interval
  <2> QED BY <1>1, <2>2
<1>3. EntriesOf(EmptyMap(Buckets)) = <<>>
  <2> DEFINE q == [i \in 1 .. Buckets |-> EmptyMap(Buckets)[i - 1]]
  <2>1. q = [i \in 1 .. Buckets |-> IF i = 0 THEN <<0>> ELSE <<>>]
    BY <1>1 DEF EmptyMap
  <2>2. EntriesOf(EmptyMap(Buckets)) = FlattenSeq(q)
    BY <1>2 DEF EntriesOf, EmptyMap
  <2> HIDE DEF q
  <2>3. FlattenSeq(q) = <<>>
    BY <1>1, <2>1, Flattened
  <2> QED BY <2>2, <2>3
<1>4. ASSUME NEW e \in Record
      PROVE  EntriesOf(With(e)) = <<e>>
  <2> DEFINE h == Bucket[e.ptr] + 1
             q == [i \in 1 .. Buckets |-> With(e)[i - 1]]
  <2>1. h \in 1 .. Buckets
    BY <1>1, BucketsAre DEF Record
  <2>2. q = [i \in 1 .. Buckets |-> IF i = h THEN <<e>> ELSE <<>>]
    <3>1. Bucket[e.ptr] \in Nat
      BY BucketsAre DEF Record
    <3>2. \A i \in 1 .. Buckets : With(e)[i - 1] = IF i = h THEN <<e>> ELSE <<>>
      BY <1>1, <3>1 DEF With
    <3> HIDE DEF h
    <3> QED BY <3>2
  <2>3. EntriesOf(With(e)) = FlattenSeq(q)
    <3>1. DOMAIN With(e) = 0 .. Buckets - 1
      BY DEF With
    <3> QED BY <1>2, <3>1 DEF EntriesOf
  <2> HIDE DEF h, q
  <2>4. h \in 0 .. Buckets /\ h # 0
    BY <2>1
  <2>5. FlattenSeq(q) = <<e>>
    <3>1. FlattenSeq(q) = IF h = 0 THEN <<>> ELSE <<e>>
      <4>1. \A n \in Nat \ {0} : \A k \in 0 .. n : \A x : \A s :
               s = [i \in 1 .. n |-> IF i = k THEN <<x>> ELSE <<>>]
               => FlattenSeq(s) = IF k = 0 THEN <<>> ELSE <<x>>
        BY Flattened
      <4>2. \A k \in 0 .. Buckets : \A x : \A s :
               s = [i \in 1 .. Buckets |-> IF i = k THEN <<x>> ELSE <<>>]
               => FlattenSeq(s) = IF k = 0 THEN <<>> ELSE <<x>>
        BY <1>1, <4>1, Zenon
      <4>3. \A s : s = [i \in 1 .. Buckets |-> IF i = h THEN <<e>> ELSE <<>>]
                   => FlattenSeq(s) = IF h = 0 THEN <<>> ELSE <<e>>
        BY <2>4, <4>2, Zenon
      <4> QED BY <2>2, <4>3, Zenon
    <3> QED BY <2>4, <3>1
  <2> QED BY <2>3, <2>5
<1> QED BY <1>3, <1>4

(* What a look-up finds in such maps, and what becomes of them. *)
LEMMA FoundIs ==
    ASSUME NEW p \in Objects
    PROVE  /\ counters = EmptyMap(Buckets) => Found(p) = <<>>
           /\ \A e \in Record : counters = With(e) =>
                 Found(p) = IF e.ptr = p THEN <<>> ELSE <<Bucket[e.ptr], 1>>
<1> DEFINE hits(b) == {k \in 1 .. Len(counters[b]) : counters[b][k].ptr # p}
           bs == {b \in DOMAIN counters : hits(b) # {}}
<1>1. Found(p) = IF bs = {} THEN <<>> ELSE <<Min(bs), Min(hits(Min(bs)))>>
  BY DEF Found, Place
<1>2. ASSUME counters = EmptyMap(Buckets)
      PROVE  Found(p) = <<>>
  <2>1. \A b \in DOMAIN counters : hits(b) = {}
    BY <1>2 DEF EmptyMap
  <2> HIDE DEF hits
  <2>2. bs = {}
    BY <2>1
  <2> QED BY <1>1, <2>2
<1>3. ASSUME NEW e \in Record, counters = With(e)
      PROVE  Found(p) = IF e.ptr = p THEN <<>> ELSE <<Bucket[e.ptr], 1>>
  <2> DEFINE h == Bucket[e.ptr]
  <2>1. h \in Nat /\ h \in DOMAIN counters
    BY <1>3, BucketsAre DEF Record, With
  <2>2. \A b \in DOMAIN counters : counters[b] = IF b = h THEN <<e>> ELSE <<>>
    BY <1>3 DEF With
  <2> HIDE DEF h
  <2>3. \A b \in DOMAIN counters : b # h => hits(b) = {}
    BY <2>2
  <2>4. hits(h) = IF e.ptr = p THEN {} ELSE {1}
    <3>1. counters[h] = <<e>>
      BY <2>1, <2>2
    <3> QED BY <3>1
  <2> HIDE DEF hits
  <2>5. bs = IF e.ptr = p THEN {} ELSE {h}
    BY <2>1, <2>3, <2>4
  <2> HIDE DEF bs
  <2>6. Min({h}) = h /\ Min({1}) = 1
    BY <2>1 DEF Min
  <2> QED BY <1>1, <2>4, <2>5, <2>6 DEF h
<1> QED BY <1>2, <1>3

(* A record is put in, takes the place of another one of its object, is read and taken out. *)
LEMMA MapsChange ==
    ASSUME NEW e, e.ptr \in Objects
    PROVE  /\ AddElement(EmptyMap(Buckets), Bucket[e.ptr], e, TRUE) = With(e)
           /\ \A d : d.ptr = e.ptr => AddElement(With(d), Bucket[e.ptr], e, TRUE) = With(e)
           /\ With(e)[Bucket[e.ptr]][1] = e
           /\ RemoveElement(With(e), Bucket[e.ptr], TRUE) = EmptyMap(Buckets)
<1> DEFINE h == Bucket[e.ptr]
           D == 0 .. Buckets - 1
<1>1. h \in D
  BY BucketsAre
<1>2. /\ With(e) = [b \in D |-> IF b = h THEN <<e>> ELSE <<>>]
      /\ EmptyMap(Buckets) = [b \in D |-> <<>>]
      /\ \A d : d.ptr = e.ptr => With(d) = [b \in D |-> IF b = h THEN <<d>> ELSE <<>>]
  BY DEF With, EmptyMap
<1> HIDE DEF h, D
<1>3. Append(<<>>, e) = <<e>> /\ Tail(<<e>>) = <<>> /\ <<e>> # <<>> /\ <<e>>[1] = e
  OBVIOUS
<1>4. AddElement(EmptyMap(Buckets), h, e, TRUE) = With(e)
  BY <1>1, <1>2, <1>3 DEF AddElement
<1>5. ASSUME NEW d, d.ptr = e.ptr
      PROVE  AddElement(With(d), h, e, TRUE) = With(e)
  <2>1. [<<d>> EXCEPT ![1] = e] = <<e>> /\ <<d>> # <<>>
    OBVIOUS
  <2> QED BY <1>1, <1>2, <1>5, <2>1 DEF AddElement
<1>6. RemoveElement(With(e), h, TRUE) = EmptyMap(Buckets)
  BY <1>1, <1>2, <1>3 DEF RemoveElement
<1>7. With(e)[h][1] = e
  BY <1>1, <1>2, <1>3
<1> QED BY <1>4, <1>5, <1>6, <1>7 DEF h

(* The record is changed in its place. *)
LEMMA RecordChanges ==
    ASSUME NEW e \in Record, NEW r
    PROVE  /\ [With(e) EXCEPT ![Bucket[e.ptr]][1].refs = r] = With([ptr |-> e.ptr, refs |-> r])
<1> DEFINE h == Bucket[e.ptr]
           D == 0 .. Buckets - 1
           x == [ptr |-> e.ptr, refs |-> r]
<1>1. h \in D
  BY BucketsAre DEF Record
<1>2. /\ With(e) = [b \in D |-> IF b = h THEN <<e>> ELSE <<>>]
      /\ With(x) = [b \in D |-> IF b = h THEN <<x>> ELSE <<>>]
  BY DEF With
<1>3. [e EXCEPT !.refs = r] = x
  BY DEF Record
<1> HIDE DEF h, D, x
<1>4. [<<e>> EXCEPT ![1].refs = r] = <<x>>
  BY <1>3
<1>5. [With(e) EXCEPT ![h][1].refs = r] = With(x)
  BY <1>1, <1>2, <1>4
<1> QED BY <1>5 DEF h, x

-----------------------------------------------------------------------------
(* The inductive invariant of the reference counter *)

\* The references taken of all objects but p.
Others(h, p) == SumOf(h, Objects \ {p})

Histories ==
    /\ held \in [Objects -> Nat] /\ taken \in SUBSET Objects
    /\ \A q \in Objects : held[q] > 0 => q \in taken

NoRecord == counters = EmptyMap(Buckets) /\ (~again => taken = {} /\ freed = {})

OneRecord(e) ==
    /\ counters = With(e)
    /\ ~again => e.ptr \in taken /\ freed = {} /\ e.refs = 1 + Others(held, e.ptr)

(***************************************************************************)
(* The map has no record, and then nothing was ever taken or something was *)
(* taken twice; or it has one, in the bucket of its object, that counts    *)
(* one reference more than are taken of all the others.  The count alone   *)
(* is not inductive: a look-up finds the first record of another object in *)
(* any bucket, so it must be known that all buckets but one are empty.     *)
(***************************************************************************)
RefInv == Histories /\ (NoRecord \/ \E e \in Record : OneRecord(e))

\* What the others of q have, before (f) and after (g) a change at p.
Compared(f, g, p, q) ==
    /\ Others(f, q) \in Nat
    /\ p = q => Others(g, q) = Others(f, q)
    /\ p # q => /\ f[p] <= Others(f, q)
                /\ Others(g, q) + f[p] = Others(f, q) + g[p]

(* A change at p changes what the others of q have by as much, unless q is p. *)
LEMMA OthersAfter ==
    ASSUME NEW f \in [Objects -> Nat], NEW g \in [Objects -> Nat], NEW p \in Objects,
           \A r \in Objects : r # p => g[r] = f[r], NEW q \in Objects
    PROVE  /\ Compared(f, g, p, q)
           /\ (\A r \in Objects : f[r] = 0) => Others(f, q) = 0
<1> DEFINE S == Objects \ {q}
<1>1. S \in SUBSET Objects /\ IsFiniteSet(S)
  BY RefCounterConstants, FS_Subset
<1>2. p \in S <=> p # q
  OBVIOUS
<1> HIDE DEF S
<1>3. /\ SumOf(f, S) \in Nat /\ SumOf(g, S) \in Nat
      /\ p \notin S => SumOf(g, S) = SumOf(f, S)
      /\ p \in S => SumOf(g, S) + f[p] = SumOf(f, S) + g[p]
  BY <1>1, SumsCompare
<1>4. /\ \A r \in S : f[r] <= SumOf(f, S)
      /\ (\A r \in S : f[r] = 0) => SumOf(f, S) = 0
  BY <1>1, SumsHave
<1> QED BY <1>1, <1>2, <1>3, <1>4 DEF Compared, Others, S

(* The same of the references that are held. *)
LEMMA OthersOfHeld ==
    ASSUME held \in [Objects -> Nat], NEW p \in Objects, NEW x \in Nat, NEW q \in Objects,
           held' = [held EXCEPT ![p] = x]
    PROVE  /\ Others(held, q) \in Nat /\ Others(held', q) \in Nat
           /\ p = q => Others(held', q) = Others(held, q)
           /\ p # q => /\ held[p] <= Others(held, q)
                       /\ Others(held', q) + held[p] = Others(held, q) + x
<1>1. held' \in [Objects -> Nat] /\ held'[p] = x
  OBVIOUS
<1>2. \A r \in Objects : r # p => held'[r] = held[r]
  OBVIOUS
<1>4. Others(held', q) \in Nat
  BY <1>1, OthersAfter DEF Compared
<1>3. Compared(held, held', p, q)
  BY <1>1, <1>2, OthersAfter, Zenon
<1> QED BY <1>1, <1>3, <1>4 DEF Compared

(* A reference to the object of the record replaces the record, one to another is counted there. *)
LEMMA IncrefKeeps == ASSUME RefInv, NEW p \in Objects, Incref(p) PROVE RefInv'
<1>1. /\ held' = [held EXCEPT ![p] = held[p] + 1] /\ taken' = taken \cup {p}
      /\ again' = (again \/ p \in taken) /\ freed' = freed
      /\ counters' = IF Found(p) # <<>> THEN [counters EXCEPT ![Found(p)[1]][Found(p)[2]].refs = @ + 1]
                     ELSE AddElement(counters, Bucket[p], [ptr |-> p, refs |-> 1], TRUE)
  BY DEF Incref
<1>2. held \in [Objects -> Nat] /\ taken \in SUBSET Objects
  BY DEF RefInv, Histories
<1>3. Histories'
  BY <1>1, <1>2 DEF RefInv, Histories
<1>4. held[p] + 1 \in Nat
  BY <1>2
<1>8. ~again' => ~again /\ p \notin taken
  BY <1>1, Zenon
<1> DEFINE n == [ptr |-> p, refs |-> 1]
<1>5. n \in Record /\ n.ptr = p /\ n.refs = 1
  BY DEF Record
<1>6. CASE NoRecord
  <2>1. counters' = With(n)
    <3>1. Found(p) = <<>> /\ counters = EmptyMap(Buckets)
      BY <1>6, FoundIs DEF NoRecord
    <3> QED BY <1>1, <1>5, <3>1, MapsChange
  <2>2. ~again' => 1 = 1 + Others(held', p)
    <3>1. SUFFICES ASSUME ~again' PROVE Others(held', p) = 0
      OBVIOUS
    <3>2. taken = {}
      BY <1>8, <1>6, <3>1 DEF NoRecord
    <3>3. \A q \in Objects : held[q] = 0
      BY <1>2, <3>2 DEF RefInv, Histories
    <3>4. Others(held, p) = 0
      BY <1>2, <3>3, OthersAfter DEF Compared
    <3>5. Others(held', p) = Others(held, p)
      BY <1>1, <1>2, <1>4, OthersOfHeld
    <3> QED BY <3>4, <3>5
  <2>3. ~again' => freed' = {}
    BY <1>1, <1>8, <1>6 DEF NoRecord
  <2> HIDE DEF n
  <2>4. OneRecord(n)'
    BY <1>1, <1>5, <2>1, <2>2, <2>3 DEF OneRecord
  <2> QED BY <1>3, <1>5, <2>4 DEF RefInv
<1>7. ASSUME NEW e \in Record, OneRecord(e)
      PROVE  RefInv'
  <2>1. counters = With(e) /\ e.ptr \in Objects /\ e.refs \in Nat
    BY <1>7 DEF OneRecord, Record
  <2>2. CASE e.ptr = p
    <3>1. Found(p) = <<>>
      BY <2>1, <2>2, FoundIs
    <3>2. counters' = With(n)
      BY <1>1, <1>5, <2>1, <2>2, <3>1, MapsChange
    <3>3. again'
      BY <1>1, <1>7, <2>2 DEF OneRecord
    <3> HIDE DEF n
    <3>4. OneRecord(n)'
      BY <3>2, <3>3 DEF OneRecord
    <3> QED BY <1>3, <1>5, <3>4 DEF RefInv
  <2>3. CASE e.ptr # p
    <3> DEFINE x == [ptr |-> e.ptr, refs |-> e.refs + 1]
    <3>1. Found(p) = <<Bucket[e.ptr], 1>>
      BY <2>1, <2>3, FoundIs
    <3>2. counters' = [With(e) EXCEPT ![Bucket[e.ptr]][1].refs = With(e)[Bucket[e.ptr]][1].refs + 1]
      BY <1>1, <2>1, <3>1
    <3>3. counters' = With(x)
      BY <2>1, <3>2, MapsChange, RecordChanges
    <3>4. x \in Record /\ x.ptr = e.ptr /\ x.refs = e.refs + 1
      BY <2>1 DEF Record
    <3>5. ~again' => x.ptr \in taken' /\ freed' = {} /\ x.refs = 1 + Others(held', x.ptr)
      <4>1. SUFFICES ASSUME ~again' PROVE x.ptr \in taken' /\ freed' = {} /\ x.refs = 1 + Others(held', x.ptr)
        OBVIOUS
      <4>2. e.ptr \in taken /\ freed = {} /\ e.refs = 1 + Others(held, e.ptr)
        BY <1>8, <1>7, <4>1 DEF OneRecord
      <4>3. /\ Others(held', e.ptr) \in Nat /\ Others(held, e.ptr) \in Nat
            /\ Others(held', e.ptr) + held[p] = Others(held, e.ptr) + (held[p] + 1)
        BY <1>1, <1>2, <1>4, <2>1, <2>3, OthersOfHeld
      <4>4. held[p] \in Nat
        BY <1>2
      <4>5. Others(held', e.ptr) = Others(held, e.ptr) + 1
        BY <4>3, <4>4
      <4> HIDE DEF x
      <4> QED BY <1>1, <3>4, <4>2, <4>3, <4>5
    <3> HIDE DEF x
    <3>6. OneRecord(x)'
      BY <3>3, <3>5 DEF OneRecord
    <3> QED BY <1>3, <3>4, <3>6 DEF RefInv
  <2> QED BY <2>2, <2>3
<1> QED BY <1>6, <1>7 DEF RefInv

(* A release of the object of the record finds nothing; a release of another one counts down, and *)
(* comes to the last reference only when some object was taken twice.                            *)
LEMMA DecrefKeeps == ASSUME RefInv, NEW p \in Objects, Decref(p) PROVE RefInv'
<1> DEFINE at == Found(p)
           value == counters[at[1]][at[2]]
           less == [counters EXCEPT ![at[1]][at[2]].refs = @ - 1]
<1>1. /\ held[p] > 0 /\ held' = [held EXCEPT ![p] = held[p] - 1]
      /\ taken' = taken /\ again' = again
      /\ at = <<>> => counters' = counters /\ freed' = freed
      /\ at # <<>> /\ value.refs > 1 => counters' = less /\ freed' = freed
      /\ at # <<>> /\ ~(value.refs > 1) =>
            counters' = RemoveElement(less, Bucket[value.ptr], TRUE)
  BY DEF Decref
<1>2. held \in [Objects -> Nat] /\ taken \in SUBSET Objects
  BY DEF RefInv, Histories
<1>3. held[p] - 1 \in Nat /\ held[p] \in Nat
  BY <1>1, <1>2
<1>4. Histories'
  BY <1>1, <1>2, <1>3 DEF RefInv, Histories
<1> HIDE DEF at, value, less
<1>5. CASE NoRecord
  <2>1. at = <<>>
    BY <1>5, FoundIs DEF NoRecord, at
  <2>2. NoRecord'
    BY <1>1, <1>5, <2>1 DEF NoRecord
  <2> QED BY <1>4, <2>2 DEF RefInv
<1>6. ASSUME NEW e \in Record, OneRecord(e)
      PROVE  RefInv'
  <2>1. counters = With(e) /\ e.ptr \in Objects /\ e.refs \in Nat
    BY <1>6 DEF OneRecord, Record
  <2>2. ~again => e.ptr \in taken /\ freed = {} /\ e.refs = 1 + Others(held, e.ptr)
    BY <1>6 DEF OneRecord
  <2>3. CASE e.ptr = p
    <3>1. at = <<>>
      BY <2>1, <2>3, FoundIs DEF at
    <3>2. Others(held', e.ptr) = Others(held, e.ptr)
      BY <1>1, <1>2, <1>3, <2>1, <2>3, OthersOfHeld
    <3>3. OneRecord(e)'
      BY <1>1, <2>1, <2>2, <3>1, <3>2 DEF OneRecord
    <3> QED BY <1>4, <3>3 DEF RefInv
  <2>4. CASE e.ptr # p
    <3> DEFINE x == [ptr |-> e.ptr, refs |-> e.refs - 1]
    <3>1. at = <<Bucket[e.ptr], 1>>
      BY <2>1, <2>4, FoundIs DEF at
    <3>2. value = e /\ at # <<>>
      BY <2>1, <3>1, MapsChange DEF value
    <3>3. less = With(x)
      <4>1. less = [With(e) EXCEPT ![Bucket[e.ptr]][1].refs = With(e)[Bucket[e.ptr]][1].refs - 1]
        BY <2>1, <3>1 DEF less
      <4> QED BY <2>1, <4>1, MapsChange, RecordChanges
    <3>4. /\ held[p] <= Others(held, e.ptr) /\ Others(held, e.ptr) \in Nat
          /\ Others(held', e.ptr) + held[p] = Others(held, e.ptr) + (held[p] - 1)
      BY <1>1, <1>2, <1>3, <2>1, <2>4, OthersOfHeld
    <3>5. Others(held', e.ptr) \in Nat
      BY <1>1, <1>2, <1>3, <2>1, OthersOfHeld
    <3>6. CASE e.refs > 1
      <4>1. counters' = With(x) /\ freed' = freed
        BY <1>1, <3>2, <3>3, <3>6
      <4>2. x \in Record /\ x.ptr = e.ptr /\ x.refs = e.refs - 1
        BY <2>1, <3>6 DEF Record
      <4> HIDE DEF x
      <4>3. ~again => x.refs = 1 + Others(held', e.ptr)
        BY <1>3, <2>1, <2>2, <3>4, <3>5, <4>2
      <4>4. OneRecord(x)'
        BY <1>1, <2>2, <4>1, <4>2, <4>3 DEF OneRecord
      <4> QED BY <1>4, <4>2, <4>4 DEF RefInv
    <3>7. CASE ~(e.refs > 1)
      <4>1. again
        BY <1>1, <1>3, <2>1, <2>2, <3>4, <3>7
      <4>2. counters' = RemoveElement(With(x), Bucket[e.ptr], TRUE)
        BY <1>1, <3>2, <3>3, <3>7
      <4>3. counters' = EmptyMap(Buckets)
        <5>1. x.ptr = e.ptr /\ x.ptr \in Objects
          BY <2>1
        <5> HIDE DEF x
        <5> QED BY <4>2, <5>1, MapsChange
      <4>4. NoRecord'
        BY <1>1, <4>1, <4>3 DEF NoRecord
      <4> QED BY <1>4, <4>4 DEF RefInv
    <3> QED BY <3>6, <3>7
  <2> QED BY <2>3, <2>4
<1> QED BY <1>5, <1>6 DEF RefInv

(* The invariant of the reference counter of week06, for any objects, any hashes of them and *)
(* any number of references.                                                                *)
THEOREM RefCounterInvariant == RefSpec => []RefInv
<1>1. RefInit => RefInv
  BY DEF RefInit, RefInv, Histories, NoRecord
<1>2. RefInv /\ [RefNext]_refVars => RefInv'
  <2> SUFFICES ASSUME RefInv, [RefNext]_refVars PROVE RefInv'
    OBVIOUS
  <2>1. CASE RefNext
    BY <2>1, IncrefKeeps, DecrefKeeps DEF RefNext
  <2>2. CASE UNCHANGED refVars
    BY <2>2 DEF refVars, RefInv, Histories, NoRecord, OneRecord
  <2> QED BY <2>1, <2>2
<1> QED BY <1>1, <1>2, PTL DEF RefSpec

(* With the comparison of refcounter.c one object is counted at a time, with one reference more *)
(* than are taken of all the others, and refcounter_decref frees nothing as long as no object   *)
(* is taken a second time.                                                                      *)
THEOREM FreedOnlyIfTwice == RefSpec => []NothingFreedUnlessTwice
<1>1. RefInv => NothingFreedUnlessTwice
  <2> SUFFICES ASSUME RefInv PROVE NothingFreedUnlessTwice
    OBVIOUS
  <2> DEFINE entries == EntriesOf(counters)
  <2>1. ASSUME NoRecord
        PROVE  Len(entries) <= 1 /\ ToSet(entries) = {} /\ (~again => freed = {})
    <3>1. entries = <<>>
      BY <2>1, EntriesAre DEF NoRecord
    <3> HIDE DEF entries
    <3> QED BY <2>1, <3>1 DEF NoRecord, ToSet
  <2>2. ASSUME NEW e \in Record, OneRecord(e)
        PROVE  Len(entries) <= 1 /\ ToSet(entries) = {e} /\ (~again => freed = {})
               /\ (~again => e.refs = 1 + Others(held, e.ptr))
    <3>1. entries = <<e>>
      BY <2>2, EntriesAre DEF OneRecord
    <3> HIDE DEF entries
    <3> QED BY <2>2, <3>1 DEF OneRecord, ToSet
  <2>3. /\ Len(entries) <= 1
        /\ ~again => freed = {} /\ \A e \in ToSet(entries) : e.refs = 1 + Others(held, e.ptr)
    <3> HIDE DEF entries
    <3> QED BY <2>1, <2>2 DEF RefInv
  <2>4. \A e : Others(held, e.ptr) = MapThenSumSet(LAMBDA q : held[q], Objects \ {e.ptr})
    BY DEF Others, SumOf
  <2> HIDE DEF Others
  <2> QED BY <2>3, <2>4 DEF NothingFreedUnlessTwice
<1> QED BY <1>1, RefCounterInvariant, PTL

-----------------------------------------------------------------------------
(* The parser *)

Tokenlike == [type : Primitive \cup Signs, text : Seq(Int)]

Type(t, i) == TokenAt(t, i).type

Places(t) == {"value", "elements", "members"} \X (1 .. Len(t) + 1)

\* What comes later has a greater rank, and at one place the loops refer to the value.
Rank(at) == 2 * at[2] + (IF at[1] = "value" THEN 1 ELSE 0)

Body(parse, t, n, at) ==
    CASE at[1] = "value"    -> ParseAt(parse, t, n, at[2])
      [] at[1] = "elements" -> Elements(parse, t, n, at[2])
      [] at[1] = "members"  -> Members(parse, t, n, at[2])

IsParse(parse, t, n, D) == parse = [at \in D |-> Body(parse, t, n, at)]

IsSequence(s) == \E S : s \in Seq(S)

\* The shape of an outcome at a place.
ValueShaped(o, t, i) ==
    \/ o = Undefined
    \/ o = NoValue
    \/ o = Got(o.value, o.fits, o.next) /\ o.fits \in BOOLEAN /\ o.next \in i + 1 .. Len(t) + 2

LoopShaped(o, t, i) ==
    \/ o = Undefined
    \/ /\ \/ o = GivenUp(o.parts, o.fits)
          \/ o = Ended(o.parts, o.fits, o.next) /\ o.next \in i + 1 .. Len(t) + 2
       /\ IsSequence(o.parts) /\ o.fits \in BOOLEAN

Shaped(o, t, at) == IF at[1] = "value" THEN ValueShaped(o, t, at[2]) ELSE LoopShaped(o, t, at[2])

-----------------------------------------------------------------------------

(* A set of places each of which has a later one in the set is empty. *)
LEMMA Downwards ==
    ASSUME NEW t, Len(t) \in Nat, NEW B \in SUBSET Places(t),
           \A at \in B : \E later \in B : Rank(later) > Rank(at)
    PROVE  B = {}
<1> DEFINE top == 2 * Len(t) + 3
           M == {top - Rank(at) : at \in B}
<1>1. \A at \in Places(t) : Rank(at) \in Nat /\ top - Rank(at) \in Nat
  BY DEF Places, Rank
<1>2. M \in SUBSET Nat
  BY <1>1
<1>3. SUFFICES ASSUME M # {} PROVE FALSE
  OBVIOUS
<1>4. PICK m \in M : \A k \in M : m <= k
  <2> HIDE DEF M
  <2> QED BY <1>2, <1>3, LeastNumber
<1>5. PICK at \in B : m = top - Rank(at)
  BY <1>4
<1>6. PICK later \in B : Rank(later) > Rank(at)
  BY <1>5
<1>7. top - Rank(later) < top - Rank(at) /\ top - Rank(later) \in M
  <2>1. Rank(later) \in Nat /\ Rank(at) \in Nat /\ top \in Nat
    BY <1>1
  <2> QED BY <1>6, <2>1
<1>8. m <= top - Rank(later)
  BY <1>4, <1>7
<1> HIDE DEF M, top
<1> QED BY <1>1, <1>5, <1>7, <1>8

(* The kinds of tokens, and what is behind the array. *)
LEMMA TypeIs ==
    ASSUME NEW t \in Seq(Tokenlike), NEW i \in Nat \ {0}
    PROVE  /\ TokenAt(t, i) \in Tokenlike /\ Type(t, i) \in Primitive \cup Signs
           /\ i <= Len(t) => TokenAt(t, i) = t[i]
           /\ i > Len(t) => Type(t, i) = "null"
<1>1. CASE i <= Len(t)
  <2>1. t[i] \in Tokenlike /\ TokenAt(t, i) = t[i]
    BY <1>1 DEF TokenAt
  <2> QED BY <1>1, <2>1 DEF Type, Tokenlike
<1>2. CASE i > Len(t)
  <2>1. TokenAt(t, i) = [type |-> "null", text |-> <<>>] /\ <<>> \in Seq(Int)
    BY <1>2 DEF TokenAt, Token
  <2> QED BY <1>2, <2>1 DEF Type, Tokenlike, Primitive
<1> QED BY <1>1, <1>2

\* What a loop did, with one part in front.
Continued(w, o, x, b) ==
    /\ o # Undefined => /\ w.is = o.is /\ w.fits = (b /\ o.fits) /\ w.parts = <<x>> \o o.parts
                        /\ Len(<<x>> \o o.parts) = Len(o.parts) + 1 /\ Len(o.parts) \in Nat
                        /\ o.is = "end" => w.next = o.next
    /\ o = Undefined => w = Undefined

(* That is what Then does. *)
LEMMA ThenShaped ==
    ASSUME NEW t, NEW i \in Nat, NEW j \in Nat, i <= j, NEW o, LoopShaped(o, t, j), NEW x, NEW b \in BOOLEAN
    PROVE  LoopShaped(Then(x, b, o), t, i) /\ Continued(Then(x, b, o), o, x, b)
<1> USE DEF Continued
<1>1. CASE o = Undefined
  BY <1>1 DEF Then, Undefined, LoopShaped
<1>2. CASE o # Undefined
  <2>1. PICK S : o.parts \in Seq(S)
    BY <1>2 DEF LoopShaped, IsSequence
  <2>2. /\ <<x>> \o o.parts \in Seq(S \cup {x})
        /\ Len(<<x>> \o o.parts) = Len(o.parts) + 1 /\ Len(o.parts) \in Nat
    <3>1. <<x>> \in Seq(S \cup {x}) /\ o.parts \in Seq(S \cup {x}) /\ Len(<<x>>) = 1
      BY <2>1
    <3> QED BY <3>1
  <2> DEFINE y == <<x>> \o o.parts
  <2>3. IsSequence(y)
    BY <2>2 DEF IsSequence
  <2> HIDE DEF y
  <2>4. CASE o = GivenUp(o.parts, o.fits)
    <3>1. Then(x, b, o) = GivenUp(y, b /\ o.fits)
      BY <2>4 DEF GivenUp, Then, y, Undefined
    <3>2. o.fits \in BOOLEAN /\ o.is = "NULL"
      BY <1>2, <2>4 DEF LoopShaped, GivenUp
    <3>3. Then(x, b, o).is = "NULL" /\ Then(x, b, o).parts = y /\ Then(x, b, o).fits = (b /\ o.fits)
      BY <3>1 DEF GivenUp
    <3>4. LoopShaped(Then(x, b, o), t, i)
      <4> DEFINE w == b /\ o.fits
                 z == Then(x, b, o)
      <4>1. w \in BOOLEAN
        BY <3>2
      <4>2. z = GivenUp(y, w) /\ z.parts = y /\ z.fits = w
        BY <3>1, <3>3
      <4> HIDE DEF w, z
      <4>3. z = GivenUp(z.parts, z.fits) /\ IsSequence(z.parts) /\ z.fits \in BOOLEAN
        BY <2>3, <4>1, <4>2
      <4>4. LoopShaped(z, t, i)
        BY <4>3 DEF LoopShaped
      <4> QED BY <4>4 DEF z
    <3>5. o.is # "end"
      BY <3>2
    <3> QED BY <1>2, <2>2, <3>2, <3>3, <3>4, <3>5 DEF y
  <2>5. CASE o = Ended(o.parts, o.fits, o.next) /\ o.next \in j + 1 .. Len(t) + 2
    <3>1. Then(x, b, o) = Ended(y, b /\ o.fits, o.next)
      BY <2>5 DEF Ended, Then, y
    <3>2. o.fits \in BOOLEAN /\ o.is = "end"
      BY <1>2, <2>5 DEF LoopShaped, Ended
    <3>3. o.next \in i + 1 .. Len(t) + 2
      BY <2>5
    <3> DEFINE w == b /\ o.fits
               z == Then(x, b, o)
    <3>4. w \in BOOLEAN
      BY <3>2
    <3>5. z = Ended(y, w, o.next) /\ z.is = "end" /\ z.parts = y /\ z.fits = w /\ z.next = o.next
      BY <3>1 DEF Ended
    <3> HIDE DEF w, z
    <3>6. z = Ended(z.parts, z.fits, z.next)
      BY <3>5
    <3>7. LoopShaped(z, t, i)
      BY <2>3, <3>3, <3>4, <3>5, <3>6 DEF LoopShaped
    <3>8. Continued(z, o, x, b)
      BY <1>2, <2>2, <3>2, <3>5 DEF y, w
    <3> QED BY <3>7, <3>8 DEF z
  <2> QED BY <1>2, <2>4, <2>5 DEF LoopShaped
<1> QED BY <1>1, <1>2

(* The value that a loop ends with has its place. *)
LEMMA WholeShaped ==
    ASSUME NEW t, NEW i \in Nat, NEW o, LoopShaped(o, t, i + 1)
    PROVE  ValueShaped(ArrayOf(o), t, i) /\ ValueShaped(ObjectFrom(o), t, i)
<1>1. CASE o = Undefined
  BY <1>1 DEF ArrayOf, ObjectFrom, Undefined, ValueShaped
<1>2. ASSUME o # Undefined, NEW x, NEW b \in BOOLEAN
      PROVE  ValueShaped(Whole(o, x, b), t, i) /\ o.is # "undefined"
  <2>1. CASE o = GivenUp(o.parts, o.fits)
    <3>1. o.is = "NULL"
      BY <2>1 DEF GivenUp
    <3>2. Whole(o, x, b) = IF b THEN NoValue ELSE Undefined
      BY <3>1 DEF Whole
    <3> QED BY <3>1, <3>2 DEF ValueShaped
  <2>2. CASE o = Ended(o.parts, o.fits, o.next) /\ o.next \in i + 2 .. Len(t) + 2
    <3>1. o.is = "end" /\ o.next \in i + 1 .. Len(t) + 2
      BY <2>2 DEF Ended
    <3>2. Whole(o, x, b) = Got(x, b, o.next)
      BY <3>1 DEF Whole
    <3>3. /\ Got(x, b, o.next).value = x /\ Got(x, b, o.next).fits = b
          /\ Got(x, b, o.next).next = o.next
      BY DEF Got
    <3> QED BY <3>1, <3>2, <3>3 DEF ValueShaped
  <2>3. (i + 1) + 1 = i + 2
    OBVIOUS
  <2> QED BY <1>2, <2>1, <2>2, <2>3 DEF LoopShaped
<1>3. CASE o # Undefined
  <2>1. o.fits \in BOOLEAN
    BY <1>3 DEF LoopShaped
  <2> DEFINE b == o.fits /\ Len(o.parts) <= ArrayRoom
  <2>2. b \in BOOLEAN
    OBVIOUS
  <2>3. ObjectFrom(o) = Whole(o, ObjectOf(o.parts), b)
    BY <1>2, <1>3 DEF ObjectFrom
  <2> HIDE DEF b
  <2>4. ValueShaped(ObjectFrom(o), t, i)
    BY <1>2, <1>3, <2>2, <2>3
  <2>5. ArrayOf(o) = Undefined \/ ArrayOf(o) = Whole(o, Array(o.parts), o.fits)
    BY DEF ArrayOf
  <2>6. ValueShaped(ArrayOf(o), t, i)
    BY <1>2, <1>3, <2>1, <2>5 DEF ValueShaped
  <2> QED BY <2>4, <2>6
<1> QED BY <1>1, <1>3

\* Two functions of the parser agree behind a rank, and are shaped there.
Ahead(u, v, t, r) ==
    \A at \in Places(t) : Rank(at) > r => Shaped(u[at], t, at) /\ v[at] = u[at]

(* What the parser makes of a place depends on later places only, and is shaped if they are. *)
LEMMA ValueStep ==
    ASSUME NEW t \in Seq(Tokenlike), NEW n \in Nat, NEW u, NEW v, NEW i \in 1 .. Len(t) + 1,
           Ahead(u, v, t, 2 * i + 1)
    PROVE  ParseAt(u, t, n, i) = ParseAt(v, t, n, i) /\ ValueShaped(ParseAt(u, t, n, i), t, i)
<1>0. i \in Nat \ {0} /\ Len(t) \in Nat
  OBVIOUS
<1>1. ASSUME NEW x, NEW k \in {i + 1, i + 2}, k <= Len(t) + 2
      PROVE  ValueShaped(Got(x, TRUE, k), t, i)
  <2>1. /\ Got(x, TRUE, k).value = x /\ Got(x, TRUE, k).fits = TRUE /\ Got(x, TRUE, k).next = k
        /\ k \in i + 1 .. Len(t) + 2
    BY <1>1 DEF Got
  <2> QED BY <2>1 DEF ValueShaped
<1>2. Type(t, i) = "left_bracket" \/ Type(t, i) = "left_brace" =>
         /\ i <= Len(t)
         /\ \A kind \in {"elements", "members"} :
               /\ v[<<kind, i + 1>>] = u[<<kind, i + 1>>]
               /\ LoopShaped(u[<<kind, i + 1>>], t, i + 1)
  <2> SUFFICES ASSUME Type(t, i) = "left_bracket" \/ Type(t, i) = "left_brace", NEW kind \in {"elements", "members"}
               PROVE  /\ i <= Len(t)
                      /\ v[<<kind, i + 1>>] = u[<<kind, i + 1>>]
                      /\ LoopShaped(u[<<kind, i + 1>>], t, i + 1)
    OBVIOUS
  <2>1. i <= Len(t)
    <3>1. Type(t, i) # "null"
      OBVIOUS
    <3>2. ~(i > Len(t))
      BY <1>0, <3>1, TypeIs
    <3>3. Len(t) \in Nat /\ i \in Nat
      BY <1>0
    <3> QED BY <3>2, <3>3
  <2> DEFINE at == <<kind, i + 1>>
  <2>4. at[1] = kind /\ at[2] = i + 1 /\ kind # "value"
    OBVIOUS
  <2>5. at \in Places(t)
    <3>1. i + 1 \in 1 .. Len(t) + 1 /\ kind \in {"value", "elements", "members"}
      BY <1>0, <2>1
    <3> QED BY <3>1 DEF Places
  <2>6. Rank(at) = 2 * (i + 1)
    <3> HIDE DEF at
    <3> QED BY <2>4 DEF Rank
  <2>2. at \in Places(t) /\ Rank(at) > 2 * i + 1 /\ at[1] # "value" /\ at[2] = i + 1
    <3>1. 2 * (i + 1) > 2 * i + 1
      BY <1>0
    <3> QED BY <2>4, <2>5, <2>6, <3>1
  <2> HIDE DEF at
  <2>3. Shaped(u[at], t, at) /\ v[at] = u[at]
    BY <2>2 DEF Ahead
  <2> QED BY <2>1, <2>2, <2>3 DEF Shaped, at
<1>3. TokenAt(t, i).type = Type(t, i)
  BY DEF Type
<1>4. CASE i = n + 1
  BY <1>4 DEF ParseAt, ValueShaped
<1>5. CASE i # n + 1 /\ Type(t, i) \in Primitive
  <2>1. \A w : ParseAt(w, t, n, i) = Got(Denoted(TokenAt(t, i)), TRUE, i + 1)
    BY <1>3, <1>5 DEF ParseAt, Primitive
  <2>2. i + 1 <= Len(t) + 2
    OBVIOUS
  <2> QED BY <1>1, <2>1, <2>2
<1>6. CASE i # n + 1 /\ Type(t, i) = "left_bracket"
  <2>1. \A w : ParseAt(w, t, n, i) = IF TokenAt(t, i + 1).type = "right_bracket" THEN Got(Array(<<>>), TRUE, i + 2)
                                     ELSE ArrayOf(w[<<"elements", i + 1>>])
    BY <1>3, <1>6 DEF ParseAt, Primitive
  <2>2. i + 2 <= Len(t) + 2
    BY <1>2, <1>6
  <2>3. ValueShaped(ArrayOf(u[<<"elements", i + 1>>]), t, i)
    BY <1>0, <1>2, <1>6, WholeShaped
  <2> QED BY <1>1, <1>2, <1>6, <2>1, <2>2, <2>3
<1>7. CASE i # n + 1 /\ Type(t, i) = "left_brace"
  <2>1. \A w : ParseAt(w, t, n, i) = ObjectFrom(w[<<"members", i + 1>>])
    BY <1>3, <1>7 DEF ParseAt, Primitive
  <2>2. ValueShaped(ObjectFrom(u[<<"members", i + 1>>]), t, i)
    BY <1>0, <1>2, <1>7, WholeShaped
  <2> QED BY <1>2, <1>7, <2>1, <2>2
<1>8. CASE i # n + 1 /\ Type(t, i) \notin Primitive \cup {"left_bracket", "left_brace"}
  BY <1>3, <1>8 DEF ParseAt, ValueShaped
<1> QED BY <1>4, <1>5, <1>6, <1>7, <1>8

\* By names, for Zenon to instantiate lemmas about them.
Flag(b) == b \in BOOLEAN
Alike(x, y) == x = y

\* What a loop finds at a place: it looks at later places, and at the value there.
Looked(u, v, t, i) ==
    /\ ValueShaped(u[<<"value", i>>], t, i) /\ v[<<"value", i>>] = u[<<"value", i>>]
    /\ \A j \in i + 1 .. Len(t) + 1 :
          /\ ValueShaped(u[<<"value", j>>], t, j) /\ v[<<"value", j>>] = u[<<"value", j>>]
          /\ \A kind \in {"elements", "members"} :
                LoopShaped(u[<<kind, j>>], t, j) /\ v[<<kind, j>>] = u[<<kind, j>>]

(* Places by their numbers. *)
LEMMA LookedAhead ==
    ASSUME NEW t \in Seq(Tokenlike), NEW u, NEW v, NEW i \in 1 .. Len(t) + 1, Ahead(u, v, t, 2 * i)
    PROVE  Looked(u, v, t, i)
<1>0. i \in Nat /\ Len(t) \in Nat
  OBVIOUS
<1>1. ASSUME NEW j \in i .. Len(t) + 1
      PROVE  ValueShaped(u[<<"value", j>>], t, j) /\ v[<<"value", j>>] = u[<<"value", j>>]
  <2> DEFINE at == <<"value", j>>
  <2>1. at[1] = "value" /\ at[2] = j /\ at \in Places(t)
    BY <1>0 DEF Places
  <2> HIDE DEF at
  <2>2. Rank(at) > 2 * i
    BY <1>0, <2>1 DEF Rank
  <2>3. Shaped(u[at], t, at) /\ v[at] = u[at]
    BY <2>1, <2>2 DEF Ahead
  <2> QED BY <2>1, <2>3 DEF Shaped, at
<1>2. ASSUME NEW j \in i + 1 .. Len(t) + 1, NEW kind \in {"elements", "members"}
      PROVE  LoopShaped(u[<<kind, j>>], t, j) /\ v[<<kind, j>>] = u[<<kind, j>>]
  <2> DEFINE at == <<kind, j>>
  <2>1. at[1] = kind /\ at[1] # "value" /\ at[2] = j /\ at \in Places(t)
    BY <1>0 DEF Places
  <2> HIDE DEF at
  <2>2. Rank(at) > 2 * i
    BY <1>0, <2>1 DEF Rank
  <2>3. Shaped(u[at], t, at) /\ v[at] = u[at]
    BY <2>1, <2>2 DEF Ahead
  <2> QED BY <2>1, <2>3 DEF Shaped, at
<1>3. i \in i .. Len(t) + 1 /\ \A j \in i + 1 .. Len(t) + 1 : j \in i .. Len(t) + 1
  BY <1>0
<1> QED BY <1>1, <1>2, <1>3 DEF Looked

(* After a part a loop looks ahead only. *)
LEMMA AfterStays ==
    ASSUME NEW t \in Seq(Tokenlike), NEW n \in Nat, NEW u, NEW v, NEW i \in 1 .. Len(t) + 1,
           Looked(u, v, t, i), NEW kind \in {"elements", "members"}, NEW close \in {"right_bracket", "right_brace"},
           NEW x, NEW b, NEW next \in i + 1 .. Len(t) + 2
    PROVE  Alike(After(u, t, n, kind, close, x, b, next), After(v, t, n, kind, close, x, b, next))
<1> USE DEF Alike
<1>0. i \in Nat /\ Len(t) \in Nat /\ next \in Nat \ {0}
  OBVIOUS
<1>1. Type(t, next) = TokenAt(t, next).type /\ close # "comma"
  BY DEF Type
<1>2. Type(t, next) # "null" => next <= Len(t)
  BY <1>0, TypeIs
<1>3. CASE next # n + 1 /\ Type(t, next) = "comma"
  <2>1. \A w : After(w, t, n, kind, close, x, b, next) = Then(x, b, w[<<kind, next + 1>>])
    BY <1>1, <1>3 DEF After
  <2>2. next + 1 \in i + 1 .. Len(t) + 1
    BY <1>0, <1>2, <1>3
  <2>3. v[<<kind, next + 1>>] = u[<<kind, next + 1>>]
    BY <2>2 DEF Looked
  <2> QED BY <2>1, <2>3
<1>4. CASE ~(next # n + 1 /\ Type(t, next) = "comma")
  BY <1>1, <1>4 DEF After
<1> QED BY <1>3, <1>4

(* After a part the outcome of a loop is shaped. *)
LEMMA AfterShaped ==
    ASSUME NEW t \in Seq(Tokenlike), NEW n \in Nat, NEW u, NEW v, NEW i \in 1 .. Len(t) + 1,
           Looked(u, v, t, i), NEW kind \in {"elements", "members"}, NEW close \in {"right_bracket", "right_brace"},
           NEW x, NEW b, Flag(b), NEW next \in i + 1 .. Len(t) + 2
    PROVE  LoopShaped(After(u, t, n, kind, close, x, b, next), t, i)
<1>0. i \in Nat /\ Len(t) \in Nat /\ next \in Nat \ {0} /\ b \in BOOLEAN
  BY DEF Flag
<1>1. Type(t, next) = TokenAt(t, next).type /\ close # "comma"
  BY DEF Type
<1>2. Type(t, next) # "null" => next <= Len(t)
  BY <1>0, TypeIs
<1>3. IsSequence(<<x>>)
  <2>1. <<x>> \in Seq({x})
    OBVIOUS
  <2> QED BY <2>1 DEF IsSequence
<1>4. CASE next # n + 1 /\ Type(t, next) = "comma"
  <2>1. After(u, t, n, kind, close, x, b, next) = Then(x, b, u[<<kind, next + 1>>])
    BY <1>1, <1>4 DEF After
  <2>2. next + 1 \in i + 1 .. Len(t) + 1 /\ i <= next + 1 /\ next + 1 \in Nat
    BY <1>0, <1>2, <1>4
  <2>3. LoopShaped(u[<<kind, next + 1>>], t, next + 1)
    BY <2>2 DEF Looked
  <2>4. LoopShaped(Then(x, b, u[<<kind, next + 1>>]), t, i)
    BY <1>0, <2>2, <2>3, ThenShaped
  <2> QED BY <2>1, <2>4
<1>5. CASE next # n + 1 /\ Type(t, next) = close
  <2>1. After(u, t, n, kind, close, x, b, next) = Ended(<<x>>, b, next + 1)
    BY <1>1, <1>5 DEF After
  <2>2. next + 1 \in i + 1 .. Len(t) + 2
    BY <1>0, <1>2, <1>5
  <2>3. LoopShaped(Ended(<<x>>, b, next + 1), t, i)
    BY <1>0, <1>3, <2>2 DEF LoopShaped, Ended
  <2> QED BY <2>1, <2>3
<1>6. CASE next = n + 1 \/ Type(t, next) \notin {"comma", close}
  <2>1. After(u, t, n, kind, close, x, b, next) = GivenUp(<<x>>, b)
    BY <1>1, <1>6 DEF After
  <2>2. LoopShaped(GivenUp(<<x>>, b), t, i)
    BY <1>0, <1>3 DEF LoopShaped, GivenUp
  <2> QED BY <2>1, <2>2
<1> QED BY <1>4, <1>5, <1>6

AfterArms(A, u, t, n, kind, close, x, b, next) ==
    /\ next # n + 1 /\ Type(t, next) = "comma" => A = Then(x, b, u[<<kind, next + 1>>])
    /\ next # n + 1 /\ Type(t, next) = close => A = Ended(<<x>>, b, next + 1)
    /\ next = n + 1 \/ Type(t, next) \notin {"comma", close} => A = GivenUp(<<x>>, b)

(* The arms of After. *)
LEMMA AfterCases ==
    ASSUME NEW t, NEW n, NEW u, NEW kind, NEW close \in {"right_bracket", "right_brace"}, NEW x, NEW b, NEW next
    PROVE  AfterArms(After(u, t, n, kind, close, x, b, next), u, t, n, kind, close, x, b, next)
<1> DEFINE A == After(u, t, n, kind, close, x, b, next)
<1>1. Type(t, next) = TokenAt(t, next).type /\ close # "comma"
  BY DEF Type
<1>2. next # n + 1 /\ Type(t, next) = "comma" => A = Then(x, b, u[<<kind, next + 1>>])
  BY <1>1 DEF After
<1>3. next # n + 1 /\ Type(t, next) = close => A = Ended(<<x>>, b, next + 1)
  BY <1>1 DEF After
<1>4. next = n + 1 \/ Type(t, next) \notin {"comma", close} => A = GivenUp(<<x>>, b)
  BY <1>1 DEF After
<1> HIDE DEF A
<1>5. AfterArms(A, u, t, n, kind, close, x, b, next)
  BY <1>2, <1>3, <1>4 DEF AfterArms
<1> QED BY <1>5 DEF A

(* What is said of an outcome by its word. *)
LEMMA ValueIs ==
    ASSUME NEW t, NEW i, NEW o, ValueShaped(o, t, i)
    PROVE  /\ o.is = "undefined" => o = Undefined
           /\ o.is = "NULL" => o = NoValue
           /\ o.is = "value" => /\ o = Got(o.value, o.fits, o.next)
                                /\ o.fits \in BOOLEAN /\ o.next \in i + 1 .. Len(t) + 2
           /\ o.is \in {"undefined", "NULL", "value"}
<1>1. CASE o = Undefined
  BY <1>1 DEF Undefined
<1>2. CASE o = NoValue
  BY <1>2 DEF NoValue
<1>3. CASE o = Got(o.value, o.fits, o.next) /\ o.fits \in BOOLEAN /\ o.next \in i + 1 .. Len(t) + 2
  <2>1. o.is = "value"
    BY <1>3 DEF Got
  <2> QED BY <1>3, <2>1
<1> QED BY <1>1, <1>2, <1>3 DEF ValueShaped

(* What is said of a loop by its word. *)
LEMMA LoopIs ==
    ASSUME NEW t, NEW i, NEW o, LoopShaped(o, t, i)
    PROVE  /\ o.is = "undefined" <=> o = Undefined
           /\ o.is = "NULL" => o = GivenUp(o.parts, o.fits)
           /\ o.is = "end" => o = Ended(o.parts, o.fits, o.next) /\ o.next \in i + 1 .. Len(t) + 2
           /\ o.is \in {"undefined", "NULL", "end"}
           /\ o.is # "undefined" => IsSequence(o.parts) /\ o.fits \in BOOLEAN
<1>1. CASE o = Undefined
  BY <1>1 DEF Undefined
<1>2. CASE o = GivenUp(o.parts, o.fits) /\ IsSequence(o.parts) /\ o.fits \in BOOLEAN
  <2>1. o.is = "NULL"
    BY <1>2 DEF GivenUp
  <2> QED BY <1>2, <2>1 DEF Undefined
<1>3. CASE /\ o = Ended(o.parts, o.fits, o.next) /\ o.next \in i + 1 .. Len(t) + 2
           /\ IsSequence(o.parts) /\ o.fits \in BOOLEAN
  <2>1. o.is = "end"
    BY <1>3 DEF Ended
  <2> QED BY <1>3, <2>1 DEF Undefined
<1> QED BY <1>1, <1>2, <1>3 DEF LoopShaped

\* A property whose name and value are there.
Named(o, t, n) == o.value.type = "string" /\ o.next # n + 1 /\ Type(t, o.next) = "colon"

\* What Members does with a property and the value behind its colon.
Paired(u, t, n, o, w) ==
    IF w.is = "undefined" THEN Undefined
    ELSE IF w.is = "NULL" THEN GivenUp(<<>>, TRUE)
    ELSE IF ~Hashable(o.value.string, HashmapEntries) THEN Undefined
    ELSE After(u, t, n, "members", "right_brace", <<o.value.string, w.value>>, w.fits, w.next)

(* The arms of Elements and of Members. *)
LEMMA LoopCases ==
    ASSUME NEW t, NEW n, NEW u, NEW i, ValueShaped(u[<<"value", i>>], t, i)
    PROVE  LET o == u[<<"value", i>>] IN
           /\ o = Undefined => Elements(u, t, n, i) = Undefined /\ Members(u, t, n, i) = Undefined
           /\ o = NoValue => /\ Elements(u, t, n, i) = GivenUp(<<>>, TRUE)
                             /\ Members(u, t, n, i) = GivenUp(<<>>, TRUE)
           /\ o.is = "value" =>
                 /\ Elements(u, t, n, i) = After(u, t, n, "elements", "right_bracket", o.value, o.fits, o.next)
                 /\ ~Named(o, t, n) => Members(u, t, n, i) = GivenUp(<<>>, o.fits)
                 /\ Named(o, t, n) =>
                       LET w == u[<<"value", o.next + 1>>] IN
                       w.is \in {"undefined", "NULL", "value"} => Members(u, t, n, i) = Paired(u, t, n, o, w)
<1> DEFINE o == u[<<"value", i>>]
           w == u[<<"value", o.next + 1>>]
           M == Members(u, t, n, i)
           N == \/ o.value.type # "string"
                \/ o.next = n + 1 \/ TokenAt(t, o.next).type # "colon"
           W == CASE w.is = "undefined" -> Undefined
                  [] w.is = "NULL"      -> GivenUp(<<>>, TRUE)
                  [] w.is = "value"     ->
                       IF ~Hashable(o.value.string, HashmapEntries) THEN Undefined
                       ELSE After(u, t, n, "members", "right_brace",
                                  <<o.value.string, w.value>>, w.fits, w.next)
<1>1. M = CASE o.is = "undefined" -> Undefined
            [] o.is = "NULL"      -> GivenUp(<<>>, TRUE)
            [] o.is = "value"     -> IF N THEN GivenUp(<<>>, o.fits) ELSE W
  BY DEF Members
<1>2. Elements(u, t, n, i) =
          CASE o.is = "undefined" -> Undefined
            [] o.is = "NULL"      -> GivenUp(<<>>, TRUE)
            [] o.is = "value"     -> After(u, t, n, "elements", "right_bracket", o.value, o.fits, o.next)
  BY DEF Elements
<1>3. N <=> ~Named(o, t, n)
  BY DEF Named, Type
<1>4. w.is \in {"undefined", "NULL", "value"} => W = Paired(u, t, n, o, w)
  <2>1. CASE w.is = "undefined"
    BY <2>1 DEF Paired
  <2>2. CASE w.is = "NULL"
    BY <2>2 DEF Paired
  <2>3. CASE w.is = "value"
    BY <2>3 DEF Paired
  <2> QED BY <2>1, <2>2, <2>3
<1> HIDE DEF W, N, M, w
<1>5. CASE o = Undefined
  <2>1. o.is = "undefined"
    BY <1>5 DEF Undefined
  <2>2. M = Undefined /\ Elements(u, t, n, i) = Undefined /\ o.is # "value" /\ o # NoValue
    BY <1>1, <1>2, <2>1 DEF NoValue
  <2> QED BY <2>2 DEF M
<1>6. CASE o = NoValue
  <2>1. o.is = "NULL"
    BY <1>6 DEF NoValue
  <2>2. /\ M = GivenUp(<<>>, TRUE) /\ Elements(u, t, n, i) = GivenUp(<<>>, TRUE)
        /\ o.is # "value" /\ o # Undefined
    BY <1>1, <1>2, <2>1 DEF Undefined
  <2> QED BY <1>6, <2>2 DEF M
<1>7. CASE o.is = "value"
  <2>1. M = IF N THEN GivenUp(<<>>, o.fits) ELSE W
    BY <1>1, <1>7
  <2>2. Elements(u, t, n, i) = After(u, t, n, "elements", "right_bracket", o.value, o.fits, o.next)
    BY <1>2, <1>7
  <2>3. o # NoValue /\ o # Undefined
    BY <1>7 DEF NoValue, Undefined
  <2> HIDE DEF o
  <2> QED BY <1>3, <1>4, <1>7, <2>1, <2>2, <2>3 DEF M, w, o
<1>8. ValueShaped(o, t, i)
  OBVIOUS
<1>9. o.is \in {"undefined", "NULL", "value"} /\ (o.is = "undefined" => o = Undefined) /\ (o.is = "NULL" => o = NoValue)
  <2> HIDE DEF o
  <2> QED BY <1>8, ValueIs
<1> QED BY <1>5, <1>6, <1>7, <1>9

(* Elements looks ahead only, and its outcome is shaped. *)
LEMMA ElementsStep ==
    ASSUME NEW t \in Seq(Tokenlike), NEW n \in Nat, NEW u, NEW v, NEW i \in 1 .. Len(t) + 1,
           Looked(u, v, t, i)
    PROVE  Elements(u, t, n, i) = Elements(v, t, n, i) /\ LoopShaped(Elements(u, t, n, i), t, i)
<1>1. ValueShaped(u[<<"value", i>>], t, i) /\ v[<<"value", i>>] = u[<<"value", i>>]
  BY DEF Looked
<1>2. LoopShaped(GivenUp(<<>>, TRUE), t, i) /\ LoopShaped(Undefined, t, i)
  <2>1. IsSequence(<<>>)
    <3>1. <<>> \in Seq({})
      OBVIOUS
    <3> QED BY <3>1 DEF IsSequence
  <2> QED BY <2>1 DEF LoopShaped, GivenUp
<1> DEFINE o == u[<<"value", i>>]
<1>3. CASE o = Undefined
  BY <1>1, <1>2, <1>3, LoopCases
<1>4. CASE o = NoValue
  BY <1>1, <1>2, <1>4, LoopCases
<1>5. CASE o.is = "value"
  <2>1. o.fits \in BOOLEAN /\ o.next \in i + 1 .. Len(t) + 2
    <3> HIDE DEF o
    <3> QED BY <1>1, <1>5, ValueIs DEF o
  <2>2. /\ Elements(u, t, n, i) = After(u, t, n, "elements", "right_bracket", o.value, o.fits, o.next)
        /\ Elements(v, t, n, i) = After(v, t, n, "elements", "right_bracket", o.value, o.fits, o.next)
    BY <1>1, <1>5, LoopCases
  <2> DEFINE kind == "elements"
             close == "right_bracket"
             x == o.value
             b == o.fits
             next == o.next
  <2>3. kind \in {"elements", "members"} /\ close \in {"right_bracket", "right_brace"}
    OBVIOUS
  <2>4. Flag(b) /\ next \in i + 1 .. Len(t) + 2
    BY <2>1 DEF Flag
  <2>5. /\ Elements(u, t, n, i) = After(u, t, n, kind, close, x, b, next)
        /\ Elements(v, t, n, i) = After(v, t, n, kind, close, x, b, next)
    BY <2>2
  <2> HIDE DEF kind, close, x, b, next
  <2>6. Alike(After(u, t, n, kind, close, x, b, next), After(v, t, n, kind, close, x, b, next))
    BY <2>3, <2>4, AfterStays, Zenon
  <2>7. LoopShaped(After(u, t, n, kind, close, x, b, next), t, i)
    BY <2>3, <2>4, AfterShaped, Zenon
  <2> QED BY <2>5, <2>6, <2>7 DEF Alike
<1> QED BY <1>1, <1>3, <1>4, <1>5, ValueIs

(* Members looks ahead only, and its outcome is shaped. *)
LEMMA MembersStep ==
    ASSUME NEW t \in Seq(Tokenlike), NEW n \in Nat, NEW u, NEW v, NEW i \in 1 .. Len(t) + 1,
           Looked(u, v, t, i)
    PROVE  Members(u, t, n, i) = Members(v, t, n, i) /\ LoopShaped(Members(u, t, n, i), t, i)
<1>0. i \in Nat /\ Len(t) \in Nat
  OBVIOUS
<1>1. ValueShaped(u[<<"value", i>>], t, i) /\ v[<<"value", i>>] = u[<<"value", i>>]
  BY DEF Looked
<1>2. LoopShaped(Undefined, t, i) /\ \A b \in BOOLEAN : LoopShaped(GivenUp(<<>>, b), t, i)
  <2>1. IsSequence(<<>>)
    <3>1. <<>> \in Seq({})
      OBVIOUS
    <3> QED BY <3>1 DEF IsSequence
  <2> QED BY <2>1 DEF LoopShaped, GivenUp
<1> DEFINE o == u[<<"value", i>>]
<1>3. CASE o = Undefined
  BY <1>1, <1>2, <1>3, LoopCases
<1>4. CASE o = NoValue
  BY <1>1, <1>2, <1>4, LoopCases
<1>5. CASE o.is = "value"
  <2>1. o.fits \in BOOLEAN /\ o.next \in i + 1 .. Len(t) + 2
    <3> HIDE DEF o
    <3> QED BY <1>1, <1>5, ValueIs DEF o
  <2>2. CASE ~Named(o, t, n)
    BY <1>1, <1>2, <1>5, <2>1, <2>2, LoopCases
  <2>3. CASE Named(o, t, n)
    <3> DEFINE w == u[<<"value", o.next + 1>>]
    <3>1. o.next + 1 \in i + 1 .. Len(t) + 1
      <4>1. Type(t, o.next) # "null"
        BY <2>3 DEF Named
      <4>2. o.next <= Len(t)
        BY <1>0, <2>1, <4>1, TypeIs
      <4> QED BY <1>0, <2>1, <4>2
    <3>2. ValueShaped(w, t, o.next + 1) /\ v[<<"value", o.next + 1>>] = w
      BY <3>1 DEF Looked
    <3>3. w.is \in {"undefined", "NULL", "value"}
      <4> HIDE DEF w
      <4> QED BY <3>2, ValueIs
    <3>4. Members(u, t, n, i) = Paired(u, t, n, o, w) /\ Members(v, t, n, i) = Paired(v, t, n, o, w)
      BY <1>1, <1>5, <2>3, <3>2, <3>3, LoopCases
    <3> HIDE DEF o, w
    <3>5. CASE w.is # "value"
      BY <1>2, <3>3, <3>4, <3>5 DEF Paired
    <3>6. CASE w.is = "value"
      <4>1. w.fits \in BOOLEAN /\ w.next \in i + 1 .. Len(t) + 2
        <5>1. w.fits \in BOOLEAN /\ w.next \in o.next + 2 .. Len(t) + 2
          <6>1. w.fits \in BOOLEAN /\ w.next \in (o.next + 1) + 1 .. Len(t) + 2
            BY <3>2, <3>6, ValueIs
          <6>2. (o.next + 1) + 1 = o.next + 2
            BY <2>1
          <6> QED BY <6>1, <6>2
        <5> QED BY <1>0, <2>1, <5>1
      <4> DEFINE x == <<o.value.string, w.value>>
                 kind == "members"
                 close == "right_brace"
                 b == w.fits
                 next == w.next
                 A(p) == After(p, t, n, kind, close, x, b, next)
      <4>2. A(u) = A(v) /\ LoopShaped(A(u), t, i)
        <5>1. kind \in {"elements", "members"} /\ close \in {"right_bracket", "right_brace"}
          OBVIOUS
        <5>2. Flag(b) /\ next \in i + 1 .. Len(t) + 2
          BY <4>1 DEF Flag
        <5> HIDE DEF kind, close, x, b, next
        <5>3. Alike(After(u, t, n, kind, close, x, b, next), After(v, t, n, kind, close, x, b, next))
          BY <5>1, <5>2, AfterStays, Zenon
        <5>4. LoopShaped(After(u, t, n, kind, close, x, b, next), t, i)
          BY <5>1, <5>2, AfterShaped, Zenon
        <5> QED BY <5>3, <5>4 DEF Alike
      <4>3. \A p : Paired(p, t, n, o, w) = IF ~Hashable(o.value.string, HashmapEntries) THEN Undefined ELSE A(p)
        BY <3>6 DEF Paired
      <4> HIDE DEF A
      <4> QED BY <1>2, <3>4, <4>2, <4>3
    <3> QED BY <3>5, <3>6
  <2> QED BY <2>2, <2>3
<1> QED BY <1>1, <1>3, <1>4, <1>5, ValueIs

(* At every place the parser looks at later places only, and its outcome is shaped. *)
LEMMA BodyStep ==
    ASSUME NEW t \in Seq(Tokenlike), NEW n \in Nat, NEW u, NEW v, NEW at \in Places(t),
           Ahead(u, v, t, Rank(at))
    PROVE  Body(u, t, n, at) = Body(v, t, n, at) /\ Shaped(Body(u, t, n, at), t, at)
<1>1. at[1] \in {"value", "elements", "members"} /\ at[2] \in 1 .. Len(t) + 1
  BY DEF Places
<1> DEFINE i == at[2]
<1>2. CASE at[1] = "value"
  <2>1. Rank(at) = 2 * i + 1
    BY <1>1, <1>2 DEF Rank
  <2>2. \A w : Body(w, t, n, at) = ParseAt(w, t, n, i)
    BY <1>2 DEF Body
  <2>3. \A o : Shaped(o, t, at) <=> ValueShaped(o, t, i)
    BY <1>2 DEF Shaped
  <2>4. i \in 1 .. Len(t) + 1
    BY <1>1
  <2> HIDE DEF i
  <2>5. ParseAt(u, t, n, i) = ParseAt(v, t, n, i) /\ ValueShaped(ParseAt(u, t, n, i), t, i)
    BY <2>1, <2>4, ValueStep
  <2> QED BY <2>2, <2>3, <2>5
<1>3. CASE at[1] # "value"
  <2>1. Rank(at) = 2 * i
    BY <1>1, <1>3 DEF Rank
  <2>2. i \in 1 .. Len(t) + 1
    BY <1>1
  <2>3. Looked(u, v, t, i)
    <3> HIDE DEF i
    <3> QED BY <2>1, <2>2, LookedAhead
  <2>4. \A o : Shaped(o, t, at) <=> LoopShaped(o, t, i)
    BY <1>3 DEF Shaped
  <2>5. CASE at[1] = "elements"
    <3>1. \A w : Body(w, t, n, at) = Elements(w, t, n, i)
      BY <2>5 DEF Body
    <3> HIDE DEF i
    <3>2. Elements(u, t, n, i) = Elements(v, t, n, i) /\ LoopShaped(Elements(u, t, n, i), t, i)
      BY <2>2, <2>3, ElementsStep
    <3> QED BY <2>4, <3>1, <3>2
  <2>6. CASE at[1] = "members"
    <3>1. \A w : Body(w, t, n, at) = Members(w, t, n, i)
      BY <2>6 DEF Body
    <3> HIDE DEF i
    <3>2. Members(u, t, n, i) = Members(v, t, n, i) /\ LoopShaped(Members(u, t, n, i), t, i)
      BY <2>2, <2>3, MembersStep
    <3> QED BY <2>4, <3>1, <3>2
  <2> QED BY <1>1, <1>3, <2>5, <2>6
<1> QED BY <1>2, <1>3

\* The places from a rank on, and the parser's outcomes there.
From(t, r) == {at \in Places(t) : Rank(at) >= r}

Parses(u, t, n, r) == IsParse(u, t, n, From(t, r)) /\ \A at \in From(t, r) : Shaped(u[at], t, at)

(* Its outcomes from a rank on give those of one rank less. *)
LEMMA OneMoreRank ==
    ASSUME NEW t \in Seq(Tokenlike), NEW n \in Nat, NEW u, NEW r \in Nat, Parses(u, t, n, r + 1)
    PROVE  \E w : Parses(w, t, n, r)
<1> DEFINE w == [at \in From(t, r) |-> IF Rank(at) > r THEN u[at] ELSE Body(u, t, n, at)]
<1>1. \A at \in Places(t) : Rank(at) \in Nat
  BY DEF Places, Rank
<1>2. \A at \in Places(t) : Rank(at) > r <=> at \in From(t, r + 1)
  BY <1>1 DEF From
<1>3. \A at \in Places(t) : Rank(at) > r => at \in From(t, r)
  BY <1>1 DEF From
<1>4. \A at \in Places(t) : Rank(at) > r =>
         u[at] = Body(u, t, n, at) /\ Shaped(u[at], t, at) /\ w[at] = u[at]
  <2> SUFFICES ASSUME NEW at \in Places(t), Rank(at) > r
               PROVE  u[at] = Body(u, t, n, at) /\ Shaped(u[at], t, at) /\ w[at] = u[at]
    OBVIOUS
  <2>1. at \in From(t, r + 1) /\ at \in From(t, r)
    BY <1>2, <1>3
  <2>2. u[at] = Body(u, t, n, at) /\ Shaped(u[at], t, at)
    BY <2>1 DEF Parses, IsParse
  <2> QED BY <2>1, <2>2
<1>5. \A at \in From(t, r) : Ahead(u, w, t, Rank(at))
  <2> SUFFICES ASSUME NEW at \in From(t, r), NEW later \in Places(t), Rank(later) > Rank(at)
               PROVE  Shaped(u[later], t, later) /\ w[later] = u[later]
    BY DEF Ahead
  <2>1. Rank(later) > r
    <3>1. Rank(later) \in Nat /\ Rank(at) \in Nat /\ Rank(at) >= r
      BY <1>1 DEF From
    <3> QED BY <3>1
  <2> HIDE DEF w
  <2> QED BY <1>4, <2>1
<1>6. \A at \in From(t, r) : Body(u, t, n, at) = Body(w, t, n, at) /\ Shaped(Body(u, t, n, at), t, at)
  <2> HIDE DEF w
  <2>1. \A at \in From(t, r) : at \in Places(t)
    BY DEF From
  <2> QED BY <1>5, <2>1, BodyStep
<1>7. \A at \in From(t, r) : w[at] = Body(u, t, n, at)
  <2> SUFFICES ASSUME NEW at \in From(t, r)
               PROVE  w[at] = Body(u, t, n, at)
    OBVIOUS
  <2>1. CASE Rank(at) > r
    <3>1. at \in Places(t)
      BY DEF From
    <3> HIDE DEF w
    <3> QED BY <1>4, <2>1, <3>1
  <2>2. CASE ~(Rank(at) > r)
    BY <2>2
  <2> QED BY <2>1, <2>2
<1>8. w = [at \in From(t, r) |-> Body(w, t, n, at)]
  <2>1. w = [at \in From(t, r) |-> w[at]]
    OBVIOUS
  <2>2. \A at \in From(t, r) : w[at] = Body(w, t, n, at)
    <3> HIDE DEF w
    <3> QED BY <1>6, <1>7
  <2> HIDE DEF w
  <2> QED BY <2>1, <2>2
<1> HIDE DEF w
<1>9. Parses(w, t, n, r)
  <2>1. \A at \in From(t, r) : Shaped(w[at], t, at)
    BY <1>6, <1>7
  <2> QED BY <1>8, <2>1 DEF Parses, IsParse
<1> QED BY <1>9

(* The parser is well defined: it has an outcome at every place, and it is shaped. *)
LEMMA ParseExists ==
    ASSUME NEW t \in Seq(Tokenlike), NEW n \in Nat
    PROVE  \E u : IsParse(u, t, n, Places(t)) /\ \A at \in Places(t) : Shaped(u[at], t, at)
<1> DEFINE top == 2 * Len(t) + 4
           Bad == {k \in 0 .. top : ~\E u : Parses(u, t, n, top - k)}
<1>1. \A at \in Places(t) : Rank(at) \in Nat /\ Rank(at) < top
  BY DEF Places, Rank
<1>2. 0 \notin Bad
  <2>1. From(t, top) = {}
    BY <1>1 DEF From
  <2>2. Parses([at \in {} |-> at], t, n, top)
    BY <2>1 DEF Parses, IsParse
  <2>3. top - 0 = top
    OBVIOUS
  <2> HIDE DEF top
  <2> QED BY <2>2, <2>3
<1>3. Bad = {}
  <2> SUFFICES ASSUME Bad # {} PROVE FALSE
    OBVIOUS
  <2>1. Bad \in SUBSET Nat
    OBVIOUS
  <2>2. PICK k \in Bad : \A m \in Bad : k <= m
    <3> HIDE DEF Bad
    <3> QED BY <2>1, LeastNumber
  <2>3. k \in 0 .. top /\ k # 0 /\ ~\E u : Parses(u, t, n, top - k)
    BY <1>2
  <2> DEFINE r == top - k
  <2>4. top \in Nat /\ k - 1 \in 0 .. top /\ k - 1 < k /\ r \in Nat /\ top - (k - 1) = r + 1
    BY <2>3
  <2>5. k - 1 \notin Bad
    <3> HIDE DEF Bad, top, r
    <3>1. ~(k <= k - 1)
      BY <2>3, <2>4
    <3> QED BY <2>2, <3>1
  <2>6. \E u : Parses(u, t, n, r + 1)
    <3>1. \E u : Parses(u, t, n, top - (k - 1))
      <4> HIDE DEF top
      <4> QED BY <2>4, <2>5
    <3> HIDE DEF r, top
    <3> QED BY <2>4, <3>1
  <2>7. \E w : Parses(w, t, n, r)
    <3> HIDE DEF r, top, Bad
    <3> QED BY <2>4, <2>6, OneMoreRank
  <2> QED BY <2>3, <2>7
<1>4. \E u : Parses(u, t, n, 0)
  <2>1. top \in 0 .. top /\ top - top = 0
    OBVIOUS
  <2>2. \E u : Parses(u, t, n, top - top)
    <3> HIDE DEF top
    <3> QED BY <1>3, <2>1
  <2> HIDE DEF top
  <2> QED BY <2>1, <2>2
<1>5. From(t, 0) = Places(t)
  BY <1>1 DEF From
<1> QED BY <1>4, <1>5 DEF Parses

(* What Parse returns is the outcome of the parser at the first token. *)
LEMMA ParseIs ==
    ASSUME NEW t \in Seq(Tokenlike), NEW n \in Nat
    PROVE  \E p : /\ IsParse(p, t, n, Places(t))
                  /\ \A at \in Places(t) : Shaped(p[at], t, at)
                  /\ Parse(t, n) = p[<<"value", 1>>]
<1> DEFINE P(p) == p = [at \in Places(t) |-> Body(p, t, n, at)]
           p == CHOOSE q : P(q)
<1>1. PICK u : P(u) /\ \A at \in Places(t) : Shaped(u[at], t, at)
  BY ParseExists DEF IsParse
<1>2. P(p)
  <2> HIDE DEF P
  <2> QED BY <1>1
<1>3. Parse(t, n) = p[<<"value", 1>>]
  BY DEF Parse, Body, Places
<1>4. p = u
  <2> DEFINE B == {at \in Places(t) : p[at] # u[at]}
  <2> HIDE DEF p
  <2>1. \A at \in B : \E later \in B : Rank(later) > Rank(at)
    <3> SUFFICES ASSUME NEW at \in B, \A later \in B : ~(Rank(later) > Rank(at))
                 PROVE  FALSE
      OBVIOUS
    <3>1. Ahead(u, p, t, Rank(at))
      BY <1>1 DEF Ahead
    <3>2. Body(u, t, n, at) = Body(p, t, n, at)
      BY <3>1, BodyStep
    <3>3. p[at] = Body(p, t, n, at) /\ u[at] = Body(u, t, n, at)
      BY <1>1, <1>2
    <3> QED BY <3>2, <3>3
  <2>2. B = {}
    <3>1. B \in SUBSET Places(t) /\ Len(t) \in Nat
      OBVIOUS
    <3> HIDE DEF B
    <3> QED BY <2>1, <3>1, Downwards
  <2>3. \A at \in Places(t) : p[at] = u[at]
    BY <2>2
  <2> QED BY <1>1, <1>2, <2>3
<1> HIDE DEF p
<1> QED BY <1>1, <1>2, <1>3, <1>4 DEF IsParse

-----------------------------------------------------------------------------
(* The grammar: what a place to a place derives depends on shorter spans. *)

Spans(m) == {"value", "list", "pairs"} \X (1 .. Len(m) + 1) \X (0 .. Len(m))

Size(at) == IF at[2] > at[3] THEN 0 ELSE 1 + 2 * (at[3] - at[2]) + (IF at[1] = "value" THEN 0 ELSE 1)

Rules(g, m, at) ==
    CASE at[1] = "value" /\ at[2] <= at[3] -> ValuesOf(g, m, at[2], at[3])
      [] at[1] = "list"  /\ at[2] <= at[3] -> ListsOf(g, m, at[2], at[3])
      [] at[1] = "pairs" /\ at[2] <= at[3] -> PairsOf(g, m, at[2], at[3])
      [] OTHER -> {}

IsGrammar(g, m) == g = [at \in Spans(m) |-> Rules(g, m, at)]

\* The names and values of one pair.
Pairs(g, m, a, e) ==
    IF e > a + 1 /\ m[a].type = "string" /\ m[a + 1].type = "colon"
    THEN {<<m[a].text, v>> : v \in g[<<"value", a + 2, e>>]} ELSE {}

\* The rules of the grammar.
ValueLike(g, m, a, b, v) ==
    \/ a = b /\ m[a].type \in Primitive /\ v = Denoted(m[a])
    \/ /\ a < b /\ m[a].type = "left_bracket" /\ m[b].type = "right_bracket"
       /\ \/ b = a + 1 /\ v = Array(<<>>)
          \/ b > a + 1 /\ \E l \in g[<<"list", a + 1, b - 1>>] : v = Array(l)
    \/ /\ a < b /\ m[a].type = "left_brace" /\ m[b].type = "right_brace"
       /\ \/ b = a + 1 /\ v = ObjectOf(<<>>)
          \/ b > a + 1 /\ \E l \in g[<<"pairs", a + 1, b - 1>>] : v = ObjectOf(l)

ListLike(g, m, a, b, l) ==
    \/ \E v \in g[<<"value", a, b>>] : l = <<v>>
    \/ \E k \in a .. b : /\ m[k].type = "comma"
                         /\ \E v \in g[<<"value", a, k - 1>>], r \in g[<<"list", k + 1, b>>] :
                               l = <<v>> \o r

PairsLike(g, m, a, b, l) ==
    \/ \E v \in Pairs(g, m, a, b) : l = <<v>>
    \/ \E k \in a .. b : /\ m[k].type = "comma"
                         /\ \E v \in Pairs(g, m, a, k - 1), r \in g[<<"pairs", k + 1, b>>] :
                               l = <<v>> \o r

(* What an array or an object is, as its rule has it. *)
LEMMA ValueRule ==
    ASSUME NEW g, NEW m, NEW a \in Nat, NEW b \in Nat, a <= b, NEW v
    PROVE  v \in ValuesOf(g, m, a, b) <=> ValueLike(g, m, a, b, v)
<1> USE DEF ValueLike
<1> DEFINE V == ValuesOf(g, m, a, b)
           Squares == a < b /\ m[a].type = "left_bracket" /\ m[b].type = "right_bracket"
           Curlies == a < b /\ m[a].type = "left_brace" /\ m[b].type = "right_brace"
           Single == a = b /\ m[a].type \in Primitive
           Lists == IF b = a + 1 THEN {<<>>} ELSE g[<<"list", a + 1, b - 1>>]
           Braced == IF b = a + 1 THEN {<<>>} ELSE g[<<"pairs", a + 1, b - 1>>]
<1>1. V = CASE Single -> {Denoted(m[a])}
            [] Squares -> {Array(l) : l \in Lists}
            [] Curlies -> {ObjectOf(l) : l \in Braced}
            [] OTHER -> {}
  BY DEF ValuesOf
<1>2. ~(Single /\ Squares) /\ ~(Single /\ Curlies) /\ ~(Squares /\ Curlies)
  OBVIOUS
<1>3. Squares \/ Curlies => (b = a + 1 \/ b > a + 1) /\ ~(b = a + 1 /\ b > a + 1)
  OBVIOUS
<1>4. CASE Single
  <2>1. V = {Denoted(m[a])}
    <3> HIDE DEF V, Single, Squares, Curlies, Lists, Braced
    <3> QED BY <1>1, <1>2, <1>4
  <2> QED BY <1>2, <1>4, <2>1
<1>5. CASE Squares
  <2>1. V = {Array(l) : l \in Lists}
    <3> HIDE DEF V, Single, Squares, Curlies, Lists, Braced
    <3> QED BY <1>1, <1>2, <1>5
  <2>2. v \in V <=> \E l \in Lists : v = Array(l)
    BY <2>1
  <2>3. (\E l \in Lists : v = Array(l)) <=>
           \/ b = a + 1 /\ v = Array(<<>>)
           \/ b > a + 1 /\ \E l \in g[<<"list", a + 1, b - 1>>] : v = Array(l)
    <3>1. CASE b = a + 1
      <4>1. Lists = {<<>>} /\ ~(b > a + 1)
        BY <3>1
      <4> HIDE DEF Lists
      <4> QED BY <3>1, <4>1
    <3>2. CASE b > a + 1
      <4>1. Lists = g[<<"list", a + 1, b - 1>>] /\ b # a + 1
        BY <3>2
      <4> HIDE DEF Lists
      <4> QED BY <3>2, <4>1
    <3> QED BY <1>3, <1>5, <3>1, <3>2
  <2> HIDE DEF Lists
  <2>4. ~Single /\ ~Curlies
    <3> HIDE DEF Single, Squares, Curlies
    <3> QED BY <1>2, <1>5
  <2> QED BY <1>5, <2>2, <2>3, <2>4
<1>6. CASE Curlies
  <2>1. V = {ObjectOf(l) : l \in Braced}
    <3> HIDE DEF V, Single, Squares, Curlies, Lists, Braced
    <3> QED BY <1>1, <1>2, <1>6
  <2>2. v \in V <=> \E l \in Braced : v = ObjectOf(l)
    BY <2>1
  <2>3. (\E l \in Braced : v = ObjectOf(l)) <=>
           \/ b = a + 1 /\ v = ObjectOf(<<>>)
           \/ b > a + 1 /\ \E l \in g[<<"pairs", a + 1, b - 1>>] : v = ObjectOf(l)
    <3>1. CASE b = a + 1
      <4>1. Braced = {<<>>} /\ ~(b > a + 1)
        BY <3>1
      <4> HIDE DEF Braced
      <4> QED BY <3>1, <4>1
    <3>2. CASE b > a + 1
      <4>1. Braced = g[<<"pairs", a + 1, b - 1>>] /\ b # a + 1
        BY <3>2
      <4> HIDE DEF Braced
      <4> QED BY <3>2, <4>1
    <3> QED BY <1>3, <1>6, <3>1, <3>2
  <2> HIDE DEF Braced
  <2>4. ~Single /\ ~Squares
    <3> HIDE DEF Single, Squares, Curlies
    <3> QED BY <1>2, <1>6
  <2> QED BY <1>6, <2>2, <2>3, <2>4
<1>7. CASE ~Single /\ ~Squares /\ ~Curlies
  <2>1. V = {}
    <3> HIDE DEF V, Single, Squares, Curlies, Lists, Braced
    <3> QED BY <1>1, <1>7
  <2> QED BY <1>7, <2>1
<1> QED BY <1>4, <1>5, <1>6, <1>7

(* A list is one thing, or one thing up to a comma and a list after it. *)
LEMMA ListRule ==
    ASSUME NEW g, NEW m, NEW a \in Nat, NEW b \in Nat, NEW l
    PROVE  l \in ListsOf(g, m, a, b) <=> ListLike(g, m, a, b, l)
<1> USE DEF ListLike
<1> DEFINE One(e) == g[<<"value", a, e>>]
           Ones == {<<v>> : v \in One(b)}
           More(k) == {<<v>> \o r : v \in One(k - 1), r \in g[<<"list", k + 1, b>>]}
           K == {k \in a .. b : m[k].type = "comma"}
<1>1. ListsOf(g, m, a, b) = Ones \cup UNION {More(k) : k \in K}
  BY DEF ListsOf, Cut
<1>2. l \in Ones <=> \E v \in One(b) : l = <<v>>
  OBVIOUS
<1>3. l \in UNION {More(k) : k \in K} <=> \E k \in K : l \in More(k)
  <2> HIDE DEF More, K
  <2> QED BY Zenon
<1>4. \A k : l \in More(k) <=> \E v \in One(k - 1), r \in g[<<"list", k + 1, b>>] : l = <<v>> \o r
  <2> HIDE DEF One, More
  <2> SUFFICES ASSUME NEW k
               PROVE  l \in More(k) <=> \E v \in One(k - 1), r \in g[<<"list", k + 1, b>>] : l = <<v>> \o r
    OBVIOUS
  <2> DEFINE V == One(k - 1)
             R == g[<<"list", k + 1, b>>]
  <2> HIDE DEF V, R
  <2>1. l \in {<<v>> \o r : v \in V, r \in R} <=> \E v \in V, r \in R : l = <<v>> \o r
    OBVIOUS
  <2> QED BY <2>1 DEF V, R, One, More
<1>5. (\E k \in K : l \in More(k)) <=> \E k \in a .. b : m[k].type = "comma" /\ l \in More(k)
  <2> HIDE DEF More
  <2> QED BY Zenon
<1> HIDE DEF Ones, More, K
<1> QED BY <1>1, <1>2, <1>3, <1>4, <1>5, Zenon

(* The same of the pairs of an object. *)
LEMMA PairRule ==
    ASSUME NEW g, NEW m, NEW a \in Nat, NEW b \in Nat, NEW l
    PROVE  l \in PairsOf(g, m, a, b) <=> PairsLike(g, m, a, b, l)
<1> USE DEF PairsLike
<1> DEFINE One(e) == Pairs(g, m, a, e)
           Ones == {<<v>> : v \in One(b)}
           More(k) == {<<v>> \o r : v \in One(k - 1), r \in g[<<"pairs", k + 1, b>>]}
           K == {k \in a .. b : m[k].type = "comma"}
<1>1. PairsOf(g, m, a, b) = Ones \cup UNION {More(k) : k \in K}
  BY DEF PairsOf, Cut, Pairs
<1>2. l \in Ones <=> \E v \in One(b) : l = <<v>>
  OBVIOUS
<1>3. l \in UNION {More(k) : k \in K} <=> \E k \in K : l \in More(k)
  <2> HIDE DEF More, K
  <2> QED BY Zenon
<1>4. \A k : l \in More(k) <=> \E v \in One(k - 1), r \in g[<<"pairs", k + 1, b>>] : l = <<v>> \o r
  <2> HIDE DEF One, More
  <2> SUFFICES ASSUME NEW k
               PROVE  l \in More(k) <=> \E v \in One(k - 1), r \in g[<<"pairs", k + 1, b>>] : l = <<v>> \o r
    OBVIOUS
  <2> DEFINE V == One(k - 1)
             R == g[<<"pairs", k + 1, b>>]
  <2> HIDE DEF V, R
  <2>1. l \in {<<v>> \o r : v \in V, r \in R} <=> \E v \in V, r \in R : l = <<v>> \o r
    OBVIOUS
  <2> QED BY <2>1 DEF V, R, One, More
<1>5. (\E k \in K : l \in More(k)) <=> \E k \in a .. b : m[k].type = "comma" /\ l \in More(k)
  <2> HIDE DEF More
  <2> QED BY Zenon
<1> HIDE DEF Ones, More, K
<1> QED BY <1>1, <1>2, <1>3, <1>4, <1>5, Zenon

(* What a span derives depends on smaller spans only. *)
LEMMA RulesLocal ==
    ASSUME NEW m, Len(m) \in Nat, NEW g, NEW h, NEW at \in Spans(m),
           \A s \in Spans(m) : Size(s) < Size(at) => h[s] = g[s]
    PROVE  Rules(g, m, at) = Rules(h, m, at)
<1> DEFINE a == at[2]
           b == at[3]
<1>1. at[1] \in {"value", "list", "pairs"} /\ a \in 1 .. Len(m) + 1 /\ b \in 0 .. Len(m)
  BY DEF Spans
<1>2. CASE a > b
  <2>1. ~(at[2] <= at[3])
    BY <1>1, <1>2
  <2>2. \A f : Rules(f, m, at) = {}
    BY <2>1 DEF Rules
  <2> QED BY <2>2
<1>3. CASE a <= b
  <2>1. Size(at) = 1 + 2 * (b - a) + (IF at[1] = "value" THEN 0 ELSE 1)
    BY <1>1, <1>3 DEF Size
  <2>2. ASSUME NEW kind \in {"value", "list", "pairs"}, NEW c \in 1 .. Len(m) + 1, NEW d \in 0 .. Len(m),
               \/ c > d
               \/ d - c < b - a
               \/ d - c = b - a /\ kind = "value" /\ at[1] # "value"
        PROVE  h[<<kind, c, d>>] = g[<<kind, c, d>>]
    <3> DEFINE s == <<kind, c, d>>
    <3>1. s[1] = kind /\ s[2] = c /\ s[3] = d /\ s \in Spans(m)
      BY DEF Spans
    <3> HIDE DEF s
    <3>2. Size(s) = IF c > d THEN 0 ELSE 1 + 2 * (d - c) + (IF kind = "value" THEN 0 ELSE 1)
      BY <3>1 DEF Size
    <3> HIDE DEF a, b
    <3>3. Size(s) < Size(at)
      BY <1>1, <1>3, <2>1, <2>2, <3>2
    <3> QED BY <3>1, <3>3 DEF s
  <2> HIDE DEF a, b
  <2>3. CASE at[1] = "value"
    <3>1. \A f : Rules(f, m, at) = ValuesOf(f, m, a, b)
      BY <1>1, <1>3, <2>3 DEF Rules, a, b
    <3>2. a < b => /\ h[<<"list", a + 1, b - 1>>] = g[<<"list", a + 1, b - 1>>]
                   /\ h[<<"pairs", a + 1, b - 1>>] = g[<<"pairs", a + 1, b - 1>>]
      <4> SUFFICES ASSUME a < b
                   PROVE  /\ h[<<"list", a + 1, b - 1>>] = g[<<"list", a + 1, b - 1>>]
                          /\ h[<<"pairs", a + 1, b - 1>>] = g[<<"pairs", a + 1, b - 1>>]
        OBVIOUS
      <4> DEFINE c == a + 1
                 d == b - 1
      <4>1. c \in 1 .. Len(m) + 1 /\ d \in 0 .. Len(m) /\ d - c < b - a
        BY <1>1
      <4> HIDE DEF c, d
      <4>2. h[<<"list", c, d>>] = g[<<"list", c, d>>] /\ h[<<"pairs", c, d>>] = g[<<"pairs", c, d>>]
        BY <2>2, <4>1
      <4> QED BY <4>2 DEF c, d
    <3>3. ValuesOf(g, m, a, b) = ValuesOf(h, m, a, b)
      BY <3>2 DEF ValuesOf
    <3> QED BY <3>1, <3>3
  <2>4. ASSUME at[1] # "value", NEW k \in a .. b
        PROVE  /\ h[<<"value", a, k - 1>>] = g[<<"value", a, k - 1>>]
               /\ h[<<"list", k + 1, b>>] = g[<<"list", k + 1, b>>]
               /\ h[<<"pairs", k + 1, b>>] = g[<<"pairs", k + 1, b>>]
               /\ Pairs(h, m, a, k - 1) = Pairs(g, m, a, k - 1)
    <3> DEFINE c == k + 1
               d == k - 1
    <3>1. /\ c \in 1 .. Len(m) + 1 /\ (c > b \/ b - c < b - a)
          /\ d \in 0 .. Len(m) /\ (a > d \/ d - a < b - a)
          /\ (d > a + 1 => a + 2 \in 1 .. Len(m) + 1 /\ d - (a + 2) < b - a)
      <4>1. /\ a \in Nat /\ b \in Nat /\ k \in Nat /\ Len(m) \in Nat
            /\ 1 <= a /\ a <= k /\ k <= b /\ b <= Len(m)
        BY <1>1
      <4> QED BY <4>1
    <3> HIDE DEF c, d
    <3>2. h[<<"value", a, d>>] = g[<<"value", a, d>>]
      BY <1>1, <2>2, <3>1
    <3>3. h[<<"list", c, b>>] = g[<<"list", c, b>>] /\ h[<<"pairs", c, b>>] = g[<<"pairs", c, b>>]
      BY <1>1, <2>2, <3>1
    <3>4. d > a + 1 => h[<<"value", a + 2, d>>] = g[<<"value", a + 2, d>>]
      <4> DEFINE e == a + 2
      <4>1. d > a + 1 => e \in 1 .. Len(m) + 1 /\ d - e < b - a
        BY <3>1
      <4> HIDE DEF e
      <4>2. d > a + 1 => h[<<"value", e, d>>] = g[<<"value", e, d>>]
        BY <2>2, <3>1, <4>1
      <4> QED BY <4>2 DEF e
    <3>5. Pairs(h, m, a, d) = Pairs(g, m, a, d)
      BY <3>4 DEF Pairs
    <3> QED BY <3>2, <3>3, <3>5 DEF c, d
  <2>5. ASSUME at[1] # "value"
        PROVE  h[<<"value", a, b>>] = g[<<"value", a, b>>] /\ Pairs(h, m, a, b) = Pairs(g, m, a, b)
    <3>1. h[<<"value", a, b>>] = g[<<"value", a, b>>]
      BY <1>1, <2>2, <2>5
    <3>2. b > a + 1 => h[<<"value", a + 2, b>>] = g[<<"value", a + 2, b>>]
      <4> DEFINE e == a + 2
      <4>1. b > a + 1 => e \in 1 .. Len(m) + 1 /\ b - e < b - a
        BY <1>1
      <4> HIDE DEF e
      <4>2. b > a + 1 => h[<<"value", e, b>>] = g[<<"value", e, b>>]
        BY <1>1, <2>2, <4>1
      <4> QED BY <4>2 DEF e
    <3>3. Pairs(h, m, a, b) = Pairs(g, m, a, b)
      BY <3>2 DEF Pairs
    <3> QED BY <3>1, <3>3
  <2>6. a \in Nat /\ b \in Nat
    BY <1>1
  <2>7. CASE at[1] = "list"
    <3>1. \A f : Rules(f, m, at) = ListsOf(f, m, a, b)
      <4>1. at[2] <= at[3] /\ ~(at[2] > at[3])
        BY <1>1, <1>3 DEF a, b
      <4> QED BY <2>7, <4>1 DEF Rules, a, b
    <3>2. ASSUME NEW l
          PROVE  l \in ListsOf(g, m, a, b) <=> l \in ListsOf(h, m, a, b)
      <4> DEFINE One(f, e) == f[<<"value", a, e>>]
                 More(f, k) == \E v \in One(f, k - 1), r \in f[<<"list", k + 1, b>>] : l = <<v>> \o r
      <4>1. \A f : l \in ListsOf(f, m, a, b) <=> ListLike(f, m, a, b, l)
        BY <2>6, ListRule
      <4>4. \A f : ListLike(f, m, a, b, l) <=>
                     (\E v \in One(f, b) : l = <<v>>) \/ \E k \in a .. b : m[k].type = "comma" /\ More(f, k)
        BY DEF ListLike
      <4>2. One(g, b) = One(h, b)
        BY <2>5, <2>7
      <4>3. \A k \in a .. b : More(g, k) <=> More(h, k)
        <5>1. \A k \in a .. b : One(h, k - 1) = One(g, k - 1) /\ h[<<"list", k + 1, b>>] = g[<<"list", k + 1, b>>]
          BY <2>4, <2>7
        <5> HIDE DEF One
        <5> QED BY <5>1, Zenon
      <4> HIDE DEF One, More
      <4> QED BY <4>1, <4>2, <4>3, <4>4
    <3>3. ListsOf(g, m, a, b) = ListsOf(h, m, a, b)
      BY <3>2, Zenon
    <3> QED BY <3>1, <3>3
  <2>8. CASE at[1] = "pairs"
    <3>1. \A f : Rules(f, m, at) = PairsOf(f, m, a, b)
      <4>1. at[2] <= at[3] /\ ~(at[2] > at[3])
        BY <1>1, <1>3 DEF a, b
      <4> QED BY <2>8, <4>1 DEF Rules, a, b
    <3>2. ASSUME NEW l
          PROVE  l \in PairsOf(g, m, a, b) <=> l \in PairsOf(h, m, a, b)
      <4> DEFINE One(f, e) == Pairs(f, m, a, e)
                 More(f, k) == \E v \in One(f, k - 1), r \in f[<<"pairs", k + 1, b>>] : l = <<v>> \o r
      <4>1. \A f : l \in PairsOf(f, m, a, b) <=> PairsLike(f, m, a, b, l)
        BY <2>6, PairRule
      <4>4. \A f : PairsLike(f, m, a, b, l) <=>
                     (\E v \in One(f, b) : l = <<v>>) \/ \E k \in a .. b : m[k].type = "comma" /\ More(f, k)
        BY DEF PairsLike
      <4>2. One(g, b) = One(h, b)
        BY <2>5, <2>8
      <4>3. \A k \in a .. b : More(g, k) <=> More(h, k)
        <5>1. \A k \in a .. b : One(h, k - 1) = One(g, k - 1) /\ h[<<"pairs", k + 1, b>>] = g[<<"pairs", k + 1, b>>]
          BY <2>4, <2>8
        <5> HIDE DEF One
        <5> QED BY <5>1, Zenon
      <4> HIDE DEF One, More
      <4> QED BY <4>1, <4>2, <4>3, <4>4
    <3>3. PairsOf(g, m, a, b) = PairsOf(h, m, a, b)
      BY <3>2, Zenon
    <3> QED BY <3>1, <3>3
  <2> QED BY <1>1, <2>3, <2>7, <2>8
<1> QED BY <1>1, <1>2, <1>3

\* What spans up to a size derive.
SmallSpans(m, r) == {at \in Spans(m) : Size(at) < r}

Derives(g, m, r) == g = [at \in SmallSpans(m, r) |-> Rules(g, m, at)]

(* The grammar is well defined: it derives something from every span. *)
LEMMA GrammarExists ==
    ASSUME NEW m, Len(m) \in Nat
    PROVE  \E g : IsGrammar(g, m)
<1>1. \A at \in Spans(m) : Size(at) \in Nat /\ Size(at) < 2 * Len(m) + 3
  <2> SUFFICES ASSUME NEW at \in Spans(m)
               PROVE  Size(at) \in Nat /\ Size(at) < 2 * Len(m) + 3
    OBVIOUS
  <2> DEFINE a == at[2]
             b == at[3]
  <2>1. a \in 1 .. Len(m) + 1 /\ b \in 0 .. Len(m)
    BY DEF Spans
  <2>2. Size(at) = IF a > b THEN 0 ELSE 1 + 2 * (b - a) + (IF at[1] = "value" THEN 0 ELSE 1)
    BY DEF Size
  <2> HIDE DEF a, b
  <2> QED BY <2>1, <2>2
<1>2. ASSUME NEW r \in Nat, NEW g, Derives(g, m, r)
      PROVE  \E h : Derives(h, m, r + 1)
  <2> DEFINE h == [at \in SmallSpans(m, r + 1) |-> IF Size(at) < r THEN g[at] ELSE Rules(g, m, at)]
  <2>1. \A at \in Spans(m) : Size(at) < r => at \in SmallSpans(m, r) /\ at \in SmallSpans(m, r + 1)
    BY <1>1 DEF SmallSpans
  <2>2. \A at \in Spans(m) : Size(at) < r => g[at] = Rules(g, m, at) /\ h[at] = g[at]
    BY <1>2, <2>1 DEF Derives
  <2>3. \A at \in SmallSpans(m, r + 1) : Rules(g, m, at) = Rules(h, m, at)
    <3> HIDE DEF h
    <3> SUFFICES ASSUME NEW at \in SmallSpans(m, r + 1)
                 PROVE  Rules(g, m, at) = Rules(h, m, at)
      OBVIOUS
    <3>1. at \in Spans(m) /\ Size(at) <= r
      BY <1>1 DEF SmallSpans
    <3>2. \A s \in Spans(m) : Size(s) < Size(at) => h[s] = g[s]
      <4> SUFFICES ASSUME NEW s \in Spans(m), Size(s) < Size(at) PROVE h[s] = g[s]
        OBVIOUS
      <4>1. Size(s) < r
        BY <1>1, <3>1
      <4> QED BY <2>2, <4>1
    <3> QED BY <3>1, <3>2, RulesLocal
  <2>4. \A at \in SmallSpans(m, r + 1) : h[at] = Rules(g, m, at)
    <3> SUFFICES ASSUME NEW at \in SmallSpans(m, r + 1) PROVE h[at] = Rules(g, m, at)
      OBVIOUS
    <3>1. at \in Spans(m)
      BY DEF SmallSpans
    <3>2. CASE Size(at) < r
      <4> HIDE DEF h
      <4> QED BY <2>2, <3>1, <3>2
    <3>3. CASE ~(Size(at) < r)
      BY <3>3
    <3> QED BY <3>2, <3>3
  <2>5. h = [at \in SmallSpans(m, r + 1) |-> h[at]]
    OBVIOUS
  <2> HIDE DEF h
  <2> QED BY <2>3, <2>4, <2>5 DEF Derives
<1> DEFINE Bad == {r \in Nat : ~\E g : Derives(g, m, r)}
<1>3. 0 \notin Bad
  <2>1. SmallSpans(m, 0) = {}
    BY <1>1 DEF SmallSpans
  <2>2. Derives([at \in {} |-> at], m, 0)
    BY <2>1 DEF Derives
  <2> QED BY <2>2
<1>4. Bad = {}
  <2> SUFFICES ASSUME Bad # {} PROVE FALSE
    OBVIOUS
  <2>1. PICK r \in Bad : \A k \in Bad : r <= k
    <3>1. Bad \in SUBSET Nat
      OBVIOUS
    <3> HIDE DEF Bad
    <3> QED BY <3>1, LeastNumber
  <2>2. r \in Nat /\ r # 0 /\ ~\E g : Derives(g, m, r)
    BY <1>3
  <2>3. r - 1 \in Nat /\ ~(r <= r - 1) /\ (r - 1) + 1 = r
    BY <2>2
  <2>4. r - 1 \notin Bad
    <3> HIDE DEF Bad
    <3> QED BY <2>1, <2>3
  <2>5. \E g : Derives(g, m, (r - 1) + 1)
    BY <1>2, <2>3, <2>4
  <2> QED BY <2>2, <2>3, <2>5
<1>5. PICK g : Derives(g, m, 2 * Len(m) + 3)
  <2>1. 2 * Len(m) + 3 \in Nat
    OBVIOUS
  <2> QED BY <1>4, <2>1
<1>6. SmallSpans(m, 2 * Len(m) + 3) = Spans(m)
  BY <1>1 DEF SmallSpans
<1> QED BY <1>5, <1>6 DEF Derives, IsGrammar

(* What the grammar derives is what Meanings says. *)
LEMMA MeaningsIs ==
    ASSUME NEW m, Len(m) \in Nat
    PROVE  \E g : IsGrammar(g, m) /\ Meanings(m) = UNION {g[<<"value", 1, k>>] : k \in DOMAIN m}
<1> DEFINE P(g) == g = [at \in Spans(m) |-> Rules(g, m, at)]
           g == CHOOSE f : P(f)
<1>1. P(g)
  <2>1. \E f : P(f)
    BY GrammarExists DEF IsGrammar
  <2> HIDE DEF P
  <2> QED BY <2>1
<1>2. Derivations(m) = g
  BY DEF Derivations, Rules, Spans
<1>3. Meanings(m) = UNION {Derivations(m)[<<"value", 1, k>>] : k \in DOMAIN m}
  BY DEF Meanings
<1> HIDE DEF g
<1>4. IsGrammar(g, m) /\ Meanings(m) = UNION {g[<<"value", 1, k>>] : k \in DOMAIN m}
  BY <1>1, <1>2, <1>3 DEF IsGrammar
<1> QED BY <1>4

(* What a span derives is what its rule says. *)
LEMMA Derived ==
    ASSUME NEW m, Len(m) \in Nat, NEW g, IsGrammar(g, m), NEW a \in 1 .. Len(m) + 1, NEW b \in 0 .. Len(m), NEW x
    PROVE  /\ x \in g[<<"value", a, b>>] <=> a <= b /\ ValueLike(g, m, a, b, x)
           /\ x \in g[<<"list", a, b>>]  <=> a <= b /\ ListLike(g, m, a, b, x)
           /\ x \in g[<<"pairs", a, b>>] <=> a <= b /\ PairsLike(g, m, a, b, x)
<1>0. a \in Nat /\ b \in Nat
  OBVIOUS
<1>1. ASSUME NEW kind \in {"value", "list", "pairs"}
      PROVE  g[<<kind, a, b>>] = IF a > b THEN {}
                                 ELSE IF kind = "value" THEN ValuesOf(g, m, a, b)
                                 ELSE IF kind = "list" THEN ListsOf(g, m, a, b)
                                 ELSE PairsOf(g, m, a, b)
  <2> DEFINE at == <<kind, a, b>>
  <2>1. at[1] = kind /\ at[2] = a /\ at[3] = b /\ at \in Spans(m)
    BY DEF Spans
  <2> HIDE DEF at
  <2>2. g[at] = Rules(g, m, at)
    BY <2>1 DEF IsGrammar
  <2>3. CASE a > b
    <3>1. ~(a <= b)
      BY <1>0, <2>3
    <3>2. Rules(g, m, at) = {}
      BY <2>1, <3>1 DEF Rules
    <3> QED BY <2>2, <2>3, <3>2 DEF at
  <2>4. CASE ~(a > b)
    <3>1. a <= b
      BY <1>0, <2>4
    <3>2. CASE kind = "value"
      BY <2>1, <2>2, <2>4, <3>1, <3>2 DEF Rules, at
    <3>3. CASE kind = "list"
      <4>1. Rules(g, m, at) = ListsOf(g, m, a, b)
        BY <2>1, <3>1, <3>3 DEF Rules
      <4> QED BY <2>2, <2>4, <3>3, <4>1 DEF at
    <3>4. CASE kind = "pairs"
      <4>1. Rules(g, m, at) = PairsOf(g, m, a, b)
        BY <2>1, <3>1, <3>4 DEF Rules
      <4> QED BY <2>2, <2>4, <3>4, <4>1 DEF at
    <3> QED BY <3>2, <3>3, <3>4
  <2> QED BY <2>3, <2>4
<1>2. a > b <=> ~(a <= b)
  BY <1>0
<1>3. x \in g[<<"value", a, b>>] <=> a <= b /\ ValueLike(g, m, a, b, x)
  <2>1. g[<<"value", a, b>>] = IF a > b THEN {} ELSE ValuesOf(g, m, a, b)
    BY <1>1
  <2>2. a <= b => (x \in ValuesOf(g, m, a, b) <=> ValueLike(g, m, a, b, x))
    BY <1>0, ValueRule
  <2> QED BY <1>2, <2>1, <2>2
<1>4. x \in g[<<"list", a, b>>]  <=> a <= b /\ ListLike(g, m, a, b, x)
  <2>1. g[<<"list", a, b>>] = IF a > b THEN {} ELSE ListsOf(g, m, a, b)
    BY <1>1
  <2>2. x \in ListsOf(g, m, a, b) <=> ListLike(g, m, a, b, x)
    BY <1>0, ListRule
  <2> QED BY <1>2, <2>1, <2>2
<1>5. x \in g[<<"pairs", a, b>>]  <=> a <= b /\ PairsLike(g, m, a, b, x)
  <2>1. g[<<"pairs", a, b>>] = IF a > b THEN {} ELSE PairsOf(g, m, a, b)
    BY <1>1
  <2>2. x \in PairsOf(g, m, a, b) <=> PairsLike(g, m, a, b, x)
    BY <1>0, PairRule
  <2> QED BY <1>2, <2>1, <2>2
<1> QED BY <1>3, <1>4, <1>5

-----------------------------------------------------------------------------
(* Commas, by which the elements and properties of a message are counted. *)

CommasIn(t, a, b) == Cardinality({k \in a .. b : Type(t, k) = "comma"})

(* There are not more commas in a part. *)
LEMMA CommasGrow ==
    ASSUME NEW t, NEW a \in Int, NEW b \in Int, NEW c \in Int, NEW d \in Int, c <= a, b <= d
    PROVE  CommasIn(t, a, b) \in Nat /\ CommasIn(t, a, b) <= CommasIn(t, c, d)
<1> DEFINE S == {k \in a .. b : Type(t, k) = "comma"}
           T == {k \in c .. d : Type(t, k) = "comma"}
<1>1. IsFiniteSet(T)
  <2>1. IsFiniteSet(c .. d)
    BY FS_Interval
  <2>2. T \subseteq c .. d
    OBVIOUS
  <2> HIDE DEF T
  <2> QED BY <2>1, <2>2, FS_Subset
<1>2. S \subseteq T
  <2>1. \A k \in a .. b : k \in c .. d
    OBVIOUS
  <2> QED BY <2>1
<1>3. Cardinality(S) <= Cardinality(T) /\ IsFiniteSet(S)
  <2> HIDE DEF S, T
  <2> QED BY <1>1, <1>2, FS_Subset
<1>4. Cardinality(S) \in Nat
  <2> HIDE DEF S, T
  <2> QED BY <1>3, FS_CardinalityType
<1> QED BY <1>3, <1>4 DEF CommasIn

(* A comma divides the commas into itself, those before it and those after it. *)
LEMMA CommasCut ==
    ASSUME NEW t, NEW a \in Int, NEW b \in Int, NEW k \in a .. b, Type(t, k) = "comma"
    PROVE  CommasIn(t, a, b) = CommasIn(t, a, k - 1) + CommasIn(t, k + 1, b) + 1
<1> DEFINE S(c, d) == {j \in c .. d : Type(t, j) = "comma"}
           L == S(a, k - 1)
           R == S(k + 1, b)
<1>1. \A c, d \in Int : IsFiniteSet(S(c, d)) /\ Cardinality(S(c, d)) \in Nat
  <2> SUFFICES ASSUME NEW c \in Int, NEW d \in Int
               PROVE  IsFiniteSet(S(c, d)) /\ Cardinality(S(c, d)) \in Nat
    OBVIOUS
  <2>1. IsFiniteSet(c .. d)
    BY FS_Interval
  <2>2. S(c, d) \subseteq c .. d
    OBVIOUS
  <2> HIDE DEF S
  <2>3. IsFiniteSet(S(c, d))
    BY <2>1, <2>2, FS_Subset
  <2> QED BY <2>3, FS_CardinalityType
<1>2. S(a, b) = (L \cup {k}) \cup R /\ k \notin L /\ (L \cup {k}) \cap R = {}
  OBVIOUS
<1>3. IsFiniteSet(L) /\ IsFiniteSet(R) /\ Cardinality(L) \in Nat /\ Cardinality(R) \in Nat
  <2>1. k - 1 \in Int /\ k + 1 \in Int
    OBVIOUS
  <2> HIDE DEF S
  <2> QED BY <1>1, <2>1
<1> DEFINE M == L \cup {k}
<1> HIDE DEF L, R
<1>4. IsFiniteSet(M) /\ Cardinality(M) = Cardinality(L) + 1
  BY <1>2, <1>3, FS_AddElement
<1>5. Cardinality(M \cup R) = Cardinality(M) + Cardinality(R) - Cardinality(M \cap R)
  <2> HIDE DEF M
  <2> QED BY <1>3, <1>4, FS_Union
<1>6. Cardinality(M \cap R) = 0
  <2>1. M \cap R = {}
    BY <1>2
  <2> QED BY <2>1, FS_EmptySet
<1>7. Cardinality(S(a, b)) = Cardinality(L) + Cardinality(R) + 1
  <2>1. S(a, b) = M \cup R
    BY <1>2
  <2> HIDE DEF M, S
  <2> QED BY <1>3, <1>4, <1>5, <1>6, <2>1
<1> QED BY <1>7 DEF CommasIn, L, R

-----------------------------------------------------------------------------
(* A message of n tokens at the front of an array t, the parser's outcomes and what the grammar derives. *)

Completed(t, n) == /\ n > 0 /\ Type(t, n) = "left_bracket"
                   /\ n < Len(t) /\ Type(t, n + 1) = "right_bracket"

Reading(t, n, m, p, g) ==
    /\ t \in Seq(Tokenlike) /\ n \in 0 .. Len(t) /\ m = SubSeq(t, 1, n) /\ ~Completed(t, n)
    /\ IsParse(p, t, n, Places(t)) /\ \A at \in Places(t) : Shaped(p[at], t, at)
    /\ IsGrammar(g, m)

\* What the two loops differ in.
Close(kind) == IF kind = "elements" THEN "right_bracket" ELSE "right_brace"
Lists(kind) == IF kind = "elements" THEN "list" ELSE "pairs"

One(g, m, kind, a, e) == IF kind = "elements" THEN g[<<"value", a, e>>] ELSE Pairs(g, m, a, e)

(* The tokens of the message are those of the array. *)
LEMMA Message ==
    ASSUME NEW t, NEW n, NEW m, NEW p, NEW g, Reading(t, n, m, p, g)
    PROVE  /\ n \in Nat /\ Len(t) \in Nat /\ n <= Len(t) /\ Len(m) = n
           /\ \A k \in 1 .. n : m[k] = t[k] /\ TokenAt(t, k) = t[k] /\ m[k].type = Type(t, k)
<1>1. t \in Seq(Tokenlike) /\ n \in 0 .. Len(t) /\ m = SubSeq(t, 1, n)
  BY DEF Reading
<1>2. n \in Nat /\ Len(t) \in Nat /\ n <= Len(t)
  BY <1>1
<1>3. Len(m) = n /\ \A k \in 1 .. n : m[k] = t[k]
  BY <1>1, <1>2
<1>4. \A k \in 1 .. n : TokenAt(t, k) = t[k] /\ t[k].type = Type(t, k)
  BY <1>2 DEF TokenAt, Type
<1> QED BY <1>2, <1>3, <1>4

Outcomes(p, t, n, i) ==
    /\ p[<<"value", i>>] = ParseAt(p, t, n, i) /\ ValueShaped(p[<<"value", i>>], t, i)
    /\ p[<<"elements", i>>] = Elements(p, t, n, i) /\ LoopShaped(p[<<"elements", i>>], t, i)
    /\ p[<<"members", i>>] = Members(p, t, n, i) /\ LoopShaped(p[<<"members", i>>], t, i)

(* The parser's outcome at a place is that of its function, and shaped. *)
LEMMA Outcome ==
    ASSUME NEW t, NEW n, NEW m, NEW p, NEW g, Reading(t, n, m, p, g), NEW i \in 1 .. Len(t) + 1
    PROVE  Outcomes(p, t, n, i)
<1>1. ASSUME NEW kind \in {"value", "elements", "members"}
      PROVE  /\ p[<<kind, i>>] = IF kind = "value" THEN ParseAt(p, t, n, i)
                                 ELSE IF kind = "elements" THEN Elements(p, t, n, i)
                                 ELSE Members(p, t, n, i)
             /\ IF kind = "value" THEN ValueShaped(p[<<kind, i>>], t, i) ELSE LoopShaped(p[<<kind, i>>], t, i)
  <2> DEFINE at == <<kind, i>>
  <2>1. at[1] = kind /\ at[2] = i /\ at \in Places(t)
    BY DEF Places
  <2> HIDE DEF at
  <2>2. p[at] = Body(p, t, n, at) /\ Shaped(p[at], t, at)
    BY <2>1 DEF Reading, IsParse
  <2>3. IF kind = "value" THEN ValueShaped(p[at], t, i) ELSE LoopShaped(p[at], t, i)
    BY <2>1, <2>2 DEF Shaped
  <2>4. CASE kind = "value"
    <3>1. Body(p, t, n, at) = ParseAt(p, t, n, i)
      BY <2>1, <2>4 DEF Body
    <3> QED BY <2>2, <2>3, <2>4, <3>1 DEF at
  <2>5. CASE kind = "elements"
    <3>1. Body(p, t, n, at) = Elements(p, t, n, i)
      BY <2>1, <2>5 DEF Body
    <3> QED BY <2>2, <2>3, <2>5, <3>1 DEF at
  <2>6. CASE kind = "members"
    <3>1. Body(p, t, n, at) = Members(p, t, n, i)
      BY <2>1, <2>6 DEF Body
    <3> QED BY <2>2, <2>3, <2>6, <3>1 DEF at
  <2> QED BY <2>4, <2>5, <2>6
<1>2. p[<<"value", i>>] = ParseAt(p, t, n, i) /\ ValueShaped(p[<<"value", i>>], t, i)
  BY <1>1
<1>3. p[<<"elements", i>>] = Elements(p, t, n, i) /\ LoopShaped(p[<<"elements", i>>], t, i)
  BY <1>1
<1>4. p[<<"members", i>>] = Members(p, t, n, i) /\ LoopShaped(p[<<"members", i>>], t, i)
  BY <1>1
<1> QED BY <1>2, <1>3, <1>4 DEF Outcomes

Arms(u, t, n, i, o) ==
    /\ i = n + 1 => o = NoValue
    /\ i # n + 1 /\ Type(t, i) \in Primitive => o = Got(Denoted(TokenAt(t, i)), TRUE, i + 1)
    /\ i # n + 1 /\ Type(t, i) = "left_bracket" =>
          /\ Type(t, i + 1) = "right_bracket" => o = Got(Array(<<>>), TRUE, i + 2)
          /\ Type(t, i + 1) # "right_bracket" => o = ArrayOf(u[<<"elements", i + 1>>])
    /\ i # n + 1 /\ Type(t, i) = "left_brace" => o = ObjectFrom(u[<<"members", i + 1>>])
    /\ i # n + 1 /\ Type(t, i) \notin Primitive \cup {"left_bracket", "left_brace"} => o = NoValue

(* The arms of ParseAt. *)
LEMMA ValueCases ==
    ASSUME NEW u, NEW t, NEW n, NEW i
    PROVE  Arms(u, t, n, i, ParseAt(u, t, n, i))
<1> USE DEF Arms
<1>1. Type(t, i) = TokenAt(t, i).type /\ Type(t, i + 1) = TokenAt(t, i + 1).type
  BY DEF Type
<1>2. CASE i = n + 1
  BY <1>2 DEF ParseAt
<1>3. CASE i # n + 1 /\ Type(t, i) \in Primitive
  BY <1>1, <1>3 DEF ParseAt, Primitive
<1>4. CASE i # n + 1 /\ Type(t, i) = "left_bracket"
  BY <1>1, <1>4 DEF ParseAt, Primitive
<1>5. CASE i # n + 1 /\ Type(t, i) = "left_brace"
  BY <1>1, <1>5 DEF ParseAt, Primitive
<1>6. CASE i # n + 1 /\ Type(t, i) \notin Primitive \cup {"left_bracket", "left_brace"}
  BY <1>1, <1>6 DEF ParseAt
<1> QED BY <1>2, <1>3, <1>4, <1>5, <1>6

(* The ends of a span. *)
LEMMA Ends ==
    ASSUME NEW L \in Nat, NEW a \in 1 .. L, NEW b \in a .. L
    PROVE  a \in 1 .. L + 1 /\ b \in 0 .. L /\ a <= b
  OBVIOUS

(* One part is a list. *)
LEMMA ListOfOne ==
    ASSUME NEW m, Len(m) \in Nat, NEW g, IsGrammar(g, m), NEW kind \in {"elements", "members"},
           NEW a \in 1 .. Len(m), NEW b \in a .. Len(m), NEW x \in One(g, m, kind, a, b)
    PROVE  <<x>> \in g[<<Lists(kind), a, b>>]
<1>1. a \in 1 .. Len(m) + 1 /\ b \in 0 .. Len(m) /\ a <= b
  OBVIOUS
<1>2. CASE kind = "elements"
  <2>1. ListLike(g, m, a, b, <<x>>)
    BY <1>2 DEF ListLike, One
  <2>2. <<x>> \in g[<<"list", a, b>>]
    BY <1>1, <2>1, Derived
  <2> QED BY <1>2, <2>2 DEF Lists
<1>3. CASE kind = "members"
  <2>1. PairsLike(g, m, a, b, <<x>>)
    BY <1>3 DEF PairsLike, One
  <2>2. <<x>> \in g[<<"pairs", a, b>>]
    BY <1>1, <2>1, Derived
  <2> QED BY <1>3, <2>2 DEF Lists
<1> QED BY <1>2, <1>3

(* A part, a comma and a list are a list. *)
LEMMA ListOfMore ==
    ASSUME NEW m, Len(m) \in Nat, NEW g, IsGrammar(g, m), NEW kind \in {"elements", "members"},
           NEW a \in 1 .. Len(m), NEW b \in a .. Len(m), NEW k \in a .. b, m[k].type = "comma",
           NEW x \in One(g, m, kind, a, k - 1), NEW r \in g[<<Lists(kind), k + 1, b>>]
    PROVE  <<x>> \o r \in g[<<Lists(kind), a, b>>]
<1>1. a \in 1 .. Len(m) + 1 /\ b \in 0 .. Len(m) /\ a <= b
  BY Ends
<1>2. CASE kind = "elements"
  <2>1. x \in g[<<"value", a, k - 1>>] /\ r \in g[<<"list", k + 1, b>>]
    BY <1>2 DEF One, Lists
  <2>2. ListLike(g, m, a, b, <<x>> \o r)
    BY <2>1, Zenon DEF ListLike
  <2>3. <<x>> \o r \in g[<<"list", a, b>>]
    BY <1>1, <2>2, Derived
  <2> QED BY <1>2, <2>3 DEF Lists
<1>3. CASE kind = "members"
  <2>1. x \in Pairs(g, m, a, k - 1) /\ r \in g[<<"pairs", k + 1, b>>]
    BY <1>3 DEF One, Lists
  <2>2. PairsLike(g, m, a, b, <<x>> \o r)
    BY <2>1, Zenon DEF PairsLike
  <2>3. <<x>> \o r \in g[<<"pairs", a, b>>]
    BY <1>1, <2>2, Derived
  <2> QED BY <1>3, <2>3 DEF Lists
<1> QED BY <1>2, <1>3

Listed(g, m, kind, a, b, l) ==
    \/ \E x \in One(g, m, kind, a, b) : l = <<x>>
    \/ \E k \in a .. b : /\ m[k].type = "comma"
                         /\ \E x \in One(g, m, kind, a, k - 1), r \in g[<<Lists(kind), k + 1, b>>] :
                               l = <<x>> \o r

(* And nothing else is a list. *)
LEMMA ListIs ==
    ASSUME NEW m, Len(m) \in Nat, NEW g, IsGrammar(g, m), NEW kind \in {"elements", "members"},
           NEW a \in 1 .. Len(m) + 1, NEW b \in 0 .. Len(m), NEW l \in g[<<Lists(kind), a, b>>]
    PROVE  a <= b /\ Listed(g, m, kind, a, b, l)
<1>1. CASE kind = "elements"
  <2>1. a <= b /\ ListLike(g, m, a, b, l)
    BY <1>1, Derived DEF Lists
  <2>2. Listed(g, m, kind, a, b, l)
    BY <1>1, <2>1, Zenon DEF ListLike, Lists, One, Listed
  <2> QED BY <2>1, <2>2
<1>2. CASE kind = "members"
  <2>1. a <= b /\ PairsLike(g, m, a, b, l)
    BY <1>2, Derived DEF Lists
  <2>2. "members" # "elements"
    OBVIOUS
  <2>3. \A e : One(g, m, kind, a, e) = Pairs(g, m, a, e)
    BY <1>2 DEF One
  <2>4. Lists(kind) = "pairs"
    BY <1>2 DEF Lists
  <2>5. Listed(g, m, kind, a, b, l)
    BY <2>1, <2>3, <2>4 DEF PairsLike, Listed
  <2> QED BY <2>1, <2>5
<1> QED BY <1>1, <1>2

-----------------------------------------------------------------------------
(* Soundness: a value that the parser returns is derived by the tokens up to the one before the    *)
(* next place, and what is undefined, or does not fit, has a name without a bucket or many commas. *)

Unhashable(t, n) == \E k \in 1 .. n : Type(t, k) = "string" /\ ~Hashable(t[k].text, HashmapEntries)

Excused(t, n, i) == Unhashable(t, n) \/ CommasIn(t, i, n) >= 3

ValueSound(o, t, n, g, i) ==
    /\ o.is = "undefined" => Excused(t, n, i)
    /\ o.is = "value" => /\ o.next <= n + 1 /\ o.value \in g[<<"value", i, o.next - 1>>]
                         /\ ~o.fits => CommasIn(t, i, o.next - 1) >= 3

LoopSound(o, t, n, g, kind, i) ==
    /\ o.is = "undefined" => Excused(t, n, i)
    /\ o.is = "end" => /\ i + 2 <= o.next /\ o.next <= n + 1 /\ Type(t, o.next - 1) = Close(kind)
                       /\ o.parts \in g[<<Lists(kind), i, o.next - 2>>]
                       /\ Len(o.parts) <= CommasIn(t, i, o.next - 2) + 1
                       /\ ~o.fits => CommasIn(t, i, o.next - 2) >= 3
    /\ o.is = "NULL" => /\ Len(o.parts) <= CommasIn(t, i, n) + 1
                        /\ ~o.fits => CommasIn(t, i, n) >= 3

(* What excuses a later place excuses an earlier one. *)
LEMMA ExcusedEarlier ==
    ASSUME NEW t, NEW n \in Int, NEW j \in Int, NEW i \in Int, i <= j, Excused(t, n, j)
    PROVE  Excused(t, n, i)
<1>1. CommasIn(t, j, n) \in Nat /\ CommasIn(t, j, n) <= CommasIn(t, i, n)
  BY CommasGrow
<1>2. CommasIn(t, i, n) \in Nat
  BY CommasGrow
<1> QED BY <1>1, <1>2 DEF Excused

(* How many parts there are, after one more comma. *)
LEMMA OneMorePart ==
    ASSUME NEW c1 \in Nat, NEW c2 \in Nat, NEW parts \in Nat, parts <= c2 + 1
    PROVE  parts + 1 <= (c1 + c2 + 1) + 1
  OBVIOUS

(* Where the rest of a list ends. *)
LEMMA RestEnds ==
    ASSUME NEW n \in Nat, NEW i \in 1 .. n, NEW next \in i + 1 .. n, NEW c \in Nat,
           NEW k \in next + 2 .. c, next + 1 + 2 <= k, k <= n + 1
    PROVE  k - 2 \in next .. n /\ k - 2 \in i .. n /\ i + 2 <= k
  OBVIOUS

(* A loop that gives up, or ends, after a part. *)
LEMMA LastPart ==
    ASSUME NEW t, NEW n, NEW m, NEW p, NEW g, Reading(t, n, m, p, g),
           NEW kind \in {"elements", "members"}, NEW i \in 1 .. n, NEW next \in i + 1 .. n + 1,
           NEW x \in One(g, m, kind, i, next - 1), NEW b, Flag(b), ~b => CommasIn(t, i, next - 1) >= 3
    PROVE  /\ LoopSound(GivenUp(<<x>>, b), t, n, g, kind, i)
           /\ next <= n /\ Type(t, next) = Close(kind) => LoopSound(Ended(<<x>>, b, next + 1), t, n, g, kind, i)
<1>1. n \in Nat /\ Len(m) = n /\ i \in Nat /\ next \in Nat
  BY Message
<1>2. /\ CommasIn(t, i, next - 1) \in Nat /\ CommasIn(t, i, n) \in Nat
      /\ CommasIn(t, i, next - 1) <= CommasIn(t, i, n)
  <2>1. i \in Int /\ next - 1 \in Int /\ n \in Int /\ i <= i /\ next - 1 <= n
    BY <1>1
  <2>2. n <= n
    BY <1>1
  <2> QED BY <2>1, <2>2, CommasGrow
<1>3. Len(<<x>>) = 1
  OBVIOUS
<1>4. LoopSound(GivenUp(<<x>>, b), t, n, g, kind, i)
  <2> DEFINE o == GivenUp(<<x>>, b)
  <2>1. o.is = "NULL" /\ o.parts = <<x>> /\ o.fits = b
    BY DEF GivenUp
  <2> HIDE DEF o
  <2>2. Len(o.parts) <= CommasIn(t, i, n) + 1
    BY <1>2, <1>3, <2>1
  <2>3. ~o.fits => CommasIn(t, i, n) >= 3
    <3>1. ~b => CommasIn(t, i, n) >= 3
      BY <1>2
    <3> QED BY <2>1, <3>1
  <2>4. o.is # "undefined" /\ o.is # "end"
    BY <2>1
  <2>5. LoopSound(o, t, n, g, kind, i)
    BY <2>2, <2>3, <2>4 DEF LoopSound
  <2> QED BY <2>5 DEF o
<1>5. ASSUME next <= n, Type(t, next) = Close(kind)
      PROVE  LoopSound(Ended(<<x>>, b, next + 1), t, n, g, kind, i)
  <2> DEFINE o == Ended(<<x>>, b, next + 1)
  <2>1. o.is = "end" /\ o.parts = <<x>> /\ o.fits = b /\ o.next = next + 1
    BY DEF Ended
  <2> HIDE DEF o
  <2>2. o.next - 1 = next /\ o.next - 2 = next - 1 /\ i + 2 <= o.next /\ o.next <= n + 1
    BY <1>1, <1>5, <2>1
  <2>3. <<x>> \in g[<<Lists(kind), i, next - 1>>]
    <3> DEFINE e == next - 1
    <3>1. i \in 1 .. Len(m) /\ e \in i .. Len(m) /\ Len(m) \in Nat /\ IsGrammar(g, m) /\ x \in One(g, m, kind, i, e)
      BY <1>1 DEF Reading
    <3> HIDE DEF e
    <3>2. <<x>> \in g[<<Lists(kind), i, e>>]
      BY <3>1, ListOfOne
    <3> QED BY <3>2 DEF e
  <2>4. Len(o.parts) <= CommasIn(t, i, next - 1) + 1
    BY <1>2, <1>3, <2>1
  <2>5. o.is # "undefined" /\ o.is # "NULL"
    BY <2>1
  <2>6. ~o.fits => CommasIn(t, i, next - 1) >= 3
    BY <2>1
  <2>7. LoopSound(o, t, n, g, kind, i)
    BY <1>5, <2>1, <2>2, <2>3, <2>4, <2>5, <2>6 DEF LoopSound
  <2> QED BY <2>7 DEF o
<1> QED BY <1>4, <1>5

(* A loop that goes on after a part and a comma. *)
LEMMA PartAndMore ==
    ASSUME NEW t, NEW n, NEW m, NEW p, NEW g, Reading(t, n, m, p, g),
           NEW kind \in {"elements", "members"}, NEW i \in 1 .. n, NEW next \in i + 1 .. n,
           NEW x \in One(g, m, kind, i, next - 1), NEW b, Flag(b), ~b => CommasIn(t, i, next - 1) >= 3,
           Type(t, next) = "comma", LoopSound(p[<<kind, next + 1>>], t, n, g, kind, next + 1)
    PROVE  LoopSound(Then(x, b, p[<<kind, next + 1>>]), t, n, g, kind, i)
<1>1. n \in Nat /\ Len(m) = n /\ i \in Nat /\ next \in Nat /\ Len(t) \in Nat /\ n <= Len(t)
  BY Message
<1> DEFINE r == p[<<kind, next + 1>>]
           o == Then(x, b, r)
<1>2. LoopShaped(r, t, next + 1)
  <2>1. next + 1 \in 1 .. Len(t) + 1
    BY <1>1
  <2>2. Outcomes(p, t, n, next + 1)
    BY <2>1, Outcome
  <2> QED BY <2>2 DEF Outcomes
<1>3. Continued(o, r, x, b)
  <2> HIDE DEF r
  <2>1. i \in Nat /\ next + 1 \in Nat /\ i <= next + 1 /\ b \in BOOLEAN
    BY <1>1 DEF Flag
  <2> QED BY <1>2, <2>1, ThenShaped
<1>4. LoopSound(r, t, n, g, kind, next + 1)
  OBVIOUS
<1>5. /\ r.is = "undefined" <=> r = Undefined
      /\ r.is = "end" => r.next \in next + 2 .. Len(t) + 2
      /\ r.is \in {"undefined", "NULL", "end"}
      /\ r.is # "undefined" => r.fits \in BOOLEAN
  <2> HIDE DEF r
  <2>1. (next + 1) + 1 = next + 2
    BY <1>1
  <2> QED BY <1>2, <2>1, LoopIs
<1>6. \A e \in next .. n : /\ CommasIn(t, i, e) \in Nat /\ CommasIn(t, next + 1, e) \in Nat
                           /\ CommasIn(t, i, next - 1) \in Nat
                           /\ CommasIn(t, i, e) = CommasIn(t, i, next - 1) + CommasIn(t, next + 1, e) + 1
  <2> SUFFICES ASSUME NEW e \in next .. n
               PROVE  /\ CommasIn(t, i, e) \in Nat /\ CommasIn(t, next + 1, e) \in Nat
                      /\ CommasIn(t, i, next - 1) \in Nat
                      /\ CommasIn(t, i, e) = CommasIn(t, i, next - 1) + CommasIn(t, next + 1, e) + 1
    OBVIOUS
  <2>1. i \in Int /\ e \in Int /\ next \in i .. e /\ next + 1 \in Int /\ next - 1 \in Int
    BY <1>1
  <2>2. \A c, d \in Int : CommasIn(t, c, d) \in Nat
    <3>1. \A c, d \in Int : c <= c /\ d <= d
      OBVIOUS
    <3> QED BY <3>1, CommasGrow
  <2>3. CommasIn(t, i, e) = CommasIn(t, i, next - 1) + CommasIn(t, next + 1, e) + 1
    BY <2>1, CommasCut
  <2> QED BY <2>1, <2>2, <2>3
<1> HIDE DEF r, o
<1>7. CASE r.is = "undefined"
  <2>1. o = Undefined
    BY <1>3, <1>5, <1>7 DEF Continued
  <2>2. o.is = "undefined"
    BY <2>1 DEF Undefined
  <2>3. Excused(t, n, next + 1)
    BY <1>4, <1>7 DEF LoopSound
  <2>4. i \in Int /\ next + 1 \in Int /\ n \in Int /\ i <= next + 1
    BY <1>1
  <2>5. Excused(t, n, i)
    BY <2>3, <2>4, ExcusedEarlier
  <2>6. LoopSound(o, t, n, g, kind, i)
    BY <2>2, <2>5 DEF LoopSound
  <2> QED BY <2>6 DEF o, r
<1>8. CASE r.is = "NULL"
  <2>1. o.is = "NULL" /\ Len(o.parts) = Len(r.parts) + 1 /\ Len(r.parts) \in Nat /\ o.fits = (b /\ r.fits)
    BY <1>3, <1>5, <1>8 DEF Continued
  <2>2. Len(r.parts) <= CommasIn(t, next + 1, n) + 1
    BY <1>4, <1>8 DEF LoopSound
  <2>8. ~r.fits => CommasIn(t, next + 1, n) >= 3
    BY <1>4, <1>8 DEF LoopSound
  <2>9. Len(o.parts) = Len(r.parts) + 1 /\ Len(r.parts) \in Nat
    BY <2>1
  <2>3. n \in next .. n
    BY <1>1
  <2>4. /\ CommasIn(t, i, n) \in Nat /\ CommasIn(t, next + 1, n) \in Nat
        /\ CommasIn(t, i, next - 1) \in Nat
        /\ CommasIn(t, i, n) = CommasIn(t, i, next - 1) + CommasIn(t, next + 1, n) + 1
    BY <1>6, <2>3
  <2>5. Len(o.parts) <= CommasIn(t, i, n) + 1
    <3>1. Len(r.parts) + 1 <= (CommasIn(t, i, next - 1) + CommasIn(t, next + 1, n) + 1) + 1
      BY <2>2, <2>4, <2>9, OneMorePart, Zenon
    <3> QED BY <2>4, <2>9, <3>1, Zenon
  <2>6. ~o.fits => CommasIn(t, i, n) >= 3
    <3>1. CommasIn(t, i, next - 1) >= 3 \/ CommasIn(t, next + 1, n) >= 3 => CommasIn(t, i, n) >= 3
      BY <2>4
    <3> QED BY <2>1, <2>8, <3>1, Zenon
  <2>7. LoopSound(o, t, n, g, kind, i)
    BY <2>1, <2>5, <2>6 DEF LoopSound
  <2> QED BY <2>7 DEF o, r
<1>9. CASE r.is = "end"
  <2>1. /\ o.is = "end" /\ Len(o.parts) = Len(r.parts) + 1 /\ Len(r.parts) \in Nat /\ o.fits = (b /\ r.fits)
        /\ o.parts = <<x>> \o r.parts /\ o.next = r.next
    BY <1>3, <1>5, <1>9 DEF Continued
  <2> DEFINE e == r.next - 2
  <2>2. /\ next + 1 + 2 <= r.next /\ r.next <= n + 1 /\ Type(t, r.next - 1) = Close(kind)
        /\ r.parts \in g[<<Lists(kind), next + 1, e>>]
        /\ Len(r.parts) <= CommasIn(t, next + 1, e) + 1
    BY <1>4, <1>9 DEF LoopSound
  <2>9. ~r.fits => CommasIn(t, next + 1, e) >= 3
    BY <1>4, <1>9 DEF LoopSound
  <2>3. e \in next .. n /\ e \in i .. n /\ i + 2 <= r.next
    <3> DEFINE k == r.next
    <3>1. next + 1 + 2 <= k /\ k <= n + 1 /\ k \in next + 2 .. Len(t) + 2
      BY <1>5, <1>9, <2>2
    <3> HIDE DEF k
    <3>2. Len(t) + 2 \in Nat
      BY <1>1
    <3>3. k - 2 \in next .. n /\ k - 2 \in i .. n /\ i + 2 <= k
      BY <1>1, <3>1, <3>2, RestEnds, Zenon
    <3> QED BY <3>3 DEF k
  <2>10. Len(o.parts) = Len(r.parts) + 1 /\ Len(r.parts) \in Nat /\ Len(r.parts) <= CommasIn(t, next + 1, e) + 1
    BY <2>1, <2>2
  <2> HIDE DEF e
  <2>4. /\ CommasIn(t, i, e) \in Nat /\ CommasIn(t, next + 1, e) \in Nat
        /\ CommasIn(t, i, next - 1) \in Nat
        /\ CommasIn(t, i, e) = CommasIn(t, i, next - 1) + CommasIn(t, next + 1, e) + 1
    BY <1>6, <2>3
  <2>5. Len(o.parts) <= CommasIn(t, i, e) + 1
    <3>1. Len(r.parts) + 1 <= (CommasIn(t, i, next - 1) + CommasIn(t, next + 1, e) + 1) + 1
      BY <2>4, <2>10, OneMorePart, Zenon
    <3> QED BY <2>4, <2>10, <3>1, Zenon
  <2>6. ~o.fits => CommasIn(t, i, e) >= 3
    <3>1. CommasIn(t, i, next - 1) >= 3 \/ CommasIn(t, next + 1, e) >= 3 => CommasIn(t, i, e) >= 3
      BY <2>4
    <3> QED BY <2>1, <2>9, <3>1, Zenon
  <2>7. o.parts \in g[<<Lists(kind), i, e>>]
    <3>1. Len(m) \in Nat /\ IsGrammar(g, m) /\ i \in 1 .. Len(m) /\ e \in i .. Len(m)
      BY <1>1, <2>3 DEF Reading
    <3>2. next \in i .. e
      BY <1>1, <2>3
    <3>3. m[next].type = "comma"
      <4>1. next \in 1 .. n
        BY <1>1
      <4> QED BY <4>1, Message
    <3>4. <<x>> \o r.parts \in g[<<Lists(kind), i, e>>]
      BY <2>2, <3>1, <3>2, <3>3, ListOfMore
    <3> QED BY <2>1, <3>4
  <2>8. LoopSound(o, t, n, g, kind, i)
    <3>1. e = o.next - 2
      BY <2>1 DEF e
    <3> QED BY <2>1, <2>2, <2>3, <2>5, <2>6, <2>7, <3>1 DEF LoopSound
  <2> QED BY <2>8 DEF o, r
<1> QED BY <1>5, <1>7, <1>8, <1>9

(* What does not fit has many commas. *)
LEMMA TooMuch ==
    ASSUME NEW t, NEW n, NEW m, NEW p, NEW g, Reading(t, n, m, p, g), NEW i \in 1 .. n,
           NEW kind \in {"elements", "members"}, NEW r, LoopShaped(r, t, i + 1),
           LoopSound(r, t, n, g, kind, i + 1), r.is # "undefined", ~r.fits \/ Len(r.parts) > ArrayRoom
    PROVE  Excused(t, n, i) /\ (r.is = "end" => CommasIn(t, i, r.next - 1) >= 3)
<1>1. n \in Nat /\ i \in Nat /\ Len(t) \in Nat
  BY Message
<1>2. /\ r.is \in {"NULL", "end"} /\ IsSequence(r.parts)
      /\ r.is = "end" => r.next \in (i + 1) + 1 .. Len(t) + 2
  BY LoopIs
<1>3. Len(r.parts) \in Nat
  BY <1>2 DEF IsSequence
<1>4. CASE r.is = "NULL"
  <2>1. Len(r.parts) <= CommasIn(t, i + 1, n) + 1 /\ (~r.fits => CommasIn(t, i + 1, n) >= 3)
    BY <1>4 DEF LoopSound
  <2>2. i + 1 \in Int /\ n \in Int /\ i \in Int /\ i <= i + 1 /\ n <= n /\ i + 1 <= i + 1
    BY <1>1
  <2>3. CommasIn(t, i + 1, n) \in Nat
    BY <2>2, CommasGrow
  <2>4. Len(r.parts) > ArrayRoom => CommasIn(t, i + 1, n) >= 3
    <3>1. Len(r.parts) <= CommasIn(t, i + 1, n) + 1
      BY <2>1
    <3> QED BY <1>3, <2>3, <3>1 DEF ArrayRoom
  <2>5. Excused(t, n, i + 1)
    BY <2>1, <2>4, Zenon DEF Excused
  <2> QED BY <1>4, <2>2, <2>5, ExcusedEarlier
<1>5. CASE r.is = "end"
  <2> DEFINE e == r.next - 2
             k == r.next
  <2>1. Len(r.parts) <= CommasIn(t, i + 1, e) + 1 /\ (~r.fits => CommasIn(t, i + 1, e) >= 3) /\ k <= n + 1
    BY <1>5 DEF LoopSound
  <2>2. k \in (i + 1) + 1 .. Len(t) + 2
    BY <1>2, <1>5
  <2>3. e = k - 2
    OBVIOUS
  <2> HIDE DEF e, k
  <2>4. i + 1 \in Int /\ e \in Int /\ i \in Int /\ n \in Int /\ k - 1 \in Int
    BY <1>1, <2>2, <2>3
  <2>5. i <= i + 1 /\ e <= k - 1 /\ e <= n /\ i <= i /\ k - 1 <= n
    BY <1>1, <2>1, <2>2, <2>3
  <2>6. CommasIn(t, i + 1, e) \in Nat /\ CommasIn(t, i + 1, e) <= CommasIn(t, i, k - 1)
    BY <2>4, <2>5, CommasGrow
  <2>7. CommasIn(t, i, k - 1) \in Nat /\ CommasIn(t, i, k - 1) <= CommasIn(t, i, n)
    BY <2>4, <2>5, CommasGrow
  <2>8. CommasIn(t, i, n) \in Nat
    <3>1. n <= n
      BY <1>1
    <3> QED BY <2>4, <2>5, <3>1, CommasGrow
  <2>9. Len(r.parts) > ArrayRoom => CommasIn(t, i + 1, e) >= 3
    <3>1. Len(r.parts) <= CommasIn(t, i + 1, e) + 1
      BY <2>1
    <3> QED BY <1>3, <2>6, <3>1 DEF ArrayRoom
  <2>10. CommasIn(t, i + 1, e) >= 3
    BY <2>1, <2>9, Zenon
  <2>11. CommasIn(t, i, k - 1) >= 3 /\ CommasIn(t, i, n) >= 3
    BY <2>6, <2>7, <2>8, <2>10
  <2> QED BY <1>5, <2>11 DEF Excused, k
<1> QED BY <1>2, <1>4, <1>5

(* The value that a sound loop ends with is sound. *)
LEMMA WholeSound ==
    ASSUME NEW t, NEW n, NEW m, NEW p, NEW g, Reading(t, n, m, p, g), NEW i \in 1 .. n,
           NEW kind \in {"elements", "members"}, NEW r, LoopShaped(r, t, i + 1),
           LoopSound(r, t, n, g, kind, i + 1), r.is # "undefined", NEW x, NEW b, Flag(b),
           ~b => ~r.fits \/ Len(r.parts) > ArrayRoom,
           r.is = "end" => x \in g[<<"value", i, r.next - 1>>]
    PROVE  ValueSound(Whole(r, x, b), t, n, g, i)
<1> DEFINE o == Whole(r, x, b)
<1>1. r.is \in {"NULL", "end"}
  BY LoopIs
<1>2. ~b => Excused(t, n, i) /\ (r.is = "end" => CommasIn(t, i, r.next - 1) >= 3)
  BY TooMuch
<1>3. b \in BOOLEAN
  BY DEF Flag
<1>4. CASE r.is = "NULL"
  <2>1. o = IF b THEN NoValue ELSE Undefined
    BY <1>3, <1>4 DEF Whole
  <2>2. o.is = IF b THEN "NULL" ELSE "undefined"
    BY <1>3, <2>1 DEF NoValue, Undefined
  <2> HIDE DEF o
  <2>3. ValueSound(o, t, n, g, i)
    <3>1. CASE b
      BY <2>2, <3>1 DEF ValueSound
    <3>2. CASE ~b
      BY <1>2, <2>2, <3>2 DEF ValueSound
    <3> QED BY <3>1, <3>2
  <2> QED BY <2>3 DEF o
<1>5. CASE r.is = "end"
  <2>1. o = Got(x, b, r.next)
    BY <1>5 DEF Whole
  <2>2. o.is = "value" /\ o.value = x /\ o.fits = b /\ o.next = r.next
    BY <2>1 DEF Got
  <2>3. r.next <= n + 1
    BY <1>5 DEF LoopSound
  <2> HIDE DEF o
  <2>4. ValueSound(o, t, n, g, i)
    BY <1>2, <1>5, <2>2, <2>3 DEF ValueSound
  <2> QED BY <2>4 DEF o
<1> QED BY <1>1, <1>4, <1>5

(* Where the loop of an array or an object ends. *)
LEMMA LoopEnds ==
    ASSUME NEW n \in Nat, NEW i \in 1 .. n, NEW c \in Nat, NEW k \in (i + 1) + 1 .. c, (i + 1) + 2 <= k, k <= n + 1
    PROVE  /\ k - 1 \in 1 .. n /\ i < k - 1 /\ k - 1 > i + 1 /\ (k - 1) - 1 = k - 2
           /\ k - 1 \in 0 .. n /\ i <= k - 1
  OBVIOUS

(* The value at a place is sound if the loops after it are. *)
LEMMA ValueSoundStep ==
    ASSUME NEW t, NEW n, NEW m, NEW p, NEW g, Reading(t, n, m, p, g), NEW i \in 1 .. n + 1,
           i <= n => \A kind \in {"elements", "members"} :
                        LoopSound(p[<<kind, i + 1>>], t, n, g, kind, i + 1)
    PROVE  ValueSound(p[<<"value", i>>], t, n, g, i)
<1>1. n \in Nat /\ Len(m) = n /\ i \in Nat /\ Len(t) \in Nat /\ n <= Len(t) /\ i \in 1 .. Len(t) + 1
  BY Message
<1> DEFINE o == p[<<"value", i>>]
<1>2. Arms(p, t, n, i, o)
  <2>1. Outcomes(p, t, n, i)
    BY <1>1, Outcome
  <2>2. Arms(p, t, n, i, ParseAt(p, t, n, i))
    BY ValueCases
  <2> QED BY <2>1, <2>2 DEF Outcomes
<1>3. CASE o = NoValue
  BY <1>3 DEF ValueSound, NoValue
<1>4. CASE o = Undefined /\ Excused(t, n, i)
  BY <1>4 DEF ValueSound, Undefined
<1>5. IsGrammar(g, m)
  BY DEF Reading
<1>6. ASSUME i <= n, NEW x, NEW next \in i + 1 .. n + 1, ValueLike(g, m, i, next - 1, x)
      PROVE  ValueSound(Got(x, TRUE, next), t, n, g, i)
  <2> DEFINE w == Got(x, TRUE, next)
  <2>1. w.is = "value" /\ w.value = x /\ w.fits = TRUE /\ w.next = next
    BY DEF Got
  <2> DEFINE e == next - 1
  <2>2. Len(m) \in Nat /\ i \in 1 .. Len(m) + 1 /\ e \in 0 .. Len(m) /\ i <= e /\ next <= n + 1
    BY <1>1, <1>6
  <2>3. ValueLike(g, m, i, e, x)
    BY <1>6
  <2> HIDE DEF e, w
  <2>4. x \in g[<<"value", i, e>>]
    BY <1>5, <2>2, <2>3, Derived
  <2>5. ValueSound(w, t, n, g, i)
    BY <2>1, <2>2, <2>4 DEF ValueSound, e
  <2> QED BY <2>5 DEF w
<1>7. CASE i # n + 1 /\ Type(t, i) \in Primitive
  <2>1. o = Got(Denoted(TokenAt(t, i)), TRUE, i + 1)
    BY <1>2, <1>7 DEF Arms
  <2>2. i <= n /\ i + 1 \in i + 1 .. n + 1 /\ (i + 1) - 1 = i /\ i \in 1 .. n
    BY <1>1, <1>7
  <2>3. m[i].type = Type(t, i) /\ m[i] = TokenAt(t, i)
    <3>1. m[i].type = Type(t, i)
      BY <2>2, Message
    <3>2. m[i] = t[i]
      BY <2>2, Message
    <3>3. TokenAt(t, i) = t[i]
      BY <2>2, Message
    <3> QED BY <3>1, <3>2, <3>3
  <2>4. ValueLike(g, m, i, i, Denoted(TokenAt(t, i)))
    BY <1>7, <2>3 DEF ValueLike
  <2> HIDE DEF o
  <2>5. ValueLike(g, m, i, (i + 1) - 1, Denoted(TokenAt(t, i)))
    BY <2>2, <2>4
  <2>6. ValueSound(Got(Denoted(TokenAt(t, i)), TRUE, i + 1), t, n, g, i)
    BY <1>6, <2>2, <2>5
  <2> QED BY <2>1, <2>6 DEF o
<1>8. CASE i # n + 1 /\ Type(t, i) = "left_bracket"
  <2>1. i <= n /\ i \in 1 .. n
    BY <1>1, <1>8
  <2>2. CASE Type(t, i + 1) = "right_bracket"
    <3>1. i + 1 <= n
      <4>1. Type(t, i + 1) # "null"
        BY <2>2
      <4>2. i + 1 <= Len(t)
        <5>1. t \in Seq(Tokenlike) /\ i + 1 \in Nat \ {0}
          BY <1>1 DEF Reading
        <5>2. ~(i + 1 > Len(t))
          BY <4>1, <5>1, TypeIs
        <5> QED BY <1>1, <5>2
      <4>3. i # n
        <5> SUFFICES ASSUME i = n PROVE FALSE
          OBVIOUS
        <5>1. n > 0 /\ n < Len(t)
          BY <1>1, <4>2
        <5> QED BY <1>8, <2>2, <5>1 DEF Reading, Completed
      <4> QED BY <1>1, <2>1, <4>3
    <3>2. o = Got(Array(<<>>), TRUE, i + 2)
      BY <1>2, <1>8, <2>2 DEF Arms
    <3>3. i + 2 \in i + 1 .. n + 1 /\ (i + 2) - 1 = i + 1 /\ i < i + 1 /\ i + 1 \in 1 .. n
      BY <1>1, <3>1
    <3>4. m[i].type = "left_bracket" /\ m[i + 1].type = "right_bracket"
      BY <1>8, <2>1, <2>2, <3>3, Message
    <3>5. ValueLike(g, m, i, (i + 2) - 1, Array(<<>>))
      BY <3>3, <3>4 DEF ValueLike
    <3> HIDE DEF o
    <3>6. ValueSound(Got(Array(<<>>), TRUE, i + 2), t, n, g, i)
      BY <1>6, <2>1, <3>3, <3>5
    <3> QED BY <3>2, <3>6 DEF o
  <2>3. CASE Type(t, i + 1) # "right_bracket"
    <3> DEFINE r == p[<<"elements", i + 1>>]
    <3>1. o = ArrayOf(r)
      BY <1>2, <1>8, <2>3 DEF Arms
    <3>2. LoopShaped(r, t, i + 1)
      <4>1. i + 1 \in 1 .. Len(t) + 1
        BY <1>1, <2>1
      <4>2. Outcomes(p, t, n, i + 1)
        BY <4>1, Outcome
      <4> QED BY <4>2 DEF Outcomes
    <3>3. LoopSound(r, t, n, g, "elements", i + 1)
      BY <2>1
    <3> DEFINE kind == "elements"
    <3>4. kind \in {"elements", "members"} /\ LoopSound(r, t, n, g, kind, i + 1)
      BY <3>3
    <3>5. Lists(kind) = "list" /\ Close(kind) = "right_bracket"
      BY DEF Lists, Close
    <3> HIDE DEF r, o, kind
    <3>6. CASE r.is = "undefined"
      <4>1. o = Undefined
        BY <3>1, <3>6 DEF ArrayOf
      <4>2. Excused(t, n, i + 1)
        BY <3>3, <3>6 DEF LoopSound
      <4>3. n \in Int /\ i \in Int /\ i + 1 \in Int /\ i <= i + 1
        BY <1>1
      <4>4. Excused(t, n, i)
        BY <4>2, <4>3, ExcusedEarlier
      <4> QED BY <1>4, <4>1, <4>4 DEF o
    <3>7. CASE r.is # "undefined" /\ Len(r.parts) > ArrayRoom
      <4>1. o = Undefined
        BY <3>1, <3>7 DEF ArrayOf
      <4>2. Excused(t, n, i)
        BY <2>1, <3>2, <3>4, <3>7, TooMuch
      <4> QED BY <1>4, <4>1, <4>2 DEF o
    <3>8. CASE r.is # "undefined" /\ ~(Len(r.parts) > ArrayRoom)
      <4>1. o = Whole(r, Array(r.parts), r.fits)
        BY <3>1, <3>8 DEF ArrayOf
      <4>2. Flag(r.fits)
        BY <3>2, <3>8, LoopIs DEF Flag
      <4>3. r.is = "end" => Array(r.parts) \in g[<<"value", i, r.next - 1>>]
        <5> SUFFICES ASSUME r.is = "end" PROVE Array(r.parts) \in g[<<"value", i, r.next - 1>>]
          OBVIOUS
        <5> DEFINE e == r.next - 1
                   k == r.next
        <5>1. /\ k <= n + 1 /\ Type(t, e) = "right_bracket"
              /\ r.parts \in g[<<"list", i + 1, k - 2>>]
              /\ (i + 1) + 2 <= k
          BY <3>4, <3>5 DEF LoopSound
        <5>2. k \in (i + 1) + 1 .. Len(t) + 2
          BY <3>2, LoopIs
        <5>3. e = k - 1
          OBVIOUS
        <5> HIDE DEF k, e
        <5>4. e \in 1 .. n /\ i < e /\ e > i + 1 /\ e - 1 = k - 2 /\ e \in 0 .. Len(m) /\ i <= e
          BY <1>1, <5>1, <5>2, <5>3
        <5>5. m[i].type = "left_bracket" /\ m[e].type = "right_bracket"
          BY <1>8, <2>1, <5>1, <5>4, Message
        <5>6. r.parts \in g[<<"list", i + 1, e - 1>>]
          BY <5>1, <5>4
        <5>7. ValueLike(g, m, i, e, Array(r.parts))
          BY <5>4, <5>5, <5>6, Zenon DEF ValueLike
        <5>8. i \in 1 .. Len(m) + 1 /\ Len(m) \in Nat
          BY <1>1
        <5>9. Array(r.parts) \in g[<<"value", i, e>>]
          BY <1>5, <5>4, <5>7, <5>8, Derived
        <5> QED BY <5>9 DEF e
      <4> DEFINE x == Array(r.parts)
                 b == r.fits
      <4>4. Flag(b) /\ (~b => ~r.fits \/ Len(r.parts) > ArrayRoom) /\ (r.is = "end" => x \in g[<<"value", i, r.next - 1>>])
        BY <4>2, <4>3
      <4> HIDE DEF x, b
      <4>5. ValueSound(Whole(r, x, b), t, n, g, i)
        BY <2>1, <3>2, <3>4, <3>8, <4>4, WholeSound
      <4> QED BY <4>1, <4>5 DEF o, x, b
    <3> QED BY <3>6, <3>7, <3>8
  <2> QED BY <2>2, <2>3
<1>9. CASE i # n + 1 /\ Type(t, i) = "left_brace"
  <2>1. i <= n /\ i \in 1 .. n
    BY <1>1, <1>9
  <2> DEFINE r == p[<<"members", i + 1>>]
  <2>2. o = ObjectFrom(r)
    BY <1>2, <1>9 DEF Arms
  <2>3. LoopShaped(r, t, i + 1)
    <3>1. i + 1 \in 1 .. Len(t) + 1
      BY <1>1, <2>1
    <3>2. Outcomes(p, t, n, i + 1)
      BY <3>1, Outcome
    <3> QED BY <3>2 DEF Outcomes
  <2>4. LoopSound(r, t, n, g, "members", i + 1)
    BY <2>1
  <2> DEFINE kind == "members"
  <2>5. kind \in {"elements", "members"} /\ LoopSound(r, t, n, g, kind, i + 1)
    BY <2>4
  <2>6. Lists(kind) = "pairs" /\ Close(kind) = "right_brace"
    BY DEF Lists, Close
  <2> HIDE DEF r, o, kind
  <2>7. CASE r.is = "undefined"
    <3>1. o = Undefined
      BY <2>2, <2>7 DEF ObjectFrom
    <3>2. Excused(t, n, i + 1)
      BY <2>4, <2>7 DEF LoopSound
    <3>3. n \in Int /\ i \in Int /\ i + 1 \in Int /\ i <= i + 1
      BY <1>1
    <3>4. Excused(t, n, i)
      BY <3>2, <3>3, ExcusedEarlier
    <3> QED BY <1>4, <3>1, <3>4 DEF o
  <2>8. CASE r.is # "undefined"
    <3> DEFINE x == ObjectOf(r.parts)
               b == r.fits /\ Len(r.parts) <= ArrayRoom
    <3>1. o = Whole(r, x, b)
      BY <2>2, <2>8 DEF ObjectFrom
    <3>2. r.fits \in BOOLEAN /\ IsSequence(r.parts)
      BY <2>3, <2>8, LoopIs
    <3>3. Flag(b)
      BY <3>2 DEF Flag
    <3>4. ~b => ~r.fits \/ Len(r.parts) > ArrayRoom
      <4>1. Len(r.parts) \in Nat
        BY <3>2 DEF IsSequence
      <4>2. ~(Len(r.parts) <= ArrayRoom) => Len(r.parts) > ArrayRoom
        BY <4>1 DEF ArrayRoom
      <4> QED BY <4>2
    <3>5. r.is = "end" => x \in g[<<"value", i, r.next - 1>>]
      <4> SUFFICES ASSUME r.is = "end" PROVE x \in g[<<"value", i, r.next - 1>>]
        OBVIOUS
      <4> DEFINE e == r.next - 1
                 k == r.next
      <4>1. /\ k <= n + 1 /\ Type(t, e) = "right_brace"
            /\ r.parts \in g[<<"pairs", i + 1, k - 2>>]
            /\ (i + 1) + 2 <= k
        BY <2>5, <2>6 DEF LoopSound
      <4>2. k \in (i + 1) + 1 .. Len(t) + 2
        BY <2>3, LoopIs
      <4>3. e = k - 1
        OBVIOUS
      <4> HIDE DEF k, e
      <4>4. e \in 1 .. n /\ i < e /\ e > i + 1 /\ e - 1 = k - 2 /\ e \in 0 .. Len(m) /\ i <= e
        BY <1>1, <2>1, <4>1, <4>2, <4>3, LoopEnds
      <4>5. m[i].type = "left_brace" /\ m[e].type = "right_brace"
        BY <1>9, <2>1, <4>1, <4>4, Message
      <4>6. r.parts \in g[<<"pairs", i + 1, e - 1>>]
        BY <4>1, <4>4
      <4>7. ValueLike(g, m, i, e, x)
        BY <4>4, <4>5, <4>6, Zenon DEF ValueLike, x
      <4>8. i \in 1 .. Len(m) + 1 /\ Len(m) \in Nat
        BY <1>1
      <4> HIDE DEF x
      <4>9. x \in g[<<"value", i, e>>]
        BY <1>5, <4>4, <4>7, <4>8, Derived
      <4> QED BY <4>9 DEF e
    <3> HIDE DEF x, b
    <3>6. ValueSound(Whole(r, x, b), t, n, g, i)
      BY <2>1, <2>3, <2>5, <2>8, <3>3, <3>4, <3>5, WholeSound
    <3> QED BY <3>1, <3>6 DEF o
  <2> QED BY <2>7, <2>8
<1>10. CASE i # n + 1 /\ Type(t, i) \notin Primitive \cup {"left_bracket", "left_brace"}
  <2>1. o = NoValue
    BY <1>2, <1>10 DEF Arms
  <2> QED BY <1>3, <2>1
<1>11. CASE i = n + 1
  <2>1. o = NoValue
    BY <1>2, <1>11 DEF Arms
  <2> QED BY <1>3, <2>1
<1> QED BY <1>7, <1>8, <1>9, <1>10, <1>11

(* A loop is sound after a part that is. *)
LEMMA AfterSound ==
    ASSUME NEW t, NEW n, NEW m, NEW p, NEW g, Reading(t, n, m, p, g),
           NEW kind \in {"elements", "members"}, NEW i \in 1 .. n, NEW next \in i + 1 .. n + 1,
           NEW x \in One(g, m, kind, i, next - 1), NEW b, Flag(b), ~b => CommasIn(t, i, next - 1) >= 3,
           \A j \in i + 1 .. n + 1 : LoopSound(p[<<kind, j>>], t, n, g, kind, j)
    PROVE  LoopSound(After(p, t, n, kind, Close(kind), x, b, next), t, n, g, kind, i)
<1>1. n \in Nat /\ i \in Nat
  BY Message
<1> DEFINE close == Close(kind)
<1>2. close \in {"right_bracket", "right_brace"}
  BY DEF Close
<1>3. /\ LoopSound(GivenUp(<<x>>, b), t, n, g, kind, i)
      /\ next <= n /\ Type(t, next) = close => LoopSound(Ended(<<x>>, b, next + 1), t, n, g, kind, i)
  <2>1. LoopSound(GivenUp(<<x>>, b), t, n, g, kind, i)
    BY LastPart
  <2>2. next <= n /\ Type(t, next) = Close(kind) => LoopSound(Ended(<<x>>, b, next + 1), t, n, g, kind, i)
    BY LastPart
  <2> QED BY <2>1, <2>2
<1> DEFINE A == After(p, t, n, kind, close, x, b, next)
<1> HIDE DEF close
<1>4. /\ next # n + 1 /\ Type(t, next) = "comma" => A = Then(x, b, p[<<kind, next + 1>>])
      /\ next # n + 1 /\ Type(t, next) = close => A = Ended(<<x>>, b, next + 1)
      /\ next = n + 1 \/ Type(t, next) \notin {"comma", close} => A = GivenUp(<<x>>, b)
  <2>1. AfterArms(A, p, t, n, kind, close, x, b, next)
    BY <1>2, AfterCases
  <2> HIDE DEF A
  <2> QED BY <2>1 DEF AfterArms
<1>5. next # n + 1 => next <= n /\ next \in i + 1 .. n /\ next + 1 \in i + 1 .. n + 1
  BY <1>1
<1>6. CASE next # n + 1 /\ Type(t, next) = "comma"
  <2>1. LoopSound(p[<<kind, next + 1>>], t, n, g, kind, next + 1)
    BY <1>5, <1>6
  <2>2. LoopSound(Then(x, b, p[<<kind, next + 1>>]), t, n, g, kind, i)
    BY <1>5, <1>6, <2>1, PartAndMore
  <2> QED BY <1>4, <1>6, <2>2 DEF close
<1>7. CASE next # n + 1 /\ Type(t, next) = close
  BY <1>3, <1>4, <1>5, <1>7 DEF close
<1>8. CASE next = n + 1 \/ Type(t, next) \notin {"comma", close}
  BY <1>3, <1>4, <1>8 DEF close
<1> QED BY <1>6, <1>7, <1>8

(* A loop that comes upon no value, or upon something undefined. *)
LEMMA NoPart ==
    ASSUME NEW t, NEW n, NEW m, NEW p, NEW g, Reading(t, n, m, p, g),
           NEW kind \in {"elements", "members"}, NEW i \in 1 .. n + 1
    PROVE  /\ \A b \in BOOLEAN : (~b => CommasIn(t, i, n) >= 3) => LoopSound(GivenUp(<<>>, b), t, n, g, kind, i)
           /\ Excused(t, n, i) => LoopSound(Undefined, t, n, g, kind, i)
<1>1. CommasIn(t, i, n) \in Nat /\ Len(<<>>) = 0
  <2>1. n \in Int /\ i \in Int /\ i <= i /\ n <= n
    BY Message
  <2> QED BY <2>1, CommasGrow
<1>2. ASSUME NEW b \in BOOLEAN, ~b => CommasIn(t, i, n) >= 3
      PROVE  LoopSound(GivenUp(<<>>, b), t, n, g, kind, i)
  <2> DEFINE o == GivenUp(<<>>, b)
  <2>1. o.is = "NULL" /\ o.parts = <<>> /\ o.fits = b
    BY DEF GivenUp
  <2> HIDE DEF o
  <2>2. Len(o.parts) <= CommasIn(t, i, n) + 1
    BY <1>1, <2>1
  <2>3. LoopSound(o, t, n, g, kind, i)
    BY <1>2, <2>1, <2>2 DEF LoopSound
  <2> QED BY <2>3 DEF o
<1>3. ASSUME Excused(t, n, i)
      PROVE  LoopSound(Undefined, t, n, g, kind, i)
  BY <1>3 DEF LoopSound, Undefined
<1> QED BY <1>2, <1>3

(* Elements is sound if what is after it is. *)
LEMMA ElementsSound ==
    ASSUME NEW t, NEW n, NEW m, NEW p, NEW g, Reading(t, n, m, p, g), NEW i \in 1 .. n + 1,
           ValueSound(p[<<"value", i>>], t, n, g, i),
           \A j \in i + 1 .. n + 1 : LoopSound(p[<<"elements", j>>], t, n, g, "elements", j)
    PROVE  LoopSound(p[<<"elements", i>>], t, n, g, "elements", i)
<1>1. n \in Nat /\ i \in Nat /\ Len(t) \in Nat /\ n <= Len(t) /\ i \in 1 .. Len(t) + 1
  BY Message
<1> DEFINE o == p[<<"value", i>>]
           w == p[<<"elements", i>>]
           kind == "elements"
<1>2. w = Elements(p, t, n, i) /\ ValueShaped(o, t, i)
  <2>1. Outcomes(p, t, n, i)
    BY <1>1, Outcome
  <2> QED BY <2>1 DEF Outcomes
<1>3. /\ o = Undefined => Elements(p, t, n, i) = Undefined
      /\ o = NoValue => Elements(p, t, n, i) = GivenUp(<<>>, TRUE)
      /\ o.is = "value" =>
            Elements(p, t, n, i) = After(p, t, n, "elements", "right_bracket", o.value, o.fits, o.next)
  BY <1>2, LoopCases
<1>4. ValueSound(o, t, n, g, i)
  OBVIOUS
<1>5. kind \in {"elements", "members"} /\ Close(kind) = "right_bracket"
  BY DEF Close
<1>6. /\ \A b \in BOOLEAN : (~b => CommasIn(t, i, n) >= 3) => LoopSound(GivenUp(<<>>, b), t, n, g, kind, i)
      /\ Excused(t, n, i) => LoopSound(Undefined, t, n, g, kind, i)
  <2> HIDE DEF kind
  <2> QED BY <1>5, NoPart
<1> HIDE DEF o
<1>7. CASE o = Undefined
  <2>1. Excused(t, n, i)
    BY <1>4, <1>7 DEF ValueSound, Undefined
  <2> QED BY <1>2, <1>3, <1>6, <1>7, <2>1
<1>8. CASE o = NoValue
  <2>1. LoopSound(GivenUp(<<>>, TRUE), t, n, g, kind, i)
    BY <1>6
  <2> QED BY <1>2, <1>3, <1>8, <2>1
<1>9. CASE o.is = "value"
  <2> DEFINE next == o.next
             x == o.value
             b == o.fits
  <2>1. Flag(b) /\ next \in i + 1 .. Len(t) + 2
    BY <1>2, <1>9, ValueIs DEF Flag
  <2>2. next <= n + 1 /\ x \in g[<<"value", i, next - 1>>] /\ (~b => CommasIn(t, i, next - 1) >= 3)
    BY <1>4, <1>9 DEF ValueSound
  <2>3. w = After(p, t, n, kind, Close(kind), x, b, next)
    BY <1>2, <1>3, <1>5, <1>9
  <2>4. x \in One(g, m, kind, i, next - 1)
    BY <2>2 DEF One
  <2>5. \A j \in i + 1 .. n + 1 : LoopSound(p[<<kind, j>>], t, n, g, kind, j)
    BY Zenon
  <2> HIDE DEF next, x, b, kind, w
  <2>6. i \in 1 .. n /\ next \in i + 1 .. n + 1
    BY <1>1, <2>1, <2>2
  <2>7. LoopSound(After(p, t, n, kind, Close(kind), x, b, next), t, n, g, kind, i)
    BY <1>5, <2>1, <2>2, <2>4, <2>5, <2>6, AfterSound
  <2> QED BY <2>3, <2>7 DEF w, kind
<1>10. o = Undefined \/ o = NoValue \/ o.is = "value"
  BY <1>2, ValueIs
<1> QED BY <1>7, <1>8, <1>9, <1>10

(* What a token stands for is a string only if the token is one. *)
LEMMA DenotedIs ==
    ASSUME NEW token, token.type \in Primitive
    PROVE  Denoted(token).type = "string" => token.type = "string" /\ Denoted(token).string = token.text
<1>1. CASE token.type = "null"
  BY <1>1 DEF Denoted, Null
<1>2. CASE token.type = "true"
  BY <1>2 DEF Denoted, Boolean
<1>3. CASE token.type = "false"
  BY <1>3 DEF Denoted, Boolean
<1>4. CASE token.type = "int"
  <2>1. \A k : Integer(k).type = "integer"
    BY DEF Integer
  <2>2. \E k : Denoted(token) = Integer(k)
    BY <1>4 DEF Denoted
  <2> QED BY <2>1, <2>2
<1>5. CASE token.type = "string"
  BY <1>5 DEF Denoted, String
<1> QED BY <1>1, <1>2, <1>3, <1>4, <1>5 DEF Primitive

(* A value that is a string is one token. *)
LEMMA StringValue ==
    ASSUME NEW t, NEW n, NEW m, NEW p, NEW g, Reading(t, n, m, p, g), NEW i \in 1 .. n + 1,
           p[<<"value", i>>].is = "value", p[<<"value", i>>].value.type = "string"
    PROVE  /\ i \in 1 .. n /\ Type(t, i) = "string" /\ p[<<"value", i>>].next = i + 1
           /\ p[<<"value", i>>].value.string = t[i].text
<1>1. n \in Nat /\ i \in Nat /\ Len(t) \in Nat /\ n <= Len(t) /\ i \in 1 .. Len(t) + 1
  BY Message
<1> DEFINE o == p[<<"value", i>>]
           r == p[<<"elements", i + 1>>]
           s == p[<<"members", i + 1>>]
<1>2. Arms(p, t, n, i, o)
  <2>1. Outcomes(p, t, n, i)
    BY <1>1, Outcome
  <2>2. Arms(p, t, n, i, ParseAt(p, t, n, i))
    BY ValueCases
  <2> QED BY <2>1, <2>2 DEF Outcomes
<1>3. NoValue.is # "value" /\ Undefined.is # "value"
  BY DEF NoValue, Undefined
<1>4. \A x, b, next : /\ Got(x, b, next).is = "value" /\ Got(x, b, next).value = x
                      /\ Got(x, b, next).next = next
  BY DEF Got
<1>5. \A x : Array(x).type # "string" /\ ObjectOf(x).type # "string"
  BY DEF Array, ObjectOf, Object
<1>6. ASSUME NEW u, LoopShaped(u, t, i + 1), NEW x, NEW b \in BOOLEAN, x.type # "string", o = Whole(u, x, b), u.is # "undefined"
      PROVE  FALSE
  <2>1. u.is \in {"NULL", "end"}
    BY <1>6, LoopIs
  <2>2. CASE u.is = "end"
    <3>1. o = Got(x, b, u.next)
      BY <1>6, <2>2 DEF Whole
    <3> QED BY <1>4, <1>6, <3>1
  <2>3. CASE u.is = "NULL"
    <3>1. o = IF b THEN NoValue ELSE Undefined
      BY <1>6, <2>3 DEF Whole
    <3> QED BY <1>3, <3>1
  <2> QED BY <2>1, <2>2, <2>3
<1>7. i # n + 1
  BY <1>2, <1>3 DEF Arms
<1>8. Type(t, i) \notin {"left_bracket", "left_brace"}
  <2> SUFFICES ASSUME Type(t, i) \in {"left_bracket", "left_brace"} PROVE FALSE
    OBVIOUS
  <2>1. LoopShaped(r, t, i + 1) /\ LoopShaped(s, t, i + 1)
    <3>1. i + 1 \in 1 .. Len(t) + 1
      BY <1>1, <1>7
    <3>2. Outcomes(p, t, n, i + 1)
      BY <3>1, Outcome
    <3> QED BY <3>2 DEF Outcomes
  <2> HIDE DEF r, s
  <2>2. o # Got(Array(<<>>), TRUE, i + 2)
    <3> DEFINE x == Array(<<>>)
    <3>1. x.type # "string"
      BY <1>5
    <3> HIDE DEF x
    <3>2. Got(x, TRUE, i + 2).value = x
      BY DEF Got
    <3>3. o = Got(x, TRUE, i + 2) => o.value = x
      BY <3>2
    <3> QED BY <3>1, <3>3 DEF x
  <2>3. o # ArrayOf(r)
    <3> SUFFICES ASSUME o = ArrayOf(r) PROVE FALSE
      OBVIOUS
    <3>1. r.is # "undefined" /\ o = Whole(r, Array(r.parts), r.fits)
      BY <1>3 DEF ArrayOf
    <3>2. r.fits \in BOOLEAN
      BY <2>1, <3>1, LoopIs
    <3> HIDE DEF o
    <3> QED BY <1>5, <1>6, <2>1, <3>1, <3>2
  <2>4. o # ObjectFrom(s)
    <3> SUFFICES ASSUME o = ObjectFrom(s) PROVE FALSE
      OBVIOUS
    <3> DEFINE b == s.fits /\ Len(s.parts) <= ArrayRoom
    <3>1. s.is # "undefined" /\ o = Whole(s, ObjectOf(s.parts), b)
      BY <1>3 DEF ObjectFrom
    <3>2. s.fits \in BOOLEAN
      BY <2>1, <3>1, LoopIs
    <3>3. b \in BOOLEAN
      BY <3>2
    <3> HIDE DEF o, b
    <3> QED BY <1>5, <1>6, <2>1, <3>1, <3>3
  <2> HIDE DEF o
  <2> QED BY <1>2, <1>7, <2>2, <2>3, <2>4 DEF Arms, r, s
<1>9. Type(t, i) \in Primitive
  BY <1>2, <1>3, <1>7, <1>8 DEF Arms
<1>10. o = Got(Denoted(TokenAt(t, i)), TRUE, i + 1)
  BY <1>2, <1>7, <1>9 DEF Arms
<1>11. o.value = Denoted(TokenAt(t, i)) /\ o.next = i + 1
  <2> DEFINE x == Denoted(TokenAt(t, i))
  <2>1. o = Got(x, TRUE, i + 1)
    BY <1>10
  <2> HIDE DEF o, x
  <2>2. o.value = x /\ o.next = i + 1
    BY <2>1 DEF Got
  <2> QED BY <2>2 DEF x
<1>12. i \in 1 .. n
  BY <1>1, <1>7
<1>13. TokenAt(t, i) = t[i]
  BY <1>12, Message
<1>14. TokenAt(t, i).type = Type(t, i)
  BY DEF Type
<1> QED BY <1>9, <1>11, <1>12, <1>13, <1>14, DenotedIs

MemberArms(u, t, n, o, w) ==
    /\ o = Undefined => w = Undefined
    /\ o = NoValue => w = GivenUp(<<>>, TRUE)
    /\ o.is = "value" /\ ~Named(o, t, n) => w = GivenUp(<<>>, o.fits)
    /\ o.is = "value" /\ Named(o, t, n) =>
          LET v == u[<<"value", o.next + 1>>] IN
          v.is \in {"undefined", "NULL", "value"} => w = Paired(u, t, n, o, v)

(* The arms of Members by themselves. *)
LEMMA MemberCases ==
    ASSUME NEW t, NEW n, NEW u, NEW i, ValueShaped(u[<<"value", i>>], t, i)
    PROVE  MemberArms(u, t, n, u[<<"value", i>>], Members(u, t, n, i))
  BY LoopCases DEF MemberArms

(* Where the value of a property is. *)
LEMMA ValueEnds ==
    ASSUME NEW L \in Nat, NEW n \in Nat, n <= L, NEW i \in 1 .. n, NEW next \in (i + 2) + 1 .. L + 2, next <= n + 1
    PROVE  next \in i + 1 .. n + 1 /\ next - 1 > i + 1 /\ next - 1 \in Int /\ i + 1 \in 1 .. n
  OBVIOUS

(* Where a property ends that has no value. *)
LEMMA NameEnds ==
    ASSUME NEW n \in Nat, NEW i \in 1 .. n + 1, NEW c \in Nat, NEW k \in i + 1 .. c, k <= n + 1
    PROVE  k - 1 \in Int /\ i \in Int /\ n \in Int /\ i <= i /\ k - 1 <= n /\ n <= n
  OBVIOUS

(* Members is sound if what is after it is. *)
LEMMA MembersSound ==
    ASSUME NEW t, NEW n, NEW m, NEW p, NEW g, Reading(t, n, m, p, g), NEW i \in 1 .. n + 1,
           \A j \in i .. n + 1 : ValueSound(p[<<"value", j>>], t, n, g, j),
           \A j \in i + 1 .. n + 1 : LoopSound(p[<<"members", j>>], t, n, g, "members", j)
    PROVE  LoopSound(p[<<"members", i>>], t, n, g, "members", i)
<1>1. n \in Nat /\ i \in Nat /\ Len(t) \in Nat /\ n <= Len(t) /\ i \in 1 .. Len(t) + 1 /\ Len(m) = n
  BY Message
<1> DEFINE o == p[<<"value", i>>]
           w == p[<<"members", i>>]
           kind == "members"
<1>2. w = Members(p, t, n, i) /\ ValueShaped(o, t, i)
  <2>1. Outcomes(p, t, n, i)
    BY <1>1, Outcome
  <2> QED BY <2>1 DEF Outcomes
<1>3. MemberArms(p, t, n, o, w)
  BY <1>2, MemberCases
<1>4. ValueSound(o, t, n, g, i)
  <2>1. i \in i .. n + 1
    BY <1>1
  <2> QED BY <2>1
<1>5. kind \in {"elements", "members"} /\ Close(kind) = "right_brace"
  BY DEF Close
<1>6. /\ \A b \in BOOLEAN : (~b => CommasIn(t, i, n) >= 3) => LoopSound(GivenUp(<<>>, b), t, n, g, kind, i)
      /\ Excused(t, n, i) => LoopSound(Undefined, t, n, g, kind, i)
  <2> HIDE DEF kind
  <2> QED BY <1>5, NoPart
<1>0. \A j \in i + 1 .. n + 1 : LoopSound(p[<<kind, j>>], t, n, g, kind, j)
  BY Zenon
<1>7. CASE o = Undefined
  <2> HIDE DEF o
  <2>1. Excused(t, n, i)
    BY <1>4, <1>7 DEF ValueSound, Undefined
  <2>2. w = Undefined
    BY <1>3, <1>7 DEF MemberArms
  <2> HIDE DEF w
  <2>3. LoopSound(w, t, n, g, kind, i)
    BY <1>6, <2>1, <2>2
  <2> QED BY <2>3 DEF w
<1>8. CASE o = NoValue
  <2>1. LoopSound(GivenUp(<<>>, TRUE), t, n, g, kind, i)
    BY <1>6
  <2> HIDE DEF o
  <2>2. w = GivenUp(<<>>, TRUE)
    BY <1>3, <1>8 DEF MemberArms
  <2> HIDE DEF w
  <2>3. LoopSound(w, t, n, g, kind, i)
    BY <2>1, <2>2
  <2> QED BY <2>3 DEF w
<1>9. CASE o.is = "value" /\ ~Named(o, t, n)
  <2> HIDE DEF o, w
  <2>1. o.fits \in BOOLEAN /\ o.next \in i + 1 .. Len(t) + 2
    BY <1>2, <1>9, ValueIs
  <2>2. o.next <= n + 1 /\ (~o.fits => CommasIn(t, i, o.next - 1) >= 3)
    BY <1>4, <1>9 DEF ValueSound
  <2> DEFINE k == o.next
             c == Len(t) + 2
             e == k - 1
  <2>3. e \in Int /\ i \in Int /\ n \in Int /\ i <= i /\ e <= n /\ n <= n
    <3>1. k \in i + 1 .. c /\ k <= n + 1 /\ c \in Nat
      BY <1>1, <2>1, <2>2
    <3> HIDE DEF k, c
    <3> QED BY <1>1, <3>1, NameEnds
  <2> HIDE DEF e
  <2>4. CommasIn(t, i, e) \in Nat /\ CommasIn(t, i, e) <= CommasIn(t, i, n)
    BY <2>3, CommasGrow
  <2>5. CommasIn(t, i, n) \in Nat
    BY <2>3, CommasGrow
  <2>6. CommasIn(t, i, e) >= 3 => CommasIn(t, i, n) >= 3
    BY <2>4, <2>5
  <2>7. ~o.fits => CommasIn(t, i, n) >= 3
    BY <2>2, <2>6, Zenon DEF e, k
  <2>8. LoopSound(GivenUp(<<>>, o.fits), t, n, g, kind, i)
    BY <1>6, <2>1, <2>7
  <2>9. w = GivenUp(<<>>, o.fits)
    BY <1>3, <1>9 DEF MemberArms
  <2>10. LoopSound(w, t, n, g, kind, i)
    BY <2>8, <2>9
  <2> QED BY <2>10 DEF w
<1>10. CASE o.is = "value" /\ Named(o, t, n)
  <2>1. i \in 1 .. n /\ Type(t, i) = "string" /\ o.next = i + 1 /\ o.value.string = t[i].text
    <3>1. o.value.type = "string"
      BY <1>10 DEF Named
    <3> QED BY <1>10, <3>1, StringValue
  <2>2. Type(t, i + 1) = "colon" /\ i + 1 # n + 1
    <3>1. Type(t, o.next) = "colon" /\ o.next # n + 1
      BY <1>10 DEF Named
    <3> HIDE DEF o
    <3> QED BY <2>1, <3>1
  <2> DEFINE u == p[<<"value", i + 2>>]
             x == <<o.value.string, u.value>>
  <2>3. i + 1 <= n /\ i + 2 \in 1 .. Len(t) + 1 /\ i + 2 \in i .. n + 1 /\ (i + 1) + 1 = i + 2
    <3>1. i \in 1 .. n /\ i + 1 # n + 1
      BY <2>1, <2>2
    <3> QED BY <1>1, <3>1
  <2>4. ValueShaped(u, t, i + 2)
    <3>1. Outcomes(p, t, n, i + 2)
      BY <2>3, Outcome
    <3> QED BY <3>1 DEF Outcomes
  <2>5. ValueSound(u, t, n, g, i + 2)
    BY <2>3
  <2> HIDE DEF u
  <2>6. u.is \in {"undefined", "NULL", "value"} /\ (u.is = "value" => u.fits \in BOOLEAN /\ u.next \in (i + 2) + 1 .. Len(t) + 2)
    BY <2>4, ValueIs
  <2>7. w = Paired(p, t, n, o, u)
    <3>1. p[<<"value", o.next + 1>>] = u
      BY <2>1, <2>3 DEF u
    <3> HIDE DEF o, w
    <3> QED BY <1>3, <1>10, <2>6, <3>1 DEF MemberArms
  <2> HIDE DEF o, w
  <2>8. CASE u.is = "undefined"
    <3>1. Excused(t, n, i + 2)
      BY <2>5, <2>8 DEF ValueSound
    <3>2. n \in Int /\ i \in Int /\ i + 2 \in Int /\ i <= i + 2
      BY <1>1
    <3>3. Excused(t, n, i)
      BY <3>1, <3>2, ExcusedEarlier
    <3>4. w = Undefined
      BY <2>7, <2>8 DEF Paired
    <3> QED BY <1>6, <3>3, <3>4 DEF w
  <2>9. CASE u.is = "NULL"
    <3>1. w = GivenUp(<<>>, TRUE)
      BY <2>7, <2>9 DEF Paired
    <3>2. LoopSound(GivenUp(<<>>, TRUE), t, n, g, kind, i)
      BY <1>6
    <3> QED BY <3>1, <3>2 DEF w
  <2>10. CASE u.is = "value" /\ ~Hashable(o.value.string, HashmapEntries)
    <3>1. w = Undefined
      BY <2>7, <2>10 DEF Paired
    <3>2. Excused(t, n, i)
      BY <2>1, <2>10 DEF Excused, Unhashable
    <3> QED BY <1>6, <3>1, <3>2 DEF w
  <2>11. CASE u.is = "value" /\ Hashable(o.value.string, HashmapEntries)
    <3> DEFINE next == u.next
               b == u.fits
    <3>1. next <= n + 1 /\ u.value \in g[<<"value", i + 2, next - 1>>] /\ (~b => CommasIn(t, i + 2, next - 1) >= 3)
      BY <2>5, <2>11 DEF ValueSound
    <3>2. Flag(b) /\ next \in (i + 2) + 1 .. Len(t) + 2
      BY <2>6, <2>11 DEF Flag
    <3>3. w = After(p, t, n, kind, Close(kind), x, b, next)
      BY <1>5, <2>7, <2>11 DEF Paired
    <3> HIDE DEF next, b
    <3>4. next \in i + 1 .. n + 1 /\ next - 1 > i + 1 /\ next - 1 \in Int /\ i + 1 \in 1 .. n
      BY <1>1, <2>1, <3>1, <3>2, ValueEnds
    <3>5. x \in One(g, m, kind, i, next - 1)
      <4>1. m[i].type = "string" /\ m[i + 1].type = "colon"
        <5>1. i + 1 \in 1 .. n
          BY <3>4
        <5>2. m[i].type = Type(t, i)
          BY <2>1, Message
        <5>3. m[i + 1].type = Type(t, i + 1)
          BY <5>1, Message
        <5> QED BY <2>1, <2>2, <5>2, <5>3
      <4>2. m[i] = t[i]
        BY <2>1, Message
      <4>3. x = <<m[i].text, u.value>>
        BY <2>1, <4>2
      <4>4. Pairs(g, m, i, next - 1) = {<<m[i].text, v>> : v \in g[<<"value", i + 2, next - 1>>]}
        BY <3>4, <4>1 DEF Pairs
      <4>5. x \in Pairs(g, m, i, next - 1)
        BY <3>1, <4>3, <4>4
      <4>6. One(g, m, kind, i, next - 1) = Pairs(g, m, i, next - 1)
        BY DEF One
      <4> QED BY <4>5, <4>6
    <3>6. ~b => CommasIn(t, i, next - 1) >= 3
      <4> DEFINE e == next - 1
      <4>1. i + 2 \in Int /\ i \in Int /\ i <= i + 2 /\ e <= e /\ e \in Int
        BY <1>1, <3>4
      <4> HIDE DEF e
      <4>2. CommasIn(t, i + 2, e) \in Nat /\ CommasIn(t, i + 2, e) <= CommasIn(t, i, e)
        BY <4>1, CommasGrow
      <4>3. CommasIn(t, i, e) \in Nat
        <5>1. i <= i
          BY <1>1
        <5> QED BY <4>1, <5>1, CommasGrow
      <4>4. CommasIn(t, i + 2, e) >= 3 => CommasIn(t, i, e) >= 3
        BY <4>2, <4>3
      <4> QED BY <3>1, <4>4, Zenon DEF e
    <3> HIDE DEF x, kind
    <3>7. LoopSound(After(p, t, n, kind, Close(kind), x, b, next), t, n, g, kind, i)
      BY <1>0, <1>5, <2>1, <3>2, <3>4, <3>5, <3>6, AfterSound
    <3> QED BY <3>3, <3>7 DEF w, kind
  <2> QED BY <2>6, <2>8, <2>9, <2>10, <2>11
<1>11. o = Undefined \/ o = NoValue \/ o.is = "value"
  <2> HIDE DEF o
  <2> QED BY <1>2, ValueIs
<1> QED BY <1>7, <1>8, <1>9, <1>10, <1>11

\* Whatever the parser does at a place is sound.
SoundAt(t, n, p, g, at) ==
    IF at[1] = "value" THEN ValueSound(p[at], t, n, g, at[2]) ELSE LoopSound(p[at], t, n, g, at[1], at[2])

(* The parser is sound at every place up to the end of the message. *)
LEMMA ParserSound ==
    ASSUME NEW t, NEW n, NEW m, NEW p, NEW g, Reading(t, n, m, p, g), NEW i \in 1 .. n + 1
    PROVE  ValueSound(p[<<"value", i>>], t, n, g, i)
<1>1. n \in Nat /\ Len(t) \in Nat /\ n <= Len(t)
  BY Message
<1> DEFINE B == {at \in Places(t) : at[2] <= n + 1 /\ ~SoundAt(t, n, p, g, at)}
<1>2. ASSUME NEW at \in B, \A later \in B : ~(Rank(later) > Rank(at))
      PROVE  FALSE
  <2> DEFINE j == at[2]
  <2>1. at[1] \in {"value", "elements", "members"} /\ j \in 1 .. n + 1 /\ at = <<at[1], j>> /\ ~SoundAt(t, n, p, g, at)
    BY <1>1 DEF Places
  <2>2. ASSUME NEW kind \in {"value", "elements", "members"}, NEW k \in j .. n + 1,
               k > j \/ (kind = "value" /\ at[1] # "value")
        PROVE  SoundAt(t, n, p, g, <<kind, k>>)
    <3> DEFINE later == <<kind, k>>
    <3>1. later[1] = kind /\ later[2] = k /\ later \in Places(t)
      BY <1>1, <2>1 DEF Places
    <3> HIDE DEF later, B
    <3>2. Rank(later) = 2 * k + (IF kind = "value" THEN 1 ELSE 0) /\ Rank(at) = 2 * j + (IF at[1] = "value" THEN 1 ELSE 0)
      BY <3>1 DEF Rank
    <3> HIDE DEF j
    <3>3. Rank(later) > Rank(at)
      BY <1>1, <2>1, <2>2, <3>2
    <3>4. later \notin B /\ k <= n + 1
      BY <1>1, <1>2, <2>1, <3>3
    <3> QED BY <3>1, <3>4 DEF B, later
  <2>3. ASSUME NEW kind \in {"elements", "members"}, NEW k \in j + 1 .. n + 1
        PROVE  LoopSound(p[<<kind, k>>], t, n, g, kind, k)
    <3> DEFINE later == <<kind, k>>
    <3>1. k \in j .. n + 1 /\ k > j /\ kind \in {"value", "elements", "members"}
      BY <1>1, <2>1
    <3> HIDE DEF j, B
    <3>2. SoundAt(t, n, p, g, later)
      BY <2>2, <3>1, Zenon DEF later
    <3>3. later[1] = kind /\ later[2] = k /\ kind # "value"
      OBVIOUS
    <3> HIDE DEF later
    <3>4. LoopSound(p[later], t, n, g, kind, k)
      BY <3>2, <3>3 DEF SoundAt
    <3> QED BY <3>4 DEF later
  <2>4. ASSUME NEW k \in j .. n + 1, k > j \/ at[1] # "value"
        PROVE  ValueSound(p[<<"value", k>>], t, n, g, k)
    <3> DEFINE kind == "value"
               later == <<kind, k>>
    <3>1. kind \in {"value", "elements", "members"} /\ kind = "value"
      OBVIOUS
    <3> HIDE DEF j, B, kind
    <3>2. SoundAt(t, n, p, g, later)
      BY <2>2, <2>4, <3>1, Zenon DEF later
    <3>3. later[1] = "value" /\ later[2] = k
      BY <3>1
    <3> HIDE DEF later
    <3>4. ValueSound(p[later], t, n, g, k)
      BY <3>2, <3>3 DEF SoundAt
    <3> QED BY <3>1, <3>4 DEF later
  <2>5. CASE at[1] = "value"
    <3>1. j <= n => j + 1 \in j + 1 .. n + 1
      BY <1>1, <2>1
    <3>2. j <= n => \A kind \in {"elements", "members"} : LoopSound(p[<<kind, j + 1>>], t, n, g, kind, j + 1)
      <4> HIDE DEF j
      <4> QED BY <2>3, <3>1
    <3>3. ValueSound(p[<<"value", j>>], t, n, g, j)
      <4> HIDE DEF j
      <4> QED BY <2>1, <3>2, ValueSoundStep
    <3> QED BY <2>1, <2>5, <3>3 DEF SoundAt
  <2>6. CASE at[1] = "elements"
    <3>1. j \in j .. n + 1
      BY <1>1, <2>1
    <3>2. \A k \in j + 1 .. n + 1 : LoopSound(p[<<"elements", k>>], t, n, g, "elements", k)
      <4> HIDE DEF j, B
      <4> QED BY <2>3, Zenon
    <3>3. LoopSound(p[<<"elements", j>>], t, n, g, "elements", j)
      <4>1. ValueSound(p[<<"value", j>>], t, n, g, j)
        <5> HIDE DEF j, B
        <5>1. at[1] # "value"
          BY <2>6
        <5> QED BY <2>4, <3>1, <5>1, Zenon
      <4> HIDE DEF j
      <4> QED BY <2>1, <3>2, <4>1, ElementsSound
    <3> QED BY <2>1, <2>6, <3>3 DEF SoundAt
  <2>7. CASE at[1] = "members"
    <3>1. \A k \in j .. n + 1 : ValueSound(p[<<"value", k>>], t, n, g, k)
      <4> HIDE DEF j, B
      <4>1. at[1] # "value"
        BY <2>7
      <4> QED BY <2>4, <4>1, Zenon
    <3>2. \A k \in j + 1 .. n + 1 : LoopSound(p[<<"members", k>>], t, n, g, "members", k)
      <4> HIDE DEF j, B
      <4> QED BY <2>3, Zenon
    <3>3. LoopSound(p[<<"members", j>>], t, n, g, "members", j)
      <4> HIDE DEF j
      <4> QED BY <2>1, <3>1, <3>2, MembersSound
    <3> QED BY <2>1, <2>7, <3>3 DEF SoundAt
  <2> QED BY <2>1, <2>5, <2>6, <2>7
<1>3. B = {}
  <2>1. B \in SUBSET Places(t) /\ Len(t) \in Nat
    BY <1>1
  <2>2. \A at \in B : \E later \in B : Rank(later) > Rank(at)
    <3> HIDE DEF B
    <3> QED BY <1>2
  <2> HIDE DEF B
  <2> QED BY <2>1, <2>2, Downwards
<1> DEFINE at == <<"value", i>>
<1>4. at[1] = "value" /\ at[2] = i /\ at \in Places(t) /\ at[2] <= n + 1
  BY <1>1 DEF Places
<1>5. SoundAt(t, n, p, g, at)
  <2> HIDE DEF at
  <2> QED BY <1>3, <1>4
<1> HIDE DEF at
<1>6. ValueSound(p[at], t, n, g, i)
  BY <1>4, <1>5 DEF SoundAt
<1> QED BY <1>6 DEF at

-----------------------------------------------------------------------------
(* Completeness: what the tokens from a place on derive is what the parser returns there, unless it *)
(* is undefined, or returns NULL although there is an empty object in the message.                  *)

\* There is an empty object in the message.
HasEmpty(t, n) == \E k \in 1 .. n : k + 1 <= n /\ Type(t, k) = "left_brace" /\ Type(t, k + 1) = "right_brace"

Exactly(o, v, next, empty) ==
    \/ o = Undefined
    \/ o.is = "value" /\ o.value = v /\ o.next = next
    \/ o.is = "NULL" /\ empty

ExactlyParts(o, l, next, empty) ==
    \/ o = Undefined
    \/ o.is = "end" /\ o.parts = l /\ o.next = next
    \/ o.is = "NULL" /\ empty

ValueFull(o, t, n, g, i) == \A b \in i .. n : \A v \in g[<<"value", i, b>>] : Exactly(o, v, b + 1, HasEmpty(t, n))

LoopFull(o, t, n, g, kind, i) ==
    \A b \in i .. n - 1 : Type(t, b + 1) = Close(kind) =>
        \A l \in g[<<Lists(kind), i, b>>] : ExactlyParts(o, l, b + 2, HasEmpty(t, n))

\* The loop has parsed the part x, which ends at e.
Begun(w, p, t, n, kind, x, e) ==
    \/ w = Undefined
    \/ \E b : Flag(b) /\ w = After(p, t, n, kind, Close(kind), x, b, e + 1)
    \/ w.is = "NULL" /\ HasEmpty(t, n)

(* Nothing is derived from a place to the one before it. *)
LEMMA NothingBefore ==
    ASSUME NEW m, Len(m) \in Nat, NEW g, IsGrammar(g, m), NEW kind \in {"elements", "members"},
           NEW i \in 1 .. Len(m) + 1
    PROVE  One(g, m, kind, i, i - 1) = {}
<1>1. i - 1 \in 0 .. Len(m) /\ ~(i <= i - 1) /\ ~(i - 1 > i + 1)
  OBVIOUS
<1>2. CASE kind = "elements"
  <2> DEFINE c == i - 1
  <2>1. c \in 0 .. Len(m) /\ ~(i <= c)
    BY <1>1
  <2> HIDE DEF c
  <2>2. \A v : v \notin g[<<"value", i, c>>]
    BY <2>1, Derived
  <2> QED BY <1>2, <2>2 DEF One, c
<1>3. CASE kind = "members"
  BY <1>1, <1>3 DEF One, Pairs
<1> QED BY <1>2, <1>3

(* Where a part ends, and what follows it begins. *)
LEMMA PartEnds ==
    ASSUME NEW n \in Nat, NEW L \in Nat, n <= L, NEW i \in 1 .. n + 1, NEW b \in i .. n - 1, NEW k \in i .. b
    PROVE  /\ (k - 1) + 1 = k /\ k \in 1 .. n /\ k - 1 \in Nat /\ k # n + 1 /\ k + 1 \in i + 1 .. n + 1
           /\ k + 1 \in 1 .. L + 1 /\ k + 1 \in 1 .. n + 1
           /\ k # i => k - 1 \in i .. n - 1
           /\ k + 1 <= b => b \in k + 1 .. n - 1
  OBVIOUS

(* After the last part a loop ends. *)
LEMMA AfterLast ==
    ASSUME NEW t, NEW n, NEW p, NEW kind \in {"elements", "members"}, NEW x, NEW e \in Int, e + 1 # n + 1,
           Type(t, e + 1) = Close(kind), NEW w, Begun(w, p, t, n, kind, x, e)
    PROVE  ExactlyParts(w, <<x>>, e + 2, HasEmpty(t, n))
<1>1. CASE w = Undefined
  BY <1>1 DEF ExactlyParts
<1>2. ASSUME NEW b, Flag(b), w = After(p, t, n, kind, Close(kind), x, b, e + 1)
      PROVE  ExactlyParts(w, <<x>>, e + 2, HasEmpty(t, n))
  <2> DEFINE close == Close(kind)
             next == e + 1
             A == After(p, t, n, kind, close, x, b, next)
  <2>1. close \in {"right_bracket", "right_brace"} /\ next # n + 1 /\ Type(t, next) = close /\ next + 1 = e + 2
    BY DEF Close
  <2> HIDE DEF close, next
  <2>0. AfterArms(A, p, t, n, kind, close, x, b, next)
    BY <2>1, AfterCases
  <2>2. A = Ended(<<x>>, b, next + 1)
    <3> HIDE DEF A
    <3> QED BY <2>0, <2>1 DEF AfterArms
  <2> HIDE DEF A
  <2>3. A.is = "end" /\ A.parts = <<x>> /\ A.next = e + 2
    BY <2>1, <2>2 DEF Ended
  <2>4. ExactlyParts(A, <<x>>, e + 2, HasEmpty(t, n))
    BY <2>3 DEF ExactlyParts
  <2> QED BY <1>2, <2>4 DEF A, close, next
<1>3. CASE w.is = "NULL" /\ HasEmpty(t, n)
  BY <1>3 DEF ExactlyParts
<1> QED BY <1>1, <1>2, <1>3 DEF Begun

(* After a part and a comma it goes on. *)
LEMMA AfterMore ==
    ASSUME NEW t, NEW n \in Nat, NEW p, NEW kind \in {"elements", "members"}, NEW x, NEW e \in Nat, e + 1 # n + 1,
           Type(t, e + 1) = "comma", NEW w, Begun(w, p, t, n, kind, x, e),
           LoopShaped(p[<<kind, (e + 1) + 1>>], t, (e + 1) + 1),
           NEW r, NEW k, ExactlyParts(p[<<kind, (e + 1) + 1>>], r, k, HasEmpty(t, n))
    PROVE  ExactlyParts(w, <<x>> \o r, k, HasEmpty(t, n))
<1>1. CASE w = Undefined
  BY <1>1 DEF ExactlyParts
<1>2. ASSUME NEW b, Flag(b), w = After(p, t, n, kind, Close(kind), x, b, e + 1)
      PROVE  ExactlyParts(w, <<x>> \o r, k, HasEmpty(t, n))
  <2> DEFINE close == Close(kind)
             next == e + 1
             A == After(p, t, n, kind, close, x, b, next)
             o == p[<<kind, next + 1>>]
             T == Then(x, b, o)
  <2>1. /\ close \in {"right_bracket", "right_brace"} /\ next # n + 1 /\ Type(t, next) = "comma"
        /\ next \in Nat /\ next + 1 \in Nat /\ next <= next + 1
    BY DEF Close
  <2>2. LoopShaped(o, t, next + 1) /\ ExactlyParts(o, r, k, HasEmpty(t, n))
    OBVIOUS
  <2> HIDE DEF close, next
  <2>0. AfterArms(A, p, t, n, kind, close, x, b, next)
    BY <2>1, AfterCases
  <2>3. A = T
    <3> HIDE DEF A
    <3> QED BY <2>0, <2>1 DEF AfterArms
  <2>4. b \in BOOLEAN
    BY <1>2 DEF Flag
  <2> HIDE DEF A, o
  <2>5. Continued(T, o, x, b)
    BY <2>1, <2>2, <2>4, ThenShaped
  <2> HIDE DEF T
  <2>6. ExactlyParts(T, <<x>> \o r, k, HasEmpty(t, n))
    <3>1. CASE o = Undefined
      BY <2>5, <3>1 DEF Continued, ExactlyParts
    <3>2. CASE o # Undefined
      BY <2>2, <2>5, <3>2 DEF Continued, ExactlyParts
    <3> QED BY <3>1, <3>2
  <2> QED BY <1>2, <2>3, <2>6 DEF A, close, next
<1>3. CASE w.is = "NULL" /\ HasEmpty(t, n)
  BY <1>3 DEF ExactlyParts
<1> QED BY <1>1, <1>2, <1>3 DEF Begun

(* A loop that has parsed whatever part there is at a place returns whatever list there is. *)
LEMMA LoopFullStep ==
    ASSUME NEW t, NEW n, NEW m, NEW p, NEW g, Reading(t, n, m, p, g),
           NEW kind \in {"elements", "members"}, NEW i \in 1 .. n + 1, NEW w,
           \A e \in i .. n - 1 : \A x \in One(g, m, kind, i, e) : Begun(w, p, t, n, kind, x, e),
           \A j \in i + 1 .. n + 1 : LoopFull(p[<<kind, j>>], t, n, g, kind, j)
    PROVE  LoopFull(w, t, n, g, kind, i)
<1>1. n \in Nat /\ Len(m) = n /\ Len(m) \in Nat /\ i \in Nat /\ IsGrammar(g, m) /\ n <= Len(t) /\ Len(t) \in Nat
  BY Message DEF Reading
<1>2. ASSUME NEW b \in i .. n - 1, Type(t, b + 1) = Close(kind), NEW l \in g[<<Lists(kind), i, b>>]
      PROVE  ExactlyParts(w, l, b + 2, HasEmpty(t, n))
  <2>1. i \in 1 .. Len(m) + 1 /\ b \in 0 .. Len(m) /\ b \in Nat /\ b + 1 # n + 1 /\ b + 1 \in 1 .. n
    BY <1>1, <1>2
  <2>2. Listed(g, m, kind, i, b, l)
    BY <1>1, <1>2, <2>1, ListIs
  <2>3. ASSUME NEW x \in One(g, m, kind, i, b), l = <<x>>
        PROVE  ExactlyParts(w, l, b + 2, HasEmpty(t, n))
    <3>1. Begun(w, p, t, n, kind, x, b)
      BY <1>2, <2>3
    <3>2. b \in Int
      BY <2>1
    <3> QED BY <1>2, <2>1, <2>3, <3>1, <3>2, AfterLast
  <2>4. ASSUME NEW k \in i .. b, m[k].type = "comma",
               NEW x \in One(g, m, kind, i, k - 1), NEW r \in g[<<Lists(kind), k + 1, b>>], l = <<x>> \o r
        PROVE  ExactlyParts(w, l, b + 2, HasEmpty(t, n))
    <3> DEFINE e == k - 1
               L == Len(t)
    <3>0. L \in Nat /\ n <= L
      BY <1>1
    <3>1. /\ e + 1 = k /\ k \in 1 .. n /\ e \in Nat /\ e + 1 # n + 1 /\ k + 1 \in i + 1 .. n + 1
          /\ k + 1 \in 1 .. L + 1 /\ (e + 1) + 1 = k + 1 /\ k + 1 \in 1 .. Len(m) + 1
          /\ k # i => e \in i .. n - 1
          /\ k + 1 <= b => b \in k + 1 .. n - 1
      <4> HIDE DEF L
      <4> QED BY <1>1, <3>0, PartEnds
    <3>2. Type(t, e + 1) = "comma"
      <4>1. m[k].type = Type(t, k)
        BY <3>1, Message
      <4> QED BY <2>4, <3>1, <4>1
    <3>3. LoopShaped(p[<<kind, (e + 1) + 1>>], t, (e + 1) + 1)
      <4>1. Outcomes(p, t, n, k + 1)
        BY <3>1, Outcome
      <4> QED BY <3>1, <4>1 DEF Outcomes
    <3>4. k + 1 <= b
      <4> DEFINE c == k + 1
      <4>1. c \in 1 .. Len(m) + 1
        BY <3>1
      <4> HIDE DEF c
      <4>2. r \in g[<<Lists(kind), c, b>>]
        BY <2>4 DEF c
      <4>3. c <= b
        BY <1>1, <2>1, <4>1, <4>2, ListIs
      <4> QED BY <4>3 DEF c
    <3>5. e \in i .. n - 1
      <4>1. k # i
        BY <1>1, <2>1, <2>4, NothingBefore
      <4> QED BY <3>1, <4>1
    <3>6. Begun(w, p, t, n, kind, x, e)
      BY <2>4, <3>5
    <3>7. ExactlyParts(p[<<kind, (e + 1) + 1>>], r, b + 2, HasEmpty(t, n))
      <4>1. LoopFull(p[<<kind, k + 1>>], t, n, g, kind, k + 1)
        BY <3>1
      <4>2. b \in k + 1 .. n - 1
        BY <3>1, <3>4
      <4>3. ExactlyParts(p[<<kind, k + 1>>], r, b + 2, HasEmpty(t, n))
        BY <1>2, <2>4, <4>1, <4>2 DEF LoopFull
      <4> QED BY <3>1, <4>3
    <3> DEFINE c == b + 2
    <3> HIDE DEF e, c
    <3>8. ExactlyParts(p[<<kind, (e + 1) + 1>>], r, c, HasEmpty(t, n))
      BY <3>7 DEF c
    <3>9. ExactlyParts(w, <<x>> \o r, c, HasEmpty(t, n))
      BY <1>1, <3>1, <3>2, <3>3, <3>6, <3>8, AfterMore, Zenon
    <3> QED BY <2>4, <3>9 DEF c
  <2> QED BY <2>2, <2>3, <2>4 DEF Listed
<1> QED BY <1>2 DEF LoopFull

(* The array or object that a loop ends with is the value of its parts. *)
LEMMA WholeExact ==
    ASSUME NEW t, NEW i, NEW r, LoopShaped(r, t, i), NEW l, NEW k, NEW empty, ExactlyParts(r, l, k, empty)
    PROVE  Exactly(ArrayOf(r), Array(l), k, empty) /\ Exactly(ObjectFrom(r), ObjectOf(l), k, empty)
<1>1. CASE r = Undefined
  <2>1. r.is = "undefined"
    BY <1>1 DEF Undefined
  <2>2. ArrayOf(r) = Undefined /\ ObjectFrom(r) = Undefined
    BY <2>1 DEF ArrayOf, ObjectFrom
  <2> QED BY <2>2 DEF Exactly
<1>2. CASE r.is = "end" /\ r.parts = l /\ r.next = k
  <2>1. \A v, b : Exactly(Whole(r, v, b), v, k, empty)
    <3> TAKE v, b
    <3>1. Whole(r, v, b) = Got(v, b, k)
      BY <1>2 DEF Whole
    <3>2. Got(v, b, k).is = "value" /\ Got(v, b, k).value = v /\ Got(v, b, k).next = k
      BY DEF Got
    <3> QED BY <3>1, <3>2 DEF Exactly
  <2>2. ArrayOf(r) = IF Len(l) > ArrayRoom THEN Undefined ELSE Whole(r, Array(l), r.fits)
    BY <1>2 DEF ArrayOf
  <2>3. ObjectFrom(r) = Whole(r, ObjectOf(l), r.fits /\ Len(l) <= ArrayRoom)
    BY <1>2 DEF ObjectFrom
  <2>4. Exactly(ArrayOf(r), Array(l), k, empty)
    <3>1. CASE Len(l) > ArrayRoom
      BY <2>2, <3>1 DEF Exactly
    <3>2. CASE ~(Len(l) > ArrayRoom)
      BY <2>1, <2>2, <3>2
    <3> QED BY <3>1, <3>2
  <2>5. Exactly(ObjectFrom(r), ObjectOf(l), k, empty)
    BY <2>1, <2>3
  <2> QED BY <2>4, <2>5
<1>3. CASE r.is = "NULL" /\ empty
  <2>1. r.fits \in BOOLEAN
    BY <1>3, LoopIs
  <2>2. \A v, b : b \in BOOLEAN => Whole(r, v, b) = Undefined \/ Whole(r, v, b) = NoValue
    BY <1>3 DEF Whole
  <2>3. ArrayOf(r) = Undefined \/ ArrayOf(r) = Whole(r, Array(r.parts), r.fits)
    BY <1>3 DEF ArrayOf
  <2>4. ObjectFrom(r) = Whole(r, ObjectOf(r.parts), r.fits /\ Len(r.parts) <= ArrayRoom)
    BY <1>3 DEF ObjectFrom
  <2>5. (r.fits /\ Len(r.parts) <= ArrayRoom) \in BOOLEAN
    OBVIOUS
  <2>6. ArrayOf(r) = Undefined \/ ArrayOf(r) = NoValue
    BY <2>1, <2>2, <2>3
  <2>7. ObjectFrom(r) = Undefined \/ ObjectFrom(r) = NoValue
    BY <2>2, <2>4, <2>5
  <2>8. NoValue.is = "NULL"
    BY DEF NoValue
  <2> QED BY <1>3, <2>6, <2>7, <2>8 DEF Exactly
<1> QED BY <1>1, <1>2, <1>3 DEF ExactlyParts

(* What begins with a right bracket is not a list of elements. *)
LEMMA ListStart ==
    ASSUME NEW m, Len(m) \in Nat, NEW g, IsGrammar(g, m),
           NEW a \in 1 .. Len(m), NEW b \in a .. Len(m), NEW l \in g[<<"list", a, b>>]
    PROVE  m[a].type # "right_bracket"
<1>1. \A e \in 0 .. Len(m) : \A x \in g[<<"value", a, e>>] : m[a].type # "right_bracket"
  <2> TAKE e \in 0 .. Len(m)
  <2> TAKE x \in g[<<"value", a, e>>]
  <2>1. a \in 1 .. Len(m) + 1
    OBVIOUS
  <2>2. ValueLike(g, m, a, e, x)
    BY <2>1, Derived
  <2> QED BY <2>2 DEF ValueLike, Primitive
<1>2. a \in 1 .. Len(m) + 1 /\ b \in 0 .. Len(m)
  OBVIOUS
<1>3. ListLike(g, m, a, b, l)
  BY <1>2, Derived
<1>4. CASE \E v \in g[<<"value", a, b>>] : l = <<v>>
  BY <1>1, <1>2, <1>4
<1>5. ASSUME NEW k \in a .. b, NEW v \in g[<<"value", a, k - 1>>]
      PROVE  m[a].type # "right_bracket"
  <2>1. k - 1 \in 0 .. Len(m)
    OBVIOUS
  <2> QED BY <1>1, <2>1
<1> QED BY <1>3, <1>4, <1>5 DEF ListLike

(* Where the parts of an array or object are. *)
LEMMA InnerEnds ==
    ASSUME NEW n \in Nat, NEW i \in 1 .. n, NEW b \in i .. n, i + 1 <= b - 1
    PROVE  /\ i + 1 \in 1 .. n /\ i + 1 \in 1 .. n + 1 /\ b - 1 \in i + 1 .. n - 1 /\ b - 1 \in i + 1 .. n
           /\ (b - 1) + 1 = b /\ (b - 1) + 2 = b + 1 /\ b - 1 \in 0 .. n /\ b \in 1 .. n
  OBVIOUS

(* Parser and grammar agree at a place if the loops after it do. *)
LEMMA ValueFullStep ==
    ASSUME NEW t, NEW n, NEW m, NEW p, NEW g, Reading(t, n, m, p, g), NEW i \in 1 .. n + 1,
           i <= n => \A kind \in {"elements", "members"} :
                        LoopFull(p[<<kind, i + 1>>], t, n, g, kind, i + 1)
    PROVE  ValueFull(p[<<"value", i>>], t, n, g, i)
<1>1. n \in Nat /\ Len(m) = n /\ Len(m) \in Nat /\ i \in Nat /\ Len(t) \in Nat /\ n <= Len(t) /\ i \in 1 .. Len(t) + 1
  BY Message
<1>2. IsGrammar(g, m)
  BY DEF Reading
<1> DEFINE o == p[<<"value", i>>]
<1>3. Arms(p, t, n, i, o)
  <2>1. Outcomes(p, t, n, i)
    BY <1>1, Outcome
  <2>2. Arms(p, t, n, i, ParseAt(p, t, n, i))
    BY ValueCases
  <2> QED BY <2>1, <2>2 DEF Outcomes
<1>4. ASSUME NEW b \in i .. n, NEW v \in g[<<"value", i, b>>]
      PROVE  Exactly(o, v, b + 1, HasEmpty(t, n))
  <2>1. i \in 1 .. n /\ i <= n /\ i # n + 1 /\ b \in 1 .. n /\ i \in 1 .. Len(m) + 1 /\ b \in 0 .. Len(m) /\ b \in Nat
    BY <1>1
  <2>2. ValueLike(g, m, i, b, v)
    BY <1>1, <1>2, <2>1, Derived
  <2>3. m[i].type = Type(t, i) /\ m[i] = TokenAt(t, i)
    <3>1. m[i] = t[i]
      BY <2>1, Message
    <3>2. TokenAt(t, i) = t[i]
      BY <2>1, Message
    <3> QED BY <3>1, <3>2 DEF Type
  <2>4. m[b].type = Type(t, b)
    BY <2>1, Message
  <2>5. CASE i = b /\ m[i].type \in Primitive /\ v = Denoted(m[i])
    <3> DEFINE w == Got(v, TRUE, i + 1)
    <3>1. o = w
      BY <1>3, <2>1, <2>3, <2>5 DEF Arms
    <3>2. w.is = "value" /\ w.value = v /\ w.next = i + 1
      BY DEF Got
    <3> HIDE DEF o, w
    <3> QED BY <2>5, <3>1, <3>2 DEF Exactly
  <2>6. CASE m[i].type = "left_bracket" /\ m[b].type = "right_bracket" /\ b = i + 1 /\ v = Array(<<>>)
    <3> DEFINE w == Got(v, TRUE, i + 2)
    <3>1. o = w
      BY <1>3, <2>1, <2>3, <2>4, <2>6 DEF Arms
    <3>2. w.is = "value" /\ w.value = v /\ w.next = i + 2
      BY DEF Got
    <3>3. i + 2 = b + 1
      BY <1>1, <2>6
    <3> HIDE DEF o, w
    <3> QED BY <3>1, <3>2, <3>3 DEF Exactly
  <2>7. ASSUME m[i].type = "left_bracket", m[b].type = "right_bracket", b > i + 1,
               NEW l \in g[<<"list", i + 1, b - 1>>], v = Array(l)
        PROVE  Exactly(o, v, b + 1, HasEmpty(t, n))
    <3> DEFINE kind == "elements"
               r == p[<<kind, i + 1>>]
    <3>1. i + 1 <= b - 1
      BY <1>1, <2>1, <2>7
    <3>2. /\ i + 1 \in 1 .. n /\ b - 1 \in i + 1 .. n - 1 /\ b - 1 \in i + 1 .. n
          /\ (b - 1) + 1 = b /\ (b - 1) + 2 = b + 1
      BY <1>1, <2>1, <3>1, InnerEnds
    <3>3. Type(t, i + 1) # "right_bracket"
      <4> DEFINE a == i + 1
                 e == b - 1
      <4>1. a \in 1 .. Len(m) /\ e \in a .. Len(m) /\ l \in g[<<"list", a, e>>]
        BY <1>1, <2>7, <3>2
      <4> HIDE DEF a, e
      <4>2. m[a].type # "right_bracket"
        BY <1>1, <1>2, <4>1, ListStart
      <4>3. m[a].type = Type(t, a)
        BY <1>1, <4>1, Message
      <4> QED BY <4>2, <4>3 DEF a
    <3>4. o = ArrayOf(r)
      BY <1>3, <2>1, <2>3, <2>7, <3>3 DEF Arms
    <3>5. LoopFull(r, t, n, g, kind, i + 1)
      BY <2>1
    <3>6. Lists(kind) = "list" /\ Close(kind) = "right_bracket"
      BY DEF Lists, Close
    <3> HIDE DEF kind, r, o
    <3>7. ExactlyParts(r, l, (b - 1) + 2, HasEmpty(t, n))
      <4>1. Type(t, (b - 1) + 1) = Close(kind) /\ l \in g[<<Lists(kind), i + 1, b - 1>>]
        BY <2>4, <2>7, <3>2, <3>6
      <4> QED BY <3>2, <3>5, <4>1 DEF LoopFull
    <3>8. ExactlyParts(r, l, b + 1, HasEmpty(t, n))
      BY <3>2, <3>7
    <3>9. Exactly(ArrayOf(r), Array(l), b + 1, HasEmpty(t, n))
      <4>1. LoopShaped(r, t, i + 1)
        <5>0. \A c \in 1 .. n : c \in 1 .. Len(t) + 1
          BY <1>1
        <5>1. i + 1 \in 1 .. Len(t) + 1
          BY <3>2, <5>0
        <5>2. Outcomes(p, t, n, i + 1)
          BY <5>1, Outcome
        <5> QED BY <5>2 DEF Outcomes, r, kind
      <4> QED BY <3>8, <4>1, WholeExact
    <3> QED BY <2>7, <3>4, <3>9
  <2>8. ASSUME m[i].type = "left_brace", m[b].type = "right_brace",
               NEW l \in g[<<"pairs", i + 1, b - 1>>], v = ObjectOf(l), b > i + 1
        PROVE  Exactly(o, v, b + 1, HasEmpty(t, n))
    <3> DEFINE kind == "members"
               r == p[<<kind, i + 1>>]
    <3>1. i + 1 <= b - 1
      <4> DEFINE a == i + 1
                 e == b - 1
      <4>1. a \in 1 .. Len(m) + 1 /\ e \in 0 .. Len(m) /\ l \in g[<<"pairs", a, e>>]
        BY <1>1, <2>1, <2>8
      <4> HIDE DEF a, e
      <4>2. a <= e
        BY <1>1, <1>2, <4>1, Derived
      <4> QED BY <4>2 DEF a, e
    <3>2. /\ i + 1 \in 1 .. n /\ b - 1 \in i + 1 .. n - 1 /\ b - 1 \in i + 1 .. n
          /\ (b - 1) + 1 = b /\ (b - 1) + 2 = b + 1
      BY <1>1, <2>1, <3>1, InnerEnds
    <3>4. o = ObjectFrom(r)
      BY <1>3, <2>1, <2>3, <2>8 DEF Arms
    <3>5. LoopFull(r, t, n, g, kind, i + 1)
      BY <2>1
    <3>6. Lists(kind) = "pairs" /\ Close(kind) = "right_brace"
      BY DEF Lists, Close
    <3> HIDE DEF kind, r, o
    <3>7. ExactlyParts(r, l, (b - 1) + 2, HasEmpty(t, n))
      <4>1. Type(t, (b - 1) + 1) = Close(kind) /\ l \in g[<<Lists(kind), i + 1, b - 1>>]
        BY <2>4, <2>8, <3>2, <3>6
      <4> QED BY <3>2, <3>5, <4>1 DEF LoopFull
    <3>8. ExactlyParts(r, l, b + 1, HasEmpty(t, n))
      BY <3>2, <3>7
    <3>9. Exactly(ObjectFrom(r), ObjectOf(l), b + 1, HasEmpty(t, n))
      <4>1. LoopShaped(r, t, i + 1)
        <5>0. \A c \in 1 .. n : c \in 1 .. Len(t) + 1
          BY <1>1
        <5>1. i + 1 \in 1 .. Len(t) + 1
          BY <3>2, <5>0
        <5>2. Outcomes(p, t, n, i + 1)
          BY <5>1, Outcome
        <5> QED BY <5>2 DEF Outcomes, r, kind
      <4> QED BY <3>8, <4>1, WholeExact
    <3> QED BY <2>8, <3>4, <3>9
  <2>9. ASSUME m[i].type = "left_brace", m[b].type = "right_brace", b = i + 1
        PROVE  Exactly(o, v, b + 1, HasEmpty(t, n))
    <3>1. HasEmpty(t, n)
      <4>1. i \in 1 .. n /\ i + 1 <= n
        BY <1>1, <2>1, <2>9
      <4>2. Type(t, i) = "left_brace" /\ Type(t, i + 1) = "right_brace"
        BY <2>3, <2>4, <2>9
      <4> QED BY <4>1, <4>2 DEF HasEmpty
    <3>2. b \in 1 .. n + 1 /\ b # n + 1 /\ b \in 1 .. Len(t) + 1
      BY <1>1, <2>1
    <3> DEFINE r == p[<<"members", b>>]
               u == p[<<"value", b>>]
    <3>3. Outcomes(p, t, n, b)
      BY <3>2, Outcome
    <3>4. u = NoValue
      <4>1. Arms(p, t, n, b, u)
        BY <3>3, ValueCases DEF Outcomes
      <4>2. Type(t, b) = "right_brace"
        BY <2>4, <2>9
      <4> HIDE DEF u
      <4> QED BY <3>2, <4>1, <4>2 DEF Arms, Primitive
    <3>5. r = GivenUp(<<>>, TRUE)
      <4>1. r = Members(p, t, n, b) /\ ValueShaped(u, t, b)
        BY <3>3 DEF Outcomes
      <4> QED BY <3>4, <4>1, LoopCases
    <3>6. o = ObjectFrom(r)
      BY <1>3, <2>1, <2>3, <2>9 DEF Arms
    <3> HIDE DEF r, o, u
    <3>7. r.is = "NULL" /\ r.fits = TRUE /\ r.parts = <<>>
      BY <3>5 DEF GivenUp
    <3>8. ObjectFrom(r) = Whole(r, ObjectOf(r.parts), TRUE)
      <4>1. r.fits /\ Len(r.parts) <= ArrayRoom
        BY <3>7 DEF ArrayRoom
      <4>2. (r.fits /\ Len(r.parts) <= ArrayRoom) = TRUE
        BY <4>1
      <4> QED BY <3>7, <4>2 DEF ObjectFrom
    <3>9. Whole(r, ObjectOf(r.parts), TRUE) = NoValue
      BY <3>7 DEF Whole
    <3>10. o = NoValue
      BY <3>6, <3>8, <3>9
    <3>11. o.is = "NULL"
      BY <3>10 DEF NoValue
    <3> QED BY <3>1, <3>11 DEF Exactly
  <2> HIDE DEF o
  <2> QED BY <2>2, <2>5, <2>6, <2>7, <2>8, <2>9 DEF ValueLike
<1> HIDE DEF o
<1>5. ValueFull(o, t, n, g, i)
  BY <1>4 DEF ValueFull
<1> QED BY <1>5 DEF o

(* Whatever element there is at a place the loop of an array has parsed it. *)
LEMMA ElementsFull ==
    ASSUME NEW t, NEW n, NEW m, NEW p, NEW g, Reading(t, n, m, p, g), NEW i \in 1 .. n + 1,
           ValueFull(p[<<"value", i>>], t, n, g, i),
           \A j \in i + 1 .. n + 1 : LoopFull(p[<<"elements", j>>], t, n, g, "elements", j)
    PROVE  LoopFull(p[<<"elements", i>>], t, n, g, "elements", i)
<1>1. n \in Nat /\ i \in Nat /\ Len(t) \in Nat /\ n <= Len(t) /\ i \in 1 .. Len(t) + 1
  BY Message
<1> DEFINE kind == "elements"
           o == p[<<"value", i>>]
           w == p[<<kind, i>>]
<1>2. w = Elements(p, t, n, i) /\ ValueShaped(o, t, i)
  <2>1. Outcomes(p, t, n, i)
    BY <1>1, Outcome
  <2> QED BY <2>1 DEF Outcomes
<1>3. /\ o = Undefined => w = Undefined
      /\ o = NoValue => w = GivenUp(<<>>, TRUE)
      /\ o.is = "value" => w = After(p, t, n, kind, "right_bracket", o.value, o.fits, o.next)
  BY <1>2, LoopCases
<1>4. kind \in {"elements", "members"} /\ Close(kind) = "right_bracket"
  BY DEF Close
<1>5. ASSUME NEW e \in i .. n - 1, NEW x \in One(g, m, kind, i, e)
      PROVE  Begun(w, p, t, n, kind, x, e)
  <2>1. x \in g[<<"value", i, e>>] /\ e \in i .. n
    BY <1>1, <1>5 DEF One
  <2>2. Exactly(o, x, e + 1, HasEmpty(t, n))
    BY <2>1 DEF ValueFull
  <2>3. o.is = "value" => Flag(o.fits)
    <3> HIDE DEF o
    <3> QED BY <1>2, ValueIs DEF Flag
  <2>4. CASE o = Undefined
    BY <1>3, <2>4 DEF Begun
  <2>5. CASE o.is = "value" /\ o.value = x /\ o.next = e + 1
    <3>1. w = After(p, t, n, kind, Close(kind), x, o.fits, e + 1)
      BY <1>3, <1>4, <2>5
    <3> HIDE DEF o, w, kind
    <3> QED BY <2>3, <2>5, <3>1 DEF Begun
  <2>6. CASE o.is = "NULL" /\ HasEmpty(t, n)
    <3>1. w.is = "NULL"
      BY <1>2, <1>3, <2>6, ValueIs DEF GivenUp
    <3> QED BY <2>6, <3>1 DEF Begun
  <2> HIDE DEF o
  <2> QED BY <2>2, <2>4, <2>5, <2>6 DEF Exactly
<1>6. \A j \in i + 1 .. n + 1 : LoopFull(p[<<kind, j>>], t, n, g, kind, j)
  BY Zenon
<1> HIDE DEF kind, w
<1>7. LoopFull(w, t, n, g, kind, i)
  BY <1>4, <1>5, <1>6, LoopFullStep
<1> QED BY <1>7 DEF w, kind

(* A string is parsed as what it denotes. *)
LEMMA StringToken ==
    ASSUME NEW t, NEW n, NEW m, NEW p, NEW g, Reading(t, n, m, p, g), NEW i \in 1 .. n, Type(t, i) = "string"
    PROVE  LET o == p[<<"value", i>>] IN
           /\ o.is = "value" /\ o.next = i + 1
           /\ o.value.type = "string" /\ o.value.string = m[i].text
<1>1. i \in 1 .. Len(t) + 1 /\ i # n + 1
  BY Message
<1> DEFINE o == p[<<"value", i>>]
<1>2. Arms(p, t, n, i, o)
  <2>1. Outcomes(p, t, n, i)
    BY <1>1, Outcome
  <2>2. Arms(p, t, n, i, ParseAt(p, t, n, i))
    BY ValueCases
  <2> QED BY <2>1, <2>2 DEF Outcomes
<1>3. m[i] = TokenAt(t, i) /\ TokenAt(t, i).type = "string"
  <2>1. m[i] = t[i]
    BY Message
  <2>2. TokenAt(t, i) = t[i]
    BY Message
  <2> QED BY <2>1, <2>2 DEF Type
<1> DEFINE v == Denoted(m[i])
<1>4. o = Got(v, TRUE, i + 1)
  <2> HIDE DEF o
  <2> QED BY <1>1, <1>2, <1>3 DEF Arms, Primitive
<1>5. v = String(m[i].text)
  BY <1>3 DEF Denoted
<1>6. v.type = "string" /\ v.string = m[i].text
  BY <1>5 DEF String
<1> HIDE DEF v, o
<1>7. o.is = "value" /\ o.next = i + 1 /\ o.value = v
  BY <1>4 DEF Got
<1>8. o.value.type = "string" /\ o.value.string = m[i].text
  BY <1>6, <1>7
<1> QED BY <1>7, <1>8 DEF o

(* Whatever property there is at a place the loop of an object has parsed it. *)
LEMMA MembersFull ==
    ASSUME NEW t, NEW n, NEW m, NEW p, NEW g, Reading(t, n, m, p, g), NEW i \in 1 .. n + 1,
           \A j \in i .. n + 1 : ValueFull(p[<<"value", j>>], t, n, g, j),
           \A j \in i + 1 .. n + 1 : LoopFull(p[<<"members", j>>], t, n, g, "members", j)
    PROVE  LoopFull(p[<<"members", i>>], t, n, g, "members", i)
<1>1. n \in Nat /\ i \in Nat /\ Len(t) \in Nat /\ n <= Len(t) /\ i \in 1 .. Len(t) + 1
  BY Message
<1> DEFINE kind == "members"
           o == p[<<"value", i>>]
           w == p[<<kind, i>>]
<1>2. w = Members(p, t, n, i) /\ ValueShaped(o, t, i)
  <2>1. Outcomes(p, t, n, i)
    BY <1>1, Outcome
  <2> QED BY <2>1 DEF Outcomes
<1>3. MemberArms(p, t, n, o, w)
  BY <1>2, MemberCases
<1>4. kind \in {"elements", "members"} /\ Close(kind) = "right_brace"
  BY DEF Close
<1>5. ASSUME NEW e \in i .. n - 1, NEW x \in One(g, m, kind, i, e)
      PROVE  Begun(w, p, t, n, kind, x, e)
  <2>1. x \in Pairs(g, m, i, e)
    BY <1>5 DEF One
  <2>2. e > i + 1 /\ m[i].type = "string" /\ m[i + 1].type = "colon"
    BY <2>1 DEF Pairs
  <2>3. \E v \in g[<<"value", i + 2, e>>] : x = <<m[i].text, v>>
    BY <2>1, <2>2 DEF Pairs
  <2>4. PICK v \in g[<<"value", i + 2, e>>] : x = <<m[i].text, v>>
    BY <2>3
  <2>5. /\ i \in 1 .. n /\ i + 1 \in 1 .. n /\ i + 1 # n + 1 /\ e \in i + 2 .. n /\ i + 2 \in i .. n + 1
        /\ i + 2 \in 1 .. Len(t) + 1 /\ (i + 1) + 1 = i + 2
    BY <1>1, <1>5, <2>2
  <2>6. Type(t, i) = "string" /\ Type(t, i + 1) = "colon"
    <3>1. m[i].type = Type(t, i)
      BY <2>5, Message
    <3>2. m[i + 1].type = Type(t, i + 1)
      BY <2>5, Message
    <3> QED BY <2>2, <3>1, <3>2
  <2>7. /\ o.is = "value" /\ o.next = i + 1
        /\ o.value.type = "string" /\ o.value.string = m[i].text
    BY <2>5, <2>6, StringToken
  <2>8. Named(o, t, n)
    <3> HIDE DEF o
    <3> QED BY <2>5, <2>6, <2>7 DEF Named
  <2> DEFINE u == p[<<"value", i + 2>>]
  <2>9. ValueShaped(u, t, i + 2) /\ ValueFull(u, t, n, g, i + 2)
    <3>1. Outcomes(p, t, n, i + 2)
      BY <2>5, Outcome
    <3> QED BY <2>5, <3>1 DEF Outcomes
  <2>10. u = p[<<"value", o.next + 1>>]
    BY <2>5, <2>7
  <2> HIDE DEF u, o, w
  <2>11. u.is \in {"undefined", "NULL", "value"} /\ (u.is = "value" => Flag(u.fits))
    BY <2>9, ValueIs DEF Flag
  <2>12. w = Paired(p, t, n, o, u)
    BY <1>3, <2>7, <2>8, <2>10, <2>11 DEF MemberArms
  <2>13. Exactly(u, v, e + 1, HasEmpty(t, n))
    BY <2>4, <2>5, <2>9 DEF ValueFull
  <2>14. CASE u = Undefined
    <3>1. u.is = "undefined"
      BY <2>14 DEF Undefined
    <3> QED BY <2>12, <3>1 DEF Paired, Begun
  <2>15. CASE u.is = "value" /\ u.value = v /\ u.next = e + 1
    <3>1. CASE ~Hashable(o.value.string, HashmapEntries)
      BY <2>12, <2>15, <3>1 DEF Paired, Begun
    <3>2. CASE Hashable(o.value.string, HashmapEntries)
      <4>1. w = After(p, t, n, "members", "right_brace", <<o.value.string, u.value>>, u.fits, u.next)
        BY <2>12, <2>15, <3>2 DEF Paired
      <4>2. w = After(p, t, n, kind, Close(kind), x, u.fits, e + 1)
        BY <1>4, <2>4, <2>7, <2>15, <4>1
      <4> HIDE DEF kind
      <4> QED BY <2>11, <2>15, <4>2 DEF Begun
    <3> QED BY <3>1, <3>2
  <2>16. CASE u.is = "NULL" /\ HasEmpty(t, n)
    <3>1. w = GivenUp(<<>>, TRUE)
      BY <2>12, <2>16 DEF Paired
    <3>2. w.is = "NULL"
      BY <3>1 DEF GivenUp
    <3> QED BY <2>16, <3>2 DEF Begun
  <2> QED BY <2>13, <2>14, <2>15, <2>16 DEF Exactly
<1>6. \A j \in i + 1 .. n + 1 : LoopFull(p[<<kind, j>>], t, n, g, kind, j)
  BY Zenon
<1> HIDE DEF kind, w
<1>7. LoopFull(w, t, n, g, kind, i)
  BY <1>4, <1>5, <1>6, LoopFullStep
<1> QED BY <1>7 DEF w, kind

\* Whatever is derived from a place is what the parser returns there.
FullAt(t, n, p, g, at) ==
    IF at[1] = "value" THEN ValueFull(p[at], t, n, g, at[2]) ELSE LoopFull(p[at], t, n, g, at[1], at[2])

(* The parser is complete at every place up to the end of the message. *)
LEMMA ParserFull ==
    ASSUME NEW t, NEW n, NEW m, NEW p, NEW g, Reading(t, n, m, p, g), NEW i \in 1 .. n + 1
    PROVE  ValueFull(p[<<"value", i>>], t, n, g, i)
<1>1. n \in Nat /\ Len(t) \in Nat /\ n <= Len(t)
  BY Message
<1> DEFINE B == {at \in Places(t) : at[2] <= n + 1 /\ ~FullAt(t, n, p, g, at)}
<1>2. ASSUME NEW at \in B, \A later \in B : ~(Rank(later) > Rank(at))
      PROVE  FALSE
  <2> DEFINE j == at[2]
  <2>1. at[1] \in {"value", "elements", "members"} /\ j \in 1 .. n + 1 /\ at = <<at[1], j>> /\ ~FullAt(t, n, p, g, at)
    BY <1>1 DEF Places
  <2>2. ASSUME NEW kind \in {"value", "elements", "members"}, NEW k \in j .. n + 1,
               k > j \/ (kind = "value" /\ at[1] # "value")
        PROVE  FullAt(t, n, p, g, <<kind, k>>)
    <3> DEFINE later == <<kind, k>>
    <3>1. later[1] = kind /\ later[2] = k /\ later \in Places(t)
      BY <1>1, <2>1 DEF Places
    <3> HIDE DEF later, B
    <3>2. Rank(later) = 2 * k + (IF kind = "value" THEN 1 ELSE 0) /\ Rank(at) = 2 * j + (IF at[1] = "value" THEN 1 ELSE 0)
      BY <3>1 DEF Rank
    <3> HIDE DEF j
    <3>3. Rank(later) > Rank(at)
      BY <1>1, <2>1, <2>2, <3>2
    <3>4. later \notin B /\ k <= n + 1
      BY <1>1, <1>2, <2>1, <3>3
    <3> QED BY <3>1, <3>4 DEF B, later
  <2>3. ASSUME NEW kind \in {"elements", "members"}, NEW k \in j + 1 .. n + 1
        PROVE  LoopFull(p[<<kind, k>>], t, n, g, kind, k)
    <3> DEFINE later == <<kind, k>>
    <3>1. k \in j .. n + 1 /\ k > j /\ kind \in {"value", "elements", "members"}
      BY <1>1, <2>1
    <3> HIDE DEF j, B
    <3>2. FullAt(t, n, p, g, later)
      BY <2>2, <3>1, Zenon DEF later
    <3>3. later[1] = kind /\ later[2] = k /\ kind # "value"
      OBVIOUS
    <3> HIDE DEF later
    <3>4. LoopFull(p[later], t, n, g, kind, k)
      BY <3>2, <3>3 DEF FullAt
    <3> QED BY <3>4 DEF later
  <2>4. ASSUME NEW k \in j .. n + 1, k > j \/ at[1] # "value"
        PROVE  ValueFull(p[<<"value", k>>], t, n, g, k)
    <3> DEFINE kind == "value"
               later == <<kind, k>>
    <3>1. kind \in {"value", "elements", "members"} /\ kind = "value"
      OBVIOUS
    <3> HIDE DEF j, B, kind
    <3>2. FullAt(t, n, p, g, later)
      BY <2>2, <2>4, <3>1, Zenon DEF later
    <3>3. later[1] = "value" /\ later[2] = k
      BY <3>1
    <3> HIDE DEF later
    <3>4. ValueFull(p[later], t, n, g, k)
      BY <3>2, <3>3 DEF FullAt
    <3> QED BY <3>1, <3>4 DEF later
  <2>5. CASE at[1] = "value"
    <3>1. j <= n => j + 1 \in j + 1 .. n + 1
      BY <1>1, <2>1
    <3>2. j <= n => \A kind \in {"elements", "members"} : LoopFull(p[<<kind, j + 1>>], t, n, g, kind, j + 1)
      <4> HIDE DEF j
      <4> QED BY <2>3, <3>1
    <3>3. ValueFull(p[<<"value", j>>], t, n, g, j)
      <4> HIDE DEF j
      <4> QED BY <2>1, <3>2, ValueFullStep
    <3> QED BY <2>1, <2>5, <3>3 DEF FullAt
  <2>6. CASE at[1] = "elements"
    <3>1. j \in j .. n + 1
      BY <1>1, <2>1
    <3>2. \A k \in j + 1 .. n + 1 : LoopFull(p[<<"elements", k>>], t, n, g, "elements", k)
      <4> HIDE DEF j, B
      <4> QED BY <2>3, Zenon
    <3>3. LoopFull(p[<<"elements", j>>], t, n, g, "elements", j)
      <4>1. ValueFull(p[<<"value", j>>], t, n, g, j)
        <5> HIDE DEF j, B
        <5>1. at[1] # "value"
          BY <2>6
        <5> QED BY <2>4, <3>1, <5>1, Zenon
      <4> HIDE DEF j
      <4> QED BY <2>1, <3>2, <4>1, ElementsFull
    <3> QED BY <2>1, <2>6, <3>3 DEF FullAt
  <2>7. CASE at[1] = "members"
    <3>1. \A k \in j .. n + 1 : ValueFull(p[<<"value", k>>], t, n, g, k)
      <4> HIDE DEF j, B
      <4>1. at[1] # "value"
        BY <2>7
      <4> QED BY <2>4, <4>1, Zenon
    <3>2. \A k \in j + 1 .. n + 1 : LoopFull(p[<<"members", k>>], t, n, g, "members", k)
      <4> HIDE DEF j, B
      <4> QED BY <2>3, Zenon
    <3>3. LoopFull(p[<<"members", j>>], t, n, g, "members", j)
      <4> HIDE DEF j
      <4> QED BY <2>1, <3>1, <3>2, MembersFull
    <3> QED BY <2>1, <2>7, <3>3 DEF FullAt
  <2> QED BY <2>1, <2>5, <2>6, <2>7
<1>3. B = {}
  <2>1. B \in SUBSET Places(t) /\ Len(t) \in Nat
    BY <1>1
  <2>2. \A at \in B : \E later \in B : Rank(later) > Rank(at)
    <3> HIDE DEF B
    <3> QED BY <1>2
  <2> HIDE DEF B
  <2> QED BY <2>1, <2>2, Downwards
<1> DEFINE at == <<"value", i>>
<1>4. at[1] = "value" /\ at[2] = i /\ at \in Places(t) /\ at[2] <= n + 1
  BY <1>1 DEF Places
<1>5. FullAt(t, n, p, g, at)
  <2> HIDE DEF at
  <2> QED BY <1>3, <1>4
<1> HIDE DEF at
<1>6. ValueFull(p[at], t, n, g, i)
  BY <1>4, <1>5 DEF FullAt
<1> QED BY <1>6 DEF at

(* What deserialize_json returns for a message is what the grammar says. *)
LEMMA Agreement ==
    ASSUME NEW t \in Seq(Tokenlike), NEW n \in 0 .. Len(t), ~Completed(t, n)
    PROVE  LET m == SubSeq(t, 1, n)
               o == Parse(t, n)
           IN  /\ o.is \in {"undefined", "NULL", "value"}
               /\ o.is = "undefined" => Excused(t, n, 1)
               /\ o.is = "NULL" => Meanings(m) = {} \/ HasEmpty(t, n)
               /\ o.is = "value" => Meanings(m) = {o.value}
<1> DEFINE m == SubSeq(t, 1, n)
<1>1. n \in Nat /\ Len(t) \in Nat /\ n <= Len(t) /\ Len(m) = n /\ DOMAIN m = 1 .. n /\ 1 \in 1 .. n + 1 /\ 1 \in 1 .. Len(t) + 1
  OBVIOUS
<1>2. PICK p : /\ IsParse(p, t, n, Places(t))
               /\ \A at \in Places(t) : Shaped(p[at], t, at)
               /\ Parse(t, n) = p[<<"value", 1>>]
  BY <1>1, ParseIs
<1>3. PICK g : IsGrammar(g, m) /\ Meanings(m) = UNION {g[<<"value", 1, k>>] : k \in DOMAIN m}
  <2>1. Len(m) \in Nat
    BY <1>1
  <2> HIDE DEF m
  <2> QED BY <2>1, MeaningsIs
<1>4. Reading(t, n, m, p, g)
  BY <1>2, <1>3 DEF Reading
<1> DEFINE o == p[<<"value", 1>>]
           one == 1
<1>5. one \in 1 .. n + 1 /\ one \in 1 .. Len(t) + 1 /\ one = 1
  BY <1>1
<1> HIDE DEF m
<1>6. ValueSound(o, t, n, g, 1) /\ ValueFull(o, t, n, g, 1) /\ ValueShaped(o, t, 1)
  <2> HIDE DEF one
  <2>1. ValueSound(p[<<"value", one>>], t, n, g, one)
    BY <1>4, <1>5, ParserSound
  <2>2. ValueFull(p[<<"value", one>>], t, n, g, one)
    BY <1>4, <1>5, ParserFull
  <2>3. Outcomes(p, t, n, one)
    BY <1>4, <1>5, Outcome
  <2> QED BY <1>5, <2>1, <2>2, <2>3 DEF Outcomes
<1> HIDE DEF o, one
<1>7. o.is \in {"undefined", "NULL", "value"}
  BY <1>6, ValueIs
<1>8. o.is = "undefined" => Excused(t, n, 1)
  BY <1>6 DEF ValueSound
<1>9. \A k \in DOMAIN m : \A v \in g[<<"value", 1, k>>] : Exactly(o, v, k + 1, HasEmpty(t, n))
  BY <1>1, <1>6 DEF ValueFull
<1>10. ASSUME o.is = "NULL", ~HasEmpty(t, n) PROVE Meanings(m) = {}
  <2>1. ASSUME NEW k \in DOMAIN m, NEW v \in g[<<"value", 1, k>>] PROVE FALSE
    BY <1>9, <1>10, <2>1 DEF Exactly, Undefined
  <2> QED BY <1>3, <2>1
<1>11. ASSUME o.is = "value" PROVE Meanings(m) = {o.value}
  <2>1. ASSUME NEW k \in DOMAIN m, NEW v \in g[<<"value", 1, k>>] PROVE v = o.value
    BY <1>9, <1>11, <2>1 DEF Exactly, Undefined
  <2>2. o.next <= n + 1 /\ o.value \in g[<<"value", 1, o.next - 1>>]
    BY <1>6, <1>11 DEF ValueSound
  <2>3. o.next \in 1 + 1 .. Len(t) + 2
    BY <1>6, <1>11, ValueIs
  <2> DEFINE e == o.next - 1
  <2>4. e \in DOMAIN m
    <3> DEFINE k == o.next
    <3>1. k <= n + 1 /\ k \in 1 + 1 .. Len(t) + 2
      BY <2>2, <2>3
    <3> HIDE DEF k
    <3>2. k - 1 \in 1 .. n
      BY <1>1, <3>1
    <3> QED BY <1>1, <3>2 DEF k
  <2>5. o.value \in g[<<"value", 1, e>>]
    BY <2>2
  <2> HIDE DEF e
  <2> QED BY <1>3, <2>1, <2>4, <2>5
<1>12. Parse(t, n) = o
  BY <1>2 DEF o
<1> QED BY <1>7, <1>8, <1>10, <1>11, <1>12 DEF m

(* Copying the rest of what is left behind a message gives tokens. *)
LEMMA OverIs ==
    ASSUME NEW S, NEW s \in Seq(S), NEW t \in Seq(S)
    PROVE  /\ Over(s, t) \in Seq(S) /\ Len(s) <= Len(Over(s, t))
<1> DEFINE r == SubSeq(t, Len(s) + 1, Len(t))
<1>1. r \in Seq(S)
  OBVIOUS
<1> HIDE DEF r
<1>2. s \o r \in Seq(S) /\ Len(s \o r) = Len(s) + Len(r) /\ Len(r) \in Nat /\ Len(s) \in Nat
  BY <1>1
<1> QED BY <1>2 DEF Over, r

\* What is in the array are tokens, and the message does not end after them.
ReaderTypeOK == array \in Seq(Tokenlike) /\ count \in 0 .. Len(array)

(* The array of tokens, as tokenize_json and its callers leave it. *)
THEOREM ReaderTypes == ReaderSpec => []ReaderTypeOK
<1>0. Tokenlike = [type : Primitive \cup Signs, text : Seq(Int)]
  BY DEF Tokenlike
<1>1. ReaderInit => ReaderTypeOK
  <2> SUFFICES ASSUME ReaderInit PROVE ReaderTypeOK
    OBVIOUS
  <2>1. PICK left \in Leftovers : array = Over(opening, left)
    BY DEF ReaderInit
  <2>2. opening \in Seq(Tokenlike) /\ left \in Seq(Tokenlike)
    BY <1>0, <2>1, ReaderConstants DEF ReaderInit
  <2>3. array \in Seq(Tokenlike) /\ Len(opening) <= Len(array) /\ count = Len(opening)
    BY <2>1, <2>2, OverIs DEF ReaderInit
  <2>4. Len(opening) \in Nat /\ Len(array) \in Nat
    BY <2>2, <2>3
  <2> QED BY <2>3, <2>4 DEF ReaderTypeOK
<1>2. ReaderTypeOK /\ [ReaderNext]_readerVars => ReaderTypeOK'
  <2> SUFFICES ASSUME ReaderTypeOK, [ReaderNext]_readerVars PROVE ReaderTypeOK'
    OBVIOUS
  <2>1. CASE UNCHANGED readerVars
    BY <2>1 DEF readerVars, ReaderTypeOK
  <2>2. ASSUME NEW u \in Tokens, ReadToken(u) PROVE ReaderTypeOK'
    <3> DEFINE s == Append(message, u)
    <3>1. u \in Tokenlike
      <4>1. <<u>> \in Seq(Tokenlike)
        BY <1>0, ReaderConstants
      <4> QED BY <4>1
    <3>2. message \in Seq(Tokenlike) /\ Len(message) = count /\ count \in Nat
      BY DEF ReaderTypeOK, message
    <3>3. s \in Seq(Tokenlike) /\ Len(s) = count + 1
      BY <3>1, <3>2
    <3>4. array' = Over(s, array) /\ count' = count + 1
      BY <2>2 DEF ReadToken
    <3> HIDE DEF s
    <3>5. array' \in Seq(Tokenlike) /\ Len(s) <= Len(array')
      BY <3>3, <3>4, OverIs DEF ReaderTypeOK
    <3>6. Len(array') \in Nat
      BY <3>5
    <3> QED BY <3>2, <3>3, <3>4, <3>5, <3>6 DEF ReaderTypeOK
  <2> QED BY <2>1, <2>2 DEF ReaderNext
<1> QED BY <1>1, <1>2, PTL DEF ReaderSpec

(* deserialize_json returns the one value that a beginning of the message derives, and NULL if *)
(* there is none, unless a right bracket was left behind a message that ends in a left one, or *)
(* there is a fourth element or property, or a name that hashes below 0; and NULL also for     *)
(* messages that have an empty object somewhere, which the grammar derives.                    *)
THEOREM ReadsTheGrammar == ReaderSpec => []AgreesButForEmptyObjects
<1>1. ReaderTypeOK => AgreesButForEmptyObjects
  <2> SUFFICES ASSUME ReaderTypeOK PROVE AgreesButForEmptyObjects
    OBVIOUS
  <2>1. /\ array \in Seq(Tokenlike) /\ count \in 0 .. Len(array) /\ count \in Nat /\ Len(array) \in Nat
        /\ message = SubSeq(array, 1, count) /\ DOMAIN message = 1 .. count
        /\ \A k \in 1 .. count : message[k] = array[k]
    BY DEF ReaderTypeOK, message
  <2>2. \A k \in 1 .. Len(array) : Type(array, k) = array[k].type
    BY <2>1 DEF Type, TokenAt
  <2>3. CASE Completed(array, count)
    <3>1. count > 0 /\ count < Len(array) /\ count \in 1 .. Len(array) /\ count + 1 \in 1 .. Len(array)
      BY <2>1, <2>3 DEF Completed
    <3> QED BY <2>2, <2>3, <3>1 DEF Completed, ClosedByLeftover, AgreesWithGrammar, AgreesButForEmptyObjects
  <2>4. CASE ~Completed(array, count)
    <3> DEFINE m == SubSeq(array, 1, count)
               o == Parse(array, count)
    <3>1. /\ o.is \in {"undefined", "NULL", "value"}
          /\ o.is = "undefined" => Excused(array, count, 1)
          /\ o.is = "NULL" => Meanings(m) = {} \/ HasEmpty(array, count)
          /\ o.is = "value" => Meanings(m) = {o.value}
      BY <2>1, <2>4, Agreement
    <3>2. Parsed = o /\ message = m
      BY <2>1 DEF Parsed
    <3> HIDE DEF o, m
    <3>3. CASE o.is = "undefined"
      <4>1. Commas(message) = {k \in 1 .. count : Type(array, k) = "comma"}
        BY <2>1, <2>2 DEF Commas
      <4>2. CommasIn(array, 1, count) = Cardinality(Commas(message))
        BY <4>1 DEF CommasIn
      <4>3. Unhashable(array, count) =>
                \E k \in DOMAIN message : /\ message[k].type = "string"
                                          /\ ~Hashable(message[k].text, HashmapEntries)
        <5>1. ASSUME NEW k \in 1 .. count, Type(array, k) = "string", ~Hashable(array[k].text, HashmapEntries)
              PROVE  /\ k \in DOMAIN message /\ message[k].type = "string"
                     /\ ~Hashable(message[k].text, HashmapEntries)
          <6>1. k \in DOMAIN message /\ message[k] = array[k] /\ k \in 1 .. Len(array)
            BY <2>1
          <6>2. array[k].type = "string"
            BY <2>2, <5>1, <6>1
          <6> QED BY <5>1, <6>1, <6>2
        <5> QED BY <5>1 DEF Unhashable
      <4> QED BY <3>1, <3>2, <3>3, <4>2, <4>3 DEF Excused, Overtaxed, AgreesWithGrammar, AgreesButForEmptyObjects
    <3>4. CASE o.is = "NULL"
      <4>1. HasEmpty(array, count) => HasEmptyObject
        <5> SUFFICES ASSUME NEW k \in 1 .. count, k + 1 <= count,
                            Type(array, k) = "left_brace", Type(array, k + 1) = "right_brace"
                     PROVE  HasEmptyObject
          BY DEF HasEmpty
        <5>1. k \in 1 .. count - 1 /\ k \in 1 .. Len(array) /\ k + 1 \in 1 .. Len(array)
          BY <2>1
        <5> QED BY <2>2, <5>1 DEF HasEmptyObject
      <4> QED BY <3>1, <3>2, <3>4, <4>1 DEF AgreesWithGrammar, AgreesButForEmptyObjects
    <3>5. CASE o.is = "value"
      BY <3>1, <3>2, <3>5 DEF AgreesWithGrammar, AgreesButForEmptyObjects
    <3> QED BY <3>1, <3>3, <3>4, <3>5
  <2> QED BY <2>3, <2>4
<1> QED BY <1>1, ReaderTypes, PTL

(* The value that a message beginning with a left bracket means is an array, and its elements a sequence. *)
LEMMA BracketsHoldASequence ==
    ASSUME NEW t \in Seq(Tokenlike), NEW n \in 1 .. Len(t), t[1].type = "left_bracket",
           Parse(t, n).is = "value"
    PROVE  IsSequence(Parse(t, n).value.array)
<1>1. PICK p : /\ IsParse(p, t, n, Places(t)) /\ \A at \in Places(t) : Shaped(p[at], t, at)
               /\ Parse(t, n) = p[<<"value", 1>>]
  <2>1. n \in Nat
    OBVIOUS
  <2> QED BY <2>1, ParseIs
<1> DEFINE first == <<"value", 1>>
           inner == <<"elements", 2>>
           o == p[first]
           q == p[inner]
<1>2. first \in Places(t) /\ inner \in Places(t) /\ 1 # n + 1 /\ Type(t, 1) = "left_bracket" /\ 1 + 1 = 2
  BY DEF Places, Type, TokenAt
<1>3. o = ParseAt(p, t, n, 1)
  <2>1. first[1] = "value" /\ first[2] = 1
    OBVIOUS
  <2>2. o = Body(p, t, n, first)
    BY <1>1, <1>2 DEF IsParse
  <2> HIDE DEF first
  <2> QED BY <2>1, <2>2 DEF Body
<1>4. LoopShaped(q, t, 2)
  <2>1. inner[1] = "elements" /\ inner[2] = 2
    OBVIOUS
  <2> HIDE DEF inner
  <2> QED BY <1>1, <1>2, <2>1 DEF Shaped
<1>5. Arms(p, t, n, 1, o)
  BY <1>3, ValueCases
<1>6. o.is = "value"
  BY <1>1
<1> HIDE DEF o
<1>7. \/ o = Got(Array(<<>>), TRUE, 1 + 2)
      \/ o = ArrayOf(q)
  BY <1>2, <1>5 DEF Arms
<1>8. CASE o = Got(Array(<<>>), TRUE, 1 + 2)
  <2>1. o.value.array = <<>> /\ <<>> \in Seq({})
    BY <1>8 DEF Got, Array
  <2> QED BY <1>1, <2>1 DEF o, IsSequence
<1>9. CASE o = ArrayOf(q)
  <2> HIDE DEF q
  <2>1. o = Undefined \/ (q.is # "undefined" /\ o = Whole(q, Array(q.parts), q.fits))
    BY <1>9 DEF ArrayOf
  <2>2. q.is # "undefined" /\ o = Whole(q, Array(q.parts), q.fits)
    BY <1>6, <2>1 DEF Undefined
  <2>3. q.is \in {"undefined", "NULL", "end"} /\ IsSequence(q.parts) /\ q.fits \in BOOLEAN
    BY <1>4, <2>2, LoopIs
  <2>4. q.is = "end"
    <3>1. SUFFICES ASSUME q.is = "NULL" PROVE FALSE
      BY <2>2, <2>3
    <3>2. o = NoValue \/ o = Undefined
      BY <2>2, <2>3, <3>1 DEF Whole
    <3> QED BY <1>6, <3>2 DEF NoValue, Undefined
  <2>5. o = Got(Array(q.parts), q.fits, q.next)
    BY <2>2, <2>4 DEF Whole
  <2>6. o.value.array = q.parts
    BY <2>5 DEF Got, Array
  <2> QED BY <1>1, <2>3, <2>6 DEF o
<1> QED BY <1>7, <1>8, <1>9

-----------------------------------------------------------------------------
(* The index of files *)



(* The greatest number up to k is k. *)
LEMMA LastOf ==
    ASSUME NEW k \in Nat \ {0}
    PROVE  Max(1 .. k) = k /\ (1 .. k) \ {k} = 1 .. k - 1
<1>1. \A y \in 1 .. k : k >= y
  OBVIOUS
<1>2. k \in 1 .. k
  OBVIOUS
<1>3. \A x \in 1 .. k : (\A y \in 1 .. k : x >= y) => x = k
  OBVIOUS
<1> DEFINE x == Max(1 .. k)
<1>4. x \in 1 .. k /\ \A y \in 1 .. k : x >= y
  <2>1. x = CHOOSE z \in 1 .. k : \A y \in 1 .. k : z >= y
    BY Zenon DEF Max
  <2>2. \E z \in 1 .. k : \A y \in 1 .. k : z >= y
    BY <1>1, <1>2
  <2> HIDE DEF x
  <2> QED BY <2>1, <2>2
<1> HIDE DEF x
<1>5. x = k
  BY <1>3, <1>4
<1> QED BY <1>5 DEF x

-----------------------------------------------------------------------------
(* Folds: a folding function's value at the numbers up to k is made of that at those up to k - 1. *)

\* Folding is recursion on the subsets of the places of a sequence, by their greatest one.
Folds(w, G, base, D) ==
    w = [s \in D |-> IF s = {} THEN base ELSE G[<<w[s \ {Max(s)}], Max(s)>>]]

SmallParts(n, c) == {s \in SUBSET (1 .. n) : Cardinality(s) <= c}

(* There is something that folds. *)
LEMMA FoldExists ==
    ASSUME NEW V, NEW base \in V, NEW n \in Nat, NEW G \in [V \X (1 .. n) -> V]
    PROVE  \E w \in [SUBSET (1 .. n) -> V] : Folds(w, G, base, SUBSET (1 .. n))
<1> DEFINE S == 1 .. n
           Folded(c) == \E w \in [SmallParts(n, c) -> V] : Folds(w, G, base, SmallParts(n, c))
           Lacking == {c \in Nat : ~Folded(c)}
<1>0. IsFiniteSet(S) /\ Cardinality(S) = n /\ \A s \in SUBSET S : IsFiniteSet(s) /\ Cardinality(s) \in Nat
  BY UpTo, FS_Subset, FS_CardinalityType
<1>1. Lacking = {}
  <2>1. SUFFICES ASSUME Lacking # {} PROVE FALSE
    OBVIOUS
  <2>2. PICK c \in Lacking : \A d \in Lacking : c <= d
    <3>1. Lacking \in SUBSET Nat
      OBVIOUS
    <3> HIDE DEF Lacking
    <3> QED BY <2>1, <3>1, LeastNumber
  <2>3. c # 0
    <3>1. SUFFICES ASSUME c = 0 PROVE FALSE
      OBVIOUS
    <3>2. \A s \in SmallParts(n, 0) : s = {}
      <4> SUFFICES ASSUME NEW s \in SUBSET S, Cardinality(s) <= 0 PROVE s = {}
        BY DEF SmallParts
      <4>1. IsFiniteSet(s) /\ Cardinality(s) = 0
        BY <1>0
      <4> QED BY <4>1, FS_EmptySet
    <3> DEFINE v == [s \in SmallParts(n, 0) |-> base]
    <3>3. v \in [SmallParts(n, 0) -> V] /\ Folds(v, G, base, SmallParts(n, 0))
      BY <3>2 DEF Folds
    <3>4. Folded(0)
      <4> HIDE DEF v
      <4> QED BY <3>3
    <3> HIDE DEF Folded
    <3> QED BY <3>1, <3>4
  <2>4. c \in Nat /\ c - 1 \in Nat /\ c - 1 \notin Lacking
    <3>1. c \in Nat /\ c - 1 \in Nat /\ ~(c <= c - 1)
      BY <2>3
    <3> HIDE DEF Lacking
    <3> QED BY <2>2, <3>1
  <2> DEFINE D == SmallParts(n, c - 1)
             E == SmallParts(n, c)
  <2>5. PICK u \in [D -> V] : Folds(u, G, base, D)
    BY <2>4
  <2> DEFINE v == [s \in E |-> IF s \in D THEN u[s] ELSE G[<<u[s \ {Max(s)}], Max(s)>>]]
  <2>6. ASSUME NEW s \in E, s # {}
        PROVE  s \ {Max(s)} \in D /\ s \ {Max(s)} \in E /\ Max(s) \in 1 .. n
    <3>1. s \in SUBSET S /\ Cardinality(s) <= c
      BY <2>6 DEF SmallParts
    <3>2. Max(s) \in s
      <4>1. s \in SUBSET Nat /\ IsFiniteSet(s)
        BY <1>0, <3>1
      <4> QED BY <2>6, <4>1, GreatestNumber
    <3>3. Cardinality(s \ {Max(s)}) = Cardinality(s) - 1 /\ Cardinality(s) \in Nat
      BY <1>0, <3>1, <3>2, FS_RemoveElement
    <3>4. s \ {Max(s)} \in SUBSET S
      BY <3>1
    <3> DEFINE r == s \ {Max(s)}
    <3>5. Cardinality(r) <= c - 1 /\ Cardinality(r) <= c
      BY <2>4, <3>1, <3>3
    <3>6. r \in SUBSET (1 .. n) /\ Max(s) \in 1 .. n
      BY <3>1, <3>2, <3>4
    <3> HIDE DEF r
    <3>7. r \in D /\ r \in E
      BY <3>5, <3>6 DEF SmallParts
    <3> QED BY <3>6, <3>7 DEF r
  <2>7. ASSUME NEW s \in E
        PROVE  v[s] \in V /\ v[s] = IF s = {} THEN base ELSE G[<<v[s \ {Max(s)}], Max(s)>>]
    <3>1. s \in D => u[s] = IF s = {} THEN base ELSE G[<<u[s \ {Max(s)}], Max(s)>>]
      BY <2>5 DEF Folds
    <3>2. s = {} => s \in D
      BY <2>4, FS_EmptySet DEF SmallParts
    <3>3. s # {} => v[s \ {Max(s)}] = u[s \ {Max(s)}] /\ u[s \ {Max(s)}] \in V /\ Max(s) \in 1 .. n
      BY <2>5, <2>6
    <3>4. s \in D => u[s] \in V
      BY <2>5
    <3> HIDE DEF D
    <3>5. v[s] = IF s \in D THEN u[s] ELSE G[<<u[s \ {Max(s)}], Max(s)>>]
      OBVIOUS
    <3> HIDE DEF v
    <3> QED BY <3>1, <3>2, <3>3, <3>4, <3>5
  <2>8. Folded(c)
    <3>1. v = [s \in E |-> v[s]]
      OBVIOUS
    <3> HIDE DEF v, D, E
    <3>2. v \in [E -> V] /\ Folds(v, G, base, E)
      BY <2>7, <3>1 DEF Folds
    <3> QED BY <3>2 DEF E
  <2> HIDE DEF Folded
  <2> QED BY <2>8
<1>2. SmallParts(n, n) = SUBSET S
  <2>1. \A s \in SUBSET S : Cardinality(s) <= n
    <3> HIDE DEF S
    <3>1. \A s \in SUBSET S : Cardinality(s) <= Cardinality(S)
      BY <1>0, FS_Subset
    <3> QED BY <1>0, <3>1
  <2> QED BY <2>1 DEF SmallParts
<1>3. Folded(n)
  <2> HIDE DEF Folded
  <2> QED BY <1>1
<1> QED BY <1>2, <1>3

-----------------------------------------------------------------------------
(* polynomial_hash *)

IsHash(u, s, p, m, D) ==
    u = [x \in D |-> IF x = {} THEN 0
                     ELSE Remainder((u[x \ {Max(x)}] + SignedChar(s[Max(x)])) * p, m)]

(* A character of ASCII takes one bucket to another. *)
LEMMA OneCharacter ==
    ASSUME NEW m \in Nat \ {0}, NEW h \in 0 .. m - 1, NEW c \in 0 .. 127
    PROVE  Remainder((h + SignedChar(c)) * 257, m) \in 0 .. m - 1
<1>1. SignedChar(c) = c
  BY DEF SignedChar
<1> DEFINE x == (h + c) * 257
<1>2. x \in Nat
  OBVIOUS
<1> HIDE DEF x
<1>3. x % m \in 0 .. m - 1
  BY <1>2
<1>4. Remainder(x, m) = x % m
  BY <1>2 DEF Remainder
<1> QED BY <1>1, <1>3, <1>4 DEF x

(* A name of ASCII characters hashes to a bucket, whatever the number of buckets: what known_node_hash and *)
(* known_file_hash index their tables with is an index of it.                                              *)
THEOREM AsciiHashable ==
    ASSUME NEW m \in Nat \ {0}, NEW s \in Seq(0 .. 127)
    PROVE  PolynomialHash(s, 257, m) \in 0 .. m - 1 /\ Hashable(s, m)
<1> DEFINE n == Len(s)
           V == 0 .. m - 1
           G == [a \in V \X (1 .. n) |-> Remainder((a[1] + SignedChar(s[a[2]])) * 257, m)]
<1>1. n \in Nat /\ DOMAIN s = 1 .. n /\ \A i \in 1 .. n : s[i] \in 0 .. 127
  <2> DEFINE A == 0 .. 127
  <2>1. s \in Seq(A)
    OBVIOUS
  <2> HIDE DEF A
  <2>2. Len(s) \in Nat /\ DOMAIN s = 1 .. Len(s) /\ \A i \in 1 .. Len(s) : s[i] \in A
    BY <2>1, LenProperties, ElementOfSeq
  <2> QED BY <2>2 DEF A
<1>2. G \in [V \X (1 .. n) -> V]
  <2>1. ASSUME NEW a \in V \X (1 .. n)
        PROVE  Remainder((a[1] + SignedChar(s[a[2]])) * 257, m) \in V
    <3> DEFINE h == a[1]
               c == s[a[2]]
    <3>1. h \in 0 .. m - 1 /\ c \in 0 .. 127
      BY <1>1, <2>1
    <3> HIDE DEF h, c
    <3>2. Remainder((h + SignedChar(c)) * 257, m) \in 0 .. m - 1
      BY <3>1, OneCharacter
    <3> QED BY <3>2 DEF h, c
  <2> HIDE DEF V, n
  <2> QED BY <2>1
<1>3. 0 \in V
  OBVIOUS
<1> DEFINE D == SUBSET (1 .. n)
<1>4. PICK w \in [D -> V] : Folds(w, G, 0, D)
  <2> HIDE DEF G, V, n
  <2> QED BY <1>1, <1>2, <1>3, FoldExists
<1>5. IsHash(w, s, 257, m, D)
  <2>1. ASSUME NEW x \in D, x # {} PROVE x \ {Max(x)} \in D /\ Max(x) \in 1 .. n
    <3>1. x \in SUBSET Nat /\ IsFiniteSet(x)
      <4> DEFINE S == 1 .. n
      <4>1. IsFiniteSet(S) /\ S \in SUBSET Nat /\ x \in SUBSET S
        BY <1>1, <2>1, UpTo
      <4> HIDE DEF S
      <4> QED BY <4>1, FS_Subset
    <3>2. Max(x) \in x
      BY <2>1, <3>1, GreatestNumber
    <3> QED BY <3>2
  <2>2. ASSUME NEW x \in D
        PROVE  w[x] = IF x = {} THEN 0 ELSE Remainder((w[x \ {Max(x)}] + SignedChar(s[Max(x)])) * 257, m)
    <3>1. w[x] = IF x = {} THEN 0 ELSE G[<<w[x \ {Max(x)}], Max(x)>>]
      <4> HIDE DEF G, D
      <4> QED BY <1>4 DEF Folds
    <3>2. CASE x = {}
      BY <3>1, <3>2
    <3>3. CASE x # {}
      <4> DEFINE h == w[x \ {Max(x)}]
                 k == Max(x)
      <4>1. h \in V /\ k \in 1 .. n
        <5> HIDE DEF V, n
        <5> QED BY <1>4, <2>1, <3>3
      <4> HIDE DEF h, k, V, n
      <4>2. G[<<h, k>>] = Remainder((h + SignedChar(s[k])) * 257, m)
        BY <4>1
      <4> QED BY <3>1, <3>3, <4>2 DEF h, k
    <3> QED BY <3>2, <3>3
  <2>3. w = [x \in D |-> w[x]]
    OBVIOUS
  <2> HIDE DEF D, V, G
  <2> QED BY <2>2, <2>3 DEF IsHash
<1> DEFINE u == CHOOSE v : IsHash(v, s, 257, m, D)
<1>6. PolynomialHash(s, 257, m) = u[1 .. n]
  BY <1>1 DEF PolynomialHash, FoldLeft, MapThenFoldSet, IsHash
<1>7. IsHash(u, s, 257, m, D)
  <2> HIDE DEF D
  <2> QED BY <1>5
<1> HIDE DEF u, G
<1> DEFINE T == {k \in 0 .. n : u[1 .. k] \notin V}
<1>8. T = {}
  <2>1. SUFFICES ASSUME T # {} PROVE FALSE
    OBVIOUS
  <2>2. PICK k \in T : \A j \in T : k <= j
    <3>1. T \in SUBSET Nat
      BY <1>1
    <3> HIDE DEF T
    <3> QED BY <2>1, <3>1, LeastNumber
  <2>3. k \in 0 .. n /\ u[1 .. k] \notin V
    OBVIOUS
  <2>4. 1 .. k \in D
    BY <1>1, <2>3
  <2>5. u[1 .. k] = IF 1 .. k = {} THEN 0
                    ELSE Remainder((u[(1 .. k) \ {Max(1 .. k)}] + SignedChar(s[Max(1 .. k)])) * 257, m)
    <3> HIDE DEF D
    <3> QED BY <1>7, <2>4 DEF IsHash
  <2>6. CASE k = 0
    <3>1. 1 .. k = {}
      BY <2>6
    <3> QED BY <1>3, <2>3, <2>5, <3>1
  <2>7. CASE k # 0
    <3>1. k \in Nat \ {0} /\ k \in 1 .. n /\ 1 .. k # {} /\ k - 1 \in 0 .. n /\ ~(k <= k - 1)
      BY <1>1, <2>3, <2>7
    <3>2. Max(1 .. k) = k /\ (1 .. k) \ {k} = 1 .. k - 1
      BY <3>1, LastOf
    <3> DEFINE h == u[1 .. k - 1]
               c == s[k]
    <3>3. u[1 .. k] = Remainder((h + SignedChar(c)) * 257, m)
      BY <2>5, <3>1, <3>2
    <3>4. k - 1 \notin T
      <4> HIDE DEF T
      <4> QED BY <2>2, <3>1
    <3>5. h \in 0 .. m - 1 /\ c \in 0 .. 127
      BY <1>1, <3>1, <3>4
    <3> HIDE DEF h, c
    <3>6. Remainder((h + SignedChar(c)) * 257, m) \in V
      BY <3>5, OneCharacter
    <3> QED BY <2>3, <3>3, <3>6
  <2> QED BY <2>6, <2>7
<1>9. u[1 .. n] \in V
  <2>1. n \in 0 .. n
    BY <1>1
  <2> HIDE DEF V, n
  <2> QED BY <1>8, <2>1
<1>10. PolynomialHash(s, 257, m) \in 0 .. m - 1
  BY <1>6, <1>9
<1> DEFINE r == PolynomialHash(s, 257, m)
<1>11. Hashable(s, m) <=> r >= 0
  BY DEF Hashable
<1> HIDE DEF r
<1>12. r \in 0 .. m - 1
  BY <1>10 DEF r
<1>13. r >= 0
  BY <1>12
<1> QED BY <1>11, <1>12, <1>13 DEF r

-----------------------------------------------------------------------------
(* The tables of files and nodes *)

HashBuckets == 0 .. HashmapEntries - 1

\* A map whose chains are sequences.
Chained(t) == t = [b \in HashBuckets |-> t[b]] /\ \A b \in HashBuckets : \E S : t[b] \in Seq(S)

\* Every file is in the bucket of its name.
Filed(t) == \A b \in HashBuckets : \A k \in 1 .. Len(t[b]) : Hash(t[b][k].filename) = b

\* What is in a chain stays where it is.
Extends(t, u) ==
    \A b \in HashBuckets : Len(t[b]) <= Len(u[b]) /\ \A k \in 1 .. Len(t[b]) : u[b][k] = t[b][k]

(* A sequence may be taken for one of whatever has room for another element too. *)
LEMMA ChainGrows ==
    ASSUME NEW S, NEW s \in Seq(S), NEW e
    PROVE  /\ Append(s, e) \in Seq(S \cup {e}) /\ Len(Append(s, e)) = Len(s) + 1 /\ Len(s) \in Nat
           /\ Append(s, e)[Len(s) + 1] = e /\ \A k \in 1 .. Len(s) : Append(s, e)[k] = s[k]
<1>1. s \in Seq(S \cup {e}) /\ e \in S \cup {e}
  <2>1. \A k \in 1 .. Len(s) : s[k] \in S \cup {e}
    BY ElementOfSeq
  <2> QED BY <2>1
<1>2. Append(s, e) \in Seq(S \cup {e}) /\ Len(Append(s, e)) = Len(s) + 1
  BY <1>1
<1>3. Len(s) \in Nat
  BY LenProperties
<1>4. Append(s, e)[Len(s) + 1] = e /\ \A k \in 1 .. Len(s) : Append(s, e)[k] = s[k]
  BY <1>1, <1>3, AppendProperties
<1> QED BY <1>2, <1>3, <1>4

(* hashmap_add_element puts an element behind the others of its bucket. *)
LEMMA AddKeeps ==
    ASSUME NEW t, Chained(t), NEW h, NEW e, NEW u, u = AddElement(t, h, e, FALSE)
    PROVE  /\ Chained(u) /\ Extends(t, u)
           /\ Filed(t) /\ h = Hash(e.filename) => Filed(u)
<1>1. u = [t EXCEPT ![h] = Append(t[h], e)]
  BY DEF AddElement
<1>2. \A b \in HashBuckets : u[b] = IF b = h THEN Append(t[b], e) ELSE t[b]
  BY <1>1 DEF Chained
<1>3. u = [b \in HashBuckets |-> u[b]]
  BY <1>1 DEF Chained
<1>4. ASSUME NEW b \in HashBuckets
      PROVE  /\ \E S : u[b] \in Seq(S)
             /\ Len(t[b]) <= Len(u[b]) /\ \A k \in 1 .. Len(t[b]) : u[b][k] = t[b][k]
             /\ Filed(t) /\ h = Hash(e.filename) => \A k \in 1 .. Len(u[b]) : Hash(u[b][k].filename) = b
  <2>1. PICK S : t[b] \in Seq(S)
    BY DEF Chained
  <2> DEFINE s == t[b]
             r == Append(s, e)
  <2>2. /\ r \in Seq(S \cup {e}) /\ Len(r) = Len(s) + 1 /\ Len(s) \in Nat
        /\ r[Len(s) + 1] = e /\ \A k \in 1 .. Len(s) : r[k] = s[k]
    BY <2>1, ChainGrows
  <2>3. CASE b = h
    <3>1. u[b] = r
      BY <1>2, <2>3
    <3> HIDE DEF r
    <3>2. ASSUME Filed(t), h = Hash(e.filename), NEW k \in 1 .. Len(r)
          PROVE  Hash(r[k].filename) = b
      <4>1. CASE k = Len(s) + 1
        BY <2>2, <2>3, <3>2, <4>1
      <4>2. CASE k # Len(s) + 1
        <5>1. k \in 1 .. Len(s)
          BY <2>2, <3>2, <4>2
        <5> QED BY <2>2, <3>2, <5>1 DEF Filed
      <4> QED BY <4>1, <4>2
    <3>3. \E X : u[b] \in Seq(X)
      BY <2>2, <3>1
    <3>4. Len(t[b]) <= Len(u[b]) /\ \A k \in 1 .. Len(t[b]) : u[b][k] = t[b][k]
      <4>1. Len(s) \in Nat /\ Len(u[b]) = Len(s) + 1 /\ \A k \in 1 .. Len(s) : u[b][k] = s[k]
        BY <2>2, <3>1
      <4> HIDE DEF s
      <4> DEFINE n == Len(s)
                 l == Len(u[b])
      <4>2. n \in Nat /\ l = n + 1
        BY <4>1
      <4> HIDE DEF n, l
      <4>3. n <= l
        BY <4>2
      <4> QED BY <4>1, <4>3, Zenon DEF n, l, s
    <3>5. Filed(t) /\ h = Hash(e.filename) => \A k \in 1 .. Len(u[b]) : Hash(u[b][k].filename) = b
      BY <3>1, <3>2
    <3> QED BY <3>3, <3>4, <3>5
  <2>4. CASE b # h
    <3>1. u[b] = s
      BY <1>2, <2>4
    <3>2. \E X : u[b] \in Seq(X)
      BY <2>1, <3>1
    <3>3. Len(t[b]) <= Len(u[b]) /\ \A k \in 1 .. Len(t[b]) : u[b][k] = t[b][k]
      <4>1. Len(s) \in Nat
        BY <2>2
      <4> HIDE DEF s
      <4>2. Len(s) <= Len(s)
        BY <4>1
      <4> QED BY <3>1, <4>2, Zenon DEF s
    <3>4. Filed(t) => \A k \in 1 .. Len(u[b]) : Hash(u[b][k].filename) = b
      BY <3>1 DEF Filed
    <3> QED BY <3>2, <3>3, <3>4
  <2> QED BY <2>3, <2>4
<1>5. Chained(u)
  BY <1>3, <1>4 DEF Chained
<1>6. Extends(t, u)
  BY <1>4 DEF Extends
<1>7. Filed(t) /\ h = Hash(e.filename) => Filed(u)
  BY <1>4 DEF Filed
<1> QED BY <1>5, <1>6, <1>7

(* So it is after several, and before any. *)
LEMMA ExtendsMore ==
    /\ \A t : Chained(t) => Extends(t, t)
    /\ \A t, u, v : Chained(t) /\ Chained(u) /\ Chained(v) /\ Extends(t, u) /\ Extends(u, v) => Extends(t, v)
<1>1. \A t : Chained(t) => \A b \in HashBuckets : Len(t[b]) \in Nat
  BY LenProperties DEF Chained
<1>2. ASSUME NEW t, Chained(t) PROVE Extends(t, t)
  BY <1>1, <1>2 DEF Extends
<1>3. ASSUME NEW t, NEW u, NEW v, Chained(t), Chained(u), Chained(v), Extends(t, u), Extends(u, v)
      PROVE  Extends(t, v)
  <2>1. ASSUME NEW b \in HashBuckets
        PROVE  Len(t[b]) <= Len(v[b]) /\ \A k \in 1 .. Len(t[b]) : v[b][k] = t[b][k]
    <3>1. Len(t[b]) \in Nat /\ Len(u[b]) \in Nat /\ Len(v[b]) \in Nat
      BY <1>1, <1>3
    <3>2. Len(t[b]) <= Len(u[b]) /\ Len(u[b]) <= Len(v[b])
      BY <1>3 DEF Extends
    <3>3. ASSUME NEW k \in 1 .. Len(t[b]) PROVE v[b][k] = t[b][k]
      <4>1. k \in 1 .. Len(u[b])
        BY <3>1, <3>2
      <4> QED BY <1>3, <4>1 DEF Extends
    <3> QED BY <3>1, <3>2, <3>3
  <2> QED BY <2>1 DEF Extends
<1> QED BY <1>2, <1>3

-----------------------------------------------------------------------------
(* What a look-up finds *)

(* The least number of a set is below the others. *)
LEMMA LeastOf ==
    ASSUME NEW T \in SUBSET Nat, T # {}
    PROVE  Min(T) \in T /\ \A y \in T : Min(T) <= y
<1>1. Min(T) = CHOOSE x \in T : \A y \in T : x <= y
  BY Zenon DEF Min
<1>2. \E x \in T : \A y \in T : x <= y
  BY LeastNumber
<1> QED BY <1>1, <1>2

(* Two sets have the same least number if every number up to it of one is in the other. *)
LEMMA SameLeast ==
    ASSUME NEW T \in SUBSET Nat, T # {}, NEW U \in SUBSET Nat, T \subseteq U,
           \A y \in U : y <= Min(T) => y \in T
    PROVE  Min(U) = Min(T)
<1>1. Min(T) \in T /\ (\A y \in T : Min(T) <= y) /\ U # {}
  BY LeastOf
<1>2. Min(U) \in U /\ \A y \in U : Min(U) <= y
  BY <1>1, LeastOf
<1> DEFINE a == Min(T)
           b == Min(U)
<1>3. a \in T /\ a \in Nat /\ b \in U /\ b \in Nat /\ (\A y \in T : a <= y) /\ b <= a
  BY <1>1, <1>2
<1>4. b \in T
  BY <1>3
<1> HIDE DEF a, b
<1>5. a <= b
  BY <1>3, <1>4
<1> QED BY <1>3, <1>5 DEF a, b

\* Where a name is in a chain.
HitsOf(t, f, b) == {k \in 1 .. Len(t[b]) : t[b][k].filename = f}

(* A file is looked for in the bucket of its name, since it is nowhere else. *)
LEMMA FileFound ==
    ASSUME NEW t, Chained(t), Filed(t), NEW f
    PROVE  FindKnownFile(t, f) = IF Hash(f) \in HashBuckets /\ HitsOf(t, f, Hash(f)) # {}
                                 THEN <<t[Hash(f)][Min(HitsOf(t, f, Hash(f)))]>> ELSE <<>>
<1> DEFINE bs == {b \in HashBuckets : HitsOf(t, f, b) # {}}
           at == IF bs = {} THEN <<>> ELSE <<Min(bs), Min(HitsOf(t, f, Min(bs)))>>
<1>1. FindKnownFile(t, f) = IF at = <<>> THEN <<>> ELSE <<t[at[1]][at[2]]>>
  <2>1. DOMAIN t = HashBuckets
    BY DEF Chained
  <2> QED BY <2>1 DEF FindKnownFile, LookUp, Place, HitsOf
<1>2. \A b \in bs : b = Hash(f)
  BY DEF Filed, HitsOf
<1> DEFINE h == Hash(f)
<1>3. CASE h \in HashBuckets /\ HitsOf(t, f, h) # {}
  <2>1. bs = {h} /\ h \in Nat
    <3>1. h \in bs
      BY <1>3
    <3>2. h \in Nat
      BY <1>3, JsonConstants DEF HashBuckets
    <3> HIDE DEF bs
    <3> QED BY <1>2, <3>1, <3>2
  <2> HIDE DEF bs, h
  <2>2. Min({h}) = h
    BY <2>1 DEF Min
  <2>3. at = <<h, Min(HitsOf(t, f, h))>>
    BY <2>1, <2>2
  <2>4. at # <<>> /\ at[1] = h /\ at[2] = Min(HitsOf(t, f, h))
    BY <2>3
  <2> HIDE DEF at
  <2>5. FindKnownFile(t, f) = <<t[h][Min(HitsOf(t, f, h))]>>
    BY <1>1, <2>4
  <2> QED BY <1>3, <2>5 DEF h
<1>4. CASE ~(h \in HashBuckets /\ HitsOf(t, f, h) # {})
  <2>1. bs = {}
    BY <1>2, <1>4
  <2> HIDE DEF bs
  <2> QED BY <1>1, <1>4, <2>1
<1> QED BY <1>3, <1>4

(* What is found under a name in a table is found there when the table has grown. *)
LEMMA FileStays ==
    ASSUME NEW t, Chained(t), Filed(t), NEW u, Chained(u), Filed(u), Extends(t, u),
           NEW f, FindKnownFile(t, f) # <<>>
    PROVE  FindKnownFile(u, f) = FindKnownFile(t, f)
<1> DEFINE h == Hash(f)
           T == HitsOf(t, f, h)
           U == HitsOf(u, f, h)
<1>1. h \in HashBuckets /\ T # {} /\ FindKnownFile(t, f) = <<t[h][Min(T)]>>
  BY FileFound
<1>2. h \in HashBuckets /\ U # {} => FindKnownFile(u, f) = <<u[h][Min(U)]>>
  BY FileFound
<1> HIDE DEF h
<1>3. Len(t[h]) \in Nat /\ Len(u[h]) \in Nat
  BY <1>1, LenProperties DEF Chained
<1>4. T \in SUBSET Nat /\ U \in SUBSET Nat
  BY DEF HitsOf
<1>5. Len(t[h]) <= Len(u[h]) /\ \A k \in 1 .. Len(t[h]) : u[h][k] = t[h][k]
  BY <1>1 DEF Extends
<1>6. T \subseteq U
  BY <1>3, <1>5 DEF HitsOf
<1>7. Min(T) \in 1 .. Len(t[h])
  <2>1. Min(T) \in T
    <3> HIDE DEF T
    <3> QED BY <1>1, <1>4, LeastOf
  <2>2. T \subseteq 1 .. Len(t[h])
    BY DEF HitsOf
  <2> QED BY <2>1, <2>2
<1>8. ASSUME NEW y \in U, y <= Min(T) PROVE y \in T
  <2>1. y \in Nat /\ y >= 1 /\ u[h][y].filename = f
    BY <1>3, <1>8 DEF HitsOf
  <2> DEFINE a == Min(T)
  <2>2. a \in 1 .. Len(t[h]) /\ y <= a
    BY <1>7, <1>8
  <2> HIDE DEF a, T, U
  <2>3. y \in 1 .. Len(t[h])
    BY <1>3, <2>1, <2>2
  <2>4. t[h][y].filename = f
    BY <1>5, <2>1, <2>3
  <2> QED BY <2>3, <2>4 DEF HitsOf, T
<1> HIDE DEF T, U
<1>9. Min(U) = Min(T) /\ U # {}
  BY <1>1, <1>4, <1>6, <1>8, SameLeast
<1>10. u[h][Min(U)] = t[h][Min(T)]
  BY <1>5, <1>7, <1>9
<1> QED BY <1>1, <1>2, <1>9, <1>10

(* A node that is found at an address is found when the table has grown. *)
LEMMA NodeStays ==
    ASSUME NEW t, Chained(t), NEW u, Chained(u), Extends(t, u),
           NEW ip, NEW port, LookUpNode(t, ip, port) # <<>>
    PROVE  LookUpNode(u, ip, port) # <<>>
<1> DEFINE hits(v, b) == {k \in 1 .. Len(v[b]) : v[b][k].ip = ip /\ v[b][k].port = port}
           bs(v) == {b \in DOMAIN v : hits(v, b) # {}}
           at(v) == IF bs(v) = {} THEN <<>> ELSE <<Min(bs(v)), Min(hits(v, Min(bs(v))))>>
<1>1. \A v : LookUpNode(v, ip, port) = IF at(v) = <<>> THEN <<>> ELSE <<v[at(v)[1]][at(v)[2]]>>
  BY DEF LookUpNode, LookUp, Place
<1>2. DOMAIN t = HashBuckets /\ DOMAIN u = HashBuckets
  BY DEF Chained
<1>3. bs(t) # {}
  <2> SUFFICES ASSUME bs(t) = {} PROVE FALSE
    OBVIOUS
  <2>1. at(t) = <<>>
    OBVIOUS
  <2> HIDE DEF at
  <2> QED BY <1>1, <2>1
<1>4. PICK b \in HashBuckets : hits(t, b) # {}
  BY <1>2, <1>3
<1>5. Len(t[b]) \in Nat /\ Len(u[b]) \in Nat
  BY <1>4, LenProperties DEF Chained
<1>6. hits(t, b) \subseteq hits(u, b)
  <2>1. Len(t[b]) <= Len(u[b]) /\ \A k \in 1 .. Len(t[b]) : u[b][k] = t[b][k]
    BY DEF Extends
  <2> QED BY <1>5, <2>1
<1>7. bs(u) # {}
  <2>1. hits(u, b) # {}
    BY <1>4, <1>6
  <2> HIDE DEF hits
  <2> QED BY <1>2, <2>1
<1>8. at(u) # <<>>
  <2>1. \A x, y : <<x, y>> # <<>>
    OBVIOUS
  <2> HIDE DEF bs, hits
  <2> QED BY <1>7, <2>1
<1> HIDE DEF at
<1>9. \A x : <<x>> # <<>>
  OBVIOUS
<1> QED BY <1>1, <1>8, <1>9

-----------------------------------------------------------------------------
(* Files entered one after the other, as b_add_known_files does *)

IsEntered(w, t, files, D) ==
    w = [x \in D |-> IF x = {} THEN t ELSE AddKnownFile(w[x \ {Max(x)}], files[Max(x)])]

(* After all of them every file is in the bucket of its name, behind what was there. *)
LEMMA FilesEntered ==
    ASSUME NEW t, Chained(t), Filed(t), NEW F, NEW files \in Seq(F), NEW r, r = AddKnownFiles(t, files)
    PROVE  Chained(r) /\ Filed(r) /\ Extends(t, r)
<1> DEFINE n == Len(files)
           D == SUBSET (1 .. n)
           In(b) == {t[b][k] : k \in 1 .. Len(t[b])}
           Y == UNION {In(b) : b \in HashBuckets}
           Z == {files[k] : k \in 1 .. n}
           X == Y \cup Z
           V == [HashBuckets -> Seq(X)]
           G == [a \in V \X (1 .. n) |-> AddKnownFile(a[1], files[a[2]])]
<1>1. n \in Nat /\ DOMAIN files = 1 .. n /\ \A k \in 1 .. n : files[k] \in X
  <2>1. n \in Nat /\ DOMAIN files = 1 .. n
    BY LenProperties
  <2>2. \A k \in 1 .. n : files[k] \in Z
    OBVIOUS
  <2> HIDE DEF n, Y, Z
  <2> QED BY <2>1, <2>2
<1>2. t \in V
  <2>1. ASSUME NEW b \in HashBuckets PROVE t[b] \in Seq(X)
    <3>1. PICK S : t[b] \in Seq(S)
      BY DEF Chained
    <3>2. Len(t[b]) \in Nat /\ t[b] = [k \in 1 .. Len(t[b]) |-> t[b][k]]
      BY <3>1
    <3>3. \A k \in 1 .. Len(t[b]) : t[b][k] \in X
      <4>1. \A k \in 1 .. Len(t[b]) : t[b][k] \in In(b)
        OBVIOUS
      <4> HIDE DEF In, Z
      <4>2. \A x \in In(b) : x \in Y
        BY <2>1
      <4> HIDE DEF Y
      <4> QED BY <4>1, <4>2
    <3> HIDE DEF X
    <3> QED BY <3>2, <3>3
  <2> HIDE DEF X
  <2> QED BY <2>1 DEF Chained
<1> HIDE DEF X
<1>3. G \in [V \X (1 .. n) -> V]
  <2>1. ASSUME NEW v \in V, NEW e \in X
        PROVE  AddKnownFile(v, e) \in V
    <3> DEFINE h == Hash(e.filename)
    <3>1. AddKnownFile(v, e) = [v EXCEPT ![h] = Append(v[h], e)]
      BY DEF AddKnownFile, AddElement
    <3> HIDE DEF h
    <3>2. \A b \in HashBuckets : Append(v[b], e) \in Seq(X)
      BY <2>1
    <3> QED BY <2>1, <3>1, <3>2
  <2> HIDE DEF V, n
  <2>2. ASSUME NEW a \in V \X (1 .. n) PROVE AddKnownFile(a[1], files[a[2]]) \in V
    BY <1>1, <2>1
  <2> QED BY <2>2
<1>4. PICK w \in [D -> V] : Folds(w, G, t, D)
  <2> HIDE DEF G, V, n
  <2> QED BY <1>1, <1>2, <1>3, FoldExists
<1>5. IsEntered(w, t, files, D)
  <2>1. ASSUME NEW x \in D, x # {} PROVE x \ {Max(x)} \in D /\ Max(x) \in 1 .. n
    <3>1. x \in SUBSET Nat /\ IsFiniteSet(x)
      <4> DEFINE S == 1 .. n
      <4>1. IsFiniteSet(S) /\ S \in SUBSET Nat /\ x \in SUBSET S
        BY <1>1, <2>1, UpTo
      <4> HIDE DEF S
      <4> QED BY <4>1, FS_Subset
    <3>2. Max(x) \in x
      BY <2>1, <3>1, GreatestNumber
    <3> QED BY <3>2
  <2>2. ASSUME NEW x \in D
        PROVE  w[x] = IF x = {} THEN t ELSE AddKnownFile(w[x \ {Max(x)}], files[Max(x)])
    <3>1. w[x] = IF x = {} THEN t ELSE G[<<w[x \ {Max(x)}], Max(x)>>]
      <4> HIDE DEF G, D
      <4> QED BY <1>4 DEF Folds
    <3>2. CASE x = {}
      BY <3>1, <3>2
    <3>3. CASE x # {}
      <4> DEFINE v == w[x \ {Max(x)}]
                 k == Max(x)
      <4>1. v \in V /\ k \in 1 .. n
        <5> HIDE DEF V, n
        <5> QED BY <1>4, <2>1, <3>3
      <4> HIDE DEF v, k, V, n
      <4>2. G[<<v, k>>] = AddKnownFile(v, files[k])
        BY <4>1
      <4> QED BY <3>1, <3>3, <4>2 DEF v, k
    <3> QED BY <3>2, <3>3
  <2>3. w = [x \in D |-> w[x]]
    OBVIOUS
  <2> HIDE DEF D, V, G
  <2> QED BY <2>2, <2>3 DEF IsEntered
<1> DEFINE u == CHOOSE v : IsEntered(v, t, files, D)
<1>6. r = u[1 .. n]
  BY <1>1 DEF AddKnownFiles, FoldLeft, MapThenFoldSet, IsEntered
<1>7. IsEntered(u, t, files, D)
  <2> HIDE DEF D
  <2> QED BY <1>5
<1> HIDE DEF u, G, V
<1> DEFINE Good(v) == Chained(v) /\ Filed(v) /\ Extends(t, v)
           T == {k \in 0 .. n : ~Good(u[1 .. k])}
<1>8. T = {}
  <2>1. SUFFICES ASSUME T # {} PROVE FALSE
    OBVIOUS
  <2>2. PICK k \in T : \A j \in T : k <= j
    <3>1. T \in SUBSET Nat
      BY <1>1
    <3> HIDE DEF T
    <3> QED BY <2>1, <3>1, LeastNumber
  <2> HIDE DEF Good
  <2>3. k \in 0 .. n /\ ~Good(u[1 .. k])
    OBVIOUS
  <2>4. 1 .. k \in D
    BY <1>1, <2>3
  <2>5. u[1 .. k] = IF 1 .. k = {} THEN t
                    ELSE AddKnownFile(u[(1 .. k) \ {Max(1 .. k)}], files[Max(1 .. k)])
    <3> HIDE DEF D
    <3> QED BY <1>7, <2>4 DEF IsEntered
  <2>6. CASE k = 0
    <3>1. 1 .. k = {}
      BY <2>6
    <3>2. Good(t)
      BY ExtendsMore DEF Good
    <3> QED BY <2>3, <2>5, <3>1, <3>2
  <2>7. CASE k # 0
    <3>1. k \in Nat \ {0} /\ k \in 1 .. n /\ 1 .. k # {} /\ k - 1 \in 0 .. n /\ ~(k <= k - 1)
      BY <1>1, <2>3, <2>7
    <3>2. Max(1 .. k) = k /\ (1 .. k) \ {k} = 1 .. k - 1
      BY <3>1, LastOf
    <3> DEFINE v == u[1 .. k - 1]
               e == files[k]
               h == Hash(e.filename)
               x == u[1 .. k]
    <3>3. x = AddElement(v, h, e, FALSE)
      BY <2>5, <3>1, <3>2 DEF AddKnownFile
    <3>4. k - 1 \notin T
      <4> HIDE DEF T
      <4> QED BY <2>2, <3>1
    <3>5. Good(v)
      BY <3>1, <3>4
    <3> HIDE DEF v, e, x
    <3>6. Chained(v) /\ Filed(v) /\ Extends(t, v)
      BY <3>5 DEF Good
    <3>7. Chained(x) /\ Extends(v, x) /\ Filed(x)
      <4>1. h = Hash(e.filename)
        OBVIOUS
      <4> HIDE DEF h
      <4> QED BY <3>3, <3>6, <4>1, AddKeeps
    <3>8. Extends(t, x)
      BY <3>6, <3>7, ExtendsMore
    <3>9. Good(x)
      BY <3>7, <3>8 DEF Good
    <3> QED BY <2>3, <3>9 DEF x
  <2> QED BY <2>6, <2>7
<1>9. Good(u[1 .. n])
  <2>1. n \in 0 .. n
    BY <1>1
  <2> HIDE DEF Good, n
  <2> QED BY <1>8, <2>1
<1> QED BY <1>6, <1>9

-----------------------------------------------------------------------------
(* The index *)

\* FlattenSeq's function, up to the m-th sequence, with elements of T.
Flattens(g, q, m, T) ==
    /\ g = [i \in 1 .. m |-> IF i = 1 THEN q[i] ELSE g[i - 1] \o q[i]]
    /\ \A i \in 1 .. m : g[i] \in Seq(T)

(* A sequence of sequences flattens to a sequence. *)
LEMMA FlatIsSequence ==
    ASSUME NEW n \in Nat \ {0}, NEW T, NEW q, Len(q) = n, \A i \in 1 .. n : q[i] \in Seq(T)
    PROVE  FlattenSeq(q) \in Seq(T)
<1> DEFINE Lacking == {m \in 1 .. n : ~\E g : Flattens(g, q, m, T)}
<1>1. Lacking = {}
  <2>1. SUFFICES ASSUME Lacking # {} PROVE FALSE
    OBVIOUS
  <2>2. PICK m \in Lacking : \A k \in Lacking : m <= k
    <3>1. Lacking \in SUBSET Nat
      OBVIOUS
    <3> HIDE DEF Lacking
    <3> QED BY <2>1, <3>1, LeastNumber
  <2>3. m # 1
    <3>1. SUFFICES ASSUME m = 1 PROVE FALSE
      OBVIOUS
    <3> DEFINE v == [i \in 1 .. 1 |-> q[1]]
    <3>2. v = [i \in 1 .. 1 |-> IF i = 1 THEN q[i] ELSE v[i - 1] \o q[i]]
      OBVIOUS
    <3>3. \A i \in 1 .. 1 : v[i] \in Seq(T)
      OBVIOUS
    <3> HIDE DEF v
    <3>4. Flattens(v, q, 1, T)
      BY <3>2, <3>3 DEF Flattens
    <3> QED BY <3>1, <3>4
  <2>4. m \in 2 .. n /\ m - 1 \in 1 .. n /\ m - 1 \notin Lacking
    <3>1. m \in 2 .. n /\ m - 1 \in 1 .. n /\ ~(m <= m - 1)
      BY <2>3
    <3> HIDE DEF Lacking
    <3> QED BY <2>2, <3>1
  <2>5. PICK g : Flattens(g, q, m - 1, T)
    BY <2>4
  <2> DEFINE v == [i \in 1 .. m |-> IF i < m THEN g[i] ELSE g[m - 1] \o q[m]]
  <2>6. g[m - 1] \in Seq(T) /\ q[m] \in Seq(T) /\ g[m - 1] \o q[m] \in Seq(T)
    <3>1. g[m - 1] \in Seq(T)
      BY <2>4, <2>5 DEF Flattens
    <3>2. q[m] \in Seq(T)
      BY <2>4
    <3> QED BY <3>1, <3>2
  <2>7. ASSUME NEW i \in 1 .. m
        PROVE  v[i] \in Seq(T) /\ v[i] = IF i = 1 THEN q[i] ELSE v[i - 1] \o q[i]
    <3>1. CASE i < m
      <4>1. i \in 1 .. m - 1 /\ v[i] = g[i] /\ (i # 1 => v[i - 1] = g[i - 1])
        BY <2>4, <3>1
      <4> HIDE DEF v
      <4>2. g[i] \in Seq(T) /\ g[i] = IF i = 1 THEN q[i] ELSE g[i - 1] \o q[i]
        BY <2>5, <4>1 DEF Flattens
      <4> QED BY <4>1, <4>2
    <3>2. CASE i = m
      <4>1. v[i] = g[m - 1] \o q[m] /\ v[i - 1] = g[m - 1] /\ i # 1
        BY <2>4, <3>2
      <4> HIDE DEF v
      <4> QED BY <2>6, <3>2, <4>1
    <3> HIDE DEF v
    <3> QED BY <2>4, <3>1, <3>2
  <2>8. v = [i \in 1 .. m |-> v[i]]
    OBVIOUS
  <2> HIDE DEF v
  <2>9. Flattens(v, q, m, T)
    BY <2>7, <2>8 DEF Flattens
  <2> QED BY <2>2, <2>9
<1>2. \E g : Flattens(g, q, n, T)
  <2>1. n \in 1 .. n
    OBVIOUS
  <2> QED BY <1>1, <2>1
<1>3. PICK g : Flattens(g, q, n, T)
  BY <1>2
<1> HIDE DEF Lacking
<1> DEFINE Fits(v) == v = [i \in 1 .. Len(q) |-> IF i = 1 THEN q[i] ELSE v[i - 1] \o q[i]]
           u == CHOOSE v : Fits(v)
<1>4. Fits(g)
  BY <1>3 DEF Flattens
<1>5. FlattenSeq(q) = u[n]
  BY DEF FlattenSeq
<1>6. Fits(u)
  <2> HIDE DEF Fits
  <2> QED BY <1>4
<1> HIDE DEF u
<1> DEFINE Odd == {i \in 1 .. n : u[i] \notin Seq(T)}
<1>7. Odd = {}
  <2>1. SUFFICES ASSUME Odd # {} PROVE FALSE
    OBVIOUS
  <2>2. PICK i \in Odd : \A k \in Odd : i <= k
    <3>1. Odd \in SUBSET Nat
      OBVIOUS
    <3> HIDE DEF Odd
    <3> QED BY <2>1, <3>1, LeastNumber
  <2>3. u[i] = IF i = 1 THEN q[i] ELSE u[i - 1] \o q[i]
    BY <1>6
  <2>4. i # 1 => u[i - 1] \in Seq(T)
    <3>1. SUFFICES ASSUME i # 1 PROVE i - 1 \in 1 .. n /\ i - 1 \notin Odd
      OBVIOUS
    <3>2. i - 1 \in 1 .. n /\ ~(i <= i - 1)
      BY <3>1
    <3> HIDE DEF Odd
    <3> QED BY <2>2, <3>2
  <2>5. q[i] \in Seq(T)
    OBVIOUS
  <2>6. u[i] \in Seq(T)
    BY <2>3, <2>4, <2>5
  <2> QED BY <2>6
<1>8. n \in 1 .. n /\ n \notin Odd
  <2>1. n \in 1 .. n
    OBVIOUS
  <2> HIDE DEF Odd
  <2> QED BY <1>7, <2>1
<1> QED BY <1>5, <1>8

(* What is in a table is a sequence. *)
LEMMA EntriesAreASequence ==
    ASSUME NEW t, Chained(t)
    PROVE  IsSequence(EntriesOf(t))
<1> DEFINE n == HashmapEntries
           q == [i \in 1 .. n |-> t[i - 1]]
           T == UNION {{t[b][k] : k \in 1 .. Len(t[b])} : b \in HashBuckets}
<1>1. n \in Nat \ {0}
  BY JsonConstants
<1>2. \A b \in HashBuckets : t[b] \in Seq(T)
  <2> SUFFICES ASSUME NEW b \in HashBuckets PROVE t[b] \in Seq(T)
    OBVIOUS
  <2>1. PICK S : t[b] \in Seq(S)
    BY DEF Chained
  <2>2. Len(t[b]) \in Nat /\ t[b] = [k \in 1 .. Len(t[b]) |-> t[b][k]]
    BY <2>1
  <2>3. \A k \in 1 .. Len(t[b]) : t[b][k] \in T
    OBVIOUS
  <2> HIDE DEF T
  <2> QED BY <2>2, <2>3
<1>3. \A i \in 1 .. n : q[i] \in Seq(T)
  <2>1. \A i \in 1 .. n : i - 1 \in HashBuckets /\ q[i] = t[i - 1]
    BY <1>1 DEF HashBuckets
  <2> HIDE DEF T, q
  <2> QED BY <1>2, <2>1
<1>4. Len(q) = n
  BY <1>1
<1>5. Cardinality(DOMAIN t) = n
  <2>1. DOMAIN t = 0 .. n - 1
    BY DEF Chained, HashBuckets
  <2>2. \A a, b \in Int : Cardinality(a .. b) = IF a > b THEN 0 ELSE b - a + 1
    BY FS_Interval
  <2>3. 0 \in Int /\ n - 1 \in Int /\ ~(0 > n - 1) /\ n - 1 - 0 + 1 = n
    BY <1>1
  <2> QED BY <2>1, <2>2, <2>3, Zenon
<1>6. EntriesOf(t) = FlattenSeq(q)
  BY <1>5 DEF EntriesOf
<1> HIDE DEF T, q
<1>7. FlattenSeq(q) \in Seq(T)
  BY <1>1, <1>3, <1>4, FlatIsSequence
<1> QED BY <1>6, <1>7 DEF IsSequence

(* And so is the list that is made of it. *)
LEMMA FileListIsASequence ==
    ASSUME NEW m, Chained(known[m]), Chained(mine[m])
    PROVE  IsSequence(FileList(m))
<1> DEFINE others == EntriesOf(known[m])
           own    == EntriesOf(mine[m])
           Naming(e) == <<FilenameProperty, String(e.filename)>>
           P(e) == ObjectOf(<<Naming(e), <<NodeProperty, SerializeNode(e.node)>> >>)
           Q(e) == ObjectOf(<<Naming(e)>>)
           r == [k \in DOMAIN others |-> P(others[k])]
           s == [k \in DOMAIN own |-> Q(own[k])]
<1>1. FileList(m) = r \o s
  BY DEF FileList
<1>2. PICK O : others \in Seq(O)
  BY EntriesAreASequence DEF IsSequence
<1>3. PICK W : own \in Seq(W)
  BY EntriesAreASequence DEF IsSequence
<1> HIDE DEF others, own, P, Q
<1> DEFINE F == {P(others[k]) : k \in DOMAIN others} \cup {Q(own[k]) : k \in DOMAIN own}
<1>4. r \in Seq(F)
  <2>1. Len(others) \in Nat /\ r = [k \in 1 .. Len(others) |-> r[k]]
    BY <1>2
  <2>2. \A k \in 1 .. Len(others) : r[k] \in F
    BY <1>2
  <2> HIDE DEF r, F
  <2> QED BY <2>1, <2>2
<1>5. s \in Seq(F)
  <2>1. Len(own) \in Nat /\ s = [k \in 1 .. Len(own) |-> s[k]]
    BY <1>3
  <2>2. \A k \in 1 .. Len(own) : s[k] \in F
    BY <1>3
  <2> HIDE DEF s, F
  <2> QED BY <2>1, <2>2
<1> HIDE DEF r, s, F
<1>6. r \o s \in Seq(F)
  BY <1>4, <1>5
<1> QED BY <1>1, <1>6 DEF IsSequence

\* Hypothesis: a list of files is read from tokens that begin with a left bracket, as it is written.
ListsAreRead ==
    \A s : LET response == Read(Written(Array(s))) IN
           IsSequence(s) /\ response.is = "value"
              => \E t \in Seq(Tokenlike) : \E n \in 1 .. Len(t) :
                    t[1].type = "left_bracket" /\ response = Parse(t, n)

\* The tables are hash maps, and every file is in the bucket of its name.
IndexInv ==
    /\ mine  = [n \in Nodes |-> mine[n]]  /\ \A n \in Nodes : Chained(mine[n])  /\ Filed(mine[n])
    /\ known = [n \in Nodes |-> known[n]] /\ \A n \in Nodes : Chained(known[n]) /\ Filed(known[n])
    /\ nodes = [n \in Nodes |-> nodes[n]] /\ \A n \in Nodes : Chained(nodes[n])

\* Nothing leaves its place in a table.
TablesGrow ==
    \A n \in Nodes : Extends(mine[n], mine'[n]) /\ Extends(known[n], known'[n]) /\ Extends(nodes[n], nodes'[n])

\* What FoundForGood says of a step.
FoundStill ==
    \A n \in Nodes :
       /\ \A f \in Files :
             /\ FindMyFile(mine[n], f) # <<>> => FindMyFile(mine'[n], f) = FindMyFile(mine[n], f)
             /\ FindKnownFile(known[n], f) # <<>> => FindKnownFile(known'[n], f) = FindKnownFile(known[n], f)
       /\ \A m \in Nodes :
             LookUpNode(nodes[n], m.ip, m.port) # <<>> => LookUpNode(nodes'[n], m.ip, m.port) # <<>>

(* Empty tables are hash maps. *)
LEMMA InitIndexInv == IndexInit => IndexInv
<1> SUFFICES ASSUME IndexInit PROVE IndexInv
  OBVIOUS
<1> DEFINE E == EmptyMap(HashmapEntries)
<1>1. E = [b \in HashBuckets |-> <<>>]
  BY DEF EmptyMap, HashBuckets
<1> HIDE DEF E
<1>2. \A b \in HashBuckets : E[b] \in Seq({}) /\ Len(E[b]) = 0
  BY <1>1
<1>3. E = [b \in HashBuckets |-> E[b]]
  BY <1>1
<1>4. Chained(E)
  BY <1>2, <1>3 DEF Chained
<1>5. Filed(E)
  BY <1>2 DEF Filed
<1>6. /\ mine = [n \in Nodes |-> E] /\ known = [n \in Nodes |-> E] /\ nodes = [n \in Nodes |-> E]
  BY DEF IndexInit, E
<1> QED BY <1>4, <1>5, <1>6 DEF IndexInv

(* A table of one of the nodes is replaced by one that extends it. *)
LEMMA OneTable ==
    ASSUME NEW m, m = [n \in Nodes |-> m[n]], \A n \in Nodes : Chained(m[n]),
           NEW n \in Nodes, NEW u, Chained(u), Extends(m[n], u), NEW w, w = [m EXCEPT ![n] = u]
    PROVE  /\ w = [k \in Nodes |-> w[k]]
           /\ \A k \in Nodes : Chained(w[k]) /\ Extends(m[k], w[k])
           /\ (\A k \in Nodes : Filed(m[k])) /\ Filed(u) => \A k \in Nodes : Filed(w[k])
<1>1. \A k \in Nodes : w[k] = IF k = n THEN u ELSE m[k]
  OBVIOUS
<1>2. w = [k \in Nodes |-> w[k]]
  OBVIOUS
<1>3. ASSUME NEW k \in Nodes PROVE Chained(w[k]) /\ Extends(m[k], w[k])
  BY <1>1, ExtendsMore
<1>4. ASSUME \A k \in Nodes : Filed(m[k]), Filed(u), NEW k \in Nodes PROVE Filed(w[k])
  BY <1>1, <1>4
<1> QED BY <1>2, <1>3, <1>4

(* Every step keeps the tables, and takes nothing from its place in them. *)
LEMMA IndexKeeps ==
    ASSUME ListsAreRead, IndexInv, [IndexNext]_indexVars
    PROVE  IndexInv' /\ TablesGrow
<1>0. \A n \in Nodes : Extends(mine[n], mine[n]) /\ Extends(known[n], known[n]) /\ Extends(nodes[n], nodes[n])
  BY ExtendsMore DEF IndexInv
<1>1. CASE UNCHANGED <<mine, known, nodes>>
  BY <1>0, <1>1 DEF IndexInv, TablesGrow
<1>2. ASSUME NEW n \in Nodes, NEW f \in Files, NEW p \in Paths, AddMyFile(n, f, p)
      PROVE  IndexInv' /\ TablesGrow
  <2> DEFINE h == Hash(f)
             e == [filename |-> f, path |-> p]
             u == AddElement(mine[n], h, e, FALSE)
  <2>1. UNCHANGED <<known, nodes>> /\ (UNCHANGED mine \/ mine' = [mine EXCEPT ![n] = u])
    BY <1>2 DEF AddMyFile, Enter
  <2>2. CASE UNCHANGED mine
    BY <1>1, <2>1, <2>2
  <2>3. CASE mine' = [mine EXCEPT ![n] = u]
    <3>1. e.filename = f
      OBVIOUS
    <3>2. h = Hash(e.filename)
      BY <3>1
    <3>3. Chained(mine[n]) /\ Filed(mine[n])
      BY DEF IndexInv
    <3>0. u = AddElement(mine[n], h, e, FALSE)
      OBVIOUS
    <3> HIDE DEF h, e, u
    <3>4. Chained(u) /\ Filed(u) /\ Extends(mine[n], u)
      <4> DEFINE s == mine[n]
      <4>1. Chained(s) /\ Filed(s) /\ u = AddElement(s, h, e, FALSE)
        BY <3>0, <3>3
      <4> HIDE DEF s
      <4>2. Chained(u) /\ Extends(s, u) /\ (Filed(s) /\ h = Hash(e.filename) => Filed(u))
        BY <4>1, AddKeeps
      <4> QED BY <3>2, <4>1, <4>2 DEF s
    <3>5. mine = [k \in Nodes |-> mine[k]] /\ \A k \in Nodes : Chained(mine[k]) /\ Filed(mine[k])
      BY DEF IndexInv
    <3>6. /\ mine' = [k \in Nodes |-> mine'[k]]
          /\ \A k \in Nodes : Chained(mine'[k]) /\ Extends(mine[k], mine'[k])
          /\ \A k \in Nodes : Filed(mine'[k])
      BY <2>3, <3>4, <3>5, OneTable
    <3> QED BY <1>0, <2>1, <3>6 DEF IndexInv, TablesGrow
  <2> QED BY <2>1, <2>2, <2>3
<1>3. ASSUME NEW n \in Nodes, NEW m \in Nodes, AddKnownNode(n, m)
      PROVE  IndexInv' /\ TablesGrow
  <2> DEFINE h == Hash(m.name)
             u == AddElement(nodes[n], h, m, FALSE)
  <2>1. UNCHANGED <<known, mine>> /\ (UNCHANGED nodes \/ nodes' = [nodes EXCEPT ![n] = u])
    BY <1>3 DEF AddKnownNode, Enter
  <2>2. CASE UNCHANGED nodes
    BY <1>1, <2>1, <2>2
  <2>3. CASE nodes' = [nodes EXCEPT ![n] = u]
    <3>1. Chained(nodes[n])
      BY DEF IndexInv
    <3> HIDE DEF h
    <3>2. Chained(u) /\ Extends(nodes[n], u)
      BY <3>1, AddKeeps
    <3> HIDE DEF u
    <3>3. nodes = [k \in Nodes |-> nodes[k]] /\ \A k \in Nodes : Chained(nodes[k])
      BY DEF IndexInv
    <3>4. /\ nodes' = [k \in Nodes |-> nodes'[k]]
          /\ \A k \in Nodes : Chained(nodes'[k]) /\ Extends(nodes[k], nodes'[k])
      BY <2>3, <3>2, <3>3, OneTable
    <3> QED BY <1>0, <2>1, <3>4 DEF IndexInv, TablesGrow
  <2> QED BY <2>1, <2>2, <2>3
<1>4. ASSUME NEW n \in Nodes, NEW m \in Nodes, GetFileList(n, m)
      PROVE  IndexInv' /\ TablesGrow
  <2> DEFINE response == Read(Written(Array(FileList(m))))
             parts == response.value.array
             files == [k \in DOMAIN parts |-> Received(parts[k], m)]
             u == AddKnownFiles(known[n], files)
  <2>1. UNCHANGED <<mine, nodes>>
        /\ (UNCHANGED known \/ (response.is = "value" /\ known' = [known EXCEPT ![n] = u]))
    BY <1>4 DEF GetFileList
  <2>2. CASE UNCHANGED known
    BY <1>1, <2>1, <2>2
  <2>3. CASE response.is = "value" /\ known' = [known EXCEPT ![n] = u]
    <3>1. IsSequence(parts)
      <4>1. IsSequence(FileList(m))
        BY FileListIsASequence DEF IndexInv
      <4>2. PICK t \in Seq(Tokenlike) : \E k \in 1 .. Len(t) :
               t[1].type = "left_bracket" /\ response = Parse(t, k)
        BY <2>3, <4>1 DEF ListsAreRead
      <4>3. PICK k \in 1 .. Len(t) : t[1].type = "left_bracket" /\ response = Parse(t, k)
        BY <4>2
      <4>4. Parse(t, k).is = "value"
        BY <2>3, <4>3
      <4>5. IsSequence(Parse(t, k).value.array)
        BY <4>3, <4>4, BracketsHoldASequence
      <4> QED BY <4>3, <4>5
    <3> HIDE DEF parts
    <3>2. \E F : files \in Seq(F)
      <4> DEFINE F == {files[k] : k \in 1 .. Len(parts)}
      <4>1. Len(parts) \in Nat /\ DOMAIN parts = 1 .. Len(parts)
        BY <3>1, LenProperties DEF IsSequence
      <4>2. files = [k \in 1 .. Len(parts) |-> files[k]]
        BY <4>1
      <4>3. \A k \in 1 .. Len(parts) : files[k] \in F
        OBVIOUS
      <4> HIDE DEF parts, files, F
      <4>4. files \in Seq(F)
        BY <4>1, <4>2, <4>3
      <4> QED BY <4>4
    <3>3. PICK F : files \in Seq(F)
      BY <3>2
    <3> HIDE DEF files
    <3>4. Chained(known[n]) /\ Filed(known[n])
      BY DEF IndexInv
    <3>5. Chained(u) /\ Filed(u) /\ Extends(known[n], u)
      BY <3>3, <3>4, FilesEntered
    <3> HIDE DEF u
    <3>6. known = [k \in Nodes |-> known[k]] /\ \A k \in Nodes : Chained(known[k]) /\ Filed(known[k])
      BY DEF IndexInv
    <3>7. /\ known' = [k \in Nodes |-> known'[k]]
          /\ \A k \in Nodes : Chained(known'[k]) /\ Extends(known[k], known'[k])
          /\ \A k \in Nodes : Filed(known'[k])
      BY <2>3, <3>5, <3>6, OneTable
    <3> QED BY <1>0, <2>1, <3>7 DEF IndexInv, TablesGrow
  <2> QED BY <2>1, <2>2, <2>3
<1>5. CASE IndexNext
  BY <1>2, <1>3, <1>4, <1>5 DEF IndexNext
<1>6. CASE UNCHANGED indexVars
  BY <1>1, <1>6 DEF indexVars
<1> QED BY <1>5, <1>6

(* What a node finds under the name of a file, of its own or of another node, it finds for good, and the address *)
(* of a node is never lost: the tables only grow, behind what is there, and a name has one bucket; whatever the  *)
(* nodes, the names and the number of buckets, if a list of files that was written is read as a list, and until  *)
(* a name without a bucket is entered.                                                                           *)
THEOREM FoundStaysFound == ASSUME ListsAreRead PROVE IndexSpec => FoundForGood
<1>1. IndexInv /\ [IndexNext]_indexVars => IndexInv'
  BY IndexKeeps
<1>2. ASSUME IndexInv, IndexInv', TablesGrow
      PROVE  FoundStill
  <2> SUFFICES ASSUME NEW n \in Nodes
               PROVE  /\ \A f \in Files :
                            /\ FindMyFile(mine[n], f) # <<>> => FindMyFile(mine'[n], f) = FindMyFile(mine[n], f)
                            /\ FindKnownFile(known[n], f) # <<>>
                                  => FindKnownFile(known'[n], f) = FindKnownFile(known[n], f)
                      /\ \A m \in Nodes : LookUpNode(nodes[n], m.ip, m.port) # <<>>
                                             => LookUpNode(nodes'[n], m.ip, m.port) # <<>>
    BY DEF FoundStill
  <2>1. /\ Chained(mine[n]) /\ Filed(mine[n]) /\ Chained(mine'[n]) /\ Filed(mine'[n]) /\ Extends(mine[n], mine'[n])
        /\ Chained(known[n]) /\ Filed(known[n]) /\ Chained(known'[n]) /\ Filed(known'[n]) /\ Extends(known[n], known'[n])
        /\ Chained(nodes[n]) /\ Chained(nodes'[n]) /\ Extends(nodes[n], nodes'[n])
    BY <1>2 DEF IndexInv, TablesGrow
  <2>2. \A t, f : FindMyFile(t, f) = FindKnownFile(t, f)
    BY DEF FindMyFile, FindKnownFile
  <2>3. ASSUME NEW f \in Files
        PROVE  /\ FindMyFile(mine[n], f) # <<>> => FindMyFile(mine'[n], f) = FindMyFile(mine[n], f)
               /\ FindKnownFile(known[n], f) # <<>> => FindKnownFile(known'[n], f) = FindKnownFile(known[n], f)
    BY <2>1, <2>2, FileStays
  <2>4. ASSUME NEW m \in Nodes, LookUpNode(nodes[n], m.ip, m.port) # <<>>
        PROVE  LookUpNode(nodes'[n], m.ip, m.port) # <<>>
    BY <2>1, <2>4, NodeStays
  <2> QED BY <2>3, <2>4
<1>3. IndexInv /\ IndexInv' /\ [IndexNext]_indexVars => [memory' = "ok" => FoundStill]_indexVars
  BY <1>2, IndexKeeps
<1>4. IndexSpec => [][memory' = "ok" => FoundStill]_indexVars
  BY <1>1, <1>3, InitIndexInv, PTL DEF IndexSpec
<1> QED BY <1>4 DEF FoundForGood, FoundStill
=============================================================================
