-------------------------- MODULE NodeTable_proofs --------------------------
(* Proofs about NodeTable: its invariants, for any number of names,        *)
(* buckets and entries, and that it implements NodeDirectory.              *)
EXTENDS NodeTable, TLAPS

USE DEF Null, Cells, Ptrs

(***************************************************************************)
(* The inductive invariant.  A bucket is empty or leads to one entry,      *)
(* which ends the chain and is at home in the bucket; a walk that has      *)
(* stepped over an entry has emptied its bucket.                           *)
(***************************************************************************)
AtHome(c, b) ==
    /\ c \in 1 .. used
    /\ heap[c].next = Null
    /\ Hash[heap[c].name] = b

HeadsAtHome ==
    \A b \in Buckets : known_nodes[b] # Null => AtHome(known_nodes[b], b)

AllocatedFilled ==
    \A c \in 1 .. used : heap[c].name \in Names /\ heap[c].addr \in Addrs

WalkInv ==
    pc = "walk" =>
        /\ used < MaxEntries
        /\ append_to # Null =>
              /\ AtHome(append_to, pos)
              /\ known_nodes[pos] = Null
              /\ heap[append_to].name # node.name

PingInv == \A c \in pinged : c \in 1 .. used /\ heap[c].waiting

IInv == TypeOK /\ HeadsAtHome /\ AllocatedFilled /\ WalkInv /\ PingInv

-----------------------------------------------------------------------------
(* The entries that for_each_known_node visits are the bucket heads. *)
LEMMA ListedAreHeads ==
    ASSUME IInv
    PROVE  Listed = {known_nodes[b] : b \in Buckets} \ {Null}
<1> DEFINE Heads == {known_nodes[b] : b \in Buckets} \ {Null}
<1>1. Heads \in SUBSET Cells
  BY DEF IInv, TypeOK
<1>2. Closed(Heads)
  BY DEF IInv, HeadsAtHome, AtHome, Closed
<1>3. Listed \subseteq Heads
  BY <1>1, <1>2 DEF Listed
<1>4. Heads \subseteq Listed
  BY <1>1 DEF Listed, Closed
<1> QED BY <1>3, <1>4

(* A heap into which an entry was filled keeps its type and, apart from the entry and the *)
(* next pointer of the one before it, its content.                                        *)
LEMMA FilledHeap ==
    ASSUME TypeOK, NEW c \in Cells
    PROVE  /\ Filled(c) \in [Cells -> NodeEntry]
           /\ Filled(c)[c].name = node.name
           /\ Filled(c)[c].addr = node.addr
           /\ Filled(c)[c].waiting = heap[c].waiting
           /\ append_to # c => Filled(c)[c].next = heap[c].next
           /\ \A d \in Cells \ {c} :
                 /\ Filled(c)[d].name = heap[d].name
                 /\ Filled(c)[d].addr = heap[d].addr
                 /\ Filled(c)[d].waiting = heap[d].waiting
                 /\ d # append_to => Filled(c)[d] = heap[d]
<1> DEFINE filled == [heap EXCEPT ![c].name = node.name, ![c].addr = node.addr]
<1>1. /\ filled \in [Cells -> NodeEntry]
      /\ filled[c].name = node.name
      /\ filled[c].addr = node.addr
      /\ filled[c].waiting = heap[c].waiting
      /\ filled[c].next = heap[c].next
      /\ \A d \in Cells \ {c} : filled[d] = heap[d]
  BY DEF TypeOK, NodeEntry
<1> HIDE DEF filled
<1>2. Filled(c) = IF append_to = Null THEN filled ELSE [filled EXCEPT ![append_to].next = c]
  BY DEF Filled, filled
<1>3. CASE append_to = Null
  BY <1>1, <1>2, <1>3
<1>4. CASE append_to \in Cells
  BY <1>1, <1>2, <1>4 DEF NodeEntry
<1> QED BY <1>3, <1>4 DEF TypeOK

(* A step that changes nothing but marks keeps the parts of the invariant that are not *)
(* about marks.                                                                        *)
MarksOnly ==
    \A c \in Cells : /\ heap'[c].name = heap[c].name
                      /\ heap'[c].addr = heap[c].addr
                      /\ heap'[c].next = heap[c].next

LEMMA MarksOnlyKeeps ==
    ASSUME IInv, MarksOnly, UNCHANGED <<used, known_nodes, pc, node, append_to>>, pc = "idle"
    PROVE  HeadsAtHome' /\ AllocatedFilled' /\ WalkInv'
<1>1. \A c \in 1 .. used : c \in Cells
  BY TableConstants DEF IInv, TypeOK
<1>2. HeadsAtHome'
  <2> SUFFICES ASSUME NEW b \in Buckets, known_nodes[b] # Null
               PROVE  AtHome(known_nodes[b], b)'
    BY DEF HeadsAtHome
  <2>1. AtHome(known_nodes[b], b)
    BY DEF IInv, HeadsAtHome
  <2> QED BY <1>1, <2>1 DEF AtHome, MarksOnly
<1>3. AllocatedFilled'
  BY <1>1 DEF IInv, AllocatedFilled, MarksOnly
<1>4. WalkInv'
  BY DEF WalkInv
<1> QED BY <1>2, <1>3, <1>4

(* The invariant holds at the start. *)
LEMMA InitIInv == Init => IInv
BY TableConstants DEF Init, IInv, TypeOK, NodeEntry, Blank, HeadsAtHome, AllocatedFilled,
                      WalkInv, PingInv

(* Every step keeps the invariant. *)
LEMMA NextIInv == IInv /\ [Next]_vars => IInv'
<1> SUFFICES ASSUME IInv, [Next]_vars
             PROVE  IInv'
  OBVIOUS
<1> USE TableConstants
<1>1. ASSUME NEW n \in Names, NEW a \in Addrs, AddKnownNode(n, a)
      PROVE  IInv'
  BY <1>1 DEF AddKnownNode, IInv, TypeOK, HeadsAtHome, AtHome, AllocatedFilled, WalkInv, PingInv
<1>2. ASSUME Walk
      PROVE  IInv'
  <2>1. pos \in Buckets /\ at \in Cells /\ AtHome(at, pos)
    BY <1>2 DEF Walk, IInv, TypeOK, HeadsAtHome, at, pos
  <2>2. append_to = Null
    BY <1>2, <2>1 DEF Walk, IInv, WalkInv, at
  <2>3. known_nodes' = [known_nodes EXCEPT ![pos] = Null]
    BY <1>2, <2>1 DEF Walk, AtHome
  <2> QED
    BY <1>2, <2>1, <2>2, <2>3 DEF Walk, IInv, TypeOK, HeadsAtHome, AtHome, AllocatedFilled,
                                  WalkInv, PingInv, at, pos
<1>3. ASSUME SettleNew
      PROVE  IInv'
  <2> DEFINE new == used + 1
  <2>1. /\ pos \in Buckets /\ new \in Cells /\ new # Null
        /\ append_to <= used /\ append_to # new
    BY <1>3 DEF SettleNew, IInv, TypeOK, WalkInv, AtHome, pos
  <2>2. heap[new] = Blank
    BY <2>1 DEF IInv, TypeOK
  <2>3. TypeOK'
    <3>1. heap' \in [Cells -> NodeEntry]
      BY <1>3, <2>1, FilledHeap DEF SettleNew, IInv
    <3>2. \A c \in Cells : c > new => heap'[c] = Blank
      <4> SUFFICES ASSUME NEW c \in Cells, c > new
                   PROVE  Filled(new)[c] = Blank
        BY <1>3 DEF SettleNew
      <4>1. heap[c] = Blank /\ c # new /\ c # append_to
        BY <2>1 DEF IInv, TypeOK
      <4> QED BY <2>1, <4>1, FilledHeap DEF IInv
    <3> QED BY <1>3, <2>1, <3>1, <3>2 DEF SettleNew, IInv, TypeOK
  <2>4. HeadsAtHome'
    <3> SUFFICES ASSUME NEW b \in Buckets, known_nodes'[b] # Null
                 PROVE  AtHome(known_nodes[b], b)'
      BY DEF HeadsAtHome
    <3>1. CASE b = pos
      BY <1>3, <2>1, <2>2, <3>1, FilledHeap
         DEF SettleNew, IInv, TypeOK, AtHome, Blank, pos
    <3>2. CASE b # pos
      <4>1. known_nodes'[b] = known_nodes[b] /\ AtHome(known_nodes[b], b)
        BY <1>3, <3>2 DEF SettleNew, IInv, TypeOK, HeadsAtHome
      <4>2. known_nodes[b] # append_to
        BY <1>3, <3>2, <4>1 DEF SettleNew, IInv, WalkInv, AtHome
      <4> QED BY <1>3, <2>1, <4>1, <4>2, FilledHeap DEF SettleNew, IInv, TypeOK, AtHome
    <3> QED BY <3>1, <3>2
  <2>5. AllocatedFilled'
    <3> SUFFICES ASSUME NEW c \in 1 .. new
                 PROVE  Filled(new)[c].name \in Names /\ Filled(new)[c].addr \in Addrs
      BY <1>3 DEF SettleNew, AllocatedFilled
    <3>1. node.name \in Names /\ node.addr \in Addrs /\ c \in Cells /\ used \in Ptrs
      BY <2>1 DEF IInv, TypeOK
    <3>2. CASE c = new
      BY <2>1, <3>1, <3>2, FilledHeap DEF IInv
    <3>3. CASE c # new
      <4>1. c \in 1 .. used /\ heap[c].name \in Names /\ heap[c].addr \in Addrs
        BY <3>1, <3>3 DEF IInv, AllocatedFilled
      <4> QED BY <2>1, <3>1, <3>3, <4>1, FilledHeap DEF IInv
    <3> QED BY <3>2, <3>3
  <2>6. WalkInv'
    BY <1>3 DEF SettleNew, WalkInv
  <2>7. PingInv'
    BY <1>3, <2>1, FilledHeap DEF SettleNew, IInv, TypeOK, PingInv
  <2> QED BY <2>3, <2>4, <2>5, <2>6, <2>7 DEF IInv
<1>4. ASSUME SettleFound
      PROVE  IInv'
  <2>1. pos \in Buckets /\ at \in Cells /\ at <= used /\ append_to = Null
    BY <1>4 DEF SettleFound, IInv, TypeOK, HeadsAtHome, AtHome, WalkInv, at, pos
  <2>2. heap' = [heap EXCEPT ![at].name = node.name, ![at].addr = node.addr]
    BY <1>4, <2>1 DEF SettleFound, Filled
  <2>3. /\ heap' \in [Cells -> NodeEntry]
        /\ heap'[at].name = heap[at].name
        /\ heap'[at].addr = node.addr
        /\ heap'[at].waiting = heap[at].waiting
        /\ heap'[at].next = heap[at].next
        /\ \A d \in Cells : d # at => heap'[d] = heap[d]
    <3>1. node.name \in Names /\ node.addr \in Addrs /\ heap \in [Cells -> NodeEntry]
      BY DEF IInv, TypeOK
    <3>2. heap[at].name = node.name
      BY <1>4 DEF SettleFound
    <3> HIDE DEF IInv
    <3> QED BY <2>1, <2>2, <3>1, <3>2 DEF NodeEntry
  <2>4. UNCHANGED <<used, known_nodes, pinged, node, append_to>> /\ pc' = "idle"
    BY <1>4 DEF SettleFound
  <2>5. TypeOK'
    BY <2>1, <2>3, <2>4 DEF IInv, TypeOK
  <2>6. HeadsAtHome'
    BY <2>1, <2>3, <2>4 DEF IInv, TypeOK, HeadsAtHome, AtHome
  <2>7. AllocatedFilled'
    BY <2>1, <2>3, <2>4 DEF IInv, TypeOK, AllocatedFilled
  <2>8. PingInv'
    BY <2>1, <2>3, <2>4 DEF IInv, TypeOK, PingInv
  <2> QED BY <2>4, <2>5, <2>6, <2>7, <2>8 DEF IInv, WalkInv
<1>5. ASSUME NEW lost \in SUBSET Cells, PingAllNodes(lost)
      PROVE  IInv'
  <2>1. \A c \in Listed : c \in 1 .. used
    BY ListedAreHeads DEF IInv, HeadsAtHome, AtHome
  <2> DEFINE due == {c \in Listed : ~heap[c].waiting}
  <2>2. /\ heap' = [c \in Cells |-> IF c \in due THEN [heap[c] EXCEPT !.waiting = TRUE]
                                                  ELSE heap[c]]
        /\ pinged' \subseteq pinged \cup due
        /\ UNCHANGED <<used, known_nodes, pc, node, append_to>>
        /\ pc = "idle"
    BY <1>5 DEF PingAllNodes
  <2>3. \A c \in Cells : heap[c] \in NodeEntry
    BY DEF IInv, TypeOK
  <2>4. heap' \in [Cells -> NodeEntry] /\ MarksOnly
    BY <2>2, <2>3 DEF NodeEntry, MarksOnly
  <2>5. \A c \in due : c \in 1 .. used /\ c \in Cells /\ heap'[c].waiting
    <3> SUFFICES ASSUME NEW c \in due
                 PROVE  c \in 1 .. used /\ c \in Cells /\ heap'[c].waiting
      OBVIOUS
    <3>1. c \in 1 .. used /\ c \in Cells /\ heap[c] \in NodeEntry
      BY <2>1, <2>3 DEF Listed
    <3>2. heap'[c] = [heap[c] EXCEPT !.waiting = TRUE]
      BY <2>2, <3>1
    <3> QED BY <3>1, <3>2 DEF NodeEntry
  <2>6. \A c \in Cells : c > used => heap'[c] = heap[c]
    BY <2>1, <2>2 DEF IInv, TypeOK
  <2>7. PingInv'
    <3> SUFFICES ASSUME NEW c \in pinged'
                 PROVE  c \in 1 .. used /\ heap'[c].waiting
      BY <2>2 DEF PingInv
    <3>1. CASE c \in due
      BY <2>5, <3>1
    <3>2. CASE c \notin due
      BY <2>2, <3>2 DEF IInv, TypeOK, PingInv
    <3> QED BY <3>1, <3>2
  <2>8. TypeOK'
    BY <2>2, <2>4, <2>5, <2>6 DEF IInv, TypeOK
  <2> QED BY <2>2, <2>4, <2>7, <2>8, MarksOnlyKeeps DEF IInv
<1>6. ASSUME NEW c \in Cells, Pong(c)
      PROVE  IInv'
  <2>1. /\ UNCHANGED <<used, known_nodes, pc, node, append_to>> /\ pc = "idle"
        /\ heap' = [heap EXCEPT ![c].waiting = FALSE]
        /\ pinged' = pinged \ {c}
    BY <1>6 DEF Pong
  <2>2. /\ heap' \in [Cells -> NodeEntry]
        /\ \A d \in Cells : d # c => heap'[d] = heap[d]
        /\ MarksOnly
    BY <2>1 DEF IInv, TypeOK, NodeEntry, MarksOnly
  <2>3. c \in 1 .. used
    BY <1>6 DEF Pong, IInv, PingInv
  <2>4. PingInv'
    BY <2>1, <2>2 DEF IInv, TypeOK, PingInv
  <2>5. TypeOK'
    BY <2>1, <2>2, <2>3 DEF IInv, TypeOK
  <2> QED BY <2>1, <2>2, <2>4, <2>5, MarksOnlyKeeps DEF IInv
<1>7. ASSUME NEW c \in Cells, PongError(c)
      PROVE  IInv'
  BY <1>7 DEF PongError, IInv, TypeOK, HeadsAtHome, AtHome, AllocatedFilled, WalkInv, PingInv
<1>8. CASE UNCHANGED vars
  BY <1>8 DEF vars, IInv, TypeOK, HeadsAtHome, AtHome, AllocatedFilled, WalkInv, PingInv, pos
<1> QED BY <1>1, <1>2, <1>3, <1>4, <1>5, <1>6, <1>7, <1>8 DEF Next

-----------------------------------------------------------------------------

(* Listed cells are heads at home, and marks and callbacks agree, in every reachable state. *)
LEMMA Invariance == Spec => []IInv
<1> QED BY InitIInv, NextIInv, PTL DEF Spec

(* Type correctness, and that cells calloc has not returned are untouched. *)
THEOREM TypeCorrect == Spec => []TypeOK
<1> QED BY Invariance, PTL DEF IInv

(* A bucket never leads to a second entry, and no name is listed twice. *)
THEOREM OneEntryPerBucket == Spec => []HeadsOnly
<1>1. IInv => HeadsOnly
  BY ListedAreHeads DEF IInv, TypeOK, HeadsAtHome, AtHome, AllocatedFilled, HeadsOnly
<1> QED BY <1>1, Invariance, PTL

(* A registered pong callback finds its entry marked. *)
THEOREM OnePingPerEntry == Spec => []PingedWaits
<1>1. IInv => PingedWaits
  BY DEF IInv, PingInv, PingedWaits
<1> QED BY <1>1, Invariance, PTL

(* The entries listed after a step. *)
LEMMA ListedNext == IInv' => (Listed = {known_nodes[b] : b \in Buckets} \ {Null})'
<1>1. IInv => Listed = {known_nodes[b] : b \in Buckets} \ {Null}
  BY ListedAreHeads
<1> QED BY <1>1, PTL

(* What a walk has unlinked is never listed again. *)
THEOREM EvictedStaysOut == Spec => EvictedForGood
<1>1. IInv /\ IInv' /\ [Next]_vars => [\A c \in 1 .. used : c \notin Listed => c \notin Listed']_vars
  <2> SUFFICES ASSUME IInv, IInv', Next,
                      NEW c \in 1 .. used, NEW b \in Buckets,
                      c \notin Listed, known_nodes'[b] = c
               PROVE  FALSE
    BY ListedNext
  <2>1. known_nodes[b] # c
    BY ListedAreHeads
  <2>2. used \in Nat /\ known_nodes \in [Buckets -> Ptrs]
    BY TableConstants DEF IInv, TypeOK
  <2>3. CASE Walk
    <3>1. pos \in Buckets /\ AtHome(at, pos)
      BY <2>3, TableConstants DEF Walk, IInv, TypeOK, HeadsAtHome, at, pos
    <3> QED BY <2>1, <2>2, <2>3, <3>1 DEF Walk, AtHome
  <2>4. CASE SettleNew
    BY <2>1, <2>2, <2>4 DEF SettleNew
  <2>5. CASE ~Walk /\ ~SettleNew
    BY <2>1, <2>5 DEF Next, AddKnownNode, SettleFound, PingAllNodes, Pong, PongError
  <2> QED BY <2>3, <2>4, <2>5
<1> QED BY <1>1, Invariance, NextIInv, PTL DEF Spec, EvictedForGood

(* A mark without a callback is never cleared. *)
THEOREM FailedStaysFailed == Spec => FailedForGood
<1>1. IInv /\ [Next]_vars =>
         [\A c \in Listed : heap[c].waiting /\ c \notin pinged
              => heap'[c].waiting /\ c \notin pinged']_vars
  <2> SUFFICES ASSUME IInv, Next,
                      NEW c \in Listed, heap[c].waiting, c \notin pinged
               PROVE  heap'[c].waiting /\ c \notin pinged'
    OBVIOUS
  <2>1. c \in Cells /\ c \in 1 .. used /\ heap \in [Cells -> NodeEntry]
    BY ListedAreHeads DEF IInv, TypeOK, HeadsAtHome, AtHome, Listed
  <2>2. ASSUME NEW d \in Cells, heap' = Filled(d), pinged' = pinged
        PROVE  heap'[c].waiting /\ c \notin pinged'
    BY <2>1, <2>2, FilledHeap DEF IInv
  <2>3. CASE \E n \in Names, a \in Addrs : AddKnownNode(n, a)
    BY <2>3 DEF AddKnownNode
  <2>4. CASE Walk
    BY <2>4 DEF Walk
  <2>5. CASE SettleNew
    <3>1. used + 1 \in Cells
      BY <2>5, TableConstants DEF SettleNew, IInv, TypeOK, WalkInv
    <3> QED BY <2>2, <2>5, <3>1 DEF SettleNew
  <2>6. CASE SettleFound
    <3>1. at \in Cells
      BY <2>6, TableConstants DEF SettleFound, IInv, TypeOK, at, pos
    <3> QED BY <2>2, <2>6, <3>1 DEF SettleFound
  <2>7. ASSUME NEW lost \in SUBSET Cells, PingAllNodes(lost)
        PROVE  heap'[c].waiting /\ c \notin pinged'
    BY <2>1, <2>7 DEF PingAllNodes, NodeEntry
  <2>8. ASSUME NEW d \in Cells, Pong(d)
        PROVE  heap'[c].waiting /\ c \notin pinged'
    BY <2>1, <2>8 DEF Pong, NodeEntry
  <2>9. CASE \E d \in Cells : PongError(d)
    BY <2>9 DEF PongError
  <2> QED BY <2>3, <2>4, <2>5, <2>6, <2>7, <2>8, <2>9 DEF Next
<1> QED BY <1>1, Invariance, PTL DEF Spec, FailedForGood

-----------------------------------------------------------------------------
(* Refinement *)

(* What a slot shows of the entry it stands for. *)
LEMMA SlotOfEntry ==
    ASSUME IInv, NEW c \in 1 .. used
    PROVE  /\ c \in Cells /\ c # Null
           /\ SlotOf(c) # NoNode
           /\ SlotOf(c).name = heap[c].name
           /\ SlotOf(c).mark = "ok" <=> ~heap[c].waiting
           /\ SlotOf(c).mark = "waiting" <=> c \in pinged
<1>1. c \in Cells /\ c # Null /\ heap[c].name \in Names /\ heap[c].addr \in Addrs
  BY TableConstants DEF IInv, TypeOK, AllocatedFilled
<1>2. SlotOf(c) \in [name : Names, addr : Addrs, mark : {"ok", "waiting", "failed"}]
  BY <1>1 DEF SlotOf
<1>3. c \in pinged => heap[c].waiting
  BY DEF IInv, PingInv
<1> QED BY <1>1, <1>2, <1>3, TableConstants DEF SlotOf

(* Outside a walk a slot shows the head of its bucket. *)
LEMMA SlotIdle ==
    ASSUME pc # "walk" \/ append_to = Null
    PROVE  slotBar = [b \in Buckets |-> SlotOf(known_nodes[b])]
BY DEF slotBar

(* The empty table shows the empty directory. *)
LEMMA RefinesInit == Init => Directory!DirInit
BY DEF Init, Directory!DirInit, slotBar, SlotOf

(* A step of the pointer code is a step of the directory, or none. *)
LEMMA RefinesNext == IInv /\ IInv' /\ [Next]_vars => [Directory!DirNext]_slotBar
<1> SUFFICES ASSUME IInv, IInv', [Next]_vars
             PROVE  Directory!DirNext \/ slotBar' = slotBar
  OBVIOUS
<1>1. CASE \E n \in Names, a \in Addrs : AddKnownNode(n, a)
  <2>1. slotBar = [b \in Buckets |-> SlotOf(known_nodes[b])]
    BY <1>1, SlotIdle DEF AddKnownNode
  <2>2. slotBar' = [b \in Buckets |-> SlotOf(known_nodes[b])]
    BY <1>1 DEF AddKnownNode, slotBar, SlotOf
  <2> QED BY <2>1, <2>2
<1>2. CASE Walk
  <2>1. append_to = Null /\ at # Null
    BY <1>2, TableConstants DEF Walk, IInv, WalkInv, at
  <2>2. slotBar = [b \in Buckets |-> SlotOf(known_nodes[b])]
    BY <2>1, SlotIdle
  <2>3. slotBar' = [b \in Buckets |-> SlotOf(known_nodes[b])]
    BY <1>2, <2>1 DEF Walk, IInv, TypeOK, slotBar, SlotOf, at, pos
  <2> QED BY <2>2, <2>3
<1>3. CASE SettleNew
  <2> DEFINE new == used + 1
  <2>1. /\ pos \in Buckets /\ new \in Cells /\ append_to <= used
        /\ node.name \in Names /\ node.addr \in Addrs
        /\ pos = Hash[node.name]
    BY <1>3, TableConstants DEF SettleNew, IInv, TypeOK, WalkInv, AtHome, pos
  <2>2. ~Directory!Holds(pos, node.name)
    BY <1>3, <2>1, SlotOfEntry, TableConstants
       DEF SettleNew, IInv, WalkInv, AtHome, Directory!Holds, slotBar, SlotOf, at
  <2>3. slotBar'[pos] = [name |-> node.name, addr |-> node.addr, mark |-> "ok"]
    <3>1. slotBar'[pos] = SlotOf(known_nodes[pos])' /\ known_nodes'[pos] = new /\ pos' = pos
      BY <1>3, <2>1 DEF SettleNew, IInv, TypeOK, slotBar, pos
    <3>2. heap'[new].name = node.name /\ heap'[new].addr = node.addr /\ ~heap'[new].waiting
      <4>1. heap[new] = Blank /\ new # append_to
        BY <2>1, TableConstants DEF IInv, TypeOK
      <4>2. heap' = Filled(new)
        BY <1>3 DEF SettleNew
      <4> QED BY <2>1, <4>1, <4>2, FilledHeap DEF IInv, Blank
    <3> QED BY <2>1, <3>1, <3>2 DEF SlotOf
  <2>4. \A b \in Buckets : b # pos => slotBar'[b] = slotBar[b]
    <3> SUFFICES ASSUME NEW b \in Buckets, b # pos
                 PROVE  SlotOf(known_nodes[b])' = SlotOf(known_nodes[b])
      BY <1>3 DEF SettleNew, slotBar
    <3>1. known_nodes'[b] = known_nodes[b]
      BY <1>3 DEF SettleNew, IInv, TypeOK
    <3>2. CASE known_nodes[b] = Null
      BY <3>1, <3>2 DEF SlotOf
    <3>3. CASE known_nodes[b] # Null
      <4>1. known_nodes[b] \in 1 .. used /\ known_nodes[b] # append_to
        BY <1>3, <3>3 DEF SettleNew, IInv, HeadsAtHome, WalkInv, AtHome
      <4>2. heap'[known_nodes[b]] = heap[known_nodes[b]]
        BY <1>3, <2>1, <4>1, FilledHeap, TableConstants DEF SettleNew, IInv, TypeOK
      <4>3. pinged' = pinged
        BY <1>3 DEF SettleNew
      <4> QED BY <3>1, <4>2, <4>3 DEF SlotOf
    <3> QED BY <3>2, <3>3
  <2>5. Directory!Learn(node.name, node.addr)
    BY <2>1, <2>2, <2>3, <2>4 DEF Directory!Learn, slotBar
  <2> QED BY <2>1, <2>5 DEF Directory!DirNext
<1>4. CASE SettleFound
  <2>1. /\ pos \in Buckets /\ at \in 1 .. used /\ append_to = Null
        /\ node.name \in Names /\ node.addr \in Addrs
        /\ pos = Hash[node.name] /\ heap[at].name = node.name
    BY <1>4, TableConstants
       DEF SettleFound, IInv, TypeOK, WalkInv, HeadsAtHome, AtHome, at, pos
  <2>2. slotBar = [b \in Buckets |-> SlotOf(known_nodes[b])]
    BY <2>1, SlotIdle
  <2>3. slotBar' = [b \in Buckets |-> SlotOf(known_nodes[b])']
    BY <1>4 DEF SettleFound, slotBar
  <2>4. at \in Cells
    BY <2>1, SlotOfEntry
  <2>5. /\ heap'[at].name = node.name /\ heap'[at].addr = node.addr
        /\ heap'[at].waiting = heap[at].waiting
        /\ \A d \in Cells : d # at => heap'[d] = heap[d]
    BY <1>4, <2>1, <2>4, FilledHeap DEF SettleFound, IInv, Filled, Null
  <2>6. Directory!Holds(pos, node.name)
    BY <2>1, <2>2, SlotOfEntry DEF Directory!Holds, at
  <2>7. slotBar'[pos] = [name |-> node.name, addr |-> node.addr, mark |-> slotBar[pos].mark]
    BY <1>4, <2>1, <2>2, <2>3, <2>4, <2>5 DEF SettleFound, SlotOf, at
  <2>8. \A b \in Buckets : b # pos => slotBar'[b] = slotBar[b]
    <3> SUFFICES ASSUME NEW b \in Buckets, b # pos
                 PROVE  SlotOf(known_nodes[b])' = SlotOf(known_nodes[b])
      BY <2>2, <2>3
    <3>1. known_nodes[b] # at
      BY <2>1, <2>4 DEF IInv, HeadsAtHome, AtHome, at
    <3>2. known_nodes[b] \in Ptrs /\ known_nodes' = known_nodes /\ pinged' = pinged
      BY <1>4 DEF SettleFound, IInv, TypeOK
    <3> QED BY <2>5, <3>1, <3>2, TableConstants DEF SlotOf
  <2>9. Directory!Learn(node.name, node.addr)
    BY <2>1, <2>2, <2>3, <2>6, <2>7, <2>8 DEF Directory!Learn
  <2> QED BY <2>1, <2>9 DEF Directory!DirNext
<1>5. ASSUME NEW lost \in SUBSET Cells, PingAllNodes(lost)
      PROVE  Directory!DirNext
  <2> DEFINE gone == {b \in Buckets : known_nodes[b] \in lost}
             due  == {c \in Listed : ~heap[c].waiting}
  <2>1. slotBar = [b \in Buckets |-> SlotOf(known_nodes[b])]
    BY <1>5, SlotIdle DEF PingAllNodes
  <2>2. slotBar' = [b \in Buckets |-> SlotOf(known_nodes[b])']
    BY <1>5 DEF PingAllNodes, slotBar
  <2>3. ASSUME NEW b \in Buckets
        PROVE  SlotOf(known_nodes[b])' =
                  IF slotBar[b] # NoNode /\ slotBar[b].mark = "ok"
                  THEN [slotBar[b] EXCEPT !.mark = IF b \in gone THEN "failed" ELSE "waiting"]
                  ELSE slotBar[b]
    <3> DEFINE c == known_nodes[b]
    <3>1. known_nodes' = known_nodes
      BY <1>5 DEF PingAllNodes
    <3>2. CASE c = Null
      BY <2>1, <3>1, <3>2 DEF SlotOf
    <3>3. CASE c # Null
      <4>1. c \in 1 .. used /\ c \in Cells /\ c \in Listed
        BY <3>3, ListedAreHeads, SlotOfEntry DEF IInv, HeadsAtHome, AtHome
      <4>2. slotBar[b] = SlotOf(c) /\ slotBar[b] # NoNode
        BY <2>1, <4>1, SlotOfEntry
      <4>3. heap[c] \in NodeEntry
        BY <4>1 DEF IInv, TypeOK
      <4>4. CASE heap[c].waiting
        <5>1. heap'[c] = heap[c] /\ (c \in pinged' <=> c \in pinged)
          BY <1>5, <4>1, <4>4 DEF PingAllNodes
        <5> QED BY <3>1, <3>3, <4>1, <4>2, <4>4, <5>1 DEF SlotOf
      <4>5. CASE ~heap[c].waiting
        <5>1. heap'[c] = [heap[c] EXCEPT !.waiting = TRUE] /\ c \notin pinged
          BY <1>5, <4>1, <4>5 DEF PingAllNodes, IInv, PingInv
        <5>2. c \in pinged' <=> c \notin lost
          BY <1>5, <4>1, <4>5, <5>1 DEF PingAllNodes
        <5> QED BY <3>1, <3>3, <4>1, <4>2, <4>3, <4>5, <5>1, <5>2 DEF SlotOf, NodeEntry
      <4> QED BY <4>4, <4>5
    <3> QED BY <3>2, <3>3
  <2>4. Directory!Round(gone)
    BY <2>2, <2>3 DEF Directory!Round
  <2> QED BY <2>4 DEF Directory!DirNext
<1>6. ASSUME NEW c \in Cells, Pong(c) \/ PongError(c)
      PROVE  Directory!DirNext \/ slotBar' = slotBar
  <2> DEFINE b == Hash[heap[c].name]
             mark == IF Pong(c) THEN "ok" ELSE "failed"
  <2>1. /\ pc = "idle" /\ c \in pinged
        /\ UNCHANGED <<used, known_nodes, pc, node, append_to>>
        /\ pinged' = pinged \ {c}
        /\ heap' = IF Pong(c) THEN [heap EXCEPT ![c].waiting = FALSE] ELSE heap
    BY <1>6 DEF Pong, PongError
  <2>2. /\ c \in 1 .. used /\ heap[c].waiting /\ heap \in [Cells -> NodeEntry]
        /\ b \in Buckets
    BY <2>1, TableConstants DEF IInv, TypeOK, PingInv, AllocatedFilled
  <2>3. \A d \in Cells : d # c => heap'[d] = heap[d]
    BY <2>1, <2>2
  <2>4. slotBar = [e \in Buckets |-> SlotOf(known_nodes[e])]
    BY <2>1, SlotIdle
  <2>5. slotBar' = [e \in Buckets |-> SlotOf(known_nodes[e])']
    BY <2>1 DEF slotBar
  <2>6. ASSUME NEW e \in Buckets, known_nodes[e] # c
        PROVE  slotBar'[e] = slotBar[e]
    BY <2>1, <2>3, <2>4, <2>5, <2>6, TableConstants DEF SlotOf, IInv, TypeOK
  <2>7. CASE known_nodes[b] # c
    <3>1. \A e \in Buckets : known_nodes[e] # c
      BY <2>1, <2>7 DEF IInv, HeadsAtHome, AtHome
    <3> QED BY <2>4, <2>5, <2>6, <3>1
  <2>8. CASE known_nodes[b] = c
    <3>1. \A e \in Buckets : e # b => slotBar'[e] = slotBar[e]
      BY <2>2, <2>6 DEF IInv, HeadsAtHome, AtHome
    <3>2. slotBar[b] = SlotOf(c) /\ slotBar[b] # NoNode /\ slotBar[b].mark = "waiting"
      BY <2>1, <2>2, <2>4, <2>8, SlotOfEntry
    <3>3. slotBar'[b] = [slotBar[b] EXCEPT !.mark = mark]
      <4>1. /\ heap'[c].name = heap[c].name /\ heap'[c].addr = heap[c].addr
            /\ heap'[c].waiting <=> ~Pong(c)
        BY <2>1, <2>2 DEF NodeEntry
      <4>2. slotBar'[b] = SlotOf(c)'
        BY <2>1, <2>2, <2>5, <2>8
      <4> QED BY <2>1, <2>2, <3>2, <4>1, <4>2 DEF SlotOf
    <3>4. slotBar' = [slotBar EXCEPT ![b].mark = mark]
      BY <2>2, <2>4, <2>5, <3>1, <3>3
    <3>5. Directory!Answer(b, mark)
      BY <3>2, <3>4 DEF Directory!Answer
    <3> QED BY <2>2, <3>5 DEF Directory!DirNext
  <2> QED BY <2>7, <2>8
<1>7. CASE UNCHANGED vars
  BY <1>7 DEF vars, slotBar, SlotOf, pos
<1> QED BY <1>1, <1>2, <1>3, <1>4, <1>5, <1>6, <1>7 DEF Next

(* add_known_node and the marks of pings.c implement the directory. *)
THEOREM Refinement == Spec => ImplementsDirectory
<1> QED BY RefinesInit, RefinesNext, Invariance, NextIInv, PTL
        DEF Spec, ImplementsDirectory, Directory!DirSpec
=============================================================================
