----------------------------- MODULE NodeTable -----------------------------
(***************************************************************************)
(* The known-nodes hash map of week06d (known_nodes_hashmap.c) and the     *)
(* marks that pings.c keeps in its entries.                                *)
(*                                                                         *)
(* Entries are calloc'ed and never freed; they are cells of a heap here    *)
(* and a pointer is a cell number, 0 for NULL.  add_known_node is modelled *)
(* one loop iteration at a time, because its walk assigns through a        *)
(* pointer into the bucket array: every iteration that passes an entry     *)
(* unlinks it from the table.  The event loop is single threaded, so no    *)
(* ping runs while a walk is under way.                                    *)
(*                                                                         *)
(* An entry that has been unlinked is still referenced by the event loop   *)
(* as long as a ping sent for it is outstanding: the pong of an evicted    *)
(* node writes to a cell no bucket leads to.                               *)
(***************************************************************************)
EXTENDS Naturals

CONSTANTS
    Names, Addrs, Buckets, Hash, NoNode,
    MaxEntries, \* bound of the model: how many cells can be calloc'ed
    NoName      \* the name of a cell that calloc just zeroed

Null  == 0
Cells == 1 .. MaxEntries
Ptrs  == 0 .. MaxEntries

NodeEntry == [name : Names \cup {NoName}, addr : Addrs \cup {NoName},
              waiting : BOOLEAN,    \* waiting_pong_since # 0
              next : Ptrs]

Blank == [name |-> NoName, addr |-> NoName, waiting |-> FALSE, next |-> Null]

ASSUME TableConstants == /\ Hash \in [Names -> Buckets]
                         /\ MaxEntries \in Nat
                         /\ NoName \notin Names
                         /\ NoNode \notin [name : Names, addr : Addrs,
                                           mark : {"ok", "waiting", "failed"}]

VARIABLES
    heap,       \* the entries, allocated or not
    used,       \* how many cells calloc has returned
    known_nodes,\* the bucket heads
    pinged,     \* the cells that a registered ping_sock callback refers to
    pc,         \* "idle", or "walk" inside add_known_node
    node,       \* the argument of add_known_node
    append_to   \* its local variable

vars == <<heap, used, known_nodes, pinged, pc, node, append_to>>

TypeOK ==
    /\ heap \in [Cells -> NodeEntry]
    /\ used \in Ptrs
    /\ \A c \in Cells : c > used => heap[c] = Blank
    /\ known_nodes \in [Buckets -> Ptrs]
    /\ pinged \in SUBSET Cells
    /\ pc \in {"idle", "walk"}
    /\ node \in [name : Names, addr : Addrs]
    /\ append_to \in Ptrs

Init ==
    /\ heap = [c \in Cells |-> Blank]
    /\ used = 0
    /\ known_nodes = [b \in Buckets |-> Null]
    /\ pinged = {}
    /\ pc = "idle"
    /\ node \in [name : Names, addr : Addrs]
    /\ append_to = Null

(***************************************************************************)
(* The cells that for_each_known_node visits: the bucket heads and         *)
(* whatever their next pointers lead to, that is the least set that holds  *)
(* the heads and is closed under next.                                     *)
(***************************************************************************)
Closed(S) ==
    /\ \A b \in Buckets : known_nodes[b] # Null => known_nodes[b] \in S
    /\ \A c \in S : heap[c].next # Null => heap[c].next \in S

Listed == {c \in Cells : \A S \in SUBSET Cells : Closed(S) => c \in S}

-----------------------------------------------------------------------------
(* add_known_node *)

pos == Hash[node.name]      \* the bucket the walk is in
at  == known_nodes[pos]     \* *pos

AddKnownNode(n, a) ==
    /\ pc = "idle"
    /\ used < MaxEntries
    /\ pc' = "walk"
    /\ node' = [name |-> n, addr |-> a]
    /\ append_to' = Null
    /\ UNCHANGED <<heap, used, known_nodes, pinged>>

\* Another node is here: remember it and step over it, through the bucket itself.
Walk ==
    /\ pc = "walk"
    /\ at # Null
    /\ heap[at].name # node.name
    /\ append_to' = at
    /\ known_nodes' = [known_nodes EXCEPT ![pos] = heap[at].next]
    /\ UNCHANGED <<heap, used, pinged, pc, node>>

\* Mutant: the evicted entry is chained behind the one that replaces it.
FilledPrepends(c) ==
    LET filled == [heap EXCEPT ![c].name = node.name, ![c].addr = node.addr]
    IN  IF append_to = Null THEN filled
        ELSE [filled EXCEPT ![c].next = append_to]

\* Mutant: a node that introduces itself again gets a clean mark.
FilledFresh(c) ==
    LET filled == [heap EXCEPT ![c].name = node.name, ![c].addr = node.addr,
                               ![c].waiting = FALSE]
    IN  IF append_to = Null THEN filled
        ELSE [filled EXCEPT ![append_to].next = c]

\* The heap after the entry at c was filled in from node and linked behind append_to:
\* the mark and the next pointer of the entry are not touched.
Filled(c) ==
    LET filled == [heap EXCEPT ![c].name = node.name, ![c].addr = node.addr]
    IN  IF append_to = Null THEN filled
        ELSE [filled EXCEPT ![append_to].next = c]

\* Mutant: a cell that is still free is used.
SettleInFree ==
    /\ pc = "walk"
    /\ at = Null
    /\ known_nodes' = [known_nodes EXCEPT ![pos] = used + 1]
    /\ heap' = Filled(used + 1)
    /\ pc' = "idle"
    /\ UNCHANGED <<used, pinged, node, append_to>>

SettleNew ==
    /\ pc = "walk"
    /\ at = Null
    /\ used' = used + 1
    /\ known_nodes' = [known_nodes EXCEPT ![pos] = used + 1]
    /\ heap' = Filled(used + 1)
    /\ pc' = "idle"
    /\ UNCHANGED <<pinged, node, append_to>>

SettleFound ==
    /\ pc = "walk"
    /\ at # Null
    /\ heap[at].name = node.name
    /\ heap' = Filled(at)
    /\ pc' = "idle"
    /\ UNCHANGED <<used, known_nodes, pinged, node, append_to>>

-----------------------------------------------------------------------------
(* pings.c *)

(***************************************************************************)
(* ping_all_nodes calls ping_node on every entry of the table, which acts  *)
(* on those that are not waiting.  The pings that cannot be connected, or  *)
(* find the event loop full, leave the entry waiting with no callback.     *)
(***************************************************************************)
PingAllNodes(lost) ==
    /\ pc = "idle"
    /\ LET due == {c \in Listed : ~heap[c].waiting}
       IN  /\ lost \subseteq due
           /\ heap' = [c \in Cells |-> IF c \in due THEN [heap[c] EXCEPT !.waiting = TRUE]
                                                    ELSE heap[c]]
           /\ pinged' = pinged \cup (due \ lost)
    /\ UNCHANGED <<used, known_nodes, pc, node, append_to>>

\* ping_sock, when the answer is a pong.
Pong(c) ==
    /\ pc = "idle"
    /\ c \in pinged
    /\ heap' = [heap EXCEPT ![c].waiting = FALSE]
    /\ pinged' = pinged \ {c}
    /\ UNCHANGED <<used, known_nodes, pc, node, append_to>>

\* ping_sock, when the connection failed or the answer is anything else.
PongError(c) ==
    /\ pc = "idle"
    /\ c \in pinged
    /\ pinged' = pinged \ {c}
    /\ UNCHANGED <<heap, used, known_nodes, pc, node, append_to>>

-----------------------------------------------------------------------------
Next ==
    \/ \E n \in Names, a \in Addrs : AddKnownNode(n, a)
    \/ Walk
    \/ SettleNew
    \/ SettleFound
    \/ \E lost \in SUBSET Cells : PingAllNodes(lost)
    \/ \E c \in Cells : Pong(c)
    \/ \E c \in Cells : PongError(c)

Spec == Init /\ [][Next]_vars

-----------------------------------------------------------------------------
(* Properties *)

(***************************************************************************)
(* The table looks like one with chaining, and for_each_known_node follows *)
(* the chains; but a bucket leads to one entry at most, the head, and the  *)
(* head has a name that hashes to the bucket.  No name is listed twice.    *)
(***************************************************************************)
HeadsOnly ==
    \A c \in Listed : heap[c].name \in Names /\ known_nodes[Hash[heap[c].name]] = c

(***************************************************************************)
(* ping_node sends nothing to an entry that is marked as waiting, so the   *)
(* callback that is registered for an entry finds the mark still set: the  *)
(* mark of an entry with a ping under way is never cleared by anything but *)
(* the answer to that ping, and there is one such ping at most.            *)
(***************************************************************************)
PingedWaits == \A c \in pinged : heap[c].waiting

(***************************************************************************)
(* An entry that a walk has unlinked never comes back, although it still   *)
(* points into the table and a late pong still writes to it: what the      *)
(* table says of a node never depends on an answer to an evicted entry.    *)
(***************************************************************************)
EvictedForGood ==
    [][\A c \in 1 .. used : c \notin Listed => c \notin Listed']_vars

(***************************************************************************)
(* A mark that was left behind without a callback is never cleared: not by *)
(* later rounds of pings, and not by the node introducing itself again,    *)
(* since add_known_node keeps the mark of a name it finds.  The node is    *)
(* reported as failed until a colliding name evicts it.                    *)
(***************************************************************************)
FailedForGood ==
    [][\A c \in Listed : heap[c].waiting /\ c \notin pinged
          => heap'[c].waiting /\ c \notin pinged']_vars

(***************************************************************************)
(* The abstract directory.  A walk takes effect when it settles: until     *)
(* then the bucket it is in stands for the entry it has stepped over.      *)
(***************************************************************************)
SlotOf(p) ==
    IF p = Null THEN NoNode
    ELSE [name |-> heap[p].name, addr |-> heap[p].addr,
          mark |-> IF ~heap[p].waiting THEN "ok"
                   ELSE IF p \in pinged THEN "waiting" ELSE "failed"]

slotBar ==
    [b \in Buckets |->
        SlotOf(IF pc = "walk" /\ b = pos /\ append_to # Null THEN append_to
                                                             ELSE known_nodes[b])]

Directory == INSTANCE NodeDirectory WITH slot <- slotBar

\* The pointer code of add_known_node and the marks of pings.c implement the directory.
ImplementsDirectory == Directory!DirSpec
=============================================================================
