--------------------------- MODULE NodeDirectory ---------------------------
(***************************************************************************)
(* What a node of week06d remembers about the others: a directory with     *)
(* one slot per hash bucket.  A name lives in the slot its hash selects,   *)
(* so learning a name whose hash collides with that of a known name        *)
(* forgets the known one.  Each remembered node carries the mark that the  *)
(* ping task reports:                                                      *)
(*                                                                         *)
(*   "ok"       nothing is outstanding, the next round pings the node      *)
(*   "waiting"  a ping was sent and its answer is still expected           *)
(*   "failed"   the ping could not be sent, or its answer was not a pong   *)
(*                                                                         *)
(* The module is the abstract specification of NodeTable, which has the    *)
(* heap entries, the bucket chains and the pointer walk of the C code.     *)
(***************************************************************************)
CONSTANTS
    Names,      \* node names (struct node, field name)
    Addrs,      \* an (ip, port) pair, a single value here
    Buckets,    \* 0 .. HASHMAP_ENTRIES - 1 in the code
    Hash,       \* known_node_hash, a function of the name
    NoNode      \* the content of an empty slot

Marks == {"ok", "waiting", "failed"}

Entry == [name : Names, addr : Addrs, mark : Marks]

VARIABLE slot   \* what each bucket holds

DirTypeOK == slot \in [Buckets -> Entry \cup {NoNode}]

DirInit == slot = [b \in Buckets |-> NoNode]

Holds(b, n) == slot[b] # NoNode /\ slot[b].name = n

(***************************************************************************)
(* Learning a node that is already known changes its address and keeps its *)
(* mark; learning any other node starts from the mark "ok".                *)
(***************************************************************************)
Learn(n, a) ==
    slot' = [slot EXCEPT ![Hash[n]] =
                [name |-> n, addr |-> a,
                 mark |-> IF Holds(Hash[n], n) THEN slot[Hash[n]].mark ELSE "ok"]]

\* One round of the ping task: every node marked "ok" is pinged, the others are left alone.
Round(lost) ==
    slot' = [b \in Buckets |->
                IF slot[b] # NoNode /\ slot[b].mark = "ok"
                THEN [slot[b] EXCEPT !.mark = IF b \in lost THEN "failed" ELSE "waiting"]
                ELSE slot[b]]

\* The answer to an outstanding ping, or its failure.
Answer(b, mark) ==
    /\ slot[b] # NoNode
    /\ slot[b].mark = "waiting"
    /\ slot' = [slot EXCEPT ![b].mark = mark]

DirNext ==
    \/ \E n \in Names, a \in Addrs : Learn(n, a)
    \/ \E lost \in SUBSET Buckets : Round(lost)
    \/ \E b \in Buckets, mark \in {"ok", "failed"} : Answer(b, mark)

DirSpec == DirInit /\ [][DirNext]_slot
=============================================================================
