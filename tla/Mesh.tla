-------------------------------- MODULE Mesh --------------------------------
(***************************************************************************)
(* The network that week06d nodes form: the blocking bootstrap of a new    *)
(* node (bootstrap.c, main.c), the requests that nodes send each other     *)
(* (requests.c, client_context.c) and their handlers (handlers.c).         *)
(*                                                                         *)
(* A node that joins is not listening yet.  It says HELLO to its seed,     *)
(* which enters it in its table and pushes it to everyone it knows before  *)
(* it answers; then the node asks for the seed's table, and only then      *)
(* starts to serve.  A push is a connection of its own, opened, written    *)
(* and closed by the pusher; it is lost when nobody listens at the         *)
(* address.                                                                *)
(*                                                                         *)
(* Two pieces of state tie connections together that should not be:        *)
(*   - a client's IP address is kept as a pointer to inet_ntoa's static    *)
(*     buffer, so all connections have the address of the one accepted     *)
(*     last (ntoa);                                                        *)
(*   - the sender of a push is looked up by address in the receiver's      *)
(*     table, and the result is used without a check.                      *)
(*                                                                         *)
(* The tables are those of NodeDirectory without the marks.  A turn of a   *)
(* node's event loop is what it is in EventLoop as long as descriptors and *)
(* entries last: poll says which connections are to be read and whether    *)
(* there is one to accept; the accept comes first, then the connections in *)
(* the order in which they were accepted.                                  *)
(***************************************************************************)
EXTENDS Naturals, FiniteSets, SequencesExt

CONSTANTS
    Nodes,      \* the nodes, also their names
    Hosts, Ports,
    Buckets, Hash,
    Layouts,    \* what the users of the network may have in mind, see Layout
    Nobody      \* no node, no entry, no address

(***************************************************************************)
(* A layout says how nodes are started and what may happen to them.        *)
(***************************************************************************)
Layout ==
    [host : [Nodes -> Hosts],   \* where a node runs
     port : [Nodes -> Ports],   \* --listen
     seed : [Nodes -> Nodes \cup {Nobody}],     \* --bootstrap
     clean : BOOLEAN,   \* nodes are only started while their seed is listening, and the
                        \* stack holds a zero where main has the bootstrap address
     crashes : Nat]     \* bound of the model: how many crashes

Addrs == [host : Hosts, port : Ports]
Entry == [name : Nodes, addr : Addrs]
Table == [Buckets -> Entry \cup {Nobody}]

ASSUME MeshConstants ==
    /\ Nobody \notin Nodes \cup Hosts
    /\ Nobody \notin Entry
    /\ Hash \in [Nodes -> Buckets] /\ IsFiniteSet(Buckets)
    /\ \A l \in Layouts :
          /\ l \in Layout
          /\ \A n \in Nodes : l.seed[n] # n
          /\ \A m, n \in Nodes : l.host[m] = l.host[n] /\ l.port[m] = l.port[n] => m = n

VARIABLES
    layout,
    mode,       \* "down", "hello" or "list" while it bootstraps, "up", "dead" or "wild"
    known,      \* known_nodes
    ntoa,       \* the static buffer: the host of the latest accepted connection
    queue,      \* connections to the node, not accepted yet
    held,       \* connections accepted and not closed, in the event loop's order
    turn,       \* what is left to dispatch of what the last poll reported
    ask,        \* the request that a joining node has written and the seed not read
    ans,        \* the answer that the seed has written and the joining node not read
    input,      \* what the request buffer on the stack still holds: a HELLO, a push or neither
    crashes

vars == <<layout, mode, known, ntoa, queue, held, turn, ask, ans, input, crashes>>

Host   == layout.host
Port   == layout.port
SeedOf == layout.seed

(***************************************************************************)
(* A connection: a joining node's, one that carries a push, or what is     *)
(* left of the connection of a node that crashed while it joined.  That    *)
(* gives the request that was not read yet, then its end, then a reset.    *)
(***************************************************************************)
Conn ==
    [kind : {"join"}, from : Nodes]
        \cup [kind : {"push"}, from : Nodes, what : Entry]
        \cup [kind : {"gone"}, from : Nodes, gives : {"hello", "list", "end", "reset"}, id : Nat]

ASSUME NobodyConnects == Nobody \notin Conn

TheAccept == [kind |-> "accept"]
JoinOf(n) == [kind |-> "join", from |-> n]
Gone(n, gives, id) == [kind |-> "gone", from |-> n, gives |-> gives, id |-> id]

Answers == [kind : {"none", "hello"}] \cup [kind : {"list"}, table : Table]

TypeOK ==
    /\ layout \in Layouts
    /\ mode \in [Nodes -> {"down", "hello", "list", "up", "dead", "wild"}]
    /\ known \in [Nodes -> Table]
    /\ ntoa \in [Nodes -> Hosts \cup {Nobody}]
    /\ queue \in [Nodes -> Seq(Conn)]
    /\ held \in [Nodes -> Seq(Conn)]
    /\ turn \in [Nodes -> Seq(Conn \cup {TheAccept})]
    /\ ask \in [Nodes -> {"none", "hello", "list"}]
    /\ DOMAIN ans = Nodes /\ \A n \in Nodes : ans[n] \in Answers
    /\ input \in [Nodes -> {c \in Conn : c.kind # "gone"} \cup {Nobody}]
    /\ crashes \in 0 .. layout.crashes

NoTable  == [b \in Buckets |-> Nobody]
NoAnswer == [kind |-> "none"]

Init ==
    /\ layout \in Layouts
    /\ mode = [n \in Nodes |-> "down"]
    /\ known = [n \in Nodes |-> NoTable]
    /\ ntoa = [n \in Nodes |-> Nobody]
    /\ queue = [n \in Nodes |-> <<>>]
    /\ held = [n \in Nodes |-> <<>>]
    /\ turn = [n \in Nodes |-> <<>>]
    /\ ask = [n \in Nodes |-> "none"]
    /\ ans = [n \in Nodes |-> NoAnswer]
    /\ input = [n \in Nodes |-> Nobody]
    /\ crashes = 0

-----------------------------------------------------------------------------
(* Tables and addresses *)

AddrOf(n) == [host |-> Host[n], port |-> Port[n]]

Learned(table, name, addr) ==
    [table EXCEPT ![Hash[name]] = [name |-> name, addr |-> addr]]

\* for_each_known_node
Entries(table) == {table[b] : b \in Buckets} \ {Nobody}
NamesIn(table) == {e.name : e \in Entries(table)}

\* connect_to_node_plain succeeds when a node listens at the address.
ListensAt(n, addr) == mode[n] = "up" /\ AddrOf(n) = addr

\* look_up_known_node
LookedUp(table, addr) == \E e \in Entries(table) : e.addr = addr

-----------------------------------------------------------------------------
(* Bootstrap: main.c and bootstrap.c *)

StartAlone(n) ==
    /\ mode[n] = "down"
    /\ SeedOf[n] = Nobody
    /\ mode' = [mode EXCEPT ![n] = "up"]
    /\ UNCHANGED <<layout, known, ntoa, queue, held, turn, ask, ans, input, crashes>>

(***************************************************************************)
(* Without a --bootstrap option the buffer for its address is not          *)
(* initialised.  Main takes whatever it begins with for an address, and    *)
(* ends the node when there is no colon and no port in it.                 *)
(***************************************************************************)
StartByGarbage(n) ==
    /\ ~layout.clean
    /\ mode[n] = "down"
    /\ SeedOf[n] = Nobody
    /\ mode' = [mode EXCEPT ![n] = "dead"]
    /\ UNCHANGED <<layout, known, ntoa, queue, held, turn, ask, ans, input, crashes>>

StartJoin(n) ==
    /\ mode[n] = "down"
    /\ SeedOf[n] # Nobody
    /\ mode[SeedOf[n]] = "up"
    /\ mode' = [mode EXCEPT ![n] = "hello"]
    /\ queue' = [queue EXCEPT ![SeedOf[n]] = Append(@, JoinOf(n))]
    /\ ask' = [ask EXCEPT ![n] = "hello"]
    /\ UNCHANGED <<layout, known, ntoa, held, turn, ans, input, crashes>>

(***************************************************************************)
(* A list length that was not received: zero lets the node start with what *)
(* it knows, and one that is negative or large ends it.  With a small one  *)
(* it enters so many nodes out of whatever its buffer holds, under hashes  *)
(* that may be negative, and may write anywhere.  What such a node does is *)
(* not modelled: the model stops there.                                    *)
(***************************************************************************)
AnyLength == {"up", "dead", "wild"}

(***************************************************************************)
(* Nobody looks at the result of the connect.  say_hello receives into the *)
(* buffer it sent from, so without a connection it finds its own HELLO     *)
(* there, and the node enters its own name, at the seed's IP and its own   *)
(* port.  The length of the node list is then read from an uninitialised   *)
(* buffer.                                                                 *)
(***************************************************************************)
StartUnreachable(n) ==
    /\ ~layout.clean
    /\ mode[n] = "down"
    /\ SeedOf[n] # Nobody
    /\ mode[SeedOf[n]] # "up"
    /\ known' = [known EXCEPT ![n] =
                    Learned(@, n, [host |-> Host[SeedOf[n]], port |-> Port[n]])]
    /\ \E end \in AnyLength : mode' = [mode EXCEPT ![n] = end]
    /\ UNCHANGED <<layout, ntoa, queue, held, turn, ask, ans, input, crashes>>

\* say_hello returns: enter the seed, ask it for its table.
HelloAnswered(n) ==
    /\ mode[n] = "hello"
    /\ ans[n].kind = "hello"
    /\ known' = [known EXCEPT ![n] = Learned(@, SeedOf[n], AddrOf(SeedOf[n]))]
    /\ mode' = [mode EXCEPT ![n] = "list"]
    /\ ask' = [ask EXCEPT ![n] = "list"]
    /\ ans' = [ans EXCEPT ![n] = NoAnswer]
    /\ UNCHANGED <<layout, ntoa, queue, held, turn, input, crashes>>

\* Mutant: a node adds itself.
OthersAndSelf(n, list, table) ==
    [b \in Buckets |-> IF list[b] # Nobody THEN list[b] ELSE table[b]]

\* Mutant: the list takes the place of what the node knew, the seed.
OthersInstead(n, list, table) ==
    [b \in Buckets |-> IF list[b] # Nobody /\ list[b].name # n THEN list[b] ELSE Nobody]

\* The loop of bootstrap_known_nodes; then server_main.
OthersOf(n, list, table) ==
    [b \in Buckets |-> IF list[b] # Nobody /\ list[b].name # n THEN list[b] ELSE table[b]]

ListAnswered(n) ==
    /\ mode[n] = "list"
    /\ ans[n].kind = "list"
    /\ known' = [known EXCEPT ![n] = OthersOf(n, ans[n].table, @)]
    /\ mode' = [mode EXCEPT ![n] = "up"]
    /\ ans' = [ans EXCEPT ![n] = NoAnswer]
    /\ UNCHANGED <<layout, ntoa, queue, held, turn, ask, input, crashes>>

\* The seed still has the connection of a node that joins.
Connected(n) ==
    LET s == SeedOf[n]
    IN  JoinOf(n) \in ToSet(queue[s]) \cup ToSet(held[s])

\* The seed is gone before it answered.  An empty answer has its length computed below zero, a
\* reset one is followed by a send on the same socket: the node ends.  When the reset hits the
\* node list, its length is not received.
JoinBroken(n) ==
    /\ mode[n] \in {"hello", "list"}
    /\ ans[n] = NoAnswer
    /\ ~Connected(n)
    /\ \E end \in (IF mode[n] = "list" THEN AnyLength ELSE {"dead"}) :
          mode' = [mode EXCEPT ![n] = end]
    /\ ask' = [ask EXCEPT ![n] = "none"]
    /\ UNCHANGED <<layout, known, ntoa, queue, held, turn, ans, input, crashes>>

\* A node crashes while it joins.  When its seed had answered, the answer that nobody reads has
\* the connection reset, at once or after its end was seen.
CrashJoining(n) ==
    /\ mode[n] \in {"hello", "list"}
    /\ crashes < layout.crashes
    /\ crashes' = crashes + 1
    /\ mode' = [mode EXCEPT ![n] = "dead"]
    /\ LET s == SeedOf[n]
       IN  \E gives \in IF ask[n] = "none" THEN {"end", "reset"} ELSE {ask[n]} :
               LET left == Gone(n, gives, crashes + 1)
               IN  /\ queue' = [queue EXCEPT ![s] = ReplaceAll(@, JoinOf(n), left)]
                   /\ held' = [held EXCEPT ![s] = ReplaceAll(@, JoinOf(n), left)]
                   /\ turn' = [turn EXCEPT ![s] = ReplaceAll(@, JoinOf(n), left)]
    /\ ask' = [ask EXCEPT ![n] = "none"]
    /\ ans' = [ans EXCEPT ![n] = NoAnswer]
    /\ UNCHANGED <<layout, known, ntoa, input>>

-----------------------------------------------------------------------------
(* Serving: server.c, client_context.c and handlers.c *)

\* Mutant: requests on a connection that is kept are not read.
PushReadable(c) == c.kind # "join"

\* Mutant: connections that carry pushes are not read.
JoinReadable(c) == c.kind # "push" /\ ask[c.from] # "none"

\* There is something to read on a connection that was accepted, if only its end.
Readable(c) == c.kind = "join" => ask[c.from] # "none"

\* What a poll reports of the connections accepted, in their order.
Ready(s) ==
    LET upTo[k \in 0 .. Len(held[s])] ==
            IF k = 0 THEN <<>>
            ELSE IF Readable(held[s][k]) THEN Append(upTo[k - 1], held[s][k]) ELSE upTo[k - 1]
    IN  upTo[Len(held[s])]

\* event_loop_wait_for_events: the turn begins when there is something to do.
Poll(s) ==
    /\ mode[s] = "up"
    /\ turn[s] = <<>>
    /\ turn' = [turn EXCEPT ![s] = (IF queue[s] # <<>> THEN <<TheAccept>> ELSE <<>>) \o Ready(s)]
    /\ turn'[s] # <<>>
    /\ UNCHANGED <<layout, mode, known, ntoa, queue, held, ask, ans, input, crashes>>

Dispatched(s, c) ==
    /\ mode[s] = "up"
    /\ turn[s] # <<>>
    /\ Head(turn[s]) = c
    /\ turn' = [turn EXCEPT ![s] = Tail(@)]

\* Mutant: the client's address is not recorded.
AcceptUnnoted(s) ==
    /\ Dispatched(s, TheAccept)
    /\ held' = [held EXCEPT ![s] = Append(@, Head(queue[s]))]
    /\ queue' = [queue EXCEPT ![s] = Tail(@)]
    /\ UNCHANGED <<layout, mode, known, ntoa, ask, ans, input, crashes>>

\* handle_new_connection
Accept(s) ==
    /\ Dispatched(s, TheAccept)
    /\ held' = [held EXCEPT ![s] = Append(@, Head(queue[s]))]
    /\ queue' = [queue EXCEPT ![s] = Tail(@)]
    /\ ntoa' = [ntoa EXCEPT ![s] = Host[Head(queue[s]).from]]
    /\ UNCHANGED <<layout, mode, known, ask, ans, input, crashes>>

\* push_node, for every entry of the table: what arrives at node k.
Pushed(s, table, e, k) ==
    LET to == {x \in Entries(table) : ListensAt(k, x.addr)}
    IN  queue[k] \o [j \in 1 .. Cardinality(to) |-> [kind |-> "push", from |-> s, what |-> e]]

\* Mutant: the port of the seed instead of the one in the message.
NewcomerAtOurPort(s, n) == [name |-> n, addr |-> [host |-> ntoa[s], port |-> Port[s]]]

\* The node that HELLO tells of: name and port from the message, the IP from the connection.
Newcomer(s, n) == [name |-> n, addr |-> [host |-> ntoa[s], port |-> Port[n]]]

\* The table of s with the newcomer, and the queues with it pushed to all of the table.
Introduced(s, n) == Learned(known[s], n, Newcomer(s, n).addr)
Announcing(s, n) == [k \in Nodes |-> Pushed(s, Introduced(s, n), Newcomer(s, n), k)]

\* Mutant: a HELLO stays in the buffer when the request for the list is read.
ReceivedHelloOnly(s, c) ==
    input' = IF layout.crashes > 0 /\ c # Nobody THEN [input EXCEPT ![s] = c] ELSE input

\* The history of the buffer matters, and is kept, where nodes may crash.
Received(s, c) == input' = IF layout.crashes > 0 THEN [input EXCEPT ![s] = c] ELSE input

HandleHello(s, n) ==
    /\ Dispatched(s, JoinOf(n))
    /\ ask[n] = "hello"
    /\ known' = [known EXCEPT ![s] = Introduced(s, n)]
    /\ queue' = Announcing(s, n)
    /\ Received(s, JoinOf(n))
    /\ ask' = [ask EXCEPT ![n] = "none"]
    /\ ans' = [ans EXCEPT ![n] = [kind |-> "hello"]]
    /\ UNCHANGED <<layout, mode, ntoa, held, crashes>>

Dropped(s, c) == held' = [held EXCEPT ![s] = RemoveFirst(@, c)]

HandleGetNodeList(s, n) ==
    /\ Dispatched(s, JoinOf(n))
    /\ ask[n] = "list"
    /\ ask' = [ask EXCEPT ![n] = "none"]
    /\ ans' = [ans EXCEPT ![n] = [kind |-> "list", table |-> known[s]]]
    /\ Dropped(s, JoinOf(n))
    /\ Received(s, Nobody)
    /\ UNCHANGED <<layout, mode, known, ntoa, queue, crashes>>

\* Mutant: the look-up is for the receiver's own port.
SenderAtOurPort(s, c) == [host |-> ntoa[s], port |-> Port[s]]

\* The address that the receiver takes a push to come from.
Sender(s, c) == [host |-> ntoa[s], port |-> Port[c.from]]

HandlePush(s, c) ==
    /\ c.kind = "push"
    /\ Dispatched(s, c)
    /\ LookedUp(known[s], Sender(s, c))
    /\ known' = [known EXCEPT ![s] = Learned(@, c.what.name, c.what.addr)]
    /\ Dropped(s, c)
    /\ Received(s, c)
    /\ UNCHANGED <<layout, mode, ntoa, queue, ask, ans, crashes>>

\* The kernel resets the connections of a process that ends, what was written on them is lost.
EndsAmid(s, queues) ==
    /\ mode' = [mode EXCEPT ![s] = "dead"]
    /\ queue' = [queues EXCEPT ![s] = <<>>]
    /\ held' = [held EXCEPT ![s] = <<>>]
    /\ turn' = [turn EXCEPT ![s] = <<>>]
    /\ input' = [input EXCEPT ![s] = Nobody]

Ends(s) == EndsAmid(s, queue)

\* The push comes from an address that is not in the table: context.map_entry is NULL.
PushKills(s, c) ==
    /\ c.kind = "push"
    /\ mode[s] = "up"
    /\ turn[s] # <<>>
    /\ Head(turn[s]) = c
    /\ ~LookedUp(known[s], Sender(s, c))
    /\ Ends(s)
    /\ UNCHANGED <<layout, known, ntoa, ask, ans, crashes>>

\* What is left to read of a node that crashed: its HELLO, after which the connection is kept,
HelloOfGone(s, n, id) ==
    /\ Dispatched(s, Gone(n, "hello", id))
    /\ known' = [known EXCEPT ![s] = Introduced(s, n)]
    /\ queue' = Announcing(s, n)
    /\ held' = [held EXCEPT ![s] = ReplaceAll(@, Gone(n, "hello", id), Gone(n, "end", id))]
    /\ Received(s, JoinOf(n))
    /\ UNCHANGED <<layout, mode, ntoa, ask, ans, crashes>>

\* or its request for the list, after which it is closed.
ListOfGone(s, n, id) ==
    /\ Dispatched(s, Gone(n, "list", id))
    /\ Dropped(s, Gone(n, "list", id))
    /\ Received(s, Nobody)
    /\ UNCHANGED <<layout, mode, known, ntoa, queue, ask, ans, crashes>>

(***************************************************************************)
(* Then there is nothing to receive, and nobody looks at the result of the *)
(* recv: the handlers run on what the buffer still holds, which is the     *)
(* last request unless a ping was read since, or the stack used otherwise. *)
(* A HELLO is handled once more, and the connection kept; what is sent has *)
(* it reset.                                                               *)
(***************************************************************************)
HelloAgain(s, n, id) ==
    /\ Dispatched(s, Gone(n, "end", id))
    /\ \E m \in Nodes :
          /\ input[s] = JoinOf(m)
          /\ known' = [known EXCEPT ![s] = Introduced(s, m)]
          /\ queue' = Announcing(s, m)
    /\ held' = [held EXCEPT ![s] = ReplaceAll(@, Gone(n, "end", id), Gone(n, "reset", id))]
    /\ UNCHANGED <<layout, mode, ntoa, ask, ans, input, crashes>>

\* A push is entered once more, if its sender is known.
PushAgain(s, n, id) ==
    LET last == input[s] IN
    /\ Dispatched(s, Gone(n, "end", id))
    /\ last # Nobody
    /\ last.kind = "push"
    /\ LookedUp(known[s], Sender(s, last))
    /\ known' = [known EXCEPT ![s] = Learned(@, last.what.name, last.what.addr)]
    /\ Dropped(s, Gone(n, "end", id))
    /\ UNCHANGED <<layout, mode, ntoa, queue, ask, ans, input, crashes>>

\* What else the buffer holds changes nothing.
NothingAgain(s, n, id) ==
    /\ Dispatched(s, Gone(n, "end", id))
    /\ Dropped(s, Gone(n, "end", id))
    /\ UNCHANGED <<layout, mode, known, ntoa, queue, ask, ans, input, crashes>>

\* After a reset the answer cannot be sent, and SIGPIPE ends the node: when the handler has run,
\* so a HELLO is pushed once more.  A push whose sender is not known ends it before.
GoneKills(s, n, id) ==
    /\ mode[s] = "up"
    /\ turn[s] # <<>>
    /\ Head(turn[s]) \in {Gone(n, "end", id), Gone(n, "reset", id)}
    /\ \/ Ends(s)
       \/ \E m \in Nodes : input[s] = JoinOf(m) /\ EndsAmid(s, Announcing(s, m))
    /\ UNCHANGED <<layout, known, ntoa, ask, ans, crashes>>

Crash(s) ==
    /\ mode[s] = "up"
    /\ crashes < layout.crashes
    /\ crashes' = crashes + 1
    /\ Ends(s)
    /\ UNCHANGED <<layout, known, ntoa, ask, ans>>

\* Nothing is stored: a node that is started again knows nobody.  Without crashes in the run
\* a node that has ended stays that way, which keeps the runs small.
Restart(n) ==
    /\ mode[n] = "dead"
    /\ crashes > 0
    /\ mode' = [mode EXCEPT ![n] = "down"]
    /\ known' = [known EXCEPT ![n] = NoTable]
    /\ ntoa' = [ntoa EXCEPT ![n] = Nobody]
    /\ UNCHANGED <<layout, queue, held, turn, ask, ans, input, crashes>>

-----------------------------------------------------------------------------
\* No node has taken what it found in its memory for a node list.
Tame == \A n \in Nodes : mode[n] # "wild"

Starts(n) == Tame /\ (StartAlone(n) \/ StartByGarbage(n) \/ StartJoin(n) \/ StartUnreachable(n))

Joins(n) == Tame /\ (HelloAnswered(n) \/ ListAnswered(n) \/ JoinBroken(n))

\* There is something to read of a node that crashed.
HandleGone(s, n, id) ==
    \/ HelloOfGone(s, n, id) \/ ListOfGone(s, n, id)
    \/ HelloAgain(s, n, id) \/ PushAgain(s, n, id) \/ NothingAgain(s, n, id)
    \/ GoneKills(s, n, id)

Serves(s) ==
    /\ Tame
    /\ \/ Poll(s)
       \/ Accept(s)
       \/ \E n \in Nodes : HandleHello(s, n) \/ HandleGetNodeList(s, n)
       \/ \E c \in ToSet(turn[s]) : HandlePush(s, c) \/ PushKills(s, c)
       \/ \E n \in Nodes, id \in 1 .. crashes : HandleGone(s, n, id)

Fails(n) == Tame /\ (Crash(n) \/ CrashJoining(n) \/ Restart(n))

Next == \E n \in Nodes : Starts(n) \/ Joins(n) \/ Serves(n) \/ Fails(n)

Spec == Init /\ [][Next]_vars

\* A node that joins reads its answers, and the event loop of one that serves goes on.
FairSpec ==
    /\ Spec
    /\ \A n \in Nodes : WF_vars(Joins(n)) /\ WF_vars(Serves(n))

-----------------------------------------------------------------------------
(* Properties *)

(***************************************************************************)
(* No node lists itself: bootstrap_known_nodes skips its own name, and a   *)
(* node is not listening yet when its seed pushes it to everyone,          *)
(* including itself.                                                       *)
(***************************************************************************)
NoSelf == \A n \in Nodes : n \notin NamesIn(known[n])

\* What a table says of a node is where that node listens.
AddressesTrue ==
    \A n \in Nodes : \A e \in Entries(known[n]) : e.addr = AddrOf(e.name)

\* Is n the node m, or did it join through m, directly or not?
Above(m, n) ==
    \A S \in SUBSET Nodes :
        n \in S /\ (\A k \in S : SeedOf[k] = Nobody \/ SeedOf[k] \in S) => m \in S

(***************************************************************************)
(* A push that meets a receiver which does not know the sender ends it:    *)
(* the result of the look-up is used without a check.  This takes a        *)
(* receiver that has missed the push about the sender.  As long as its     *)
(* seed has not ended, that cannot be one that it joined through, directly *)
(* or not, or one that joined through it: the sender is on another branch. *)
(***************************************************************************)
EndedFromAside(s) ==
    LET sender == Head(turn[s]).from
    IN  \/ SeedOf[s] # Nobody /\ mode[SeedOf[s]] = "dead"
        \/ ~Above(sender, s) /\ ~Above(s, sender)

(***************************************************************************)
(* Two nodes that joined through the same seed, which is still there: it   *)
(* answers the list of the one after the hello of the other, so one knows  *)
(* the other.  It need not be both: a push to a node that is not listening *)
(* yet is lost.                                                            *)
(***************************************************************************)
SiblingsMeet ==
    \A m, n \in Nodes :
        /\ m # n
        /\ SeedOf[m] # Nobody /\ SeedOf[m] = SeedOf[n]
        /\ mode[m] = "up" /\ mode[n] = "up" /\ mode[SeedOf[m]] = "up"
        => m \in NamesIn(known[n]) \/ n \in NamesIn(known[m])

SingleHost == \A m, n \in Nodes : Host[m] = Host[n]

(***************************************************************************)
(* With crashes and restarts the tables stay true: on one host every       *)
(* address is right, and no node lists itself if nodes are only started    *)
(* while their seed is listening.                                          *)
(***************************************************************************)
TablesTrue == Tame => (SingleHost => AddressesTrue) /\ (layout.clean => NoSelf)

\* A node that serves and its seed know each other.
SeedAndJoinerMeet ==
    \A n \in Nodes : SeedOf[n] # Nobody /\ mode[n] = "up" =>
        n \in NamesIn(known[SeedOf[n]]) /\ SeedOf[n] \in NamesIn(known[n])

\* Seeds are up, nothing crashes, and no name replaces another in a table.
Undisturbed ==
    /\ layout.clean /\ layout.crashes = 0
    /\ \A m, n \in Nodes : Hash[m] = Hash[n] => m = n

\* Both: what joining through one seed guarantees about who knows whom.
Acquainted == Undisturbed => SiblingsMeet /\ SeedAndJoinerMeet

\* A node whose seed answers gets to serve.
JoinCompletes ==
    \A n \in Nodes : mode[n] \in {"hello", "list"} ~> mode[n] = "up"

\* What has been pushed to a node is in the end in its table, unless a push ended the node.
NewsArrives ==
    \A k, n \in Nodes :
        (\E j \in 1 .. Len(queue[k]) : queue[k][j].kind = "push" /\ queue[k][j].what.name = n)
            ~> n \in NamesIn(known[k]) \/ mode[k] = "dead"
=============================================================================
