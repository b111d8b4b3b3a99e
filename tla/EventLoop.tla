----------------------------- MODULE EventLoop -----------------------------
(***************************************************************************)
(* The event loop of a week06d node (event_loop.c) with the callbacks that *)
(* the node registers: the listening socket and its clients (server.c) and *)
(* the answers to pings (pings.c), over the file descriptors that the      *)
(* kernel hands out, lowest free number first.                             *)
(*                                                                         *)
(* One turn of the loop is                                                 *)
(*                                                                         *)
(*   poll -> dispatch the ready entries in order -> periodic task ->       *)
(*   take the entries of to_remove out of the table -> poll ...            *)
(*                                                                         *)
(* A callback that fails has its descriptor closed at once, while its      *)
(* entry stays in the table until the end of the turn; in between, the     *)
(* kernel can hand the same number to a new socket.  This is where the     *)
(* table and the descriptors can go out of step.                           *)
(*                                                                         *)
(* A client connection is used once.  What a client can have sent is       *)
(* reduced to what the loop tells apart: a "hello", which keeps the        *)
(* connection, a "request" (ping or node list), which ends it, and a       *)
(* "push", which ends it or, coming from an unknown node, the process.     *)
(***************************************************************************)
EXTENDS Integers, Sequences, FiniteSets

CONSTANTS
    Conns,      \* the connections that clients may open
    Peers,      \* the entries of the node table, each pinged on its own
    FdLimit,    \* RLIMIT_NOFILE: descriptors are below, poll takes no more entries
    MaxFds,     \* size of the event loop's arrays, MAX_CLIENTS + 1 in server.c
    Master,     \* the listening socket
    None

Fds == 3 .. FdLimit - 1     \* the standard streams hold the others
NoFd == -1                  \* what a failed accept returns

Socks == Conns \cup Peers \cup {Master}

ASSUME LoopConstants ==
    /\ FdLimit \in Nat /\ FdLimit > 3
    /\ MaxFds \in Nat /\ MaxFds > 0
    /\ Conns \cap Peers = {}
    /\ Master \notin Conns \cup Peers
    /\ None \notin Socks

VARIABLES
    pc,         \* where the loop is
    i,          \* the index of the dispatch loop
    table,      \* event_loop_fds, _callbacks and _user_args, up to event_loop_next_fd
    to_remove,  \* event_loop_to_remove
    open,       \* the process's descriptor table
    backlog,    \* the accept queue of the listening socket
    conn,       \* the server's side of each connection
    inbox,      \* what a recv on the connection would find
    gone,       \* the client has closed its end
    waiting,    \* waiting_pong_since # 0, per peer
    reply,      \* the peer's side of the ping
    todo,       \* the peers that this round of pings has yet to visit
    due         \* the ping interval has elapsed

loop == <<pc, i, table, to_remove>>
net  == <<backlog, conn, inbox, gone>>
ping == <<waiting, reply, todo, due>>
vars == <<pc, i, table, to_remove, open, backlog, conn, inbox, gone,
          waiting, reply, todo, due>>

TableEntry ==
    [fd : Fds \cup {NoFd}, cb : {"master", "client", "pong"}, arg : Peers \cup {None},
     ready : BOOLEAN,   \* revents # 0
     done  : BOOLEAN]   \* history: the entry is on its way out of the table

TypeOK ==
    /\ pc \in {"poll", "dispatch", "periodic", "ping", "remove", "dead"}
    /\ i \in Nat
    /\ table \in Seq(TableEntry)
    /\ Len(table) <= MaxFds
    /\ to_remove \in Seq(Fds)
    /\ open \in [Fds -> Socks \cup {None}]
    /\ backlog \in Seq(Conns)
    /\ conn \in [Conns -> {"new", "queued", "accepted", "closed"}]
    /\ inbox \in [Conns -> {"none", "hello", "request", "push", "reset"}]
    /\ gone \in [Conns -> BOOLEAN]
    /\ waiting \in [Peers -> BOOLEAN]
    /\ reply \in [Peers -> {"idle", "asked", "pong", "bad"}]
    /\ todo \in SUBSET Peers
    /\ due \in BOOLEAN

NewEntry(fd, cb, arg) ==
    [fd |-> fd, cb |-> cb, arg |-> arg, ready |-> FALSE, done |-> FALSE]

\* server_main: the listening socket takes the first descriptor and the first entry.
Init ==
    /\ pc = "poll"
    /\ i = 1
    /\ table = <<NewEntry(3, "master", None)>>
    /\ to_remove = <<>>
    /\ open = [f \in Fds |-> IF f = 3 THEN Master ELSE None]
    /\ backlog = <<>>
    /\ conn = [c \in Conns |-> "new"]
    /\ inbox = [c \in Conns |-> "none"]
    /\ gone = [c \in Conns |-> FALSE]
    /\ waiting = [p \in Peers |-> FALSE]
    /\ reply = [p \in Peers |-> "idle"]
    /\ todo = {}
    /\ due = FALSE     \* last_done is now - interval, and the test is a strict one

-----------------------------------------------------------------------------
(* The kernel *)

Free == {f \in Fds : open[f] = None}
LowestFree == CHOOSE f \in Free : \A g \in Free : f <= g

\* Mutant: clients are registered without POLLIN.
HasEventOnHangupOnly(s) ==
    \/ s = Master /\ backlog # <<>>
    \/ s \in Conns /\ gone[s]
    \/ s \in Peers /\ reply[s] \in {"pong", "bad"}
    \/ s = None

\* poll reports an event on the socket that a descriptor stands for now.
HasEvent(s) ==
    \/ s = Master /\ backlog # <<>>
    \/ s \in Conns /\ (inbox[s] # "none" \/ gone[s])
    \/ s \in Peers /\ reply[s] \in {"pong", "bad"}
    \/ s = None

-----------------------------------------------------------------------------
(* The arrays of the event loop *)

\* Mutant: event_loop_add_fd does not look whether there is room.
AddedUnchecked(t, e) == Append(t, e)

\* event_loop_add_fd: no caller looks at the result when the table is full.
Added(t, e) == IF Len(t) = MaxFds THEN t ELSE Append(t, e)

\* Mutant: the search goes on to the last entry with the descriptor.
LastWith(t, fd) ==
    CHOOSE k \in 1 .. Len(t) : t[k].fd = fd /\ \A j \in k + 1 .. Len(t) : t[j].fd # fd

\* event_loop_remove_fd: the first entry with the descriptor, whatever it was registered for.
FirstWith(t, fd) ==
    CHOOSE k \in 1 .. Len(t) : t[k].fd = fd /\ \A j \in 1 .. k - 1 : t[j].fd # fd

Shifted(t, k) == [j \in 1 .. Len(t) - 1 |-> IF j < k THEN t[j] ELSE t[j + 1]]

Removed(t, fd) ==
    IF \E k \in 1 .. Len(t) : t[k].fd = fd THEN Shifted(t, FirstWith(t, fd)) ELSE t

Poll ==
    /\ pc = "poll"
    /\ Len(table) <= FdLimit
    /\ table' = [k \in 1 .. Len(table) |->
                    [table[k] EXCEPT !.ready = /\ table[k].fd # NoFd
                                               /\ HasEvent(open[table[k].fd])]]
    /\ pc' = "dispatch"
    /\ i' = 1
    /\ UNCHANGED <<to_remove, open, net, ping>>

\* Mutant: the result of poll is not looked at.
PollFailsUnnoticed ==
    /\ pc = "poll"
    /\ Len(table) > FdLimit
    /\ pc' = "dispatch"
    /\ i' = 1
    /\ UNCHANGED <<table, to_remove, open, net, ping>>

\* More entries than the descriptor limit: EINVAL, and the turn goes on without a dispatch.
PollFails ==
    /\ pc = "poll"
    /\ Len(table) > FdLimit
    /\ pc' = "periodic"
    /\ UNCHANGED <<i, table, to_remove, open, net, ping>>

-----------------------------------------------------------------------------
(* Dispatch *)

Skip ==
    /\ pc = "dispatch"
    /\ i <= Len(table)
    /\ ~table[i].ready
    /\ i' = i + 1
    /\ UNCHANGED <<pc, table, to_remove, open, net, ping>>

EndDispatch ==
    /\ pc = "dispatch"
    /\ i > Len(table)
    /\ pc' = "periodic"
    /\ UNCHANGED <<i, table, to_remove, open, net, ping>>

Dispatched(cb) ==
    /\ pc = "dispatch"
    /\ i <= Len(table)
    /\ table[i].ready
    /\ table[i].cb = cb
    /\ i' = i + 1
    /\ pc' = "dispatch"

Fd   == table[i].fd
Sock == open[Fd]

Kept == [table EXCEPT ![i].ready = FALSE]

\* The callback scheduled its own removal, or failed and the loop did so.
Retired ==
    /\ table' = [table EXCEPT ![i].ready = FALSE, ![i].done = TRUE]
    /\ to_remove' = Append(to_remove, Fd)

\* handle_new_connection, when accept has a descriptor to return.
Accept ==
    /\ Dispatched("master")
    /\ Free # {}
    /\ open' = [open EXCEPT ![LowestFree] = Head(backlog)]
    /\ conn' = [conn EXCEPT ![Head(backlog)] = "accepted"]
    /\ backlog' = Tail(backlog)
    /\ table' = Added(Kept, NewEntry(LowestFree, "client", None))
    /\ UNCHANGED <<to_remove, inbox, gone, ping>>

\* Mutant: a failed accept is reported to the loop.
AcceptFailureReported ==
    /\ Dispatched("master")
    /\ Free = {}
    /\ Retired
    /\ open' = [open EXCEPT ![Fd] = None]
    /\ UNCHANGED <<net, ping>>

\* handle_new_connection, when there is none: the -1 is registered all the same.
AcceptFails ==
    /\ Dispatched("master")
    /\ Free = {}
    /\ table' = Added(Kept, NewEntry(NoFd, "client", None))
    /\ UNCHANGED <<to_remove, open, net, ping>>

\* Mutant: the handler closes the socket and asks to keep the connection.
HandleHelloCloses ==
    /\ Dispatched("client")
    /\ inbox[Sock] = "hello"
    /\ inbox' = [inbox EXCEPT ![Sock] = "none"]
    /\ conn' = [conn EXCEPT ![Sock] = "closed"]
    /\ open' = [open EXCEPT ![Fd] = None]
    /\ table' = Kept
    /\ UNCHANGED <<to_remove, backlog, gone, ping>>

\* The handler answers and leaves the connection open: HELLO.  If the client has already
\* closed its end, the answer is met with a reset.
HandleHello ==
    /\ Dispatched("client")
    /\ inbox[Sock] = "hello"
    /\ inbox' = [inbox EXCEPT ![Sock] = IF gone[Sock] THEN "reset" ELSE "none"]
    /\ table' = Kept
    /\ UNCHANGED <<to_remove, open, backlog, conn, gone, ping>>

CloseClient ==
    /\ Retired
    /\ open' = [open EXCEPT ![Fd] = None]
    /\ conn' = [conn EXCEPT ![Sock] = "closed"]
    /\ inbox' = [inbox EXCEPT ![Sock] = "none"]
    /\ UNCHANGED <<backlog, gone, ping>>

HandleRequest ==
    /\ Dispatched("client")
    /\ inbox[Sock] \in {"request", "push"}
    /\ CloseClient

(***************************************************************************)
(* handle_client_data does not look at what recv returns.  At the end of   *)
(* the stream it goes on with whatever is in its buffer, a local array: if *)
(* that reads as a HELLO the connection is kept, and the answer is met     *)
(* with a reset; otherwise it is closed.                                   *)
(***************************************************************************)
HandleEof ==
    /\ Dispatched("client")
    /\ inbox[Sock] = "none"
    /\ \/ CloseClient
       \/ /\ inbox' = [inbox EXCEPT ![Sock] = "reset"]
          /\ table' = Kept
          /\ UNCHANGED <<to_remove, open, backlog, conn, gone, ping>>

Exit ==
    /\ pc' = "dead"
    /\ open' = [f \in Fds |-> None]
    /\ UNCHANGED <<i, table, to_remove, net, ping>>

\* An answer sent on a connection that was reset: SIGPIPE, which nothing catches.  A push from
\* a node that is not in the table (or a buffer that still reads as one): a NULL dereference.
HandlerDies ==
    /\ pc = "dispatch"
    /\ i <= Len(table)
    /\ table[i].ready
    /\ table[i].cb = "client"
    /\ \/ inbox[Sock] \in {"reset", "push"}
       \/ inbox[Sock] = "none"
    /\ Exit

\* Mutant: the descriptor of an answered ping is closed, as it should be.
HandlePongCloses ==
    /\ Dispatched("pong")
    /\ reply[Sock] = "pong"
    /\ Retired
    /\ open' = [open EXCEPT ![Fd] = None]
    /\ waiting' = [waiting EXCEPT ![table[i].arg] = FALSE]
    /\ reply' = [reply EXCEPT ![Sock] = "idle"]
    /\ UNCHANGED <<net, todo, due>>

\* ping_sock on a pong: the entry is scheduled for removal, the descriptor stays open.
HandlePong ==
    /\ Dispatched("pong")
    /\ reply[Sock] = "pong"
    /\ Retired
    /\ waiting' = [waiting EXCEPT ![table[i].arg] = FALSE]
    /\ reply' = [reply EXCEPT ![Sock] = "idle"]
    /\ UNCHANGED <<open, net, todo, due>>

\* Mutant: the callback schedules its removal and fails, so that the loop does so again.
HandleBadPongTwice ==
    /\ Dispatched("pong")
    /\ reply[Sock] = "bad"
    /\ table' = [table EXCEPT ![i].ready = FALSE, ![i].done = TRUE]
    /\ to_remove' = to_remove \o <<Fd, Fd>>
    /\ open' = [open EXCEPT ![Fd] = None]
    /\ reply' = [reply EXCEPT ![Sock] = "idle"]
    /\ UNCHANGED <<net, waiting, todo, due>>

\* ping_sock on an error, the end of the stream or another answer: the mark is left as it is.
HandleBadPong ==
    /\ Dispatched("pong")
    /\ reply[Sock] = "bad"
    /\ Retired
    /\ open' = [open EXCEPT ![Fd] = None]
    /\ reply' = [reply EXCEPT ![Sock] = "idle"]
    /\ UNCHANGED <<net, waiting, todo, due>>

-----------------------------------------------------------------------------
(* The periodic task, ping_all_nodes *)

Periodic ==
    /\ pc = "periodic"
    /\ IF due THEN pc' = "ping" /\ todo' = Peers ELSE pc' = "remove" /\ todo' = todo
    /\ due' = FALSE
    /\ UNCHANGED <<i, table, to_remove, open, net, waiting, reply>>

PingSkips(p) ==
    /\ pc = "ping"
    /\ p \in todo
    /\ waiting[p]
    /\ todo' = todo \ {p}
    /\ UNCHANGED <<loop, open, net, waiting, reply, due>>

\* Mutant: ping_node does not look at the mark.
PingSentAgain(p) ==
    /\ pc = "ping"
    /\ p \in todo
    /\ Free # {}
    /\ open' = [open EXCEPT ![LowestFree] = p]
    /\ table' = Added(table, NewEntry(LowestFree, "pong", p))
    /\ waiting' = [waiting EXCEPT ![p] = TRUE]
    /\ reply' = [reply EXCEPT ![p] = "asked"]
    /\ todo' = todo \ {p}
    /\ UNCHANGED <<pc, i, to_remove, net, due>>

\* ping_node, connected.  With a full table the socket is open and nobody will read from it.
PingSent(p) ==
    /\ pc = "ping"
    /\ p \in todo
    /\ ~waiting[p]
    /\ Free # {}
    /\ open' = [open EXCEPT ![LowestFree] = p]
    /\ table' = Added(table, NewEntry(LowestFree, "pong", p))
    /\ waiting' = [waiting EXCEPT ![p] = TRUE]
    /\ reply' = [reply EXCEPT ![p] = "asked"]
    /\ todo' = todo \ {p}
    /\ UNCHANGED <<pc, i, to_remove, net, due>>

\* ping_node, not connected: no descriptor for a socket, or the connection is refused.
PingFails(p) ==
    /\ pc = "ping"
    /\ p \in todo
    /\ ~waiting[p]
    /\ waiting' = [waiting EXCEPT ![p] = TRUE]
    /\ todo' = todo \ {p}
    /\ UNCHANGED <<loop, open, net, reply, due>>

EndPings ==
    /\ pc = "ping"
    /\ todo = {}
    /\ pc' = "remove"
    /\ UNCHANGED <<i, table, to_remove, open, net, ping>>

-----------------------------------------------------------------------------
(* The end of the turn *)

LastToRemove == to_remove[Len(to_remove)]

Remove ==
    /\ pc = "remove"
    /\ to_remove # <<>>
    /\ table' = Removed(table, LastToRemove)
    /\ to_remove' = SubSeq(to_remove, 1, Len(to_remove) - 1)
    /\ UNCHANGED <<pc, i, open, net, ping>>

EndTurn ==
    /\ pc = "remove"
    /\ to_remove = <<>>
    /\ pc' = "poll"
    /\ UNCHANGED <<i, table, to_remove, open, net, ping>>

-----------------------------------------------------------------------------
(* Clients, peers, the clock and the user *)

Connect(c) ==
    /\ pc # "dead"
    /\ conn[c] = "new"
    /\ conn' = [conn EXCEPT ![c] = "queued"]
    /\ backlog' = Append(backlog, c)
    /\ UNCHANGED <<loop, open, inbox, gone, ping>>

Send(c, m) ==
    /\ pc # "dead"
    /\ conn[c] \in {"queued", "accepted"}
    /\ ~gone[c]
    /\ inbox[c] = "none"
    /\ inbox' = [inbox EXCEPT ![c] = m]
    /\ UNCHANGED <<loop, open, backlog, conn, gone, ping>>

Close(c) ==
    /\ pc # "dead"
    /\ conn[c] \in {"queued", "accepted"}
    /\ ~gone[c]
    /\ gone' = [gone EXCEPT ![c] = TRUE]
    /\ UNCHANGED <<loop, open, backlog, conn, inbox, ping>>

Answer(p, r) ==
    /\ pc # "dead"
    /\ reply[p] = "asked"
    /\ reply' = [reply EXCEPT ![p] = r]
    /\ UNCHANGED <<loop, open, net, waiting, todo, due>>

Tick ==
    /\ pc # "dead"
    /\ ~due
    /\ due' = TRUE
    /\ UNCHANGED <<loop, open, net, waiting, reply, todo>>

\* sigterm_handler, installed for SIGTERM and SIGINT.
Sigterm ==
    /\ pc # "dead"
    /\ Exit

-----------------------------------------------------------------------------
LoopStep ==
    \/ Poll \/ PollFails
    \/ Skip \/ EndDispatch
    \/ Accept \/ AcceptFails
    \/ HandleHello \/ HandleRequest \/ HandleEof \/ HandlerDies
    \/ HandlePong \/ HandleBadPong
    \/ Periodic
    \/ \E p \in Peers : PingSkips(p) \/ PingSent(p) \/ PingFails(p)
    \/ EndPings
    \/ Remove \/ EndTurn

EnvStep ==
    \/ \E c \in Conns : Connect(c) \/ Close(c)
    \/ \E c \in Conns, m \in {"hello", "request", "push"} : Send(c, m)
    \/ \E p \in Peers, r \in {"pong", "bad"} : Answer(p, r)
    \/ Tick
    \/ Sigterm

Next == LoopStep \/ EnvStep

Spec == Init /\ [][Next]_vars

\* The loop runs as long as the process does, and time passes.
FairSpec == Spec /\ WF_vars(LoopStep) /\ WF_vars(Tick)

-----------------------------------------------------------------------------
(* Properties *)

Live(e) == ~e.done /\ e.fd # NoFd

\* The socket behind a descriptor is the one its callback was registered for.
Owns(e) ==
    \/ e.cb = "master" /\ open[e.fd] = Master
    \/ e.cb = "client" /\ open[e.fd] \in Conns
    \/ e.cb = "pong"   /\ open[e.fd] = e.arg

(***************************************************************************)
(* A closed descriptor stays in the table until the end of the turn, and   *)
(* the number may by then belong to a new socket.  No callback is ever     *)
(* left with the wrong socket, and no two live entries share a descriptor. *)
(***************************************************************************)
CallbacksOwnTheirSockets ==
    pc # "dead" =>
        \A k \in 1 .. Len(table) : Live(table[k]) =>
            /\ Owns(table[k])
            /\ \A j \in 1 .. Len(table) :
                  Live(table[j]) /\ table[j].fd = table[k].fd => j = k

(***************************************************************************)
(* What poll is given holds no entry of a closed or abandoned descriptor:  *)
(* the turn before took all of them out again.                             *)
(***************************************************************************)
PollSetClean ==
    pc = "poll" => to_remove = <<>> /\ \A k \in 1 .. Len(table) : ~table[k].done

(***************************************************************************)
(* event_loop_to_remove has max_fds places, and                            *)
(* event_loop_schedule_remove_fd does not look whether one is left.  Every *)
(* place is taken up for another entry of the table, which has no more.    *)
(***************************************************************************)
RemovalListFits ==
    Len(to_remove) <= Cardinality({k \in 1 .. Len(table) : table[k].done})

\* Both: a turn schedules no more than there is place for, and takes all of it out.
RemovalTidy == PollSetClean /\ RemovalListFits

(***************************************************************************)
(* The listening socket is never dropped: it is the first entry, so accept *)
(* runs before any descriptor is closed in a turn.                         *)
(***************************************************************************)
AlwaysListening ==
    pc # "dead" => /\ table # <<>>
                   /\ table[1].cb = "master" /\ Live(table[1])
                   /\ open[table[1].fd] = Master

\* A peer has one ping under way at most, and is marked as long as it is.
OnePingPerPeer ==
    \A k \in 1 .. Len(table) :
        table[k].cb = "pong" /\ ~table[k].done =>
            /\ waiting[table[k].arg]
            /\ \A j \in 1 .. Len(table) :
                  table[j].cb = "pong" /\ ~table[j].done /\ table[j].arg = table[k].arg => j = k

(***************************************************************************)
(* Removal goes by descriptor and takes the first match.  Whatever it      *)
(* takes is an entry that is done; the others stay as they are, in order.  *)
(***************************************************************************)
WithoutOneDone(t) ==
    {Shifted(t, k) : k \in {j \in 1 .. Len(t) : t[j].done}}

RemovalSparesTheLive ==
    [][pc = "remove" => table' \in {table} \cup WithoutOneDone(table)]_vars

(***************************************************************************)
(* A failed accept registers descriptor -1, which poll ignores and nothing *)
(* removes.  As soon as there are more entries than descriptors (the table *)
(* has 1025 places, the usual limit is 1024) poll fails for good, and no   *)
(* callback runs any more.                                                 *)
(***************************************************************************)
DeafForGood == [](pc = "poll" /\ Len(table) > FdLimit => [](pc # "dispatch"))

(***************************************************************************)
(* An answered ping costs a descriptor that is never closed, an unanswered *)
(* one a mark that is never cleared: every node ends up reporting all of   *)
(* its peers as failed, whatever they answer.                              *)
(***************************************************************************)
AllPeersFailInTheEnd == <>[](pc = "dead" \/ \A p \in Peers : waiting[p])

(***************************************************************************)
(* As long as descriptors and entries last, every message a client has     *)
(* sent is handled, also one that was sent before the accept.              *)
(***************************************************************************)
Exhausted == Free = {} \/ Len(table) = MaxFds

RequestServed ==
    \A c \in Conns : inbox[c] \in {"hello", "request", "push"}
                        ~> inbox[c] \in {"none", "reset"} \/ Exhausted \/ pc = "dead"

\* As long as they last, a connection the client has closed is released.
GoneReleased ==
    \A c \in Conns : gone[c] ~> conn[c] = "closed" \/ Exhausted \/ pc = "dead"

\* Both: no client is left waiting, and none is kept after it has gone.
ClientsServed == RequestServed /\ GoneReleased

\* main.c promises to "ping once every <secs> seconds": the pings of a peer go on.
PingsGoOn ==
    \A p \in Peers : [](pc # "dead") => []<>(reply[p] = "asked")
=============================================================================
