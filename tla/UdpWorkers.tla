----------------------------- MODULE UdpWorkers -----------------------------
(***************************************************************************)
(* The datagram server of week05 (server.c), whose worker threads share    *)
(* one socket, and its clients (client.c).                                 *)
(*                                                                         *)
(* A worker takes a datagram off the socket into a context of its own,     *)
(* sleeps for ten seconds, and sends the greeting to the address it finds  *)
(* in the context.  A client sends a question and waits, with no timeout,  *)
(* for whatever datagram comes next.  A question is named by its client    *)
(* and its number, and the greeting repeats it.                            *)
(***************************************************************************)
EXTENDS Naturals, Sequences, FiniteSets

CONSTANTS
    Clients, Workers,
    Networks,       \* what there may be between the clients and the server
    MaxQuestions,   \* bound of the model: how often a client may ask
    None

(***************************************************************************)
(* How often each client asks, whether the network loses and duplicates    *)
(* datagrams, and how many the server's socket buffers: the kernel drops   *)
(* the rest.                                                               *)
(***************************************************************************)
Network == [asks : [Clients -> 0 .. MaxQuestions], lossy : BOOLEAN, size : Nat \ {0}]

ASSUME UdpConstants ==
    /\ IsFiniteSet(Clients) /\ IsFiniteSet(Workers)
    /\ Networks \subseteq Network
    /\ MaxQuestions \in Nat

VARIABLES
    network,    \* the one there is, which stays
    net,        \* questions under way to the server
    queue,      \* questions the socket has buffered
    thread,     \* what each worker is about to do
    context,    \* struct worker_context: the question and who sent it
    back,       \* greetings under way
    asked,      \* how many questions a client has sent
    pc,         \* what a client is about to do
    result,     \* the number in the greeting that the client printed last
    alive       \* the server process

vars == <<network, net, queue, thread, context, back, asked, pc, result, alive>>

Question == [from : Clients, no : 1 .. MaxQuestions]
Greeting == [to : Clients, text : Question]

TypeOK ==
    /\ net \in SUBSET Question
    /\ network \in Networks
    /\ queue \in Seq(Question) /\ Len(queue) <= network.size
    /\ thread \in [Workers -> {"recv", "sleep", "send"}]
    /\ context \in [Workers -> Question \cup {None}]
    /\ back \in SUBSET Greeting
    /\ asked \in [Clients -> 0 .. MaxQuestions]
    /\ pc \in [Clients -> {"enter", "wait"}]
    /\ result \in [Clients -> 0 .. MaxQuestions]
    /\ alive \in BOOLEAN

Init ==
    /\ network \in Networks
    /\ net = {}
    /\ queue = <<>>
    /\ thread = [w \in Workers |-> "recv"]
    /\ context = [w \in Workers |-> None]
    /\ back = {}
    /\ asked = [c \in Clients |-> 0]
    /\ pc = [c \in Clients |-> "enter"]
    /\ result = [c \in Clients |-> 0]
    /\ alive = TRUE

-----------------------------------------------------------------------------
(* The server *)

\* Mutant: the datagram is taken and not looked at.
RecvForgets(w) ==
    /\ alive
    /\ thread[w] = "recv"
    /\ queue # <<>>
    /\ queue' = Tail(queue)
    /\ UNCHANGED <<network, net, thread, context, back, asked, pc, result, alive>>

Recv(w) ==
    /\ alive
    /\ thread[w] = "recv"
    /\ queue # <<>>
    /\ context' = [context EXCEPT ![w] = Head(queue)]
    /\ queue' = Tail(queue)
    /\ thread' = [thread EXCEPT ![w] = "sleep"]
    /\ UNCHANGED <<network, net, back, asked, pc, result, alive>>

Wake(w) ==
    /\ alive
    /\ thread[w] = "sleep"
    /\ thread' = [thread EXCEPT ![w] = "send"]
    /\ UNCHANGED <<network, net, queue, context, back, asked, pc, result, alive>>

\* Mutant: the address was not stored with the question.
SendToNobody(w) ==
    /\ alive
    /\ thread[w] = "send"
    /\ back' = back \cup {[to |-> None, text |-> context[w]]}
    /\ thread' = [thread EXCEPT ![w] = "recv"]
    /\ UNCHANGED <<network, net, queue, context, asked, pc, result, alive>>

\* Mutant: the address is in a variable that the workers share.
SendToShared(w) ==
    /\ alive
    /\ thread[w] = "send"
    /\ \E v \in Workers :
          /\ thread[v] # "recv"
          /\ back' = back \cup {[to |-> context[v].from, text |-> context[w]]}
    /\ thread' = [thread EXCEPT ![w] = "recv"]
    /\ UNCHANGED <<network, net, queue, context, asked, pc, result, alive>>

SendTo(w) ==
    /\ alive
    /\ thread[w] = "send"
    /\ back' = back \cup {[to |-> context[w].from, text |-> context[w]]}
    /\ thread' = [thread EXCEPT ![w] = "recv"]
    /\ UNCHANGED <<network, net, queue, context, asked, pc, result, alive>>

\* sendto fails: the worker ends the process, and with it all the others.
SendFails(w) ==
    /\ alive
    /\ thread[w] = "send"
    /\ alive' = FALSE
    /\ UNCHANGED <<network, net, queue, thread, context, back, asked, pc, result>>

-----------------------------------------------------------------------------
(* The clients *)

\* Mutant: the client asks again when no greeting comes.
AskAgain(c) ==
    /\ asked[c] < network.asks[c]
    /\ asked' = [asked EXCEPT ![c] = @ + 1]
    /\ net' = net \cup {[from |-> c, no |-> asked[c] + 1]}
    /\ pc' = [pc EXCEPT ![c] = "wait"]
    /\ UNCHANGED <<network, queue, thread, context, back, result, alive>>

Ask(c) ==
    /\ pc[c] = "enter"
    /\ asked[c] < network.asks[c]
    /\ asked' = [asked EXCEPT ![c] = @ + 1]
    /\ net' = net \cup {[from |-> c, no |-> asked[c] + 1]}
    /\ pc' = [pc EXCEPT ![c] = "wait"]
    /\ UNCHANGED <<network, queue, thread, context, back, result, alive>>

Receive(c, g) ==
    /\ pc[c] = "wait"
    /\ g.to = c
    /\ back' = back \ {g}
    /\ result' = [result EXCEPT ![c] = g.text.no]
    /\ pc' = [pc EXCEPT ![c] = "enter"]
    /\ UNCHANGED <<network, net, queue, thread, context, asked, alive>>

-----------------------------------------------------------------------------
(* The network *)

\* A question reaches the socket; on a lossy network it may do so again.
Deliver(q) ==
    /\ \/ net' = net \ {q}
       \/ network.lossy /\ net' = net
    /\ Len(queue) < network.size
    /\ queue' = Append(queue, q)
    /\ UNCHANGED <<network, thread, context, back, asked, pc, result, alive>>

\* A question finds the buffer full, or nobody behind the address.
Drop(q) ==
    /\ network.lossy \/ Len(queue) = network.size \/ ~alive
    /\ net' = net \ {q}
    /\ UNCHANGED <<network, queue, thread, context, back, asked, pc, result, alive>>

LoseGreeting(g) ==
    /\ network.lossy
    /\ back' = back \ {g}
    /\ UNCHANGED <<network, net, queue, thread, context, asked, pc, result, alive>>

Serve(w) == Recv(w) \/ Wake(w) \/ SendTo(w)

Next ==
    \/ \E w \in Workers : Serve(w) \/ SendFails(w)
    \/ \E c \in Clients : Ask(c)
    \/ \E c \in Clients, g \in back : Receive(c, g)
    \/ \E q \in net : Deliver(q) \/ Drop(q)
    \/ \E g \in back : LoseGreeting(g)

Spec == Init /\ [][Next]_vars

\* Workers run on, clients wait at recvfrom, and what the network accepts it delivers.
FairSpec ==
    /\ Spec
    /\ \A w \in Workers : WF_vars(Serve(w))
    /\ \A c \in Clients : WF_vars(\E g \in back : Receive(c, g))
    /\ WF_vars(\E q \in net : Deliver(q))

-----------------------------------------------------------------------------
(* Properties *)

\* Where the last question of a client is: on its way, buffered, with a worker, or answered.
Sent(c)     == {q \in net : q.from = c}
Buffered(c) == {k \in 1 .. Len(queue) : queue[k].from = c}
InWork(c)   == {w \in Workers : thread[w] # "recv" /\ context[w].from = c}
Answers(c)  == {g \in back : g.to = c}

Copies(c) == Cardinality(Sent(c)) + Cardinality(Buffered(c))
                + Cardinality(InWork(c)) + Cardinality(Answers(c))

\* The network keeps its datagrams, and the socket has room for one of each client.
Reliable == ~network.lossy /\ network.size >= Cardinality({c \in Clients : network.asks[c] > 0})

(***************************************************************************)
(* Then a question is in one place as long as its client waits for the     *)
(* greeting, and in none otherwise; and what a client has printed is the   *)
(* greeting for its latest question.                                       *)
(***************************************************************************)
OneCopyInStep ==
    Reliable => \A c \in Clients :
        /\ alive => Copies(c) = IF pc[c] = "wait" THEN 1 ELSE 0
        /\ pc[c] = "enter" => result[c] = asked[c]

\* Then every question is answered, unless a sendto has ended the server.
Answered ==
    \A c \in Clients : Reliable /\ pc[c] = "wait" ~> pc[c] = "enter" \/ ~alive

(***************************************************************************)
(* Nothing is ever sent again: a client whose question, or its greeting,   *)
(* is lost waits for good, also when the network is back to normal.        *)
(***************************************************************************)
LostForGood ==
    [][\A c \in Clients : pc[c] = "wait" /\ Copies(c) = 0
                            => pc'[c] = "wait" /\ Copies(c)' = 0]_vars
=============================================================================
