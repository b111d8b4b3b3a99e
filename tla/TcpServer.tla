----------------------------- MODULE TcpServer -----------------------------
(***************************************************************************)
(* The iterative TCP server of week04 (server.c) and its clients           *)
(* (client.c).  The server serves one connection until it ends and only    *)
(* then accepts the next.                                                  *)
(*                                                                         *)
(* Both sides treat the byte streams as if they carried messages: a recv   *)
(* is taken to return one struct.  A struct is cut in two at most here,    *)
(* into the part it begins with, with a name (or what the client prints),  *)
(* and the rest; a recv returns what has arrived, which may end in the     *)
(* middle.  What the server makes of a buffer that begins with the rest of *)
(* a question depends on where the cut fell: within the characters of the  *)
(* name or of the group it reads as a name, in the padding behind them as  *)
(* an empty one.                                                           *)
(***************************************************************************)
EXTENDS Naturals, Sequences

CONSTANTS
    Clients,
    Silent,         \* clients without input: scanf leaves the name empty
    Backlog,        \* how many connections wait to be accepted
    MaxQuestions,   \* bound of the model: how often a client asks
    None

ASSUME TcpConstants ==
    /\ Silent \subseteq Clients
    /\ None \notin Clients
    /\ Backlog \in Nat \ {0}
    /\ MaxQuestions \in Nat

VARIABLES
    segmented,  \* whether a struct may arrive in two segments
    running,    \* the server's process is there
    serving,    \* the client of comm_socket_fd, or None at select
    backlog,    \* connections to accept
    closed,     \* the clients whose connection the server has closed
    up,         \* per client, what it has sent and the server has not read
    down,       \* per client, what the server has sent and it has not read
    refused,    \* the clients that were sent an answer after they had gone
    pc,         \* what a client is about to do
    asked,      \* how many questions a client has sent
    result      \* what a client printed last: the number of a question and a part

vars == <<segmented, running, serving, backlog, closed, up, down, refused, pc, asked, result>>

Part == [no : 1 .. MaxQuestions, part : {1, 2}]
Struct(k) == <<[no |-> k, part |-> 1], [no |-> k, part |-> 2]>>

TypeOK ==
    /\ segmented \in BOOLEAN /\ running \in BOOLEAN
    /\ serving \in Clients \cup {None}
    /\ backlog \in Seq(Clients) /\ Len(backlog) <= Backlog
    /\ closed \in SUBSET Clients /\ refused \in SUBSET Clients
    /\ up \in [Clients -> Seq(Part)]
    /\ down \in [Clients -> Seq(Part)]
    /\ pc \in [Clients -> {"start", "enter", "wait", "gone"}]
    /\ asked \in [Clients -> 0 .. MaxQuestions]
    /\ result \in [Clients -> Part \cup {[no |-> 0, part |-> 1]}]

Init ==
    /\ segmented \in BOOLEAN
    /\ running = TRUE
    /\ serving = None
    /\ backlog = <<>>
    /\ closed = {}
    /\ refused = {}
    /\ up = [c \in Clients |-> <<>>]
    /\ down = [c \in Clients |-> <<>>]
    /\ pc = [c \in Clients |-> "start"]
    /\ asked = [c \in Clients |-> 0]
    /\ result = [c \in Clients |-> [no |-> 0, part |-> 1]]

\* How much a recv can return of a stream: all that is there, or what has arrived of it.
Arrived(stream) == IF segmented THEN 1 .. Len(stream) ELSE {Len(stream)} \ {0}

\* Mutant: the last part that was read is read again.
AfterAllButOne(stream, n) == SubSeq(stream, n, Len(stream))

After(stream, n) == SubSeq(stream, n + 1, Len(stream))

-----------------------------------------------------------------------------
(* The server, in the states its comments name *)

\* States 1 and 2: select and accept.
Accept ==
    /\ running
    /\ serving = None
    /\ backlog # <<>>
    /\ serving' = Head(backlog)
    /\ backlog' = Tail(backlog)
    /\ UNCHANGED <<segmented, running, closed, up, down, refused, pc, asked, result>>

\* "if accept failed to return a socket descriptor, display error and exit"
AcceptFails ==
    /\ running
    /\ serving = None
    /\ backlog # <<>>
    /\ running' = FALSE
    /\ backlog' = <<>>
    /\ UNCHANGED <<segmented, serving, closed, up, down, refused, pc, asked, result>>

CloseClient ==
    /\ serving' = None
    /\ closed' = closed \cup {serving}

\* The server is in state 3 and there is something to receive.
Receives(n) ==
    /\ running
    /\ serving # None
    /\ n \in Arrived(up[serving])

\* What the name can be at the start of the buffer: the rest of a question reads as either.
ReadsAsName(stream)  == serving \notin Silent
ReadsAsEmpty(stream) == serving \in Silent \/ Head(stream).part = 2

\* States 3 and 4: one recv, one answer to whatever struct the buffer begins with.
Answer(n) ==
    /\ Receives(n)
    /\ ReadsAsName(up[serving])
    /\ up' = [up EXCEPT ![serving] = After(@, n)]
    /\ down' = [down EXCEPT ![serving] = IF pc[serving] = "gone" THEN @
                                         ELSE @ \o Struct(Head(up[serving]).no)]
    /\ refused' = IF pc[serving] = "gone" THEN refused \cup {serving} ELSE refused
    /\ UNCHANGED <<segmented, running, serving, backlog, closed, pc, asked, result>>

\* A client that has gone resets the connection at the first answer it is sent; the next one
\* raises SIGPIPE.
AnswerKills(n) ==
    /\ Receives(n)
    /\ ReadsAsName(up[serving])
    /\ serving \in refused
    /\ running' = FALSE
    /\ serving' = None
    /\ backlog' = <<>>
    /\ UNCHANGED <<segmented, closed, up, down, refused, pc, asked, result>>

\* The "special msg": an empty name.  What is left unread is dropped.
SpecialMsg ==
    /\ \E n \in 1 .. 10 : Receives(n)
    /\ ReadsAsEmpty(up[serving])
    /\ up' = [up EXCEPT ![serving] = <<>>]
    /\ CloseClient
    /\ UNCHANGED <<segmented, running, backlog, down, refused, pc, asked, result>>

\* Mutant: the end of the stream is not told from a message.
EmptyMsgIgnored ==
    /\ running
    /\ serving # None
    /\ up[serving] = <<>>
    /\ pc[serving] = "gone"
    /\ UNCHANGED vars

\* The client has closed its end and everything before that has been read.
EmptyMsg ==
    /\ running
    /\ serving # None
    /\ up[serving] = <<>>
    /\ pc[serving] = "gone"
    /\ CloseClient
    /\ UNCHANGED <<segmented, running, backlog, up, down, refused, pc, asked, result>>

-----------------------------------------------------------------------------
(* The clients *)

\* Mutant: the backlog has no limit.
ConnectAlways(c) ==
    /\ pc[c] = "start"
    /\ running
    /\ backlog' = Append(backlog, c)
    /\ pc' = [pc EXCEPT ![c] = "enter"]
    /\ UNCHANGED <<segmented, running, serving, closed, up, down, refused, asked, result>>

Connect(c) ==
    /\ pc[c] = "start"
    /\ running /\ Len(backlog) < Backlog
    /\ backlog' = Append(backlog, c)
    /\ pc' = [pc EXCEPT ![c] = "enter"]
    /\ UNCHANGED <<segmented, running, serving, closed, up, down, refused, asked, result>>

\* Nobody looks at the result of the connect: without a server the first send is fatal.
ConnectRefused(c) ==
    /\ pc[c] = "start"
    /\ ~running
    /\ pc' = [pc EXCEPT ![c] = "gone"]
    /\ UNCHANGED <<segmented, running, serving, backlog, closed, up, down, refused, asked, result>>

\* The server's end of the connection is closed.
Lost(c) == c \in closed \/ ~running

\* The question is lost, and the next one fatal, when the server has closed the connection.
Ask(c) ==
    /\ pc[c] = "enter"
    /\ asked[c] < MaxQuestions
    /\ asked' = [asked EXCEPT ![c] = @ + 1]
    /\ up' = [up EXCEPT ![c] = IF Lost(c) THEN @ ELSE @ \o Struct(asked[c] + 1)]
    /\ pc' = [pc EXCEPT ![c] = "wait"]
    /\ UNCHANGED <<segmented, running, serving, backlog, closed, down, refused, result>>

Receive(c, n) ==
    /\ pc[c] = "wait"
    /\ n \in Arrived(down[c])
    /\ result' = [result EXCEPT ![c] = Head(down[c])]
    /\ down' = [down EXCEPT ![c] = After(@, n)]
    /\ pc' = [pc EXCEPT ![c] = "enter"]
    /\ UNCHANGED <<segmented, running, serving, backlog, closed, up, refused, asked>>

\* recvfrom returns without data; the client prints its old result and goes on.
ReceiveNothing(c) ==
    /\ pc[c] = "wait"
    /\ down[c] = <<>>
    /\ Lost(c)
    /\ pc' = [pc EXCEPT ![c] = "enter"]
    /\ UNCHANGED <<segmented, running, serving, backlog, closed, up, down, refused, asked, result>>

\* The user stops the client, or a send on the closed connection does.
Quit(c) ==
    /\ pc[c] \in {"enter", "wait"}
    /\ pc' = [pc EXCEPT ![c] = "gone"]
    /\ down' = [down EXCEPT ![c] = <<>>]
    /\ UNCHANGED <<segmented, running, serving, backlog, closed, up, refused, asked, result>>

\* The server's buffer takes the ten parts of five structs, a client's the two of one.
Serve ==
    \/ Accept
    \/ \E n \in 1 .. 10 : Answer(n) \/ AnswerKills(n)
    \/ SpecialMsg
    \/ EmptyMsg

Next ==
    \/ Serve
    \/ AcceptFails
    \/ \E c \in Clients : Connect(c) \/ ConnectRefused(c) \/ Ask(c) \/ ReceiveNothing(c) \/ Quit(c)
    \/ \E c \in Clients, n \in {1, 2} : Receive(c, n)

Spec == Init /\ [][Next]_vars

\* The server goes on while it is there, and every user stops the client some day.
FairSpec == Spec /\ WF_vars(Serve) /\ \A c \in Clients : WF_vars(Quit(c))

-----------------------------------------------------------------------------
(* Properties *)

(***************************************************************************)
(* As long as structs arrive whole, question and answer alternate: what a  *)
(* client prints after a recv that found data is the start of the answer   *)
(* to its latest question, whatever the other clients do.                  *)
(***************************************************************************)
Alternates ==
    running /\ ~segmented => \A c \in Clients \ closed :
        pc[c] = "enter" => result[c] = [no |-> asked[c], part |-> 1] /\ up[c] = <<>> /\ down[c] = <<>>

(***************************************************************************)
(* What a client has read and can still read never goes back from a later  *)
(* question to an earlier one.  It may well have two answers to one: the   *)
(* rest of a question that is cut within a name is answered again.         *)
(***************************************************************************)
Ascending ==
    \A c \in Clients : \A j \in 1 .. Len(down[c]) :
        /\ down[c][j].no <= asked[c]
        /\ result[c].no <= down[c][j].no
        /\ \A i \in 1 .. j - 1 : down[c][i].no <= down[c][j].no

\* Both: a cut struct costs a client the right answer, and never the order of the answers.
AnswersInOrder == Alternates /\ Ascending

(***************************************************************************)
(* As long as structs arrive whole no client takes the server with it when *)
(* it goes: it leaves one question at most that is still to be answered,   *)
(* and it takes two answers to a client that has gone to raise SIGPIPE.    *)
(* What is left to end the server is an accept that fails.                 *)
(***************************************************************************)
SurvivesItsClients ==
    [][running /\ ~segmented /\ serving # None => running']_vars

(***************************************************************************)
(* One client at a time, so a client waits for all those before it; it is  *)
(* accepted when each of them has gone, unless the server has ended.       *)
(***************************************************************************)
EveryoneIsAccepted ==
    \A c \in Clients :
        (\E j \in 1 .. Len(backlog) : backlog[j] = c) ~> serving = c \/ ~running

(***************************************************************************)
(* "If the client sends a special msg to server, then server close the     *)
(* client connection for forever" (server.c): other than that, only a      *)
(* client that has closed its own end loses its connection.                *)
(***************************************************************************)
ClosedOnRequestOnly ==
    [][\A c \in closed' \ closed : c \in Silent \/ pc[c] = "gone"]_vars
=============================================================================
