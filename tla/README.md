# Models of networks-course

TLA+ models of the programs in this repository, the TLC runs that check them on small instances, and
proofs about them for every value of their constants. The repository holds the solutions of several
weeks of a networks course; they share no code.

| directory | program | models |
|---|---|---|
| `week06d` | a node of a peer-to-peer network: joins through a seed, learns of other nodes, pings them | `NodeDirectory`, `NodeTable`, `EventLoop`, `Mesh`, `MeshOverlap` |
| `week05` | UDP server with worker threads, and its client | `UdpWorkers` |
| `week04` | iterative TCP server, and its client | `TcpServer` |
| `week01` | a stack in a child process, commanded through a pipe | `StackShell` |
| `week06` | successor of `week06d` with files, JSON and a control socket, unfinished | `HashMap`, `Vector`, `RefCounter`, `JsonValue`, `JsonParser`, `JsonText`, `JsonReader`, `FileIndex` |

The proofs about a module `M` are in `M_proofs`.

## Inventory

**Table of known nodes** (`week06d/src/known_nodes_hashmap.c`). State: 63 bucket heads and the
entries behind them (name, IP, port, `waiting_pong_since`, `next`). Operations:
`add_known_node`, `for_each_known_node`, `look_up_known_node`. Hard: `add_known_node` walks
with a pointer *into the bucket array* and assigns through it, so a walk unlinks every entry it
passes, while pings keep pointers to those entries. Right if: what an iteration sees is
predictable (one entry per bucket, under its own hash), unlinked entries never come back, marks
mean what the log says of them.

**Pings** (`pings.c`). State: the mark in each entry, a descriptor and a callback per ping under
way. Called by the event loop as its periodic task and when an answer can be read. Hard: answers
come turns later, to entries that may have been evicted; no answer, no timeout; an answered
ping's descriptor is unregistered but not closed.

**Event loop** (`event_loop.c`). State: three parallel arrays (descriptor, callback, argument), the
list of descriptors to remove, the periodic tasks. A turn is: poll; call the callbacks of the ready
entries in order, closing and listing the descriptor of one that fails; periodic tasks; take the
listed descriptors out. Hard: a closed descriptor's number is used again before its entry is
removed, and removal goes by number. Right if: no callback is left with another's socket, the
listening socket stays, the lists fit their arrays, requests are served.

**Server** (`server.c`). Accepts, receives once per event, calls the handlers, answers, and closes
unless the handler asked to keep the connection (HELLO does). Does not look at what `accept`,
`recv`, `send` and `event_loop_add_fd` return. Keeps a client's IP as a pointer into
`inet_ntoa`'s static buffer.

**Bootstrap and requests** (`main.c`, `bootstrap.c`, `requests.c`, `client_context.c`). A joining
node connects to its seed, says HELLO, asks for the node list, and only then starts to serve. Every
message starts with a preamble of the sender's name and listening port. Hard: a push that comes
while the node does not listen is lost; a seed that is not there, or that ends in the middle, is
not noticed, and what was not received is taken from memory that nobody initialised; a node that dies
in the middle of its join leaves its seed a connection to read.

**Handlers** (`handlers.c`). HELLO: add the newcomer, push it to every known node over a fresh
connection, answer. GET_NODE_LIST: the table. PING: pong. PUSH_NODE: look the sender up by
address, *use the result without a check*, add the pushed node. Right if: nodes find each other,
addresses are true, no push meets a receiver that does not know the sender.

**UDP workers** (`week05`). Threads block in `recvfrom` on one socket, sleep ten seconds, answer. The
client waits without a timeout. Hard: interleaved workers, lost and duplicated datagrams.

**TCP server** (`week04`). Serves one connection until it ends, then accepts the next. One `recv` is
taken to be one struct. Hard: the byte stream may be cut anywhere; clients wait for each other; a failing
accept, or an answer on a connection that was reset, ends the server for all of them.

**Stack** (`week01/ex1.c`). The parent copies 1024-byte records from its input to a pipe, the child
runs them as commands on a stack of 1024 integers. Hard: the parent is ahead of the child by as much
as the pipe holds; at the end of the input the last record is repeated for ever; the parent holds the
reading end open, so a dead child blocks it instead of ending it; commands before `create` use an
uninitialised pointer; arguments stay behind from the command before. Right if: no line is lost,
repeated or reordered before the end, and the stack is what the lines say.

**week06 containers** (`ds/`). A chained hash map with a comparison that is handed different things by
insertion and look-up; a vector that reallocates with a number of elements where bytes are meant; a
reference counter whose comparison is inverted. Nothing in week06 calls the counter yet. Right if: a
vector is a sequence, a map finds what was put in, an object is freed with its last reference.

**week06 JSON** (`ds/json`). Values over vectors and hash maps, a writer that escapes nothing, a
tokenizer, and a recursive parser that works on an array of tokens with an unsigned count of those
left. Hard: the tokenizer's error is ignored; the parser looks at tokens behind the message. Right
if: a message is read as what its grammar (the comment above `parse_json`) derives, and what is
written is what is read.

**week06 index** (`my_files.c`, `known_files.c`, `known_nodes.c`, `serializers.c`, `get_file_list` in
`handlers.c`, `b_add_known_files` in `bootstrap.c`). Three hash maps; a joining node reads another's
list of files and enters it. Right if: lists arrive as they were sent, and what is known is found.

**The rest of week06** (event loop, requests, control socket, transfers). The commit does not compile,
see *Not modelled*.

## Modules

### NodeDirectory and NodeTable

`NodeTable` has the entries as cells of a heap (`heap`, allocated in order, `used` so far, never
freed), the bucket array (`known_nodes`), and the entries that a registered `ping_sock` refers to
(`pinged`). `waiting` in an entry is `waiting_pong_since != 0`; -1 and a time are not told apart
because nothing in the code does. `add_known_node` is `AddKnownNode`, then a `Walk` per iteration
that passes an entry, then `SettleNew` or `SettleFound`; `append_to` and `*pos` are the code's. The
pings are `PingAllNodes` (one round; `lost` are those that got no callback: no connection, or a full
event loop), `Pong` and `PongError`. The node is single threaded, so pings wait for a walk to settle.
`Listed`, what `for_each_known_node` visits, is the least set that holds the heads and is closed
under `next`.

`NodeDirectory` is what this amounts to: one slot per bucket, `Learn` replaces whatever was there and
keeps the mark of a name it finds. Under the mapping `slotBar`, a walk in progress stands for the
entry it has stepped over, and each walk takes effect when it settles.

### EventLoop

The event loop with the callbacks the node registers, over the process's descriptors. `table` is the
three arrays as one sequence, up to `event_loop_next_fd`; `open` is the kernel's descriptor table,
which hands out the lowest free number. `pc` says in which part of the turn the loop is, `i` is its
index. `conn`, `inbox`, `gone` and `backlog` are the clients' side, `waiting` and `reply` the pings'.
`ready` and the history field `done` are kept in the table's entries; `done` is written and never
read by an action. Every return value that the code ignores is ignored here: a full table
(`Added`), a failed accept (`AcceptFails` registers -1), the end of a stream (`HandleEof` goes on with
a buffer that may read as anything). A node that answers on a reset connection, or gets a push from a
node it does not know, ends (`HandlerDies`). What a push does to the tables is `Mesh`'s subject.

### Mesh, MeshOverlap and MCMesh

The network of nodes: `mode` of each, its table (`known`, a `NodeDirectory` without marks), the
connections to it that are queued, accepted, or left to dispatch in this turn (`queue`, `held`, `turn`),
and the request and answer of a node that joins (`ask`, `ans`). `ntoa` is the static address buffer: the
host of the connection accepted last, used for every message. A turn is `EventLoop`'s as long as
descriptors last: the accept first, then what was readable at the poll, in order (`Ready`, a recursive
function on the sequence of connections).

`StartUnreachable` is `bootstrap_known_nodes` when the connect failed: `say_hello` receives into the
buffer it sent from, so the node reads its own name back and enters it. The list's length is then an
uninitialised value (`AnyLength`), as it is when the seed is reset before its list was read
(`JoinBroken`): zero lets the node start, a negative or large one ends it, and with a small positive one it
enters so many nodes out of whatever its buffer holds. Their names, hashes and addresses may be anything,
so there the node is `wild` and the model stops, all of it, since what such a node tells the others may be
anything too (`Tame`). `PushKills` is the missing check in the push handler. `StartByGarbage` is
`main`'s uninitialised `bootstrap_addr`; garbage that parses as an address is left out.

Nodes crash while they serve (`Crash`) and while they join (`CrashJoining`). A node that dies in the
middle of its join leaves its seed a connection of kind `gone`, which gives the request that was not
read yet (`HelloOfGone`, `ListOfGone`), then its end, then a reset. `handle_client_data` does not look
at what `recv` returned, so at the end the handlers run on what the stack buffer still holds: `input`,
the HELLO or push handled last, or neither (`HelloAgain`, `PushAgain`, `NothingAgain`). The answer to
that has the connection reset, and the one after it, or the first one if the reset was there before,
raises SIGPIPE (`GoneKills`). `input` is kept only in layouts with crashes, where it matters.

A *layout* (hosts, ports, who joins through whom, whether seeds are up, how many crashes) is chosen in
the initial state, so that one run covers several; `MCMesh` has those that are run.

Two properties say what is *not* guaranteed, with as few exceptions as the code allows.
`EndsUntilOverlap`: if a push ends a node, its *sender* is neither above nor below that node in the tree
of who joined through whom (`Above`), or the node has lost its seed (`EndedFromAside`). `SiblingsMeet`: two
that joined through one seed know of each other as long as that seed is up; one that was ended may have
answered the first and never heard of the second.

`MeshOverlap` adds a history variable, `overlap`: a connection was accepted while a HELLO or push on
another was unhandled, or a request was handled again that was not received, with whatever host is in
the buffer by then (kept only where the hosts differ, so that it matters).

### UdpWorkers

Datagrams under way (`net`, `back`), the socket's bounded buffer (`queue`), each worker's place in its
loop and its context, each client's. The `network`, chosen at the start, says how many questions each
client asks, whether datagrams may be lost either way and questions duplicated, and how much the
socket's buffer holds.

### TcpServer

`up` and `down` are the byte streams of each connection, a struct being two parts; `Arrived` is how
much a `recv` returns, anything when `segmented`. The answer is to the struct the buffer begins with, as
in the code, and the rest of the buffer is lost. A buffer that begins with the second part of a question has
an empty name if the cut fell behind the characters of the name or group it reads there, and is taken for the
special message (`ReadsAsEmpty`); if the cut fell among them, the name is what follows, and the question is
answered a second time (`ReadsAsName`). `AcceptFails` and `AnswerKills` end the server (`running`): an
accept that returns -1, and the second answer to a client that has gone (`refused`), which raises SIGPIPE.
A client that finds no server dies at its first send (`ConnectRefused`).

### StackShell and MCStackShell

A record in `pipe` is the number of the line it copies, so that the properties can say where each line
is; 0 is the parent's blank buffer. `fgets` is `Fgets`, or `FgetsEof`, which leaves `command` as it is;
`Write` blocks on a full pipe. The child is `Read` (which includes `split_command_arguments`: the second
word stays when a line has none) and what the command does to `arr` and `next`. Before the first
`create` a command runs on the wild pointer, `Wild`: the child dies, or goes on with nothing said about
what it prints. A `push` or `pop` also writes through it: to memory that nobody uses, or to anything,
and then the child is `lost`; the model takes no step of it any more and no property speaks of it.
`done` and `repeats` are history: the line run last and how often again. The child's death is also the
`fork` that fails and the `malloc` that fails.

### HashMap, Vector and RefCounter

A hash map is a function from buckets to the sequences in their chains. `hashmap_add_element` and
`hashmap_remove_element` give the comparison the chain's *entry* where a value belongs; what comes of
that does not depend on the contents, so it is an argument, `equal`: FALSE for the maps by name,
where a pointer's bytes are compared with a name, and TRUE for the reference counter, whose
comparison calls different pointers equal. `LookUp` goes through all buckets, as the code does.

`Vector` keeps the sequence that the calls amount to in `items`, and next to it what the code does:
`room` is the number of pointers the block behind `data` really holds. `realloc(data, capacity)`
leaves `capacity / 8` pointers of room with an allocator that gives what it is asked for, and never
less than three with one like glibc's, whose smallest block has 24 bytes (`roomy`). An access past the
room makes `fate` undefined; nothing is said from then on.

### JsonValue, JsonParser, JsonText and JsonReader

`JsonValue` has the values, `JsonParser` the parser (`ParseAt`, its loops as `Elements` and `Members`),
`JsonText` the writer (`Serialize`) and the tokenizer (`Tokenize`), on texts as sequences of ASCII
codes. `Serialize` follows the value it writes and is declared RECURSIVE, which keeps `JsonText` away
from the prover; the parser calls itself at later tokens only, and is a recursive function of the place
where it begins. The parser's position `i` and the number `n` of tokens stand for `tokens` and
`tokens_cnt = n - i + 1`, which is unsigned: behind `n + 1` the parser runs on, as the code does, on
what is in the array there. A value of an array with a fourth element, or an object with a fourth
property that is written or destroyed, is undefined (see `Vector`).

`JsonReader` builds messages token by token on top of what earlier messages left in the array, which
is on the same place of the stack. The reference is the grammar of the comment, written as the sets
of values that a sequence of tokens derives (`Derivations`, by `ValuesOf`, `ListsOf` and `PairsOf`), by
cutting at commas and not by scanning. The empty object is one of them, as in the comment (`parser.c:219`);
the code reads `{}` as NULL, which the run `json_empty_object` shows.

### FileIndex and MCWeek06

The three tables of each node (`mine`, `known`, `nodes`), and `arrival`: the list asked for last and
what was made of it. `GetFileList` is `get_file_list` at one node and `b_add_known_files` at the
other, with the serialized text in between and not the list itself: the constants `Written` and `Read`,
which are `Serialize` and `Deserialize` of `JsonText` in the run. A response that is NULL ends the node
that asked (`ended`). A name whose hash is negative has no bucket: what entering it writes may be
anything, so `memory` is undefined and the model stops (`Enter`). `MCWeek06` puts the four
independent parts of week06 (vector, counter, reader, index) into one state space, of which a
behaviour runs one.

## Runs

| run | module, cfg | instance | shows |
|---|---|---|---|
| `node_table` | MCNodeTable | 3 names, 2 of them colliding, 2 addresses, 2 buckets, 4 cells | well-formed table, marks, refinement |
| `event_loop` | EventLoop | 1 client, 2 peers, descriptors 3..5, table of 7 | descriptors and table agree; deaf for good; requests served, releases, all peers fail in the end |
| `pings_stop` | EventLoop, EventLoopPingsStop | 1 peer | **violated**: pings stop |
| `mesh` | MCMesh, Mesh | 4 nodes, 4 layouts, no faults | joining, in every interleaving |
| `mesh_faults` | MCMesh, MeshFaults | 5 nodes: up to 2 crashes, of serving or joining nodes; unreachable seeds; two branches on one host or on five | no self entries if seeds are up, addresses true until accepts overlap; whose push ends a node |
| `mesh_self` | MCMesh, MeshSelf | unreachable seeds | **violated**: a node enters itself |
| `udp` | MCUdpWorkers, UdpWorkers | 2 workers; 3 clients on a reliable network, 2 on a lossy one | one copy, in step, answered; losses are final |
| `tcp` | TcpServer | 3 clients, backlog 2, 2 questions each | answers in order, accepted; no client ends the server |
| `tcp_mid_struct` | TcpServer, TcpMidStruct | structs cut in two | **violated**: closed in mid-struct |
| `stack_shell` | MCStackShell, StackShell | 4 lines of 10 kinds, pipe of 2 records, stack of 2 | lines in order, stack is the replay, what the end repeats |
| `week06` | MCWeek06, Week06 | see *Bounds* | containers, JSON against its grammar, lists of files |
| `json_empty_object` | MCWeek06, JsonEmptyObject | the same | **violated**: `{}` is read as NULL |

*Bounds.* Two colliding names and one that does not collide are all the cases a walk tells apart, and
four cells let an entry be evicted, its name come back in a new cell, and that one be evicted too. In
`event_loop` the table has one place more than there are descriptors below the limit, as `MAX_CLIENTS +
1` and the usual limit of 1024, so failed accepts overfill what poll takes; a client and two pings are
enough for a number to be closed, handed out again and scheduled for removal in one turn, and for a ping
to find the table full, so that its entry is dropped. Four nodes give siblings, a seed that has joined
through another, and a receiver that missed a push; five give two branches, on one of which a node
misses the news of one on the other. In the layouts with crashes a crash of a joining node leaves a
HELLO, a request, an end or a reset at its seed, which others are joining through at the same time; in
one of them a node has joined through a node that has joined. In the others two of the five are each
other's seed, so that they never start where nodes wait for their seed, and fail to bootstrap where they
do not. A struct of two parts has a cut in the middle, and two questions let an answer be late. The
networks of `udp` are a reliable one, where three clients ask twice and the buffer holds a question of
each, and one that loses and duplicates, where one client asks twice, another once, and the buffer holds
one question.

In `stack_shell`, four lines let an argument be given, a stack be made, overfilled or emptied, and
looked at; a pipe of two lets the parent run ahead to the end of the input and past it. In `week06`, a
vector grows past its first block and shrinks below it (indices up to 3, a `size_t` of 5 bits, wide
enough for every product); two of three objects share a bucket and each may be taken twice; messages
are all those of up to five tokens, those of up to seven that may still become a value, and the
openings of arrays and objects that go over three elements; the files' names have a comma and bracket,
a backslash at the end, two of them, and bytes above 127, whose hash is negative for a map of three
buckets; two nodes enter three files or nodes by hand.

*Deadlock* is checked for `node_table` only. The other systems may stop: processes end, clients stop
asking, a network in which everyone has joined is at rest, a parent blocks on a pipe that nobody reads.

*Fairness.* `EventLoop`: the loop goes on as long as the process lives (it is one thread with no lock,
and its poll has a timeout of a second), and time passes. Nothing is assumed of clients and peers.
`Mesh`: a joining node reads an answer that is there, a serving node's loop goes on; nobody is made to
start. `UdpWorkers`: threads and the blocked client run on, and on the reliable network datagrams
arrive. `TcpServer`: the server runs on while it is there, and every user stops the client some day
(without that, the second client waits for ever, by design). `StackShell`: the parent and the child, two
processes, run on; nobody has to type, and the input need not end (`EndSaturates` says what happens if
it does). `week06` has no liveness: its parts are sequential.

### What the properties of week01 and week06 say

* `InOrder`, `StackIsReplay`: the program is right up to the end of the input, for a user who neither
  pushes nor pops before the first `create`; a `push` without a number pushes the last number given to
  any command.
* `EndSaturates`: after the end of the input the last line is repeated for ever. A `push` fills the
  stack, a `pop` empties it; with the child dead the parent blocks on a full pipe and never ends.
* `VectorIsSequence`: with glibc a vector is good for three elements, with an exact allocator only until
  it has shrunk below two.
* `NothingFreedUnlessTwice`: with the inverted comparison all references are counted in the one record
  there is, which counts *other* objects; nothing is freed until some object is taken twice, and then
  the wrong one may be.
* `AgreesButForEmptyObjects`: the parser returns the value that a beginning of the message derives (what
  follows is ignored), else NULL, whatever was left in the array; a message with an empty object may be
  read as NULL, and is never read as anything else that is wrong. One more exception is a message that
  ends in `[` when a `]` was left there.
* `ListArrivesWholeOrNotAtAll`: a single backslash at the end of a file's name makes the whole list
  unreadable, and ends the node that asked; other names, backslashes, commas and brackets in them
  included, arrive as they were.
* `FoundForGood`: elements never replace their equals, so a file that has moved is found where it was.
  It claims nothing of a step that enters a name without a bucket.

### What the violated runs say

* `PingsGoOn` (`main.c:23`, "ping once every <secs> seconds"): one ping without a pong leaves the mark
  that `ping_node` takes for a ping under way. No later round clears it. `AllPeersFailInTheEnd` is the
  other half: answered pings leak a descriptor each, so the failing ping does come.
* `NoSelf` (`bootstrap.c:55`, "don't add yourself"): see `StartUnreachable`.
* `ClosedOnRequestOnly` (`week04/server.c:153`): the second segment of a struct reads as the special
  message that ends a connection.
* `AgreesWithGrammar` (`week06/src/ds/json/parser.c:219`, "| '{' '}'"): after a left brace the parser
  asks for a property, and returns NULL when it finds the right one.

Some behaviour of the models is not what one would wish for but contradicts no text of the
repository. Two are properties that hold: `DeafForGood`, and `LostForGood`. Others show in what the
properties exclude. A node that missed a push about another may later be ended by a push *from* that
other (`EndsUntilOverlap` says when; after a crash and a restart, and when names collide, any
pusher will do). On several hosts, overlapping accepts give nodes the address of another host
(`TrueUntilOverlap` says that nothing less does, but for a request that is handled again). A joining node that
dies may take its seed with it. `protocol.md` describes another protocol, with
forwarded pushes and a TTL, which the code does not have. The client of week04 goes on with its old
result when the server has closed the connection. A question whose struct is cut within its name is answered
twice, which `AnswersInOrder` allows for: answers never go back, and where structs arrive whole no client ends
the server (`SurvivesItsClients`); a client that goes while a question of
its own arrives in pieces may end it.

## Proofs

Every theorem holds for any values of the constants that satisfy the module's named `ASSUME`, which
TLC evaluates in the runs: limits are natural numbers, values that stand for nothing are not values,
clients are no peers; and, where a cardinality or a list made from a set is spoken of, `Clients`,
`Workers` (`UdpConstants`), `Buckets` (`MeshConstants`) and `Objects` (`RefCounterConstants`) are finite.
`NobodyConnects` says that the value for nobody is no connection.
`FoundStaysFound` has one hypothesis more, see *FileIndex* below. In each module `IInv` is the
inductive invariant, `InitIInv` and `NextIInv` its two halves; in `Week06_proofs`, which is about
several modules, they are `VectorInv`, `RefInv`, `ReaderTypeOK` and `IndexInv`. TLC has checked each on
a run (of `IndexInv`, that the tables have the buckets and the files are in theirs).

| module | theorem | states |
|---|---|---|
| `NodeTable_proofs` | `TypeCorrect`, `OneEntryPerBucket`, `OnePingPerEntry` | `[]TypeOK`, `[]HeadsOnly`, `[]PingedWaits` |
| | `EvictedStaysOut`, `FailedStaysFailed` | `EvictedForGood`, `FailedForGood` |
| | `Refinement` | `Directory!DirSpec` |
| `EventLoop_proofs` | `TypeCorrect`, `DescriptorsAgree` | `[]TypeOK`, `[]CallbacksOwnTheirSockets` |
| | `NeverStopsListening`, `NoSecondPing`, `RemovalIsTidy` | `[]AlwaysListening`, `[]OnePingPerPeer`, `[]RemovalTidy` |
| | `RemovalTakesOnlyDone`, `DeafStaysDeaf` | `RemovalSparesTheLive`, `DeafForGood` |
| `Mesh_proofs` | `TypeCorrect`, `NobodyListsItself`, `TablesStayTrue` | `[]TypeOK`, `[](layout.clean /\ Tame => NoSelf)`, `[]TablesTrue` |
| | `TrueTillOverlap`, `EndsTillOverlap` (of `OverlapSpec`) | `[]TrueUntilOverlap`, `EndsUntilOverlap` |
| | `JoinersMeet` | `[]Acquainted` |
| `UdpWorkers_proofs` | `TypeCorrect` | `[]TypeOK` |
| | `InStepWithClients`, `LostStaysLost` | `[]OneCopyInStep`, `LostForGood` |
| `TcpServer_proofs` | `TypeCorrect`, `EveryAnswerInOrder` | `[]TypeOK`, `[]AnswersInOrder` |
| | `NoClientEndsTheServer` | `SurvivesItsClients` |
| `StackShell_proofs` | `TypeCorrect`, `NoLineIsLost`, `StackIsTheReplay` | `[]TypeOK`, `[]InOrder`, `[]StackIsReplay` |
| `Week06_proofs` | `AVectorIsASequence` (of `VectorSpec`) | `[]VectorIsSequence` |
| | `FreedOnlyIfTwice` (of `RefSpec`) | `[]NothingFreedUnlessTwice` |
| | `ReaderTypes`, `ReadsTheGrammar` (of `ReaderSpec`) | `[]ReaderTypeOK`, `[]AgreesButForEmptyObjects` |
| | `FoundStaysFound` (of `IndexSpec`, if `ListsAreRead`) | `FoundForGood` |
| | `AsciiHashable` | a name of bytes below 128 has a bucket |

`ProofLemmas` has what several need: a set of numbers has a least one (`LeastNumber`, which is how
something is proved of all indices of a recursive *function*), the size of an interval (`UpTo`), a
sequence without one element (`CutOut`).

**NodeTable.** `HeadsOnly` speaks of a least fixed point and is not inductive. The strengthening `IInv`
says what the walk keeps true of the pointers: a bucket is empty or leads to an allocated entry that
*ends the chain* (`next` is NULL) and whose name hashes to the bucket (`HeadsAtHome`); allocated entries
are filled in (`AllocatedFilled`); a walk that has stepped over an entry has thereby *emptied* its
bucket, and `append_to` is an entry at home there with another name (`WalkInv`); an entry with a ping
under way is allocated and marked (`PingInv`). Since heads have no successors the set of heads is
closed, hence equal to `Listed` (lemma `ListedAreHeads`), and `HeadsOnly`, `EvictedForGood` and
`FailedForGood` become facts about heads. The evicted entry does point into the table, but nothing
points to it. The refinement takes `Walk` to a stutter, the two `Settle` actions to `Learn`, a round to
`Round` with the lost buckets, and answers to `Answer`, or to a stutter when the entry was evicted.

**EventLoop.** That no callback is left with another's socket is not inductive: it depends on which of
two entries with the same number a removal takes. `DoneListed` and `ListedDone` make the list of
removals and the entries that are done correspond one to one. `DoneFirst`: the number of a closed
socket can only be had again by a socket registered *after* it, hence in an entry behind; so the first
entry with a number, which is the one that `event_loop_remove_fd` takes, is the done one. `TurnInv`
says why this survives a turn: sockets are opened by the listening socket's callback, which comes
first, before anything is closed, and by the pings, after everything is. `Registered` keeps the
listening socket in the first entry. The order of the parts of a turn is thus all that makes
removal by number safe; a callback that both closes and opens would break it.

**Mesh.** `IInv` says how connections lie in the queues: one accept per turn and that first (`TurnInv`);
a joining node has one connection, to its seed, until it is sent the list (`JoinsOnce`), and one request
or answer under way (`AskInv`); an accepted connection has left a host in the buffer (`NotedInv`); no
push tells a node of itself (`NewsOfOthers`). The rest of it is about nodes that crashed while they
joined. The danger is a HELLO of a node handled after that node serves: the seed would push the node to
itself. So a HELLO that was left behind is in one place, while its node has not been sent a list since
(`LeftOnce`); when the node tries again, its new connection comes after the old one in every sequence
(`LeftFirst`), so the old HELLO is handled first; and a HELLO that is still in the request buffer, to be
handled again, is of a node whose connection that seed has or that does not run (`InputInv`): the list,
which lets it serve, overwrites the buffer. Without crashes nothing of this is there (`NoneGone`).
`Truth` extends the addresses in tables to those in pushes and answers, and in the push the buffer
holds. On one host a HELLO is entered truly whatever the buffer holds (`OneHostIsRight`); on several
because of `BufferTrue`, the buffer is that of the one request still unhandled, which only an
overlapping accept breaks. For `Acquainted`, `MeetInv` follows a node through its join (`Met`: its seed
knows it from the answer to its HELLO on) and compares, of two that were sent the list of one seed, what
the lists or tables say (`PairsListed`): the one whose list was written later has the other in it.
`EndsUntilOverlap` is an action property, about the sender of the push that is being dispatched, and
rests on the order of messages: `BranchInv` follows the news of a node to each of those above it, its
seed, that one's seed and so on. They have all started before it (`SeedsStart`). Those that its seed
knows have the news, or it is among the connections to them (`Announced`), ahead of whatever comes from
the node itself (`NewsFirst`); a turn serves connections in the order in which they were accepted
(`TurnInOrder`). Conversely a node has those above it from the list (`Handed`), and is known to nobody
above it that its seed does not know (`Returned`, and `Inherited` for the other direction). So between
two nodes on one branch, the receiver of a push knows the sender; since the buffer has the sender's
host, it is found (`PushFromAside`).

**UdpWorkers.** In `InStep` the latest question of a client is in exactly one of four places, which a
step moves it along; `OneCopyInStep` is that, counted. The buffer is large enough on a reliable network
because each client has one question in it at most (`RoomForIt`).

**TcpServer.** `InOrder` relates three sequences: what a client has printed is not after what it can
read, and that not after whatever of its questions the server has yet to answer, counted in parts of
structs so that it holds where the stream is cut anywhere. Where structs are whole, `InTurn` says the
stronger thing. A client that has gone leaves one question at most then, so one that was gone when it
was answered has left nothing more to answer (`Spent`), and a second answer to it, the one that raises
SIGPIPE, is not sent: `SurvivesItsClients`.

**StackShell.** `Channel`: from the child's last line through the pipe to the parent's buffer, each is the
line after the one before or the last line again (`Follows`). `StackInv` adds the array, as `Content`,
to it, and that `repeats` may stop being counted at `StackMax`. The lemmas about `Runs` say that its
equation has one solution, which the next line continues.

**Vector.** `Holds`: what is defined has the length of the sequence and memory for it; an exact allocator
has left the first block, or none after a removal of all but one. `Overgrown`: what is undefined has
been through one of the two calls that `VectorIsSequence` excludes.

**RefCounter.** That the one record counts what is taken of all the others is not inductive by itself: a
look-up takes the first record of another object in *any* bucket. `RefInv` therefore gives the whole map:
it is empty, or `With(e)`, one record in its own object's bucket. Then a look-up for that object finds
nothing and one for any other finds the record (`FoundIs`), an insertion replaces the record only when
its object is taken again, and a count of one means that the others have nothing to release
(`DecrefKeeps`). The sum over a set and the flattening of the buckets are the library's, defined by
recursive functions; what is needed of them (`SumsCompare`, `SumsHave`, `Flattened`) is proved by the
least counterexample.

**JsonParser.** `AgreesButForEmptyObjects` says, up to empty objects, that two recursive functions of
the same tokens agree: a parser that scans, and a grammar that cuts. First, both exist and are what
their equations say. The parser at a place depends on later places only (`BodyStep`), and what a span
derives depends on shorter spans (`RulesLocal`); so by the least counterexample on `Rank` and `Size`
there is a function that satisfies each equation, and only one (`ParseIs`, `MeaningsIs`). On the way
every outcome gets its shape (`Shaped`): a value ends behind the place it began at and not beyond the
second place behind the array. Then two halves, each from the last token downwards (`Downwards`).
*Soundness* (`ParserSound`): a value that the parser returns is derived by the span it has passed, a
list of parts by the span up to its bracket, and it is undefined only after a name that has no bucket or
from a fourth part on, for which three commas have been passed (`CommasCut`, `TooMuch`). *Completeness*
(`ParserFull`): when a span derives a value, the parser at its first place returns that value and stops
behind the span, or is undefined; hence no two values can be derived (`Exactly`); NULL is excused where
the message has an empty object (`HasEmpty`). The leftovers matter at one place only, the token behind
the last, which the parser reads when it has just passed a left bracket; this is the first disjunct of
the property (`Completed`), and without it both halves fail. `Agreement` puts the halves together, and
`ReaderTypeOK` gives that what is in the array are tokens, whatever the earlier messages.

**FileIndex.** `FoundForGood` needs to know where things are: `IndexInv` says that the tables are hash maps
(`Chained`) and that every file is in the bucket of its name (`Filed`), so that the first of a name is the
first in one chain and not in the lowest bucket of several (`FileFound`). A step only makes chains
longer at the end (`TablesGrow`, from `AddKeeps` for one element and `FilesEntered` for a list of any
length). Then the least place at which a name is found stays what it was (`SameLeast`). A node is looked
up by its address, over all buckets, so another of the same address may come to be found, but not none
(`NodeStays`). The hypothesis `ListsAreRead` is that what is read for a list of files, if it is a value,
comes from tokens that begin with a left bracket: `Serialize` writes the bracket of an array first and
`Tokenize` makes a token of it, which TLC confirms for the lists of the run, but `Serialize` is
out of the prover's sight. That such a value is an array whose elements are a sequence is proved
(`BracketsHoldASequence`). `AsciiHashable` says which names the index is safe for,
whatever their length: C's remainder is negative only if what is divided is, and that takes a negative
character (`OneCharacter`). The hash is a fold of the library, a recursive function of a set of indices
(`FoldExists`).

*Model-checked only.* Liveness and ENABLED are out of the prover's reach: `ClientsServed`,
`AllPeersFailInTheEnd`, `JoinCompletes`, `NewsArrives`, `Answered`, `EveryoneIsAccepted`, `EndSaturates`.
Of the invariants, `ListArrivesWholeOrNotAtAll` alone: that reading undoes writing is an induction over
values, and `Serialize` is a RECURSIVE operator.

## Mutants

Each property is checked against a mutated definition that must violate it. The mutated forms are in
the modules, before the definition they stand for, marked *Mutant*; no specification uses them.

## Not modelled

* Logging, usage texts, argument parsing, and the failures of `socket`, `bind` and `listen` at the
  start, which end the program.
* `known_node_hash` in `NodeTable`, a constant function there; names are model values. The same function
  is `PolynomialHash` in `HashMap`.
* `connect_to_node`, `send_request`, `send_receive`, `send_receive_plain`: nobody calls them.
* What a node does that takes uninitialised memory for a list of nodes (`bootstrap.c:16`), what comes of
  a write through the uninitialised pointer of `week01`, and of an entry under a negative hash in
  `week06`: the model has the step, and stops there, all of it or the process, and no property speaks of
  it. A node of `Mesh` whose uninitialised `bootstrap_addr` holds an address.
* In `Mesh`: that a ping is read between two other requests and takes their place in the buffer on the
  stack, other than as an outcome of `NothingAgain`; that a node ends between two of its pushes, which
  are one step with the handling of the HELLO.
* A full TCP backlog or send buffer, where a handler would block in `connect` or `send`.
* Lines of `week01` longer than 1023 characters or with two spaces, and a `pipe` that fails.
* Names with a quote in them (nothing escapes it, so what is read depends on every byte after it),
  integers too large for an `int`, texts beyond the output buffer.
* The envelope of a week06 message. The receiver adds `ip` and `socket` to a sender's record of `name`
  and `listen_port` and logs the result, which takes a vector of four (`server.c:57`, `handlers.c:125`):
  with it every request would be undefined, and nothing else could be said.
* The rest of `week06`: `event_loop.c`, `requests.c`, `server.c`, `file_transfer.c`, `pings.c`, `main.c`
  and most of `control.c`. `include/requests.h:44` lacks a semicolon and most files include it;
  `requests.c` uses a `keep_alive` that is not declared; `event_loop_add_fd` and
  `event_loop_schedule_remove_fd` are called and not defined; the event loop never allocates its stack
  tops. There is no program whose states these files would have.

## Plan

1. Done: the table, its abstract directory and the proofs; the event loop; the mesh; week05; week04.
2. Done: `StackShell`; the containers, the JSON and the file index of week06.
3. Done: proofs for `EventLoop`, `UdpWorkers`, `TcpServer`, `StackShell`, `Vector`, `Mesh` and `RefCounter`;
   for the parser, against the grammar, and the tables of `FileIndex`.
4. Open: `Tokenize` against `Serialize` for the lists that the file index sends. Their objects hold names
   and at most one node, so their text could be written without recursion over values.
