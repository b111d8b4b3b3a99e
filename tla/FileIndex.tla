------------------------------ MODULE FileIndex ------------------------------
(***************************************************************************)
(* The tables of a week06 node: its own files (my_files.c), the files it   *)
(* knows of and who has them (known_files.c), the nodes it knows           *)
(* (known_nodes.c); and the list of files that a node asks another for     *)
(* when it joins (get_file_list in handlers.c, b_add_known_files in        *)
(* bootstrap.c), through the JSON text in between.                         *)
(*                                                                         *)
(* The envelope of a message and the connection it takes are left out.  A  *)
(* name that hashes below 0, or a list of more files than an array holds,  *)
(* leaves the memory of the tables.  Anything may happen from then on; the *)
(* model stops there, and nothing is claimed of that step.                 *)
(***************************************************************************)
EXTENDS JsonValue

CONSTANTS
    Written(_),     \* serialize_json (JsonText)
    Read(_),        \* deserialize_json (JsonText)
    Nodes,          \* the nodes, as records of a name, an ip and a port
    Files,          \* names of files
    Paths,          \* where files are
    MaxAdded,       \* bound of the model: files and nodes entered by hand
    MaxKnown        \* bound of the model: a node that knows more asks for no list

ASSUME IndexConstants == MaxAdded \in Nat /\ MaxKnown \in Nat

VARIABLES
    mine, known, nodes,     \* the three hash maps of each node
    arrival,                \* the list asked for last, and what was made of it, if anything
    ended,                  \* the nodes that have ended
    memory,                 \* "ok" or "undefined"
    added

indexVars == <<mine, known, nodes, arrival, ended, memory, added>>

IndexInit ==
    /\ mine  = [n \in Nodes |-> EmptyMap(HashmapEntries)]
    /\ known = [n \in Nodes |-> EmptyMap(HashmapEntries)]
    /\ nodes = [n \in Nodes |-> EmptyMap(HashmapEntries)]
    /\ arrival = [sent |-> <<>>, got |-> <<<<>>>>]
    /\ ended = {}
    /\ memory = "ok"
    /\ added = 0

Hash(name) == PolynomialHash(name, 257, HashmapEntries)

FindMyFile(m, f)       == LookUp(m, LAMBDA e : e.filename = f)
FindKnownFile(m, f)    == LookUp(m, LAMBDA e : e.filename = f)
LookUpNode(m, ip, port) == LookUp(m, LAMBDA e : e.ip = ip /\ e.port = port)

Runs(n) == memory = "ok" /\ n \notin ended

\* Entered under this name, by hand: nothing else changes but `entered'.
Enter(name, Entered, entered) ==
    /\ added < MaxAdded
    /\ added' = added + 1
    /\ IF Hashable(name, HashmapEntries)
       THEN Entered /\ UNCHANGED memory
       ELSE memory' = "undefined" /\ UNCHANGED entered

\* From the directory at the start, or through the control socket.
AddMyFile(n, f, p) ==
    /\ Runs(n)
    /\ Enter(f, mine' = [mine EXCEPT ![n] =
                            AddElement(@, Hash(f), [filename |-> f, path |-> p], FALSE)], mine)
    /\ UNCHANGED <<known, nodes, arrival, ended>>

\* From a hello, a push, or the list of nodes.
AddKnownNode(n, other) ==
    /\ Runs(n)
    /\ Enter(other.name, nodes' = [nodes EXCEPT ![n] =
                                      AddElement(@, Hash(other.name), other, FALSE)], nodes)
    /\ UNCHANGED <<mine, known, arrival, ended>>

-----------------------------------------------------------------------------
(* The list of files *)

FilenameProperty   == <<102, 105, 108, 101, 110, 97, 109, 101>>
NodeProperty       == <<110, 111, 100, 101>>
NameProperty       == <<110, 97, 109, 101>>
IpProperty         == <<105, 112>>
ListenPortProperty == <<108, 105, 115, 116, 101, 110, 95, 112, 111, 114, 116>>

SerializeNode(n) ==
    ObjectOf(<< <<NameProperty, String(n.name)>>, <<IpProperty, String(n.ip)>>,
                <<ListenPortProperty, Integer(n.port)>> >>)

DeserializeNode(v) ==
    [name |-> GetProperty(v, NameProperty)[1].string,
     ip   |-> GetProperty(v, IpProperty)[1].string,
     port |-> GetProperty(v, ListenPortProperty)[1].int]

\* The files the node knows of, with who has them, then its own.
FileList(n) ==
    LET others == EntriesOf(known[n])
        own    == EntriesOf(mine[n])
        Named(e) == <<FilenameProperty, String(e.filename)>>
    IN  [k \in DOMAIN others |-> ObjectOf(<<Named(others[k]),
                                            <<NodeProperty, SerializeNode(others[k].node)>> >>)]
        \o [k \in DOMAIN own |-> ObjectOf(<<Named(own[k])>>)]

\* A file of a received list; one without a node is with the sender.
Received(v, sender) ==
    [filename |-> GetProperty(v, FilenameProperty)[1].string,
     node     |-> LET at == GetProperty(v, NodeProperty)
                  IN  IF at = <<>> THEN sender ELSE DeserializeNode(at[1])]

\* What n would enter if it knew what m knows.
Offered(m) ==
    [k \in DOMAIN EntriesOf(known[m]) |-> EntriesOf(known[m])[k]]
    \o [k \in DOMAIN EntriesOf(mine[m]) |->
           [filename |-> EntriesOf(mine[m])[k].filename, node |-> m]]

AddKnownFile(t, e) == AddElement(t, Hash(e.filename), e, FALSE)

AddKnownFiles(t, files) == FoldLeft(AddKnownFile, t, files)

\* A node that joins asks another for its list, and ends when it cannot read the answer.
GetFileList(n, m) ==
    /\ Runs(n) /\ Runs(m) /\ n # m
    /\ Len(EntriesOf(known[n])) <= MaxKnown
    /\ IF Len(FileList(m)) > ArrayRoom
       THEN memory' = "undefined" /\ UNCHANGED <<known, arrival, ended>>
       ELSE \E text \in {Written(Array(FileList(m)))} :
            \E response \in {Read(text)} :
                LET array == response.value.array
                    files == [k \in DOMAIN array |-> Received(array[k], m)]
                IN  \/ /\ response.is # "value"
                       /\ ended' = ended \cup {n}
                       /\ arrival' = [sent |-> Offered(m), got |-> <<>>]
                       /\ UNCHANGED <<known, memory>>
                    \/ /\ response.is = "value"
                       /\ \A k \in DOMAIN files : Hashable(files[k].filename, HashmapEntries)
                       /\ known' = [known EXCEPT ![n] = AddKnownFiles(@, files)]
                       /\ arrival' = [sent |-> Offered(m), got |-> <<files>>]
                       /\ UNCHANGED <<ended, memory>>
                    \/ /\ response.is = "value"
                       /\ \E k \in DOMAIN files : ~Hashable(files[k].filename, HashmapEntries)
                       /\ memory' = "undefined"
                       /\ UNCHANGED <<known, arrival, ended>>
    /\ UNCHANGED <<mine, nodes, added>>

IndexNext ==
    \E n \in Nodes :
        \/ \E f \in Files, p \in Paths : AddMyFile(n, f, p)
        \/ \E m \in Nodes : AddKnownNode(n, m) \/ GetFileList(n, m)

IndexSpec == IndexInit /\ [][IndexNext]_indexVars

-----------------------------------------------------------------------------
(* Properties *)

\* A name that ends in one backslash hides the quote after it.
HidesQuote(t) ==
    /\ t # <<>> /\ Last(t) = Backslash
    /\ Len(t) > 1 => t[Len(t) - 1] # Backslash

(***************************************************************************)
(* A list arrives as it was sent, or not at all: it does not if the name   *)
(* of one of its files ends in a single backslash.  Names may have         *)
(* anything in them but quotes, which are not escaped.                     *)
(***************************************************************************)
ListArrivesWholeOrNotAtAll ==
    arrival.got = IF \E e \in ToSet(arrival.sent) : HidesQuote(e.filename)
                  THEN <<>> ELSE <<arrival.sent>>

(***************************************************************************)
(* A second element of a name goes behind the first and never replaces it: *)
(* what a node finds under a name it finds for good, also when the file    *)
(* has moved; and a node it can be asked for by address is never lost; as  *)
(* long as every name that was entered has a bucket.                       *)
(***************************************************************************)
FoundForGood ==
    [][memory' = "ok" => \A n \in Nodes :
          /\ \A f \in Files :
                /\ FindMyFile(mine[n], f) # <<>> => FindMyFile(mine'[n], f) = FindMyFile(mine[n], f)
                /\ FindKnownFile(known[n], f) # <<>>
                      => FindKnownFile(known'[n], f) = FindKnownFile(known[n], f)
          /\ \A m \in Nodes :
                LookUpNode(nodes[n], m.ip, m.port) # <<>>
                    => LookUpNode(nodes'[n], m.ip, m.port) # <<>>]_indexVars
=============================================================================
