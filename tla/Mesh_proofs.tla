----------------------------- MODULE Mesh_proofs -----------------------------
(* Proofs about Mesh, for any number of nodes, any layouts and any table of *)
(* buckets.                                                                 *)
EXTENDS MeshOverlap, ProofLemmas

(***************************************************************************)
(* The inductive invariant: what there is of connections, requests and     *)
(* pushes, and what is left of nodes that crashed while they joined.       *)
(***************************************************************************)

\* Only a node that serves has connections.
Quiet == \A s \in Nodes : mode[s] # "up" => queue[s] = <<>> /\ held[s] = <<>> /\ turn[s] = <<>>

\* How often a connection, or an accept, is in a sequence of them: at most once.
Once(q, c) == \A i, j \in 1 .. Len(q) : q[i] = c /\ q[j] = c => i = j

\* In q, c never comes without d before it.
Ahead(q, d, c) == \A i \in 1 .. Len(q) : q[i] = c => \E j \in 1 .. Len(q) : j < i /\ q[j] = d

\* There is one accept in a turn; it leads the turn, and there is something to accept.
TurnInv ==
    \A s \in Nodes :
        /\ Once(turn[s], TheAccept)
        /\ TheAccept \in ToSet(turn[s]) => Head(turn[s]) = TheAccept /\ queue[s] # <<>>

\* Whose host a node has in its address buffer, once it has accepted anybody.
Noted(s) == \E m \in Nodes : ntoa[s] = Host[m]

NotedInv ==
    \A s \in Nodes : held[s] # <<>> \/ ToSet(turn[s]) \ {TheAccept} # {} => Noted(s)

\* A joining node has one request or one answer under way at most, that of its mode.
AskInv ==
    \A n \in Nodes :
        /\ mode[n] \in {"hello", "list"} => SeedOf[n] # Nobody
        /\ ask[n] = "hello" => mode[n] = "hello"
        /\ ask[n] = "list" => mode[n] = "list"
        /\ ans[n].kind = "hello" => mode[n] = "hello" /\ ask[n] = "none"
        /\ ans[n].kind = "list" => mode[n] = "list" /\ ask[n] = "none"

\* A joining node has one connection, to its seed, until it is sent the list.
JoinsOnce ==
    \A s, n \in Nodes :
        /\ Once(queue[s], JoinOf(n)) /\ Once(held[s], JoinOf(n)) /\ Once(turn[s], JoinOf(n))
        /\ JoinOf(n) \notin ToSet(queue[s]) \cap ToSet(held[s])
        /\ JoinOf(n) \in ToSet(turn[s]) => JoinOf(n) \in ToSet(held[s])
        /\ JoinOf(n) \in ToSet(queue[s]) \cup ToSet(held[s]) =>
              /\ s = SeedOf[n]
              /\ mode[n] \in {"hello", "list"} /\ ans[n].kind # "list"

\* No push tells a node of itself.
Carried(k) == ToSet(queue[k]) \cup ToSet(held[k]) \cup ToSet(turn[k])
Pushes(k)  == {c \in Carried(k) : c.kind = "push"}

NewsOfOthers == \A k \in Nodes : \A c \in Pushes(k) : c.what.name # k

Core ==
    /\ TypeOK
    /\ Quiet /\ TurnInv /\ NotedInv
    /\ AskInv /\ JoinsOnce
    /\ NewsOfOthers /\ (layout.clean => NoSelf)

\* Without crashes there is nothing left of anybody, and no request is handled again.
NoneGone ==
    layout.crashes = 0 =>
        \A s \in Nodes : input[s] = Nobody /\ \A c \in Carried(s) : c.kind # "gone"

\* HELLOs that were not read when their sender crashed.
Left == {c \in Conn : c.kind = "gone" /\ c.gives = "hello"}

\* Such a HELLO is in one place, at the seed of the node, which does not get past its HELLO again
\* while the old one is there.
LeftOnce ==
    \A s \in Nodes, g \in Left :
        /\ Once(queue[s], g) /\ Once(held[s], g) /\ Once(turn[s], g)
        /\ g \notin ToSet(queue[s]) \cap ToSet(held[s])
        /\ g \in ToSet(turn[s]) => g \in ToSet(held[s])
        /\ g \in ToSet(queue[s]) \cup ToSet(held[s]) =>
              /\ s = SeedOf[g.from] /\ g.id <= crashes
              /\ mode[g.from] \notin {"list", "up"} /\ ans[g.from].kind = "none"
              /\ mode[g.from] = "hello" => ask[g.from] = "hello" /\ Connected(g.from)

\* It comes before the connection with which the node tries again.
LeftFirst ==
    \A s \in Nodes, g \in Left :
        /\ g \in ToSet(held[s]) =>
              Ahead(held[s], g, JoinOf(g.from)) /\ Ahead(turn[s], g, JoinOf(g.from))
        /\ g \in ToSet(queue[s]) =>
              Ahead(queue[s], g, JoinOf(g.from)) /\ JoinOf(g.from) \notin ToSet(held[s])

\* A HELLO in the buffer is of a node that has not got its list; a push there is of another.
InputInv ==
    \A s \in Nodes : input[s] # Nobody =>
        /\ mode[s] = "up"
        /\ input[s].kind = "push" => input[s].what.name # s
        /\ \A m \in Nodes : input[s] = JoinOf(m) =>
              /\ SeedOf[m] = s /\ mode[m] # "up" /\ ans[m].kind # "list"
              /\ mode[m] \in {"hello", "list"} => Connected(m)

IInv == Core /\ NoneGone /\ LeftOnce /\ LeftFirst /\ InputInv

(***************************************************************************)
(* What a table, a push or a list says of a node is where it listens; so   *)
(* does a push that was read and is still in the buffer.                   *)
(***************************************************************************)
IsTrue(e) == e.addr = AddrOf(e.name)

Truth ==
    /\ \A n \in Nodes : \A e \in Entries(known[n]) : IsTrue(e)
    /\ \A k \in Nodes : \A c \in Pushes(k) : IsTrue(c.what)
    /\ \A n \in Nodes : ans[n].kind = "list" => \A e \in Entries(ans[n].table) : IsTrue(e)
    /\ \A s \in Nodes : input[s] # Nobody /\ input[s].kind = "push" => IsTrue(input[s].what)

\* The host in the buffer is that of a request still to be handled.
BufferTrue == \A s \in Nodes : \A x \in Unhandled(s) : ntoa[s] = Host[x.from]

OverlapInv == layout.clean /\ ~overlap => Truth /\ (~SingleHost => BufferTrue)

(***************************************************************************)
(* Who has met whom, undisturbed.  Names have a bucket each, and are never *)
(* replaced; a seed that is up has not lost its joiners; and of two that   *)
(* have their lists from the same seed, one is in the list of the other.   *)
(***************************************************************************)
Home(table) == \A b \in Buckets : table[b] # Nobody => Hash[table[b].name] = b

Past(n) == mode[n] = "up" \/ ans[n].kind = "list"

Listed(n) == IF mode[n] = "up" THEN NamesIn(known[n]) ELSE NamesIn(ans[n].table)

Met(n) ==
    /\ mode[n] \in {"hello", "list", "up"} => mode[SeedOf[n]] \in {"up", "dead"}
    /\ mode[n] \in {"hello", "list"} /\ ans[n].kind # "list" /\ mode[SeedOf[n]] = "up"
          => Connected(n)
    /\ mode[n] \in {"list", "up"} \/ ans[n].kind = "hello" => n \in NamesIn(known[SeedOf[n]])
    /\ mode[n] \in {"list", "up"} => SeedOf[n] \in NamesIn(known[n])

Homes == \A n \in Nodes : Home(known[n]) /\ (ans[n].kind = "list" => Home(ans[n].table))

AllMet == \A n \in Nodes : SeedOf[n] # Nobody => Met(n)

PairsListed ==
    \A m, n \in Nodes :
        /\ m # n /\ SeedOf[m] # Nobody /\ SeedOf[m] = SeedOf[n]
        /\ Past(m) /\ Past(n) /\ mode[SeedOf[m]] = "up"
        => m \in Listed(n) \/ n \in Listed(m)

MeetInv == Undisturbed => Homes /\ AllMet /\ PairsListed

(***************************************************************************)
(* Whom a push ends, undisturbed.  Seeds start before those that join      *)
(* through them.  A node that serves does not hear of one above it any     *)
(* more; whom its seed knew above it, it has from the list.  One that is   *)
(* above and known to the seed hears of the node, and of it before         *)
(* anything from it, as connections are served in the order in which they  *)
(* were made.                                                              *)
(***************************************************************************)
Over(m, n) == m # n /\ Above(m, n)

Started(n) == mode[n] # "down"

Names(k) == NamesIn(known[k])

IsNews(c, n) == c.kind = "push" /\ c.what.name = n

\* A node accepts and serves its connections in turn, so it has d first.
ComesFirst(k, d, c) ==
    /\ Ahead(held[k], d, c)
    /\ d \in ToSet(held[k]) \/ Ahead(queue[k], d, c)

Waiting(k) == ToSet(held[k]) \cup ToSet(queue[k])

SeedsStart ==
    \A n \in Nodes : Started(n) /\ SeedOf[n] # Nobody => mode[SeedOf[n]] \in {"up", "dead"}

NamesStart ==
    \A k \in Nodes :
        /\ \A n \in Names(k) : Started(n)
        /\ ans[k].kind = "list" => \A n \in NamesIn(ans[k].table) : Started(n)

\* A push comes from the seed of the node it tells of, after the HELLO, and to another that
\* the seed knows and that is not below that node.
PushesRight ==
    \A k \in Nodes : \A c \in Pushes(k) :
        LET n == c.what.name IN
        /\ SeedOf[n] = c.from /\ k \in Names(c.from)
        /\ Started(n) /\ ask[n] # "hello" /\ ~Above(n, k)

\* Like a joining node's connection, a push is in one place.
PushesOnce ==
    \A k \in Nodes, c \in Conn : c.kind = "push" =>
        /\ Once(queue[k], c) /\ Once(held[k], c) /\ Once(turn[k], c)
        /\ c \notin ToSet(queue[k]) \cap ToSet(held[k])
        /\ c \in ToSet(turn[k]) => c \in ToSet(held[k])

\* Those above a node that it knows were known to its seed,
Inherited ==
    \A m, k \in Nodes : Over(k, m) /\ k # SeedOf[m] =>
        /\ k \in Names(m) => k \in Names(SeedOf[m])
        /\ ans[m].kind = "list" /\ k \in NamesIn(ans[m].table) => k \in Names(SeedOf[m])

\* and have the news of it, or it comes.
Announced ==
    \A m, k \in Nodes :
        /\ Over(k, m) /\ k \in Names(SeedOf[m]) /\ m \in Names(SeedOf[m]) /\ mode[k] = "up"
        => m \in Names(k) \/ \E c \in Waiting(k) : IsNews(c, m)

\* Those above a node that know it were known to its seed,
Returned ==
    \A m, k \in Nodes : Over(m, k) /\ m # SeedOf[k] /\ k \in Names(m) => m \in Names(SeedOf[k])

\* and are in its list.
Handed ==
    \A m, k \in Nodes :
        /\ Over(m, k) /\ m # SeedOf[k] /\ m \in Names(SeedOf[k]) /\ mode[SeedOf[k]] = "up"
        => /\ mode[k] = "up" => m \in Names(k)
           /\ ans[k].kind = "list" => m \in NamesIn(ans[k].table)

\* A push from below comes after the news of who sends it.
NewsFirst ==
    \A k \in Nodes : \A c \in Pushes(k) :
        Over(k, c.from) /\ c.from \notin Names(k) =>
            \E d \in Waiting(k) : IsNews(d, c.from) /\ ComesFirst(k, d, c)

\* The pushes that are left of a turn are the first ones held.
TurnInOrder ==
    \A k \in Nodes : \A c \in ToSet(turn[k]), d \in Conn :
        c.kind = "push" /\ d.kind = "push" /\ Ahead(held[k], d, c) => Ahead(turn[k], d, c)

Branching ==
    /\ SeedsStart /\ NamesStart
    /\ PushesRight /\ PushesOnce
    /\ Inherited /\ Announced /\ Returned /\ Handed
    /\ NewsFirst /\ TurnInOrder

BranchInv == Undisturbed /\ ~overlap => Branching

-----------------------------------------------------------------------------
(* Sequences of connections, as sets, and what is in them once *)

(* The elements of a sequence, by their places. *)
LEMMA ToSetIs ==
    ASSUME NEW S, NEW q \in Seq(S)
    PROVE  /\ ToSet(q) = {q[i] : i \in 1 .. Len(q)} /\ ToSet(q) \subseteq S
           /\ q = <<>> <=> ToSet(q) = {}
<1>1. DOMAIN q = 1 .. Len(q) /\ Len(q) \in Nat /\ \A i \in 1 .. Len(q) : q[i] \in S
  BY LenProperties, ElementOfSeq
<1>2. q = <<>> <=> Len(q) = 0
  BY EmptySeq
<1>3. ToSet(q) = {q[i] : i \in 1 .. Len(q)}
  BY <1>1 DEF ToSet
<1>4. q # <<>> => 1 \in 1 .. Len(q)
  BY <1>1, <1>2
<1>5. q = <<>> <=> ToSet(q) = {}
  BY <1>1, <1>2, <1>3, <1>4
<1> QED BY <1>1, <1>3, <1>5

(* Appending. *)
LEMMA Appended ==
    ASSUME NEW S, NEW q \in Seq(S), NEW c \in S
    PROVE  /\ Append(q, c) \in Seq(S)
           /\ ToSet(Append(q, c)) = ToSet(q) \cup {c}
           /\ \A d : Once(q, d) /\ (d # c \/ d \notin ToSet(q)) => Once(Append(q, c), d)
<1> DEFINE r == Append(q, c)
<1>1. /\ r \in Seq(S) /\ Len(r) = Len(q) + 1 /\ Len(q) \in Nat
      /\ \A i \in 1 .. Len(q) : r[i] = q[i]
      /\ r[Len(q) + 1] = c
  BY AppendProperties, LenProperties
<1> HIDE DEF r
<1>2. \A i \in 1 .. Len(r) : i \in 1 .. Len(q) \/ i = Len(q) + 1
  BY <1>1
<1>3. \A i \in 1 .. Len(q) : i \in 1 .. Len(r)
  BY <1>1
<1>4. Len(q) + 1 \in 1 .. Len(r)
  BY <1>1
<1>5. ToSet(r) = {r[i] : i \in 1 .. Len(r)} /\ ToSet(q) = {q[i] : i \in 1 .. Len(q)}
  BY <1>1, ToSetIs
<1>6. ToSet(r) = ToSet(q) \cup {c}
  BY <1>1, <1>2, <1>3, <1>4, <1>5
<1>7. ASSUME NEW d, Once(q, d), d # c \/ d \notin ToSet(q)
      PROVE  Once(r, d)
  <2> SUFFICES ASSUME NEW i \in 1 .. Len(r), NEW j \in 1 .. Len(r), r[i] = d, r[j] = d
               PROVE  i = j
    BY DEF Once
  <2>1. CASE d # c
    BY <1>1, <1>2, <1>7, <2>1 DEF Once
  <2>2. CASE d = c /\ d \notin ToSet(q)
    BY <1>1, <1>2, <1>5, <2>2
  <2> QED BY <1>7, <2>1, <2>2
<1> QED BY <1>1, <1>6, <1>7 DEF r

(* Taking off the head. *)
LEMMA TailOf ==
    ASSUME NEW S, NEW q \in Seq(S), q # <<>>
    PROVE  /\ Head(q) \in S /\ Head(q) \in ToSet(q)
           /\ Tail(q) \in Seq(S)
           /\ ToSet(q) = ToSet(Tail(q)) \cup {Head(q)}
           /\ \A d : Once(q, d) => Once(Tail(q), d)
           /\ Once(q, Head(q)) => Head(q) \notin ToSet(Tail(q))
<1> DEFINE r == Tail(q)
           h == Head(q)
<1>1. /\ r \in Seq(S) /\ h \in S /\ Len(r) = Len(q) - 1 /\ Len(q) \in Nat /\ Len(q) # 0
      /\ \A i \in 1 .. Len(r) : r[i] = q[i + 1]
  BY HeadTailProperties, LenProperties, EmptySeq
<1>2. h = q[1] /\ 1 \in 1 .. Len(q)
  BY <1>1
<1> HIDE DEF r, h
<1>3. \A i \in 1 .. Len(r) : i + 1 \in 1 .. Len(q) /\ i + 1 # 1
  BY <1>1
<1>4. \A i \in 1 .. Len(q) : i = 1 \/ \E j \in 1 .. Len(r) : i = j + 1
  <2> SUFFICES ASSUME NEW i \in 1 .. Len(q), i # 1
               PROVE  i - 1 \in 1 .. Len(r) /\ i = (i - 1) + 1
    OBVIOUS
  <2> QED BY <1>1
<1>5. ToSet(r) = {r[i] : i \in 1 .. Len(r)} /\ ToSet(q) = {q[i] : i \in 1 .. Len(q)}
  BY <1>1, ToSetIs
<1>6. ToSet(q) = ToSet(r) \cup {h}
  <2>1. \A i \in 1 .. Len(r) : r[i] \in ToSet(q)
    BY <1>1, <1>3, <1>5
  <2>2. \A i \in 1 .. Len(q) : q[i] = h \/ q[i] \in ToSet(r)
    BY <1>1, <1>2, <1>4, <1>5
  <2>3. h \in ToSet(q)
    BY <1>2, <1>5
  <2> QED BY <1>5, <2>1, <2>2, <2>3
<1>7. ASSUME NEW d, Once(q, d)
      PROVE  Once(r, d)
  <2> SUFFICES ASSUME NEW i \in 1 .. Len(r), NEW j \in 1 .. Len(r), r[i] = d, r[j] = d
               PROVE  i = j
    BY DEF Once
  <2>1. i + 1 = j + 1
    BY <1>1, <1>3, <1>7 DEF Once
  <2> QED BY <2>1
<1>8. ASSUME Once(q, h), h \in ToSet(r)
      PROVE  FALSE
  <2>1. PICK i \in 1 .. Len(r) : h = r[i]
    BY <1>5, <1>8
  <2>2. q[i + 1] = h /\ i + 1 \in 1 .. Len(q) /\ i + 1 # 1
    BY <1>1, <1>3, <2>1
  <2> QED BY <1>2, <1>8, <2>2 DEF Once
<1> QED BY <1>1, <1>2, <1>6, <1>7, <1>8 DEF r, h

(* A selection from a sequence: what is in it, and that nothing comes in it more often. *)
LEMMA Selected ==
    ASSUME NEW S, NEW q \in Seq(S), NEW r \in Seq(S), NEW f \in [1 .. Len(r) -> 1 .. Len(q)],
           \A i, j \in 1 .. Len(r) : f[i] = f[j] => i = j,
           \A i \in 1 .. Len(r) : r[i] = q[f[i]]
    PROVE  /\ ToSet(r) \subseteq ToSet(q)
           /\ \A d : Once(q, d) => Once(r, d)
<1>1. ToSet(r) = {r[i] : i \in 1 .. Len(r)} /\ ToSet(q) = {q[i] : i \in 1 .. Len(q)}
  BY ToSetIs
<1>2. \A i \in 1 .. Len(r) : f[i] \in 1 .. Len(q)
  OBVIOUS
<1>3. ToSet(r) \subseteq ToSet(q)
  BY <1>1, <1>2
<1>4. ASSUME NEW d, Once(q, d)
      PROVE  Once(r, d)
  <2> SUFFICES ASSUME NEW i \in 1 .. Len(r), NEW j \in 1 .. Len(r), r[i] = d, r[j] = d
               PROVE  i = j
    BY DEF Once
  <2>1. f[i] = f[j]
    BY <1>2, <1>4 DEF Once
  <2> QED BY <2>1
<1> QED BY <1>3, <1>4

(* Dropping a connection takes its first occurrence out, and nothing else. *)
LEMMA FirstRemoved ==
    ASSUME NEW S, NEW q \in Seq(S), NEW c
    PROVE  /\ RemoveFirst(q, c) \in Seq(S)
           /\ ToSet(RemoveFirst(q, c)) \subseteq ToSet(q)
           /\ \A d \in ToSet(q) : d # c => d \in ToSet(RemoveFirst(q, c))
           /\ \A d : Once(q, d) => Once(RemoveFirst(q, c), d)
           /\ Once(q, c) => c \notin ToSet(RemoveFirst(q, c))
           /\ \A b, d : b # c /\ Ahead(q, b, d) => Ahead(RemoveFirst(q, c), b, d)
           /\ \A b, d : d # c /\ Ahead(RemoveFirst(q, c), b, d) => Ahead(q, b, d)
<1> DEFINE I == {i \in 1 .. Len(q) : q[i] = c}
           r == RemoveFirst(q, c)
<1>1. /\ Len(q) \in Nat /\ ToSet(q) = {q[i] : i \in 1 .. Len(q)}
      /\ r \in Seq(S) => ToSet(r) = {r[i] : i \in 1 .. Len(r)}
  BY ToSetIs, LenProperties
<1>2. CASE I = {}
  <2>1. r = q
    BY <1>2 DEF RemoveFirst
  <2>2. c \notin ToSet(q)
    BY <1>1, <1>2
  <2> QED BY <2>1, <2>2
<1>3. CASE I # {}
  <2>1. PICK p \in I : \A i \in I : p <= i
    <3>1. I \in SUBSET Nat
      BY <1>1
    <3> QED BY <1>3, <3>1, LeastNumber
  <2>2. Min(I) = p
    <3>1. Min(I) = CHOOSE x \in I : \A y \in I : x <= y
      BY DEF Min
    <3>2. \A x \in I : (\A y \in I : x <= y) => x = p
      BY <2>1
    <3> QED BY <2>1, <3>1, <3>2
  <2>3. r = RemoveAt(q, p)
    <3>1. \E i \in 1 .. Len(q) : q[i] = c
      BY <1>3
    <3>2. SelectInSeq(q, LAMBDA v : v = c) = Min(I)
      BY <1>3 DEF SelectInSeq
    <3> QED BY <2>2, <3>1, <3>2 DEF RemoveFirst
  <2>4. p \in 1 .. Len(q) /\ q[p] = c /\ p - 1 \in 0 .. Len(q) - 1 /\ (p - 1) + 2 = p + 1
    BY <1>1, <2>1
  <2>5. r = SubSeq(q, 1, p - 1) \o SubSeq(q, (p - 1) + 2, Len(q))
    BY <2>3, <2>4 DEF RemoveAt
  <2>6. /\ r \in Seq(S) /\ Len(r) = Len(q) - 1
        /\ \A k \in 1 .. Len(q) - 1 : r[k] = IF k <= p - 1 THEN q[k] ELSE q[k + 1]
    <3>1. PICK o \in 0 .. Len(q) - 1 : o = p - 1
      BY <2>4
    <3>2. r = SubSeq(q, 1, o) \o SubSeq(q, o + 2, Len(q))
      BY <2>5, <3>1
    <3> HIDE DEF r
    <3>3. /\ r \in Seq(S) /\ Len(r) = Len(q) - 1
          /\ \A k \in 1 .. Len(q) - 1 : r[k] = IF k <= o THEN q[k] ELSE q[k + 1]
      BY <3>2, CutOut
    <3> QED BY <3>1, <3>3
  <2> DEFINE f == [i \in 1 .. Len(r) |-> IF i <= p - 1 THEN i ELSE i + 1]
  <2> HIDE DEF r, I
  <2>7. /\ f \in [1 .. Len(r) -> 1 .. Len(q)]
        /\ \A i, j \in 1 .. Len(r) : f[i] = f[j] => i = j
        /\ \A i \in 1 .. Len(r) : f[i] # p
        /\ \A i \in 1 .. Len(q) : i = p \/ \E j \in 1 .. Len(r) : f[j] = i
        /\ \A i, j \in 1 .. Len(r) : f[j] < f[i] <=> j < i
    <3>1. \A i \in 1 .. Len(q) : i < p => i \in 1 .. Len(r) /\ f[i] = i
      BY <1>1, <2>4, <2>6
    <3>2. \A i \in 1 .. Len(q) : i > p => i - 1 \in 1 .. Len(r) /\ f[i - 1] = i
      BY <1>1, <2>4, <2>6
    <3>3. \A i \in 1 .. Len(q) : i < p \/ i = p \/ i > p
      BY <2>4
    <3>4. f \in [1 .. Len(r) -> 1 .. Len(q)]
      BY <1>1, <2>4, <2>6
    <3>5. \A i, j \in 1 .. Len(r) : f[i] = f[j] => i = j
      BY <1>1, <2>4, <2>6
    <3>6. \A i \in 1 .. Len(r) : f[i] # p
      BY <1>1, <2>4, <2>6
    <3>7. \A i, j \in 1 .. Len(r) : f[j] < f[i] <=> j < i
      BY <1>1, <2>4, <2>6
    <3> QED BY <3>1, <3>2, <3>3, <3>4, <3>5, <3>6, <3>7
  <2>8. \A i \in 1 .. Len(r) : r[i] = q[f[i]]
    BY <1>1, <2>4, <2>6
  <2> HIDE DEF f
  <2>9. ToSet(r) \subseteq ToSet(q) /\ \A d : Once(q, d) => Once(r, d)
    BY <2>6, <2>7, <2>8, Selected
  <2>10. ASSUME NEW d \in ToSet(q), d # c
         PROVE  d \in ToSet(r)
    <3>1. PICK i \in 1 .. Len(q) : q[i] = d
      BY <1>1
    <3>2. PICK j \in 1 .. Len(r) : f[j] = i
      BY <2>4, <2>7, <2>10, <3>1
    <3> QED BY <1>1, <2>6, <2>8, <3>1, <3>2
  <2>11. ASSUME Once(q, c), c \in ToSet(r)
         PROVE  FALSE
    <3>1. PICK i \in 1 .. Len(r) : r[i] = c
      BY <1>1, <2>6, <2>11
    <3>2. f[i] \in 1 .. Len(q) /\ q[f[i]] = c /\ f[i] # p
      BY <2>7, <2>8, <3>1
    <3> QED BY <2>4, <2>11, <3>2 DEF Once
  <2>12. ASSUME NEW b, NEW d, b # c, Ahead(q, b, d)
         PROVE  Ahead(r, b, d)
    <3> SUFFICES ASSUME NEW i \in 1 .. Len(r), r[i] = d
                 PROVE  \E j \in 1 .. Len(r) : j < i /\ r[j] = b
      BY DEF Ahead
    <3>1. f[i] \in 1 .. Len(q) /\ q[f[i]] = d
      BY <2>7, <2>8
    <3>2. PICK h \in 1 .. Len(q) : h < f[i] /\ q[h] = b
      BY <2>12, <3>1 DEF Ahead
    <3>3. PICK j \in 1 .. Len(r) : f[j] = h
      BY <2>4, <2>7, <2>12, <3>2
    <3> QED BY <2>7, <2>8, <3>2, <3>3
  <2>13. ASSUME NEW b, NEW d, d # c, Ahead(r, b, d)
         PROVE  Ahead(q, b, d)
    <3> SUFFICES ASSUME NEW i \in 1 .. Len(q), q[i] = d
                 PROVE  \E j \in 1 .. Len(q) : j < i /\ q[j] = b
      BY DEF Ahead
    <3>1. PICK h \in 1 .. Len(r) : f[h] = i
      BY <2>4, <2>7, <2>13
    <3>2. r[h] = d
      BY <2>8, <3>1
    <3>3. PICK j \in 1 .. Len(r) : j < h /\ r[j] = b
      BY <2>13, <3>2 DEF Ahead
    <3>4. f[j] \in 1 .. Len(q) /\ f[j] < i /\ q[f[j]] = b
      BY <2>7, <2>8, <3>1, <3>3
    <3> QED BY <3>4
  <2> QED BY <2>6, <2>9, <2>10, <2>11, <2>12, <2>13 DEF r
<1> QED BY <1>2, <1>3

(* Replacing a connection by one that is not there leaves the others and their order. *)
LEMMA Replaced ==
    ASSUME NEW S, NEW q \in Seq(S), NEW c, NEW x \in S, c # x
    PROVE  /\ ReplaceAll(q, c, x) \in Seq(S)
           /\ ToSet(ReplaceAll(q, c, x)) =
                 IF c \in ToSet(q) THEN (ToSet(q) \ {c}) \cup {x} ELSE ToSet(q)
           /\ ReplaceAll(q, c, x) = <<>> <=> q = <<>>
           /\ q # <<>> => Head(ReplaceAll(q, c, x)) = IF Head(q) = c THEN x ELSE Head(q)
           /\ \A d : d # x /\ Once(q, d) => Once(ReplaceAll(q, c, x), d)
           /\ Once(q, c) /\ x \notin ToSet(q) => Once(ReplaceAll(q, c, x), x)
           /\ \A b, d : b # c /\ d # x /\ Ahead(q, b, d) => Ahead(ReplaceAll(q, c, x), b, d)
<1> DEFINE r == ReplaceAll(q, c, x)
<1>1. Len(q) \in Nat /\ \A i \in 1 .. Len(q) : q[i] \in S
  BY LenProperties, ElementOfSeq
<1>2. r = [i \in 1 .. Len(q) |-> IF q[i] = c THEN x ELSE q[i]]
  BY DEF ReplaceAll
<1>3. r \in Seq(S) /\ Len(r) = Len(q)
      /\ \A i \in 1 .. Len(q) : r[i] = IF q[i] = c THEN x ELSE q[i]
  BY <1>1, <1>2
<1> HIDE DEF r
<1>4. /\ ToSet(r) = {r[i] : i \in 1 .. Len(q)} /\ (r = <<>> <=> ToSet(r) = {})
      /\ ToSet(q) = {q[i] : i \in 1 .. Len(q)} /\ (q = <<>> <=> ToSet(q) = {})
  BY <1>3, ToSetIs
<1>5. ToSet(r) = IF c \in ToSet(q) THEN (ToSet(q) \ {c}) \cup {x} ELSE ToSet(q)
  <2>1. CASE c \in ToSet(q)
    BY <1>3, <1>4, <2>1
  <2>2. CASE c \notin ToSet(q)
    BY <1>3, <1>4, <2>2
  <2> QED BY <2>1, <2>2
<1>6. r = <<>> <=> q = <<>>
  <2>1. ToSet(r) = {} <=> ToSet(q) = {}
    BY <1>5
  <2> QED BY <1>4, <2>1
<1>7. q # <<>> => Head(r) = IF Head(q) = c THEN x ELSE Head(q)
  <2> SUFFICES ASSUME q # <<>> PROVE Head(r) = IF Head(q) = c THEN x ELSE Head(q)
    OBVIOUS
  <2>1. 1 \in 1 .. Len(q)
    BY <1>1, EmptySeq
  <2>2. Head(q) = q[1] /\ Head(r) = r[1]
    BY <1>3, <1>6, HeadTailProperties
  <2> QED BY <1>3, <2>1, <2>2
<1>8. \A d : d # x /\ Once(q, d) => Once(r, d)
  BY <1>3 DEF Once
<1>9. Once(q, c) /\ x \notin ToSet(q) => Once(r, x)
  BY <1>3, <1>4 DEF Once
<1>10. ASSUME NEW b, NEW d, b # c, d # x, Ahead(q, b, d)
       PROVE  Ahead(r, b, d)
  <2> SUFFICES ASSUME NEW i \in 1 .. Len(q), r[i] = d
               PROVE  \E j \in 1 .. Len(q) : j < i /\ r[j] = b
    BY <1>3 DEF Ahead
  <2>1. q[i] = d
    BY <1>3, <1>10
  <2>2. PICK j \in 1 .. Len(q) : j < i /\ q[j] = b
    BY <1>10, <2>1 DEF Ahead
  <2> QED BY <1>3, <1>10, <2>2
<1> QED BY <1>3, <1>5, <1>6, <1>7, <1>8, <1>9, <1>10 DEF r

(* What a poll reports is a selection from what is held. *)
IsReadyUpTo(u, q, n) ==
    u = [k \in 0 .. n |-> IF k = 0 THEN <<>>
                          ELSE IF Readable(q[k]) THEN Append(u[k - 1], q[k]) ELSE u[k - 1]]

(* The recursion has a solution. *)
LEMMA ReadyExists ==
    ASSUME NEW q, NEW n \in Nat
    PROVE  \E u : IsReadyUpTo(u, q, n)
<1> DEFINE Without == {m \in Nat : ~ \E u : IsReadyUpTo(u, q, m)}
<1>1. SUFFICES ASSUME Without # {} PROVE FALSE
  OBVIOUS
<1>2. PICK m \in Without : \A k \in Without : m <= k
  BY <1>1, LeastNumber
<1>3. m \in Nat /\ ~ \E u : IsReadyUpTo(u, q, m)
  OBVIOUS
<1>4. m # 0
  <2>1. IsReadyUpTo([k \in 0 .. 0 |-> <<>>], q, 0)
    <3>1. \A k \in 0 .. 0 : k = 0
      OBVIOUS
    <3> QED BY <3>1 DEF IsReadyUpTo
  <2> QED BY <1>3, <2>1
<1>5. m - 1 \in Nat /\ m - 1 \notin Without
  BY <1>2, <1>3, <1>4
<1>6. PICK u : IsReadyUpTo(u, q, m - 1)
  BY <1>5
<1> DEFINE v == [k \in 0 .. m |->
                    IF k < m THEN u[k]
                    ELSE IF Readable(q[m]) THEN Append(u[m - 1], q[m]) ELSE u[m - 1]]
<1>7. ASSUME NEW k \in 0 .. m
      PROVE  v[k] = IF k = 0 THEN <<>>
                    ELSE IF Readable(q[k]) THEN Append(v[k - 1], q[k]) ELSE v[k - 1]
  <2>1. CASE k = m
    <3>1. k # 0 /\ k - 1 \in 0 .. m /\ k - 1 < m /\ ~(k < m)
      BY <1>3, <1>4, <2>1
    <3>2. v[k - 1] = u[m - 1]
      BY <2>1, <3>1
    <3> QED BY <2>1, <3>1, <3>2
  <2>2. CASE k # m
    <3>1. k \in 0 .. m - 1 /\ k < m
      BY <1>3, <2>2
    <3>2. v[k] = u[k]
      BY <3>1
    <3>3. u[k] = IF k = 0 THEN <<>>
                 ELSE IF Readable(q[k]) THEN Append(u[k - 1], q[k]) ELSE u[k - 1]
      BY <1>6, <3>1 DEF IsReadyUpTo
    <3>4. k # 0 => k - 1 \in 0 .. m /\ k - 1 < m
      BY <1>3, <3>1
    <3>5. k # 0 => v[k - 1] = u[k - 1]
      BY <3>4
    <3> QED BY <3>2, <3>3, <3>5
  <2> QED BY <2>1, <2>2
<1>8. IsReadyUpTo(v, q, m)
  <2>1. v = [k \in 0 .. m |-> v[k]]
    OBVIOUS
  <2> HIDE DEF v
  <2> QED BY <1>7, <2>1 DEF IsReadyUpTo
<1> QED BY <1>3, <1>8

(* So it has nothing that is not held, and nothing more often. *)
LEMMA ReadyIs ==
    ASSUME NEW s, NEW S, held[s] \in Seq(S)
    PROVE  /\ Ready(s) \in Seq(S)
           /\ ToSet(Ready(s)) \subseteq ToSet(held[s])
           /\ \A d : Once(held[s], d) => Once(Ready(s), d)
<1> DEFINE q == held[s]
           n == Len(q)
<1>1. n \in Nat /\ \A k \in 1 .. n : q[k] \in S
  BY LenProperties, ElementOfSeq
<1>2. PICK u : IsReadyUpTo(u, q, n) /\ Ready(s) = u[n]
  <2>1. \E u : IsReadyUpTo(u, q, n)
    BY <1>1, ReadyExists
  <2>2. Ready(s) = (CHOOSE u : IsReadyUpTo(u, q, n))[n]
    BY DEF Ready, IsReadyUpTo
  <2> QED BY <2>1, <2>2
<1> HIDE DEF q, n
<1> DEFINE Good(k) == /\ u[k] \in Seq(S)
                      /\ \E f \in [1 .. Len(u[k]) -> 1 .. k] :
                            /\ \A i, j \in 1 .. Len(u[k]) : f[i] = f[j] => i = j
                            /\ \A i \in 1 .. Len(u[k]) : u[k][i] = q[f[i]]
           Bad == {k \in 0 .. n : ~Good(k)}
<1>3. Bad = {}
  <2>1. SUFFICES ASSUME Bad # {} PROVE FALSE
    OBVIOUS
  <2>2. PICK m \in Bad : \A k \in Bad : m <= k
    <3>1. Bad \in SUBSET Nat
      BY <1>1
    <3> QED BY <2>1, <3>1, LeastNumber
  <2>3. m \in 0 .. n /\ ~Good(m)
    OBVIOUS
  <2>4. u[m] = IF m = 0 THEN <<>>
               ELSE IF Readable(q[m]) THEN Append(u[m - 1], q[m]) ELSE u[m - 1]
    BY <1>1, <1>2, <2>3 DEF IsReadyUpTo
  <2>5. m # 0
    <3>1. SUFFICES ASSUME m = 0 PROVE Good(0)
      BY <2>3
    <3>2. u[0] = <<>> /\ <<>> \in Seq(S) /\ Len(<<>>) = 0
      BY <2>4, <3>1, EmptySeq
    <3>3. [i \in 1 .. 0 |-> i] \in [1 .. Len(u[0]) -> 1 .. 0]
      BY <3>2
    <3>4. \A i : i \notin 1 .. Len(u[0])
      BY <3>2
    <3> QED BY <3>2, <3>3, <3>4
  <2>6. m - 1 \in 0 .. n /\ m - 1 \notin Bad /\ m \in 1 .. n
    <3> HIDE DEF Bad, Good
    <3>1. m - 1 \in 0 .. n /\ m \in 1 .. n /\ ~(m <= m - 1)
      BY <1>1, <2>3, <2>5
    <3> QED BY <2>2, <3>1
  <2>7. Good(m - 1)
    BY <2>6
  <2> DEFINE w == u[m - 1]
  <2>8. /\ w \in Seq(S) /\ Len(w) \in Nat
        /\ \E f \in [1 .. Len(w) -> 1 .. m - 1] :
              /\ \A i, j \in 1 .. Len(w) : f[i] = f[j] => i = j
              /\ \A i \in 1 .. Len(w) : w[i] = q[f[i]]
    BY <2>7, LenProperties
  <2> HIDE DEF w
  <2>9. PICK f \in [1 .. Len(w) -> 1 .. m - 1] :
              /\ \A i, j \in 1 .. Len(w) : f[i] = f[j] => i = j
              /\ \A i \in 1 .. Len(w) : w[i] = q[f[i]]
    BY <2>8
  <2>10. CASE u[m] = w
    <3>1. f \in [1 .. Len(w) -> 1 .. m]
      BY <2>6, <2>9
    <3>2. /\ \A i, j \in 1 .. Len(w) : f[i] = f[j] => i = j
          /\ \A i \in 1 .. Len(w) : w[i] = q[f[i]]
      BY <2>9
    <3>3. \E h \in [1 .. Len(w) -> 1 .. m] :
              /\ \A i, j \in 1 .. Len(w) : h[i] = h[j] => i = j
              /\ \A i \in 1 .. Len(w) : w[i] = q[h[i]]
      BY <3>1, <3>2, Zenon
    <3>4. w \in Seq(S)
      BY <2>8
    <3>5. Good(m)
      BY <2>10, <3>3, <3>4, Zenon
    <3> QED BY <2>3, <3>5
  <2>11. CASE u[m] = Append(w, q[m])
    <3> DEFINE x == Append(w, q[m])
               g == [i \in 1 .. Len(w) + 1 |-> IF i = Len(w) + 1 THEN m ELSE f[i]]
    <3>1. /\ x \in Seq(S) /\ Len(x) = Len(w) + 1
          /\ \A i \in 1 .. Len(w) : x[i] = w[i]
          /\ x[Len(w) + 1] = q[m]
      BY <1>1, <2>6, <2>8, AppendProperties
    <3>2. \A i \in 1 .. Len(w) + 1 : i = Len(w) + 1 \/ i \in 1 .. Len(w)
      BY <2>8
    <3>3. \A i \in 1 .. Len(w) : g[i] = f[i] /\ f[i] \in 1 .. m - 1 /\ f[i] \in 1 .. m /\ f[i] # m
                                 /\ i # Len(w) + 1 /\ i \in 1 .. Len(w) + 1
      <4> SUFFICES ASSUME NEW i \in 1 .. Len(w)
                   PROVE  g[i] = f[i] /\ f[i] \in 1 .. m - 1 /\ f[i] \in 1 .. m /\ f[i] # m
                          /\ i # Len(w) + 1 /\ i \in 1 .. Len(w) + 1
        OBVIOUS
      <4>1. i # Len(w) + 1 /\ i \in 1 .. Len(w) + 1
        BY <2>8
      <4>2. f[i] \in 1 .. m - 1
        BY <2>9
      <4>3. f[i] \in 1 .. m /\ f[i] # m
        BY <2>6, <4>2
      <4>4. g[i] = f[i]
        BY <4>1
      <4> QED BY <4>1, <4>2, <4>3, <4>4
    <3>4. Len(w) + 1 \in 1 .. Len(w) + 1 /\ g[Len(w) + 1] = m /\ m \in 1 .. m
      BY <2>6, <2>8
    <3> HIDE DEF x
    <3>5. g \in [1 .. Len(x) -> 1 .. m]
      BY <3>1, <3>2, <3>3, <3>4
    <3> HIDE DEF g
    <3>6. \A i, j \in 1 .. Len(x) : g[i] = g[j] => i = j
      BY <2>9, <3>1, <3>2, <3>3, <3>4
    <3>7. \A i \in 1 .. Len(x) : x[i] = q[g[i]]
      BY <2>9, <3>1, <3>2, <3>3, <3>4
    <3>8. \E h \in [1 .. Len(x) -> 1 .. m] :
              /\ \A i, j \in 1 .. Len(x) : h[i] = h[j] => i = j
              /\ \A i \in 1 .. Len(x) : x[i] = q[h[i]]
      BY <3>5, <3>6, <3>7, Zenon
    <3>9. u[m] = x
      BY <2>11 DEF x
    <3>10. Good(m)
      BY <3>1, <3>8, <3>9, Zenon
    <3> QED BY <2>3, <3>10
  <2> QED BY <2>4, <2>5, <2>10, <2>11 DEF w
<1>4. Good(n)
  BY <1>1, <1>3
<1>5. u[n] \in Seq(S) /\ q \in Seq(S)
  BY <1>4 DEF q
<1>6. PICK f \in [1 .. Len(u[n]) -> 1 .. Len(q)] :
              /\ \A i, j \in 1 .. Len(u[n]) : f[i] = f[j] => i = j
              /\ \A i \in 1 .. Len(u[n]) : u[n][i] = q[f[i]]
  BY <1>4 DEF n
<1>7. ToSet(u[n]) \subseteq ToSet(q) /\ \A d : Once(q, d) => Once(u[n], d)
  BY <1>5, <1>6, Selected
<1> QED BY <1>2, <1>5, <1>7 DEF q

(* Putting one sequence after another. *)
LEMMA Concatenated ==
    ASSUME NEW S, NEW q \in Seq(S), NEW r \in Seq(S)
    PROVE  /\ q \o r \in Seq(S)
           /\ ToSet(q \o r) = ToSet(q) \cup ToSet(r)
           /\ \A d : Once(q, d) /\ d \notin ToSet(r) => Once(q \o r, d)
           /\ \A d : Once(r, d) /\ d \notin ToSet(q) => Once(q \o r, d)
           /\ q # <<>> => Head(q \o r) = Head(q)
<1> DEFINE t == q \o r
<1>1. /\ t \in Seq(S) /\ Len(q) \in Nat /\ Len(r) \in Nat /\ Len(t) = Len(q) + Len(r)
      /\ \A i \in 1 .. Len(q) + Len(r) : t[i] = IF i <= Len(q) THEN q[i] ELSE r[i - Len(q)]
  BY ConcatProperties, LenProperties
<1> HIDE DEF t
<1>2. /\ ToSet(q) = {q[i] : i \in 1 .. Len(q)}
      /\ ToSet(r) = {r[i] : i \in 1 .. Len(r)}
      /\ ToSet(t) = {t[i] : i \in 1 .. Len(t)}
  BY <1>1, ToSetIs
<1>3. \A i \in 1 .. Len(q) : i \in 1 .. Len(t) /\ t[i] = q[i]
  BY <1>1
<1>4. \A i \in 1 .. Len(r) : Len(q) + i \in 1 .. Len(t) /\ t[Len(q) + i] = r[i]
  <2> SUFFICES ASSUME NEW i \in 1 .. Len(r)
               PROVE  Len(q) + i \in 1 .. Len(t) /\ t[Len(q) + i] = r[i]
    OBVIOUS
  <2>1. PICK j \in 1 .. Len(q) + Len(r) : j = Len(q) + i /\ ~(j <= Len(q)) /\ j - Len(q) = i
    BY <1>1
  <2>2. t[j] = r[j - Len(q)]
    BY <1>1, <2>1
  <2> QED BY <1>1, <2>1, <2>2
<1>5. \A i \in 1 .. Len(t) : i \in 1 .. Len(q) \/ \E j \in 1 .. Len(r) : i = Len(q) + j
  <2> SUFFICES ASSUME NEW i \in 1 .. Len(t), i \notin 1 .. Len(q)
               PROVE  i - Len(q) \in 1 .. Len(r) /\ i = Len(q) + (i - Len(q))
    OBVIOUS
  <2> QED BY <1>1
<1>6. ToSet(t) = ToSet(q) \cup ToSet(r)
  <2>1. \A i \in 1 .. Len(t) : t[i] \in ToSet(q) \cup ToSet(r)
    BY <1>2, <1>3, <1>4, <1>5
  <2>2. \A i \in 1 .. Len(q) : q[i] \in ToSet(t)
    BY <1>2, <1>3
  <2>3. \A i \in 1 .. Len(r) : r[i] \in ToSet(t)
    <3> SUFFICES ASSUME NEW i \in 1 .. Len(r)
                 PROVE  r[i] \in ToSet(t)
      OBVIOUS
    <3>1. Len(q) + i \in 1 .. Len(t) /\ t[Len(q) + i] = r[i]
      BY <1>4
    <3> QED BY <1>2, <3>1
  <2> QED BY <1>2, <2>1, <2>2, <2>3
<1>7. ASSUME NEW d, Once(q, d), d \notin ToSet(r)
      PROVE  Once(t, d)
  <2>1. \A i \in 1 .. Len(t) : t[i] = d => i \in 1 .. Len(q) /\ q[i] = d
    BY <1>2, <1>3, <1>4, <1>5, <1>7
  <2> QED BY <1>7, <2>1 DEF Once
<1>8. ASSUME NEW d, Once(r, d), d \notin ToSet(q)
      PROVE  Once(t, d)
  <2>1. ASSUME NEW i \in 1 .. Len(t), t[i] = d
        PROVE  \E j \in 1 .. Len(r) : i = Len(q) + j /\ r[j] = d
    <3>1. i \notin 1 .. Len(q)
      BY <1>2, <1>3, <1>8, <2>1
    <3>2. PICK j \in 1 .. Len(r) : i = Len(q) + j
      BY <1>5, <3>1
    <3> QED BY <1>4, <2>1, <3>2
  <2> QED BY <1>8, <2>1 DEF Once
<1>9. ASSUME q # <<>>
      PROVE  Head(t) = Head(q)
  <2>1. 1 \in 1 .. Len(q) /\ t # <<>>
    BY <1>1, <1>9, EmptySeq
  <2>2. Head(t) = t[1] /\ Head(q) = q[1]
    BY <1>1, <1>9, <2>1
  <2> QED BY <1>3, <2>1, <2>2
<1> QED BY <1>1, <1>6, <1>7, <1>8, <1>9 DEF t

-----------------------------------------------------------------------------
(* What is ahead of what in a sequence. *)
LEMMA AheadIs ==
    ASSUME NEW S, NEW q \in Seq(S), NEW b, NEW d
    PROVE  /\ d \notin ToSet(q) => Ahead(q, b, d)
           /\ Ahead(q, b, d) /\ d \in ToSet(q) => b \in ToSet(q) /\ Head(q) # d
<1>1. ToSet(q) = {q[i] : i \in 1 .. Len(q)} /\ Len(q) \in Nat
  BY ToSetIs, LenProperties
<1>2. d \notin ToSet(q) => Ahead(q, b, d)
  BY <1>1 DEF Ahead
<1>3. ASSUME Ahead(q, b, d), d \in ToSet(q)
      PROVE  b \in ToSet(q)
  BY <1>1, <1>3 DEF Ahead
<1>4. ASSUME Ahead(q, b, d), d \in ToSet(q)
      PROVE  Head(q) # d
  <2>1. q # <<>> /\ 1 \in 1 .. Len(q)
    BY <1>1, <1>4, ToSetIs
  <2>2. Head(q) = q[1]
    BY <2>1
  <2>3. ~ \E j \in 1 .. Len(q) : j < 1
    BY <1>1
  <2> QED BY <1>4, <2>1, <2>2, <2>3 DEF Ahead
<1> QED BY <1>2, <1>3, <1>4

(* What is appended comes last. *)
LEMMA AheadAppended ==
    ASSUME NEW S, NEW q \in Seq(S), NEW x \in S, NEW b, NEW d
    PROVE  /\ Ahead(q, b, d) /\ (x # d \/ b \in ToSet(q)) => Ahead(Append(q, x), b, d)
           /\ Ahead(Append(q, x), b, d) => Ahead(q, b, d)
<1> DEFINE r == Append(q, x)
<1>1. /\ Len(q) \in Nat /\ Len(r) = Len(q) + 1 /\ r[Len(q) + 1] = x
      /\ \A i \in 1 .. Len(q) : r[i] = q[i]
      /\ ToSet(q) = {q[i] : i \in 1 .. Len(q)}
  BY AppendProperties, ToSetIs, LenProperties
<1> HIDE DEF r
<1>2. /\ \A i \in 1 .. Len(r) : i = Len(q) + 1 \/ i \in 1 .. Len(q)
      /\ \A i \in 1 .. Len(q) : i \in 1 .. Len(r) /\ i < Len(q) + 1
      /\ \A i \in 1 .. Len(q) : \A j \in 1 .. Len(r) : j < i => j \in 1 .. Len(q)
  BY <1>1
<1>3. ASSUME Ahead(q, b, d), x # d \/ b \in ToSet(q)
      PROVE  Ahead(r, b, d)
  <2> SUFFICES ASSUME NEW i \in 1 .. Len(r), r[i] = d
               PROVE  \E j \in 1 .. Len(r) : j < i /\ r[j] = b
    BY DEF Ahead
  <2>1. CASE i = Len(q) + 1
    <3>1. b \in ToSet(q)
      BY <1>1, <1>3, <2>1
    <3>2. PICK j \in 1 .. Len(q) : q[j] = b
      BY <1>1, <3>1
    <3> QED BY <1>1, <1>2, <2>1, <3>2
  <2>2. CASE i \in 1 .. Len(q)
    <3>1. PICK j \in 1 .. Len(q) : j < i /\ q[j] = b
      BY <1>1, <1>3, <2>2 DEF Ahead
    <3> QED BY <1>1, <1>2, <3>1
  <2> QED BY <1>2, <2>1, <2>2
<1>4. ASSUME Ahead(r, b, d)
      PROVE  Ahead(q, b, d)
  <2> SUFFICES ASSUME NEW i \in 1 .. Len(q), q[i] = d
               PROVE  \E j \in 1 .. Len(q) : j < i /\ q[j] = b
    BY DEF Ahead
  <2>1. PICK j \in 1 .. Len(r) : j < i /\ r[j] = b
    BY <1>1, <1>2, <1>4 DEF Ahead
  <2> QED BY <1>1, <1>2, <2>1
<1> QED BY <1>3, <1>4 DEF r

(* Taking the first leaves the order of the others. *)
LEMMA AheadInTail ==
    ASSUME NEW S, NEW q \in Seq(S), q # <<>>, NEW b, NEW d, Ahead(q, b, d), b # Head(q)
    PROVE  Ahead(Tail(q), b, d)
<1>1. /\ Len(q) \in Nat /\ Len(Tail(q)) = Len(q) - 1 /\ Head(q) = q[1]
      /\ \A i \in 1 .. Len(Tail(q)) : Tail(q)[i] = q[i + 1]
  BY HeadTailProperties, LenProperties
<1> SUFFICES ASSUME NEW i \in 1 .. Len(Tail(q)), Tail(q)[i] = d
             PROVE  \E j \in 1 .. Len(Tail(q)) : j < i /\ Tail(q)[j] = b
  BY DEF Ahead
<1>2. i + 1 \in 1 .. Len(q) /\ q[i + 1] = d
  BY <1>1
<1>3. PICK j \in 1 .. Len(q) : j < i + 1 /\ q[j] = b
  BY <1>2 DEF Ahead
<1>4. j - 1 \in 1 .. Len(Tail(q)) /\ j - 1 < i /\ (j - 1) + 1 = j
  BY <1>1, <1>3
<1> QED BY <1>1, <1>3, <1>4

(* The order in a sequence stays when another comes before it. *)
LEMMA AheadBehind ==
    ASSUME NEW S, NEW q \in Seq(S), NEW r \in Seq(S), NEW b, NEW d, d \notin ToSet(q), Ahead(r, b, d)
    PROVE  Ahead(q \o r, b, d)
<1> DEFINE t == q \o r
<1>1. /\ Len(q) \in Nat /\ Len(r) \in Nat /\ Len(t) = Len(q) + Len(r)
      /\ \A i \in 1 .. Len(q) + Len(r) : t[i] = IF i <= Len(q) THEN q[i] ELSE r[i - Len(q)]
      /\ ToSet(q) = {q[i] : i \in 1 .. Len(q)}
  BY ConcatProperties, ToSetIs, LenProperties
<1> HIDE DEF t
<1> SUFFICES ASSUME NEW i \in 1 .. Len(t), t[i] = d
             PROVE  \E j \in 1 .. Len(t) : j < i /\ t[j] = b
  BY DEF Ahead, t
<1>2. ~(i <= Len(q))
  BY <1>1
<1>3. i - Len(q) \in 1 .. Len(r) /\ r[i - Len(q)] = d
  BY <1>1, <1>2
<1>4. PICK j \in 1 .. Len(r) : j < i - Len(q) /\ r[j] = b
  BY <1>3 DEF Ahead
<1> DEFINE h == Len(q) + j
<1>5. h \in 1 .. Len(t) /\ h < i /\ ~(h <= Len(q)) /\ h - Len(q) = j
  BY <1>1, <1>4
<1> HIDE DEF h
<1>6. t[h] = r[h - Len(q)]
  BY <1>1, <1>5
<1> QED BY <1>4, <1>5, <1>6

(* So it does when others come after it. *)
LEMMA AheadBefore ==
    ASSUME NEW S, NEW q \in Seq(S), NEW r \in Seq(S), NEW b, NEW d, d \notin ToSet(r), Ahead(q, b, d)
    PROVE  Ahead(q \o r, b, d)
<1> DEFINE t == q \o r
<1>1. /\ Len(q) \in Nat /\ Len(r) \in Nat /\ Len(t) = Len(q) + Len(r)
      /\ \A i \in 1 .. Len(q) + Len(r) : t[i] = IF i <= Len(q) THEN q[i] ELSE r[i - Len(q)]
      /\ ToSet(r) = {r[i] : i \in 1 .. Len(r)}
  BY ConcatProperties, ToSetIs, LenProperties
<1> HIDE DEF t
<1> SUFFICES ASSUME NEW i \in 1 .. Len(t), t[i] = d
             PROVE  \E j \in 1 .. Len(t) : j < i /\ t[j] = b
  BY DEF Ahead, t
<1>2. i <= Len(q)
  <2> SUFFICES ASSUME ~(i <= Len(q)) PROVE FALSE
    OBVIOUS
  <2>1. i - Len(q) \in 1 .. Len(r) /\ t[i] = r[i - Len(q)]
    BY <1>1
  <2> QED BY <1>1, <2>1
<1>3. i \in 1 .. Len(q) /\ q[i] = d
  BY <1>1, <1>2
<1>4. PICK j \in 1 .. Len(q) : j < i /\ q[j] = b
  BY <1>3 DEF Ahead
<1>5. j \in 1 .. Len(t) /\ t[j] = b
  BY <1>1, <1>4
<1> QED BY <1>4, <1>5

(* What a poll reports is in the order in which it is held. *)
LEMMA ReadyInOrder ==
    ASSUME NEW s, NEW S, held[s] \in Seq(S), NEW b, NEW d, Readable(b), Ahead(held[s], b, d)
    PROVE  Ahead(Ready(s), b, d)
<1> DEFINE q == held[s]
           n == Len(q)
<1>1. n \in Nat /\ \A k \in 1 .. n : q[k] \in S
  BY LenProperties, ElementOfSeq
<1>2. PICK u : IsReadyUpTo(u, q, n) /\ Ready(s) = u[n]
  <2>1. \E u : IsReadyUpTo(u, q, n)
    BY <1>1, ReadyExists
  <2>2. Ready(s) = (CHOOSE u : IsReadyUpTo(u, q, n))[n]
    BY DEF Ready, IsReadyUpTo
  <2> QED BY <2>1, <2>2
<1>3. Ahead(q, b, d)
  OBVIOUS
<1> HIDE DEF q, n
<1> DEFINE Good(k) == /\ u[k] \in Seq(S)
                      /\ \A j \in 1 .. k : Readable(q[j]) => q[j] \in ToSet(u[k])
                      /\ Ahead(u[k], b, d)
           Bad == {k \in 0 .. n : ~Good(k)}
<1>4. Bad = {}
  <2>1. SUFFICES ASSUME Bad # {} PROVE FALSE
    OBVIOUS
  <2>2. PICK m \in Bad : \A k \in Bad : m <= k
    <3>1. Bad \in SUBSET Nat
      BY <1>1
    <3> QED BY <2>1, <3>1, LeastNumber
  <2>3. m \in 0 .. n /\ ~Good(m)
    OBVIOUS
  <2>4. u[m] = IF m = 0 THEN <<>>
               ELSE IF Readable(q[m]) THEN Append(u[m - 1], q[m]) ELSE u[m - 1]
    BY <1>1, <1>2, <2>3 DEF IsReadyUpTo
  <2>5. m # 0
    <3>1. SUFFICES ASSUME m = 0 PROVE Good(0)
      BY <2>3
    <3>2. u[0] = <<>> /\ <<>> \in Seq(S) /\ Len(<<>>) = 0
      BY <2>4, <3>1, EmptySeq
    <3>3. \A i : i \notin 1 .. Len(u[0]) /\ i \notin 1 .. 0
      BY <3>2
    <3> QED BY <3>2, <3>3 DEF Ahead
  <2>6. m - 1 \in 0 .. n /\ m - 1 \notin Bad /\ m \in 1 .. n
    <3> HIDE DEF Bad, Good
    <3>1. m - 1 \in 0 .. n /\ m \in 1 .. n /\ ~(m <= m - 1)
      BY <1>1, <2>3, <2>5
    <3> QED BY <2>2, <3>1
  <2> DEFINE w == u[m - 1]
  <2>7. /\ w \in Seq(S) /\ \A j \in 1 .. m - 1 : Readable(q[j]) => q[j] \in ToSet(w)
        /\ Ahead(w, b, d)
    BY <2>6
  <2> HIDE DEF w
  <2>8. \A j \in 1 .. m : j = m \/ j \in 1 .. m - 1
    BY <2>6
  <2>9. CASE ~Readable(q[m])
    <3>1. u[m] = w
      BY <2>4, <2>5, <2>9 DEF w
    <3>2. \A j \in 1 .. m : Readable(q[j]) => q[j] \in ToSet(w)
      BY <2>7, <2>8, <2>9
    <3> QED BY <2>3, <2>7, <3>1, <3>2
  <2>10. CASE Readable(q[m])
    <3>1. u[m] = Append(w, q[m]) /\ q[m] \in S
      BY <1>1, <2>4, <2>5, <2>6, <2>10 DEF w
    <3>2. Append(w, q[m]) \in Seq(S) /\ ToSet(Append(w, q[m])) = ToSet(w) \cup {q[m]}
      BY <2>7, <3>1, Appended
    <3>3. \A j \in 1 .. m : Readable(q[j]) => q[j] \in ToSet(u[m])
      BY <2>7, <2>8, <3>1, <3>2
    <3>4. q[m] = d => b \in ToSet(w)
      <4>1. SUFFICES ASSUME q[m] = d PROVE b \in ToSet(w)
        OBVIOUS
      <4>2. PICK j \in 1 .. n : j < m /\ q[j] = b
        BY <1>3, <2>6, <4>1 DEF Ahead, n
      <4>3. j \in 1 .. m - 1
        BY <1>1, <2>6, <4>2
      <4> QED BY <2>7, <4>2, <4>3
    <3>5. Ahead(Append(w, q[m]), b, d)
      BY <2>7, <3>1, <3>4, AheadAppended
    <3> QED BY <2>3, <3>1, <3>2, <3>3, <3>5
  <2> QED BY <2>9, <2>10
<1> QED BY <1>1, <1>2, <1>4

-----------------------------------------------------------------------------
(* Layouts, tables and connections *)

(* What a layout gives a node. *)
LEMMA LayoutGives ==
    ASSUME TypeOK, NEW n \in Nodes
    PROVE  /\ Host[n] \in Hosts /\ Port[n] \in Ports /\ AddrOf(n) \in Addrs
           /\ SeedOf[n] \in Nodes \cup {Nobody} /\ SeedOf[n] # n
           /\ layout.clean \in BOOLEAN /\ layout.crashes \in Nat
           /\ \A m \in Nodes : Host[m] = Host[n] /\ Port[m] = Port[n] => m = n
<1>1. layout \in Layout /\ layout.seed[n] # n
      /\ \A m \in Nodes : layout.host[m] = layout.host[n] /\ layout.port[m] = layout.port[n] => m = n
  BY MeshConstants DEF TypeOK
<1> QED BY <1>1 DEF Layout, Host, Port, SeedOf, AddrOf, Addrs

(* A table with one more entry. *)
LEMMA LearnedIs ==
    ASSUME NEW t \in Table, NEW n \in Nodes, NEW x \in Addrs
    PROVE  /\ Learned(t, n, x) \in Table
           /\ [name |-> n, addr |-> x] \in Entry
           /\ Entries(Learned(t, n, x)) \subseteq Entries(t) \cup {[name |-> n, addr |-> x]}
           /\ n \in NamesIn(Learned(t, n, x))
           /\ (\A i, j \in Nodes : Hash[i] = Hash[j] => i = j) /\ Home(t) =>
                 /\ Home(Learned(t, n, x))
                 /\ NamesIn(t) \subseteq NamesIn(Learned(t, n, x))
<1> DEFINE e == [name |-> n, addr |-> x]
           u == Learned(t, n, x)
<1>1. e \in Entry /\ e # Nobody /\ Hash[n] \in Buckets /\ e.name = n
  BY MeshConstants DEF Entry
<1>2. u \in Table /\ \A b \in Buckets : u[b] = IF b = Hash[n] THEN e ELSE t[b]
  BY <1>1 DEF Learned, Table
<1> HIDE DEF u, e
<1>3. Entries(u) \subseteq Entries(t) \cup {e}
  BY <1>2 DEF Entries
<1>4. e \in Entries(u)
  BY <1>1, <1>2 DEF Entries
<1>5. n \in NamesIn(u)
  BY <1>1, <1>4 DEF NamesIn
<1>6. ASSUME \A i, j \in Nodes : Hash[i] = Hash[j] => i = j, Home(t)
      PROVE  Home(u) /\ NamesIn(t) \subseteq NamesIn(u)
  <2>1. Home(u)
    BY <1>1, <1>2, <1>6 DEF Home
  <2>2. ASSUME NEW b \in Buckets, t[b] # Nobody
        PROVE  t[b].name \in NamesIn(u)
    <3>1. CASE b = Hash[n]
      <4>1. t[b] \in Entry /\ Hash[t[b].name] = b
        BY <1>6, <2>2 DEF Home, Table
      <4>2. t[b].name = n
        BY <1>6, <3>1, <4>1 DEF Entry
      <4> QED BY <1>5, <4>2
    <3>2. CASE b # Hash[n]
      BY <1>2, <2>2, <3>2 DEF NamesIn, Entries
    <3> QED BY <3>1, <3>2
  <2>3. NamesIn(t) \subseteq NamesIn(u)
    <3> SUFFICES ASSUME NEW m \in NamesIn(t)
                 PROVE  m \in NamesIn(u)
      OBVIOUS
    <3>1. PICK b \in Buckets : t[b] # Nobody /\ m = t[b].name
      BY DEF NamesIn, Entries
    <3> QED BY <2>2, <3>1
  <2> QED BY <2>1, <2>3
<1> QED BY <1>1, <1>2, <1>3, <1>5, <1>6 DEF u, e

(* A table after the list. *)
LEMMA OthersAre ==
    ASSUME NEW t \in Table, NEW l \in Table, NEW n \in Nodes
    PROVE  /\ OthersOf(n, l, t) \in Table
           /\ \A e \in Entries(OthersOf(n, l, t)) : e \in Entries(t) \/ (e \in Entries(l) /\ e.name # n)
           /\ (\A i, j \in Nodes : Hash[i] = Hash[j] => i = j) /\ Home(t) /\ Home(l) =>
                 /\ Home(OthersOf(n, l, t))
                 /\ NamesIn(t) \subseteq NamesIn(OthersOf(n, l, t))
                 /\ NamesIn(l) \ {n} \subseteq NamesIn(OthersOf(n, l, t))
<1> DEFINE u == OthersOf(n, l, t)
<1>1. u \in Table /\ \A b \in Buckets : u[b] = IF l[b] # Nobody /\ l[b].name # n THEN l[b] ELSE t[b]
  BY DEF OthersOf, Table
<1> HIDE DEF u
<1>2. \A e \in Entries(u) : e \in Entries(t) \/ (e \in Entries(l) /\ e.name # n)
  <2> SUFFICES ASSUME NEW b \in Buckets, u[b] # Nobody
               PROVE  u[b] \in Entries(t) \/ (u[b] \in Entries(l) /\ u[b].name # n)
    BY DEF Entries
  <2> QED BY <1>1 DEF Entries
<1>3. ASSUME \A i, j \in Nodes : Hash[i] = Hash[j] => i = j, Home(t), Home(l)
      PROVE  Home(u) /\ NamesIn(t) \subseteq NamesIn(u) /\ NamesIn(l) \ {n} \subseteq NamesIn(u)
  <2>1. Home(u)
    BY <1>1, <1>3 DEF Home
  <2>2. ASSUME NEW b \in Buckets, t[b] # Nobody
        PROVE  t[b].name \in NamesIn(u)
    <3>1. CASE l[b] # Nobody /\ l[b].name # n
      <4>1. l[b].name \in Nodes /\ t[b].name \in Nodes
        BY <2>2, <3>1 DEF Table, Entry
      <4>2. Hash[l[b].name] = b /\ Hash[t[b].name] = b
        BY <1>3, <2>2, <3>1 DEF Home
      <4>3. l[b].name = t[b].name
        BY <1>3, <4>1, <4>2
      <4>4. u[b] = l[b] /\ u[b] # Nobody
        BY <1>1, <3>1
      <4> QED BY <4>3, <4>4 DEF NamesIn, Entries
    <3>2. CASE ~(l[b] # Nobody /\ l[b].name # n)
      BY <1>1, <2>2, <3>2 DEF NamesIn, Entries
    <3> QED BY <3>1, <3>2
  <2>3. NamesIn(t) \subseteq NamesIn(u)
    <3> SUFFICES ASSUME NEW m \in NamesIn(t)
                 PROVE  m \in NamesIn(u)
      OBVIOUS
    <3>1. PICK b \in Buckets : t[b] # Nobody /\ m = t[b].name
      BY DEF NamesIn, Entries
    <3> QED BY <2>2, <3>1
  <2>4. NamesIn(l) \ {n} \subseteq NamesIn(u)
    <3> SUFFICES ASSUME NEW m \in NamesIn(l), m # n
                 PROVE  m \in NamesIn(u)
      OBVIOUS
    <3>1. PICK b \in Buckets : l[b] # Nobody /\ m = l[b].name
      BY DEF NamesIn, Entries
    <3>2. u[b] = l[b]
      BY <1>1, <3>1
    <3> QED BY <3>1, <3>2 DEF NamesIn, Entries
  <2> QED BY <2>1, <2>3, <2>4
<1> QED BY <1>1, <1>2, <1>3 DEF u

(* The kinds of connections, which are not accepts. *)
LEMMA ConnIs ==
    /\ \A c \in Conn : c # TheAccept /\ c.kind \in {"join", "push", "gone"} /\ c.from \in Nodes
    /\ \A c \in Conn : c.kind = "join" => c = JoinOf(c.from)
    /\ \A c \in Conn : c.kind = "push" => c.what \in Entry
    /\ \A n \in Nodes : JoinOf(n) \in Conn
    /\ \A n : JoinOf(n).kind = "join" /\ JoinOf(n).from = n /\ JoinOf(n) # TheAccept
    /\ \A s \in Nodes, e \in Entry : [kind |-> "push", from |-> s, what |-> e] \in Conn
    /\ TheAccept.kind = "accept"
BY DEF Conn, TheAccept, JoinOf

(* What is left of the connection of a node that crashed. *)
LEMMA GoneIs ==
    /\ \A n \in Nodes, id \in Nat :
          \A gives \in {"hello", "list", "end", "reset"} : Gone(n, gives, id) \in Conn
    /\ \A n, gives, id :
          /\ Gone(n, gives, id).kind = "gone" /\ Gone(n, gives, id).from = n
          /\ Gone(n, gives, id).gives = gives /\ Gone(n, gives, id).id = id
          /\ \A m : Gone(n, gives, id) # JoinOf(m)
    /\ \A c \in Conn : c.kind = "gone" => c.id \in Nat /\ c = Gone(c.from, c.gives, c.id)
BY DEF Conn, Gone, JoinOf

(* What a node's queue is when another has pushed an entry to everyone it knows. *)
LEMMA PushedIs ==
    ASSUME TypeOK, NEW s \in Nodes, NEW t \in Table, NEW e \in Entry, NEW k \in Nodes
    PROVE  /\ Pushed(s, t, e, k) \in Seq(Conn)
           /\ ToSet(queue[k]) \subseteq ToSet(Pushed(s, t, e, k))
           /\ \A d \in ToSet(Pushed(s, t, e, k)) :
                 \/ d \in ToSet(queue[k])
                 \/ d = [kind |-> "push", from |-> s, what |-> e] /\ mode[k] = "up"
           /\ \A d : d.kind # "push" /\ Once(queue[k], d) => Once(Pushed(s, t, e, k), d)
           /\ \A b, d : d.kind # "push" /\ Ahead(queue[k], b, d) => Ahead(Pushed(s, t, e, k), b, d)
<1> DEFINE to == {x \in Entries(t) : ListensAt(k, x.addr)}
           p == [kind |-> "push", from |-> s, what |-> e]
           r == [j \in 1 .. Cardinality(to) |-> p]
<1>1. IsFiniteSet(to)
  <2> DEFINE all == {t[b] : b \in Buckets}
             f == [b \in Buckets |-> t[b]]
  <2>1. f \in Surjection(Buckets, all)
    BY DEF Surjection
  <2>2. to \subseteq all
    BY DEF Entries
  <2> HIDE DEF f, all, to
  <2>3. IsFiniteSet(all)
    BY <2>1, FS_Surjection, MeshConstants
  <2> QED BY <2>2, <2>3, FS_Subset
<1>2. Cardinality(to) \in Nat /\ p \in Conn
  BY <1>1, ConnIs, FS_CardinalityType
<1>3. mode[k] # "up" => to = {}
  BY DEF ListensAt
<1>4. r \in Seq(Conn) /\ Len(r) = Cardinality(to) /\ \A i \in 1 .. Len(r) : r[i] = p
  <2> HIDE DEF p, to
  <2> QED BY <1>2
<1>5. ToSet(r) \subseteq {p} /\ (mode[k] # "up" => ToSet(r) = {})
  <2>2. mode[k] # "up" => Len(r) = 0
    BY <1>3, <1>4, FS_EmptySet
  <2> HIDE DEF r
  <2>1. ToSet(r) = {r[i] : i \in 1 .. Len(r)}
    BY <1>4, ToSetIs
  <2>3. ToSet(r) \subseteq {p}
    BY <1>4, <2>1
  <2>4. Len(r) = 0 => ToSet(r) = {}
    BY <2>1
  <2> QED BY <2>2, <2>3, <2>4
<1>6. queue[k] \in Seq(Conn) /\ Pushed(s, t, e, k) = queue[k] \o r
  BY DEF TypeOK, Pushed
<1>7. \A d : d.kind # "push" => d # p
  OBVIOUS
<1> HIDE DEF p, r, to
<1>8. /\ queue[k] \o r \in Seq(Conn)
      /\ ToSet(queue[k] \o r) = ToSet(queue[k]) \cup ToSet(r)
      /\ \A d : Once(queue[k], d) /\ d \notin ToSet(r) => Once(queue[k] \o r, d)
  BY <1>4, <1>6, Concatenated
<1>9. \A b, d : d \notin ToSet(r) /\ Ahead(queue[k], b, d) => Ahead(queue[k] \o r, b, d)
  BY <1>4, <1>6, AheadBefore
<1> QED BY <1>5, <1>6, <1>7, <1>8, <1>9 DEF p

(* Nothing in an empty sequence. *)
LEMMA EmptyIs ==
    /\ <<>> \in Seq(Conn) /\ <<>> \in Seq(Conn \cup {TheAccept})
    /\ ToSet(<<>>) = {} /\ \A d : Once(<<>>, d)
<1>1. <<>> \in Seq(Conn) /\ <<>> \in Seq(Conn \cup {TheAccept}) /\ Len(<<>>) = 0
  BY EmptySeq
<1>2. ToSet(<<>>) = {}
  BY <1>1, ToSetIs
<1> QED BY <1>1, <1>2 DEF Once

(* The types of a node's state. *)
LEMMA NodeTypes ==
    ASSUME TypeOK, NEW s \in Nodes
    PROVE  /\ queue[s] \in Seq(Conn) /\ ToSet(queue[s]) \subseteq Conn
           /\ held[s] \in Seq(Conn) /\ ToSet(held[s]) \subseteq Conn
           /\ turn[s] \in Seq(Conn \cup {TheAccept}) /\ ToSet(turn[s]) \subseteq Conn \cup {TheAccept}
           /\ mode[s] \in {"down", "hello", "list", "up", "dead", "wild"}
           /\ known[s] \in Table /\ ask[s] \in {"none", "hello", "list"}
           /\ ans[s] \in Answers /\ ntoa[s] \in Hosts \cup {Nobody}
           /\ input[s] \in {c \in Conn : c.kind # "gone"} \cup {Nobody}
<1>1. queue[s] \in Seq(Conn) /\ held[s] \in Seq(Conn) /\ turn[s] \in Seq(Conn \cup {TheAccept})
  BY DEF TypeOK
<1>2. ToSet(queue[s]) \subseteq Conn /\ ToSet(held[s]) \subseteq Conn
  BY <1>1, ToSetIs
<1>3. ToSet(turn[s]) \subseteq Conn \cup {TheAccept}
  BY <1>1, ToSetIs
<1> QED BY <1>1, <1>2, <1>3 DEF TypeOK

(* The kinds of answers. *)
LEMMA AnswerIs ==
    /\ NoAnswer \in Answers /\ NoAnswer.kind = "none" /\ [kind |-> "hello"] \in Answers
    /\ \A t \in Table : [kind |-> "list", table |-> t] \in Answers
    /\ \A x \in Answers : x.kind \in {"none", "hello", "list"}
    /\ \A x \in Answers : x.kind = "list" => x.table \in Table
    /\ \A x \in Answers : x.kind = "none" => x = NoAnswer
BY DEF Answers, NoAnswer

(* The initial states. *)
LEMMA InitCore == Init => Core
<1> SUFFICES ASSUME Init PROVE Core
  OBVIOUS
<1>1. NoTable \in Table /\ Entries(NoTable) = {}
  BY DEF NoTable, Table, Entries
<1>2. layout \in Layouts /\ 0 \in 0 .. layout.crashes
  BY MeshConstants DEF Init, Layout
<1>3. TypeOK
  BY <1>1, <1>2, EmptyIs, AnswerIs DEF Init, TypeOK
<1>4. \A s \in Nodes : queue[s] = <<>> /\ held[s] = <<>> /\ turn[s] = <<>>
  BY DEF Init
<1>5. Quiet /\ TurnInv /\ NotedInv
  BY <1>4, EmptyIs DEF Quiet, TurnInv, NotedInv
<1>6. AskInv
  BY AnswerIs DEF AskInv, Init
<1>7. JoinsOnce
  BY <1>4, EmptyIs DEF JoinsOnce
<1>8. NewsOfOthers /\ NoSelf
  BY <1>1, <1>4, EmptyIs DEF NewsOfOthers, Pushes, Carried, NoSelf, NamesIn, Init
<1> QED BY <1>3, <1>5, <1>6, <1>7, <1>8 DEF Core

(* A step of a node that does not serve leaves the connections as they are. *)
LEMMA ConnectionsRest ==
    ASSUME Core, NEW n \in Nodes, mode[n] # "up",
           layout' = layout, queue' = queue, held' = held, turn' = turn,
           \A k \in Nodes : k # n => mode'[k] = mode[k] /\ ntoa'[k] = ntoa[k] /\ ans'[k] = ans[k],
           \A s \in Nodes : JoinOf(n) \in ToSet(queue[s]) \cup ToSet(held[s]) =>
               mode'[n] \in {"hello", "list"} /\ ans'[n].kind # "list"
    PROVE  Quiet' /\ TurnInv' /\ NotedInv' /\ JoinsOnce' /\ NewsOfOthers'
<1>1. queue[n] = <<>> /\ held[n] = <<>> /\ turn[n] = <<>>
  BY DEF Core, Quiet
<1>2. Quiet'
  BY <1>1 DEF Core, Quiet
<1>3. TurnInv'
  BY DEF Core, TurnInv
<1>4. NotedInv'
  BY <1>1, EmptyIs DEF Core, NotedInv, Noted, Host
<1>5. JoinsOnce'
  <2> SUFFICES ASSUME NEW s \in Nodes, NEW m \in Nodes
               PROVE  /\ Once(queue[s], JoinOf(m)) /\ Once(held[s], JoinOf(m))
                      /\ Once(turn[s], JoinOf(m))
                      /\ JoinOf(m) \notin ToSet(queue[s]) \cap ToSet(held[s])
                      /\ JoinOf(m) \in ToSet(turn[s]) => JoinOf(m) \in ToSet(held[s])
                      /\ JoinOf(m) \in ToSet(queue[s]) \cup ToSet(held[s]) =>
                            /\ s = layout.seed[m]
                            /\ mode'[m] \in {"hello", "list"} /\ ans'[m].kind # "list"
    BY DEF JoinsOnce, SeedOf
  <2>1. CASE m = n
    BY <2>1 DEF Core, JoinsOnce, SeedOf
  <2>2. CASE m # n
    BY <2>2 DEF Core, JoinsOnce, SeedOf
  <2> QED BY <2>1, <2>2
<1>6. NewsOfOthers'
  BY DEF Core, NewsOfOthers, Pushes, Carried
<1> QED BY <1>2, <1>3, <1>4, <1>5, <1>6

(* A step of the event loop takes the head off the turn. *)
LEMMA Dispatching ==
    ASSUME Core, NEW s \in Nodes, NEW c, Dispatched(s, c)
    PROVE  /\ mode[s] = "up" /\ c \in ToSet(turn[s]) /\ c \in Conn \cup {TheAccept}
           /\ c = TheAccept => queue[s] # <<>>
           /\ turn' \in [Nodes -> Seq(Conn \cup {TheAccept})]
           /\ \A k \in Nodes : ToSet(turn'[k]) \subseteq ToSet(turn[k])
           /\ \A k \in Nodes : k # s => turn'[k] = turn[k]
           /\ \A k \in Nodes : \A d : Once(turn[k], d) => Once(turn'[k], d)
           /\ Once(turn[s], c) => c \notin ToSet(turn'[s])
           /\ (\A k \in Nodes : k # s /\ queue[k] # <<>> => queue'[k] # <<>>) => TurnInv'
<1>1. /\ mode[s] = "up" /\ turn[s] # <<>> /\ c = Head(turn[s])
      /\ turn' = [turn EXCEPT ![s] = Tail(turn[s])]
  BY DEF Dispatched
<1>2. turn \in [Nodes -> Seq(Conn \cup {TheAccept})]
  BY DEF Core, TypeOK
<1>3. /\ c \in Conn \cup {TheAccept} /\ c \in ToSet(turn[s])
      /\ Tail(turn[s]) \in Seq(Conn \cup {TheAccept})
      /\ ToSet(turn[s]) = ToSet(Tail(turn[s])) \cup {c}
      /\ \A d : Once(turn[s], d) => Once(Tail(turn[s]), d)
      /\ Once(turn[s], c) => c \notin ToSet(Tail(turn[s]))
  BY <1>1, <1>2, TailOf
<1>4. turn'[s] = Tail(turn[s]) /\ \A k \in Nodes : k # s => turn'[k] = turn[k]
  BY <1>1, <1>2
<1>5. turn' \in [Nodes -> Seq(Conn \cup {TheAccept})]
  BY <1>1, <1>2, <1>3
<1>6. \A k \in Nodes : ToSet(turn'[k]) \subseteq ToSet(turn[k])
  BY <1>3, <1>4
<1>7. ASSUME NEW k \in Nodes, NEW d, Once(turn[k], d)
      PROVE  Once(turn'[k], d)
  BY <1>3, <1>4, <1>7
<1>8. c = TheAccept => queue[s] # <<>>
  BY <1>3 DEF Core, TurnInv
<1>9. ASSUME \A k \in Nodes : k # s /\ queue[k] # <<>> => queue'[k] # <<>>
      PROVE  TurnInv'
  <2>1. TheAccept \notin ToSet(turn'[s])
    <3>1. TheAccept \in ToSet(turn[s]) => c = TheAccept /\ Once(turn[s], c)
      BY <1>1 DEF Core, TurnInv
    <3> QED BY <1>3, <1>4, <3>1
  <2> SUFFICES ASSUME NEW k \in Nodes
               PROVE  /\ Once(turn'[k], TheAccept)
                      /\ TheAccept \in ToSet(turn'[k]) =>
                            Head(turn'[k]) = TheAccept /\ queue'[k] # <<>>
    BY DEF TurnInv
  <2>2. Once(turn[k], TheAccept)
    BY DEF Core, TurnInv
  <2>3. TheAccept \in ToSet(turn[k]) => Head(turn[k]) = TheAccept /\ queue[k] # <<>>
    BY DEF Core, TurnInv
  <2> QED BY <1>4, <1>7, <1>9, <2>1, <2>2, <2>3
<1> QED BY <1>1, <1>3, <1>4, <1>5, <1>6, <1>7, <1>8, <1>9

(* Starting, and the steps of a joining node. *)
LEMMA StartAloneKeeps == ASSUME Core, NEW n \in Nodes, StartAlone(n) PROVE Core'
<1> USE DEF StartAlone
<1>1. TypeOK'
  BY DEF Core, TypeOK
<1>2. \A s \in Nodes : JoinOf(n) \notin ToSet(queue[s]) \cup ToSet(held[s])
  BY DEF Core, JoinsOnce
<1>3. Quiet' /\ TurnInv' /\ NotedInv' /\ JoinsOnce' /\ NewsOfOthers'
  BY <1>2, ConnectionsRest DEF Core, TypeOK
<1>4. AskInv'
  BY DEF Core, TypeOK, AskInv, SeedOf
<1>5. (layout.clean => NoSelf)'
  BY DEF Core, NoSelf, NamesIn, Entries
<1> QED BY <1>1, <1>3, <1>4, <1>5 DEF Core

(* A node that takes garbage for an address ends. *)
LEMMA StartByGarbageKeeps == ASSUME Core, NEW n \in Nodes, StartByGarbage(n) PROVE Core'
<1> USE DEF StartByGarbage
<1>1. TypeOK'
  BY DEF Core, TypeOK
<1>2. \A s \in Nodes : JoinOf(n) \notin ToSet(queue[s]) \cup ToSet(held[s])
  BY DEF Core, JoinsOnce
<1>3. Quiet' /\ TurnInv' /\ NotedInv' /\ JoinsOnce' /\ NewsOfOthers'
  BY <1>2, ConnectionsRest DEF Core, TypeOK
<1>4. AskInv'
  BY DEF Core, TypeOK, AskInv, SeedOf
<1>5. (layout.clean => NoSelf)'
  BY DEF Core, NoSelf, NamesIn, Entries
<1> QED BY <1>1, <1>3, <1>4, <1>5 DEF Core

(* A node that enters itself was not started while its seed listens. *)
LEMMA StartUnreachableKeeps == ASSUME Core, NEW n \in Nodes, StartUnreachable(n) PROVE Core'
<1>1. PICK end \in {"up", "dead", "wild"} : mode' = [mode EXCEPT ![n] = end]
  BY DEF StartUnreachable, AnyLength
<1>2. mode[n] = "down" /\ UNCHANGED <<layout, ntoa, queue, held, turn, ask, ans, input, crashes>>
  BY DEF StartUnreachable
<1>3. known' \in [Nodes -> Table]
  <2> DEFINE x == [host |-> Host[SeedOf[n]], port |-> Port[n]]
  <2>1. SeedOf[n] \in Nodes
    BY LayoutGives DEF StartUnreachable, Core
  <2>2. x \in Addrs
    BY <2>1, LayoutGives DEF Core, Addrs
  <2>3. known' = [known EXCEPT ![n] = Learned(known[n], n, x)]
    BY DEF StartUnreachable
  <2>4. known \in [Nodes -> Table]
    BY DEF Core, TypeOK
  <2> HIDE DEF x
  <2>5. Learned(known[n], n, x) \in Table
    BY <2>2, <2>4, LearnedIs
  <2> QED BY <2>3, <2>4, <2>5
<1>4. TypeOK'
  BY <1>1, <1>2, <1>3 DEF Core, TypeOK
<1>5. \A s \in Nodes : JoinOf(n) \notin ToSet(queue[s]) \cup ToSet(held[s])
  BY <1>2 DEF Core, JoinsOnce
<1>6. Quiet' /\ TurnInv' /\ NotedInv' /\ JoinsOnce' /\ NewsOfOthers'
  BY <1>1, <1>2, <1>5, ConnectionsRest DEF Core, TypeOK
<1>7. AskInv'
  BY <1>1, <1>2 DEF Core, TypeOK, AskInv, SeedOf
<1>8. ~layout.clean
  BY DEF StartUnreachable
<1> QED BY <1>2, <1>4, <1>6, <1>7, <1>8 DEF Core

(* The seed is entered, and is not the node itself. *)
LEMMA HelloAnsweredKeeps == ASSUME Core, NEW n \in Nodes, HelloAnswered(n) PROVE Core'
<1>1. /\ mode[n] = "hello" /\ ans[n].kind = "hello" /\ mode' = [mode EXCEPT ![n] = "list"]
      /\ ask' = [ask EXCEPT ![n] = "list"] /\ ans' = [ans EXCEPT ![n] = NoAnswer]
      /\ known' = [known EXCEPT ![n] = Learned(known[n], SeedOf[n], AddrOf(SeedOf[n]))]
      /\ UNCHANGED <<layout, ntoa, queue, held, turn, input, crashes>>
  BY DEF HelloAnswered
<1>2. SeedOf[n] \in Nodes /\ SeedOf[n] # n /\ AddrOf(SeedOf[n]) \in Addrs
  <2>1. SeedOf[n] # Nobody
    BY <1>1 DEF Core, AskInv
  <2> QED BY <2>1, LayoutGives DEF Core
<1>3. known \in [Nodes -> Table]
  BY DEF Core, TypeOK
<1>4. /\ Learned(known[n], SeedOf[n], AddrOf(SeedOf[n])) \in Table
      /\ n \in NamesIn(Learned(known[n], SeedOf[n], AddrOf(SeedOf[n]))) => n \in NamesIn(known[n])
  <2> DEFINE u == Learned(known[n], SeedOf[n], AddrOf(SeedOf[n]))
  <2>1. /\ u \in Table
        /\ Entries(u) \subseteq Entries(known[n])
                                  \cup {[name |-> SeedOf[n], addr |-> AddrOf(SeedOf[n])]}
    BY <1>2, <1>3, LearnedIs
  <2> HIDE DEF u
  <2>2. n \in NamesIn(u) => n \in NamesIn(known[n])
    BY <1>2, <2>1 DEF NamesIn
  <2> QED BY <2>1, <2>2 DEF u
<1>5. TypeOK'
  BY <1>1, <1>3, <1>4, AnswerIs DEF Core, TypeOK
<1>6. mode'[n] = "list" /\ ans'[n] = NoAnswer
  BY <1>1 DEF Core, TypeOK
<1>7. Quiet' /\ TurnInv' /\ NotedInv' /\ JoinsOnce' /\ NewsOfOthers'
  BY <1>1, <1>6, AnswerIs, ConnectionsRest DEF Core, TypeOK
<1>8. AskInv'
  BY <1>1, <1>6, AnswerIs DEF Core, TypeOK, AskInv, SeedOf
<1>9. (layout.clean => NoSelf)'
  BY <1>1, <1>3, <1>4 DEF Core, NoSelf
<1> QED BY <1>5, <1>7, <1>8, <1>9 DEF Core

(* The node's own name is skipped in the list. *)
LEMMA ListAnsweredKeeps == ASSUME Core, NEW n \in Nodes, ListAnswered(n) PROVE Core'
<1>1. /\ mode[n] = "list" /\ ans[n].kind = "list" /\ mode' = [mode EXCEPT ![n] = "up"]
      /\ ans' = [ans EXCEPT ![n] = NoAnswer]
      /\ known' = [known EXCEPT ![n] = OthersOf(n, ans[n].table, known[n])]
      /\ UNCHANGED <<layout, ntoa, queue, held, turn, ask, input, crashes>>
  BY DEF ListAnswered
<1>2. known \in [Nodes -> Table] /\ ans[n].table \in Table
  BY <1>1, NodeTypes, AnswerIs DEF Core, TypeOK
<1>3. /\ OthersOf(n, ans[n].table, known[n]) \in Table
      /\ n \in NamesIn(OthersOf(n, ans[n].table, known[n])) => n \in NamesIn(known[n])
  <2> DEFINE u == OthersOf(n, ans[n].table, known[n])
  <2>1. /\ u \in Table
        /\ \A e \in Entries(u) : e \in Entries(known[n]) \/ (e \in Entries(ans[n].table) /\ e.name # n)
    BY <1>2, OthersAre
  <2> HIDE DEF u
  <2>2. n \in NamesIn(u) => n \in NamesIn(known[n])
    BY <2>1 DEF NamesIn
  <2> QED BY <2>1, <2>2 DEF u
<1>4. TypeOK'
  BY <1>1, <1>2, <1>3, AnswerIs DEF Core, TypeOK
<1>5. \A s \in Nodes : JoinOf(n) \notin ToSet(queue[s]) \cup ToSet(held[s])
  BY <1>1 DEF Core, JoinsOnce
<1>6. Quiet' /\ TurnInv' /\ NotedInv' /\ JoinsOnce' /\ NewsOfOthers'
  BY <1>1, <1>5, ConnectionsRest DEF Core, TypeOK
<1>7. AskInv'
  BY <1>1, AnswerIs DEF Core, TypeOK, AskInv, SeedOf
<1>8. (layout.clean => NoSelf)'
  BY <1>1, <1>2, <1>3 DEF Core, NoSelf
<1> QED BY <1>4, <1>6, <1>7, <1>8 DEF Core

(* A join that breaks leaves no request and no answer. *)
LEMMA JoinBrokenKeeps == ASSUME Core, NEW n \in Nodes, JoinBroken(n) PROVE Core'
<1>1. PICK end \in {"up", "dead", "wild"} : mode' = [mode EXCEPT ![n] = end]
  BY DEF JoinBroken, AnyLength
<1>2. /\ mode[n] \in {"hello", "list"} /\ ans[n] = NoAnswer /\ ~Connected(n)
      /\ ask' = [ask EXCEPT ![n] = "none"]
      /\ UNCHANGED <<layout, known, ntoa, queue, held, turn, ans, input, crashes>>
  BY DEF JoinBroken
<1>3. TypeOK'
  BY <1>1, <1>2 DEF Core, TypeOK
<1>4. \A s \in Nodes : JoinOf(n) \notin ToSet(queue[s]) \cup ToSet(held[s])
  BY <1>2 DEF Core, JoinsOnce, Connected
<1>5. Quiet' /\ TurnInv' /\ NotedInv' /\ JoinsOnce' /\ NewsOfOthers'
  BY <1>1, <1>2, <1>4, ConnectionsRest DEF Core, TypeOK
<1>6. AskInv'
  BY <1>1, <1>2, AnswerIs DEF Core, TypeOK, AskInv, SeedOf
<1>7. (layout.clean => NoSelf)'
  BY <1>2 DEF Core, NoSelf, NamesIn, Entries
<1> QED BY <1>3, <1>5, <1>6, <1>7 DEF Core

(* A node that starts again has nothing. *)
LEMMA RestartKeeps == ASSUME Core, NEW n \in Nodes, Restart(n) PROVE Core'
<1>1. /\ mode[n] = "dead" /\ mode' = [mode EXCEPT ![n] = "down"]
      /\ known' = [known EXCEPT ![n] = NoTable] /\ ntoa' = [ntoa EXCEPT ![n] = Nobody]
      /\ UNCHANGED <<layout, queue, held, turn, ask, ans, input, crashes>>
  BY DEF Restart
<1>2. NoTable \in Table /\ NamesIn(NoTable) = {}
  BY DEF NoTable, Table, NamesIn, Entries
<1>3. TypeOK'
  BY <1>1, <1>2 DEF Core, TypeOK
<1>4. \A s \in Nodes : JoinOf(n) \notin ToSet(queue[s]) \cup ToSet(held[s])
  BY <1>1 DEF Core, JoinsOnce
<1>5. Quiet' /\ TurnInv' /\ NotedInv' /\ JoinsOnce' /\ NewsOfOthers'
  BY <1>1, <1>4, ConnectionsRest DEF Core, TypeOK
<1>6. AskInv'
  BY <1>1 DEF Core, TypeOK, AskInv, SeedOf
<1>7. (layout.clean => NoSelf)'
  BY <1>1, <1>2 DEF Core, TypeOK, NoSelf
<1> QED BY <1>3, <1>5, <1>6, <1>7 DEF Core

(* A node that joins connects to its seed. *)
LEMMA StartJoinKeeps == ASSUME Core, NEW n \in Nodes, StartJoin(n) PROVE Core'
<1> DEFINE s == SeedOf[n]
<1>1. /\ mode[n] = "down" /\ s # Nobody /\ mode[s] = "up"
      /\ mode' = [mode EXCEPT ![n] = "hello"]
      /\ queue' = [queue EXCEPT ![s] = Append(queue[s], JoinOf(n))]
      /\ ask' = [ask EXCEPT ![n] = "hello"]
      /\ UNCHANGED <<layout, known, ntoa, held, turn, ans, input, crashes>>
  BY DEF StartJoin
<1>2. s \in Nodes /\ s # n
  BY <1>1, LayoutGives DEF Core
<1> HIDE DEF s
<1>3. queue \in [Nodes -> Seq(Conn)] /\ mode \in [Nodes -> {"down", "hello", "list", "up", "dead", "wild"}]
  BY DEF Core, TypeOK
<1>4. /\ Append(queue[s], JoinOf(n)) \in Seq(Conn)
      /\ ToSet(Append(queue[s], JoinOf(n))) = ToSet(queue[s]) \cup {JoinOf(n)}
      /\ \A d : Once(queue[s], d) /\ (d # JoinOf(n) \/ d \notin ToSet(queue[s]))
                  => Once(Append(queue[s], JoinOf(n)), d)
      /\ Append(queue[s], JoinOf(n)) # <<>>
  <2>1. JoinOf(n) \in Conn /\ queue[s] \in Seq(Conn)
    BY <1>2, <1>3, ConnIs
  <2>2. /\ Append(queue[s], JoinOf(n)) \in Seq(Conn)
        /\ ToSet(Append(queue[s], JoinOf(n))) = ToSet(queue[s]) \cup {JoinOf(n)}
        /\ \A d : Once(queue[s], d) /\ (d # JoinOf(n) \/ d \notin ToSet(queue[s]))
                    => Once(Append(queue[s], JoinOf(n)), d)
    BY <2>1, Appended
  <2> QED BY <2>2, EmptyIs
<1>5. /\ queue'[s] = Append(queue[s], JoinOf(n)) /\ mode'[n] = "hello"
      /\ \A k \in Nodes : k # s => queue'[k] = queue[k]
      /\ \A k \in Nodes : k # n => mode'[k] = mode[k]
  BY <1>1, <1>2, <1>3
<1>6. TypeOK'
  BY <1>1, <1>2, <1>3, <1>4 DEF Core, TypeOK
<1>7. Quiet'
  BY <1>1, <1>2, <1>5 DEF Core, Quiet
<1>8. TurnInv' /\ NotedInv'
  BY <1>1, <1>4, <1>5 DEF Core, TurnInv, NotedInv, Noted, Host
<1>9. AskInv'
  BY <1>1, <1>2 DEF Core, TypeOK, AskInv, SeedOf, s
<1>10. \A k \in Nodes : JoinOf(n) \notin ToSet(queue[k]) \cup ToSet(held[k])
  BY <1>1 DEF Core, JoinsOnce
<1>11. JoinsOnce'
  <2> SUFFICES ASSUME NEW k \in Nodes, NEW m \in Nodes
               PROVE  /\ Once(queue'[k], JoinOf(m)) /\ Once(held[k], JoinOf(m))
                      /\ Once(turn[k], JoinOf(m))
                      /\ JoinOf(m) \notin ToSet(queue'[k]) \cap ToSet(held[k])
                      /\ JoinOf(m) \in ToSet(turn[k]) => JoinOf(m) \in ToSet(held[k])
                      /\ JoinOf(m) \in ToSet(queue'[k]) \cup ToSet(held[k]) =>
                            /\ k = SeedOf[m]
                            /\ mode'[m] \in {"hello", "list"} /\ ans[m].kind # "list"
    BY <1>1 DEF JoinsOnce, SeedOf
  <2>1. /\ Once(queue[k], JoinOf(m)) /\ Once(held[k], JoinOf(m)) /\ Once(turn[k], JoinOf(m))
        /\ JoinOf(m) \notin ToSet(queue[k]) \cap ToSet(held[k])
        /\ JoinOf(m) \in ToSet(turn[k]) => JoinOf(m) \in ToSet(held[k])
        /\ JoinOf(m) \in ToSet(queue[k]) \cup ToSet(held[k]) =>
              k = SeedOf[m] /\ mode[m] \in {"hello", "list"} /\ ans[m].kind # "list"
    BY DEF Core, JoinsOnce
  <2>2. CASE m # n
    <3>1. JoinOf(m) # JoinOf(n)
      BY <2>2, ConnIs
    <3>2. JoinOf(m) \in ToSet(queue'[k]) <=> JoinOf(m) \in ToSet(queue[k])
      BY <1>4, <1>5, <3>1
    <3>3. Once(queue'[k], JoinOf(m))
      BY <1>4, <1>5, <2>1, <3>1
    <3> QED BY <1>5, <2>1, <2>2, <3>2, <3>3
  <2>3. CASE m = n
    <3>1. ans[n].kind # "list"
      BY <1>1 DEF Core, AskInv
    <3>2. Once(queue'[k], JoinOf(n))
      BY <1>4, <1>5, <1>10, <2>1, <2>3
    <3>3. JoinOf(n) \in ToSet(queue'[k]) => k = s
      BY <1>5, <1>10
    <3> QED BY <1>5, <1>10, <2>1, <2>3, <3>1, <3>2, <3>3 DEF s
  <2> QED BY <2>2, <2>3
<1>12. NewsOfOthers'
  BY <1>1, <1>4, <1>5, ConnIs DEF Core, NewsOfOthers, Pushes, Carried
<1>13. (layout.clean => NoSelf)'
  BY <1>1 DEF Core, NoSelf, NamesIn, Entries
<1> QED BY <1>6, <1>7, <1>8, <1>9, <1>11, <1>12, <1>13 DEF Core

(* A poll fills an empty turn. *)
LEMMA PollKeeps == ASSUME Core, NEW s \in Nodes, Poll(s) PROVE Core'
<1> DEFINE A == IF queue[s] # <<>> THEN <<TheAccept>> ELSE <<>>
           t == A \o Ready(s)
<1>1. /\ mode[s] = "up" /\ turn' = [turn EXCEPT ![s] = t]
      /\ UNCHANGED <<layout, mode, known, ntoa, queue, held, ask, ans, input, crashes>>
  BY DEF Poll
<1>2. held[s] \in Seq(Conn) /\ turn \in [Nodes -> Seq(Conn \cup {TheAccept})]
  BY DEF Core, TypeOK
<1>3. /\ Ready(s) \in Seq(Conn)
      /\ ToSet(Ready(s)) \subseteq ToSet(held[s]) /\ ToSet(held[s]) \subseteq Conn
      /\ \A d : Once(held[s], d) => Once(Ready(s), d)
  BY <1>2, ReadyIs, ToSetIs
<1>4. /\ A \in Seq(Conn \cup {TheAccept}) /\ Ready(s) \in Seq(Conn \cup {TheAccept})
      /\ ToSet(A) = IF queue[s] # <<>> THEN {TheAccept} ELSE {}
      /\ Once(A, TheAccept)
      /\ queue[s] # <<>> => A # <<>> /\ Head(A) = TheAccept
  <2>1. Ready(s) \in Seq(Conn \cup {TheAccept})
    BY <1>3
  <2>2. CASE queue[s] # <<>>
    <3>1. <<TheAccept>> \in Seq(Conn \cup {TheAccept}) /\ Len(<<TheAccept>>) = 1
          /\ <<TheAccept>>[1] = TheAccept
      OBVIOUS
    <3>2. ToSet(<<TheAccept>>) = {<<TheAccept>>[i] : i \in 1 .. Len(<<TheAccept>>)}
      BY <3>1, ToSetIs
    <3>3. ToSet(<<TheAccept>>) = {TheAccept}
      BY <3>1, <3>2
    <3>4. Once(<<TheAccept>>, TheAccept)
      BY <3>1 DEF Once
    <3>5. Head(<<TheAccept>>) = TheAccept /\ <<TheAccept>> # <<>>
      BY <3>1
    <3> QED BY <2>1, <2>2, <3>1, <3>3, <3>4, <3>5
  <2>3. CASE queue[s] = <<>>
    BY <2>1, <2>3, EmptyIs
  <2> QED BY <2>2, <2>3
<1> HIDE DEF A
<1>5. /\ t \in Seq(Conn \cup {TheAccept})
      /\ ToSet(t) = ToSet(A) \cup ToSet(Ready(s))
      /\ \A d : Once(A, d) /\ d \notin ToSet(Ready(s)) => Once(t, d)
      /\ \A d : Once(Ready(s), d) /\ d \notin ToSet(A) => Once(t, d)
      /\ A # <<>> => Head(t) = Head(A)
  BY <1>4, Concatenated
<1> HIDE DEF t
<1>6. turn'[s] = t /\ \A k \in Nodes : k # s => turn'[k] = turn[k]
  BY <1>1, <1>2
<1>7. TheAccept \notin ToSet(Ready(s)) /\ \A n \in Nodes : JoinOf(n) \notin ToSet(A)
  BY <1>3, <1>4, ConnIs
<1>8. TypeOK'
  BY <1>1, <1>2, <1>5 DEF Core, TypeOK
<1>9. Quiet'
  BY <1>1, <1>6 DEF Core, Quiet
<1>10. TurnInv'
  BY <1>1, <1>4, <1>5, <1>6, <1>7 DEF Core, TurnInv
<1>11. NotedInv'
  <2>1. ASSUME ToSet(t) \ {TheAccept} # {}
        PROVE  Noted(s)
    <3>1. ToSet(Ready(s)) # {}
      BY <1>4, <1>5, <2>1
    <3>2. held[s] # <<>>
      BY <1>3, <3>1, EmptyIs
    <3> QED BY <3>2 DEF Core, NotedInv
  <2> QED BY <1>1, <1>6, <2>1 DEF Core, NotedInv, Noted, Host
<1>12. AskInv'
  BY <1>1 DEF Core, AskInv, SeedOf
<1>13. JoinsOnce'
  <2> SUFFICES ASSUME NEW n \in Nodes
               PROVE  /\ Once(t, JoinOf(n))
                      /\ JoinOf(n) \in ToSet(t) => JoinOf(n) \in ToSet(held[s])
    BY <1>1, <1>6 DEF Core, JoinsOnce, SeedOf
  <2>1. Once(held[s], JoinOf(n))
    BY DEF Core, JoinsOnce
  <2> QED BY <1>3, <1>5, <1>7, <2>1
<1>14. NewsOfOthers'
  <2>1. \A c \in ToSet(t) : c.kind = "push" => c \in ToSet(held[s])
    BY <1>3, <1>4, <1>5, ConnIs
  <2> QED BY <1>1, <1>6, <2>1 DEF Core, NewsOfOthers, Pushes, Carried
<1>15. (layout.clean => NoSelf)'
  BY <1>1 DEF Core, NoSelf, NamesIn, Entries
<1> QED BY <1>8, <1>9, <1>10, <1>11, <1>12, <1>13, <1>14, <1>15 DEF Core

(* An accept moves a connection from the queue to those that are held. *)
LEMMA AcceptKeeps == ASSUME Core, NEW s \in Nodes, Accept(s) PROVE Core'
<1> DEFINE h == Head(queue[s])
<1>1. /\ Dispatched(s, TheAccept)
      /\ held' = [held EXCEPT ![s] = Append(held[s], h)]
      /\ queue' = [queue EXCEPT ![s] = Tail(queue[s])]
      /\ ntoa' = [ntoa EXCEPT ![s] = Host[h.from]]
      /\ UNCHANGED <<layout, mode, known, ask, ans, input, crashes>>
  BY DEF Accept
<1>2. /\ mode[s] = "up" /\ queue[s] # <<>>
      /\ turn' \in [Nodes -> Seq(Conn \cup {TheAccept})]
      /\ \A k \in Nodes : ToSet(turn'[k]) \subseteq ToSet(turn[k])
      /\ \A k \in Nodes : k # s => turn'[k] = turn[k]
      /\ \A k \in Nodes : \A d : Once(turn[k], d) => Once(turn'[k], d)
      /\ (\A k \in Nodes : k # s /\ queue[k] # <<>> => queue'[k] # <<>>) => TurnInv'
  BY <1>1, Dispatching
<1>3. /\ queue \in [Nodes -> Seq(Conn)] /\ held \in [Nodes -> Seq(Conn)]
      /\ ntoa \in [Nodes -> Hosts \cup {Nobody}]
  BY DEF Core, TypeOK
<1>4. /\ h \in Conn /\ h \in ToSet(queue[s]) /\ Tail(queue[s]) \in Seq(Conn)
      /\ ToSet(queue[s]) = ToSet(Tail(queue[s])) \cup {h}
      /\ \A d : Once(queue[s], d) => Once(Tail(queue[s]), d)
      /\ Once(queue[s], h) => h \notin ToSet(Tail(queue[s]))
  BY <1>2, <1>3, TailOf
<1> HIDE DEF h
<1>5. /\ Append(held[s], h) \in Seq(Conn)
      /\ ToSet(Append(held[s], h)) = ToSet(held[s]) \cup {h}
      /\ \A d : Once(held[s], d) /\ (d # h \/ d \notin ToSet(held[s])) => Once(Append(held[s], h), d)
  BY <1>3, <1>4, Appended
<1>6. /\ queue'[s] = Tail(queue[s]) /\ held'[s] = Append(held[s], h) /\ ntoa'[s] = Host[h.from]
      /\ \A k \in Nodes : k # s => queue'[k] = queue[k] /\ held'[k] = held[k] /\ ntoa'[k] = ntoa[k]
  BY <1>1, <1>3
<1>7. h.from \in Nodes /\ Host[h.from] \in Hosts
  BY <1>4, ConnIs, LayoutGives DEF Core
<1>8. TypeOK'
  BY <1>1, <1>2, <1>3, <1>4, <1>5, <1>7 DEF Core, TypeOK
<1>9. Quiet'
  BY <1>1, <1>2, <1>6 DEF Core, Quiet
<1>10. TurnInv'
  BY <1>2, <1>6
<1>11. NotedInv'
  <2>1. Noted(s)'
    BY <1>1, <1>6, <1>7 DEF Noted, Host
  <2>2. ASSUME NEW k \in Nodes, k # s, held'[k] # <<>> \/ ToSet(turn'[k]) \ {TheAccept} # {}
        PROVE  Noted(k)'
    <3>1. Noted(k)
      BY <1>2, <1>6, <2>2 DEF Core, NotedInv
    <3> QED BY <1>1, <1>6, <2>2, <3>1 DEF Noted, Host
  <2> QED BY <2>1, <2>2 DEF NotedInv
<1>12. AskInv'
  BY <1>1 DEF Core, AskInv, SeedOf
<1>13. JoinsOnce'
  <2> SUFFICES ASSUME NEW k \in Nodes, NEW m \in Nodes
               PROVE  /\ Once(queue'[k], JoinOf(m)) /\ Once(held'[k], JoinOf(m))
                      /\ Once(turn'[k], JoinOf(m))
                      /\ JoinOf(m) \notin ToSet(queue'[k]) \cap ToSet(held'[k])
                      /\ JoinOf(m) \in ToSet(turn'[k]) => JoinOf(m) \in ToSet(held'[k])
                      /\ JoinOf(m) \in ToSet(queue'[k]) \cup ToSet(held'[k]) =>
                            k = SeedOf[m] /\ mode[m] \in {"hello", "list"} /\ ans[m].kind # "list"
    BY <1>1 DEF JoinsOnce, SeedOf
  <2>1. /\ Once(queue[k], JoinOf(m)) /\ Once(held[k], JoinOf(m)) /\ Once(turn[k], JoinOf(m))
        /\ JoinOf(m) \notin ToSet(queue[k]) \cap ToSet(held[k])
        /\ JoinOf(m) \in ToSet(turn[k]) => JoinOf(m) \in ToSet(held[k])
        /\ JoinOf(m) \in ToSet(queue[k]) \cup ToSet(held[k]) =>
              k = SeedOf[m] /\ mode[m] \in {"hello", "list"} /\ ans[m].kind # "list"
    BY DEF Core, JoinsOnce
  <2>2. CASE k # s
    BY <1>2, <1>6, <2>1, <2>2
  <2>3. CASE k = s
    <3>1. Once(queue'[s], JoinOf(m)) /\ Once(turn'[s], JoinOf(m))
      BY <1>2, <1>4, <1>6, <2>1, <2>3
    <3>2. Once(held'[s], JoinOf(m))
      BY <1>4, <1>5, <1>6, <2>1, <2>3
    <3>3. JoinOf(m) \notin ToSet(queue'[s]) \cap ToSet(held'[s])
      BY <1>4, <1>5, <1>6, <2>1, <2>3
    <3>4. JoinOf(m) \in ToSet(turn'[s]) => JoinOf(m) \in ToSet(held'[s])
      BY <1>2, <1>5, <1>6, <2>1, <2>3
    <3>5. ToSet(queue'[s]) \cup ToSet(held'[s]) \subseteq ToSet(queue[s]) \cup ToSet(held[s])
      BY <1>4, <1>5, <1>6
    <3> QED BY <2>1, <2>3, <3>1, <3>2, <3>3, <3>4, <3>5
  <2> QED BY <2>2, <2>3
<1>14. NewsOfOthers'
  <2>1. \A k \in Nodes : ToSet(queue'[k]) \cup ToSet(held'[k]) \cup ToSet(turn'[k])
                           \subseteq ToSet(queue[k]) \cup ToSet(held[k]) \cup ToSet(turn[k])
    BY <1>2, <1>4, <1>5, <1>6
  <2> QED BY <2>1 DEF Core, NewsOfOthers, Pushes, Carried
<1>15. (layout.clean => NoSelf)'
  BY <1>1 DEF Core, NoSelf, NamesIn, Entries
<1> QED BY <1>8, <1>9, <1>10, <1>11, <1>12, <1>13, <1>14, <1>15 DEF Core

(* What is received is in the buffer. *)
LEMMA ReceivedIs ==
    ASSUME TypeOK, NEW s \in Nodes, NEW c \in {x \in Conn : x.kind # "gone"} \cup {Nobody},
           Received(s, c)
    PROVE  /\ input' \in [Nodes -> {x \in Conn : x.kind # "gone"} \cup {Nobody}]
           /\ layout.crashes = 0 => input' = input
           /\ layout.crashes # 0 => input'[s] = c
           /\ \A k \in Nodes : k # s => input'[k] = input[k]
<1> DEFINE I == {x \in Conn : x.kind # "gone"} \cup {Nobody}
<1>1. input \in [Nodes -> I] /\ c \in I
  BY DEF TypeOK
<1>2. layout.crashes \in Nat
  BY LayoutGives
<1> HIDE DEF I
<1>3. CASE layout.crashes = 0
  <2>1. input' = input
    BY <1>3 DEF Received
  <2> QED BY <1>1, <1>3, <2>1 DEF I
<1>4. CASE layout.crashes > 0
  <2>1. input' = [input EXCEPT ![s] = c]
    BY <1>4 DEF Received
  <2>2. layout.crashes # 0
    BY <1>2, <1>4
  <2> QED BY <1>1, <2>1, <2>2 DEF I
<1> QED BY <1>2, <1>3, <1>4

(* The queues, when there are more pushes, of others than the receiver, to nodes that serve. *)
Grown(q) ==
    /\ q \in [Nodes -> Seq(Conn)]
    /\ \A k \in Nodes :
          /\ ToSet(queue[k]) \subseteq ToSet(q[k])
          /\ \A d \in ToSet(q[k]) :
                d \in ToSet(queue[k]) \/ (d.kind = "push" /\ d.what.name # k /\ mode[k] = "up")
          /\ \A d : d.kind # "push" /\ Once(queue[k], d) => Once(q[k], d)
          /\ \A b, d : d.kind # "push" /\ Ahead(queue[k], b, d) => Ahead(q[k], b, d)

(* What a node that is introduced is entered as, and that its news goes to others. *)
LEMMA NewcomerIs ==
    ASSUME Core, NEW s \in Nodes, NEW n \in Nodes, s # n, mode[n] # "up", Noted(s)
    PROVE  /\ Newcomer(s, n) \in Entry /\ Newcomer(s, n).addr \in Addrs
           /\ Newcomer(s, n).name = n
           /\ Newcomer(s, n) = [name |-> n, addr |-> Newcomer(s, n).addr]
           /\ Introduced(s, n) \in Table
           /\ Entries(Introduced(s, n)) \subseteq Entries(known[s]) \cup {Newcomer(s, n)}
           /\ Grown(Announcing(s, n))
<1> DEFINE e == Newcomer(s, n)
           t == Learned(known[s], n, e.addr)
           p == [kind |-> "push", from |-> s, what |-> e]
<1>1. PICK m \in Nodes : ntoa[s] = Host[m]
  BY DEF Noted
<1>2. ntoa[s] \in Hosts /\ Port[n] \in Ports
  BY <1>1, LayoutGives DEF Core
<1>3. e \in Entry /\ e.addr \in Addrs /\ e.name = n /\ e = [name |-> n, addr |-> e.addr]
  BY <1>2 DEF Newcomer, Entry, Addrs
<1> HIDE DEF e
<1>4. known \in [Nodes -> Table]
  BY DEF Core, TypeOK
<1>5. t \in Table /\ Entries(t) \subseteq Entries(known[s]) \cup {e}
  BY <1>3, <1>4, LearnedIs
<1>6. t = Introduced(s, n)
  BY DEF Introduced, e
<1> HIDE DEF t
<1>7. ASSUME NEW k \in Nodes
      PROVE  /\ Announcing(s, n)[k] \in Seq(Conn)
             /\ ToSet(queue[k]) \subseteq ToSet(Announcing(s, n)[k])
             /\ \A d \in ToSet(Announcing(s, n)[k]) : d \in ToSet(queue[k]) \/ (d = p /\ mode[k] = "up")
             /\ \A d : d.kind # "push" /\ Once(queue[k], d) => Once(Announcing(s, n)[k], d)
             /\ \A b, d : d.kind # "push" /\ Ahead(queue[k], b, d)
                             => Ahead(Announcing(s, n)[k], b, d)
  <2>1. Announcing(s, n)[k] = Pushed(s, t, e, k)
    BY <1>6 DEF Announcing, e
  <2> QED BY <1>3, <1>5, <2>1, PushedIs DEF Core
<1>8. p.kind = "push" /\ p.what.name = n
  BY <1>3
<1> HIDE DEF p
<1>9. Announcing(s, n) \in [Nodes -> Seq(Conn)]
  <2>1. \E f : Announcing(s, n) = [k \in Nodes |-> f[k]]
    <3>1. Announcing(s, n) = [k \in Nodes |-> Announcing(s, n)[k]]
      BY DEF Announcing
    <3> QED BY <3>1
  <2> QED BY <1>7, <2>1
<1>10. Grown(Announcing(s, n))
  <2> SUFFICES ASSUME NEW k \in Nodes, NEW d \in ToSet(Announcing(s, n)[k])
               PROVE  \/ d \in ToSet(queue[k])
                      \/ d.kind = "push" /\ d.what.name # k /\ mode[k] = "up"
    BY <1>7, <1>9 DEF Grown
  <2> QED BY <1>7, <1>8
<1> QED BY <1>3, <1>5, <1>6, <1>10 DEF e

(* The queues as they are. *)
LEMMA QueuesAre == ASSUME TypeOK PROVE Grown(queue)
BY DEF TypeOK, Grown

(* Queues with more pushes are empty where the node does not serve, and where they were not. *)
LEMMA GrownIs ==
    ASSUME Core, NEW q, Grown(q), NEW k \in Nodes
    PROVE  /\ mode[k] # "up" => q[k] = <<>>
           /\ queue[k] # <<>> => q[k] # <<>>
           /\ \A d \in ToSet(q[k]) : d.kind = "push" => d.what.name # k
           /\ \A m : JoinOf(m) \in ToSet(q[k]) <=> JoinOf(m) \in ToSet(queue[k])
<1>1. q[k] \in Seq(Conn) /\ queue[k] \in Seq(Conn)
  BY NodeTypes DEF Grown, Core
<1>2. (q[k] = <<>> <=> ToSet(q[k]) = {}) /\ (queue[k] = <<>> <=> ToSet(queue[k]) = {})
  BY <1>1, ToSetIs
<1>3. mode[k] # "up" => queue[k] = <<>>
  BY DEF Core, Quiet
<1>4. /\ ToSet(queue[k]) \subseteq ToSet(q[k])
      /\ \A d \in ToSet(q[k]) :
            d \in ToSet(queue[k]) \/ (d.kind = "push" /\ d.what.name # k /\ mode[k] = "up")
  BY DEF Grown
<1>5. \A d \in ToSet(queue[k]) : d.kind = "push" => d.what.name # k
  BY DEF Core, NewsOfOthers, Pushes, Carried
<1>6. \A m : JoinOf(m).kind # "push"
  BY ConnIs
<1> QED BY <1>2, <1>3, <1>4, <1>5, <1>6

(* A node ends, maybe after it has pushed. *)
LEMMA EndsKeeps ==
    ASSUME Core, NEW s \in Nodes, NEW q, mode[s] = "up", Grown(q), EndsAmid(s, q),
           UNCHANGED <<layout, known, ntoa, ask, ans>>, crashes' \in 0 .. layout.crashes
    PROVE  Core'
<1>1. /\ mode' = [mode EXCEPT ![s] = "dead"] /\ queue' = [q EXCEPT ![s] = <<>>]
      /\ held' = [held EXCEPT ![s] = <<>>] /\ turn' = [turn EXCEPT ![s] = <<>>]
      /\ input' = [input EXCEPT ![s] = Nobody]
  BY DEF EndsAmid
<1>2. /\ mode \in [Nodes -> {"down", "hello", "list", "up", "dead", "wild"}]
      /\ q \in [Nodes -> Seq(Conn)] /\ held \in [Nodes -> Seq(Conn)]
      /\ turn \in [Nodes -> Seq(Conn \cup {TheAccept})]
      /\ input \in [Nodes -> {c \in Conn : c.kind # "gone"} \cup {Nobody}]
  BY DEF Core, TypeOK, Grown
<1>3. /\ mode'[s] = "dead" /\ queue'[s] = <<>> /\ held'[s] = <<>> /\ turn'[s] = <<>>
      /\ \A k \in Nodes : k # s => /\ mode'[k] = mode[k] /\ queue'[k] = q[k]
                                   /\ held'[k] = held[k] /\ turn'[k] = turn[k]
  BY <1>1, <1>2
<1>4. TypeOK'
  BY <1>1, <1>2, EmptyIs DEF Core, TypeOK
<1>5. Quiet'
  BY <1>3, GrownIs DEF Core, Quiet
<1>6. TurnInv'
  BY <1>3, EmptyIs, GrownIs DEF Core, TurnInv
<1>7. NotedInv'
  BY <1>3, EmptyIs DEF Core, NotedInv, Noted, Host
<1>8. AskInv'
  BY <1>3 DEF Core, AskInv, SeedOf
<1>9. JoinsOnce'
  <2> SUFFICES ASSUME NEW k \in Nodes, NEW m \in Nodes
               PROVE  /\ Once(queue'[k], JoinOf(m)) /\ Once(held'[k], JoinOf(m))
                      /\ Once(turn'[k], JoinOf(m))
                      /\ JoinOf(m) \notin ToSet(queue'[k]) \cap ToSet(held'[k])
                      /\ JoinOf(m) \in ToSet(turn'[k]) => JoinOf(m) \in ToSet(held'[k])
                      /\ JoinOf(m) \in ToSet(queue'[k]) \cup ToSet(held'[k]) =>
                            /\ k = SeedOf[m]
                            /\ mode'[m] \in {"hello", "list"} /\ ans[m].kind # "list"
    BY DEF JoinsOnce, SeedOf
  <2>1. CASE k = s
    BY <1>3, <2>1, EmptyIs
  <2>2. CASE k # s
    <3>1. JoinOf(m) \in ToSet(queue[k]) \cup ToSet(held[k]) => m # s
      BY DEF Core, JoinsOnce
    <3>2. Once(queue'[k], JoinOf(m))
      BY <1>3, <2>2, ConnIs DEF Core, JoinsOnce, Grown
    <3>3. JoinOf(m) \in ToSet(queue'[k]) <=> JoinOf(m) \in ToSet(queue[k])
      BY <1>3, <2>2, GrownIs
    <3> QED BY <1>3, <2>2, <3>1, <3>2, <3>3 DEF Core, JoinsOnce
  <2> QED BY <2>1, <2>2
<1>10. NewsOfOthers'
  <2> SUFFICES ASSUME NEW k \in Nodes,
                      NEW c \in ToSet(queue'[k]) \cup ToSet(held'[k]) \cup ToSet(turn'[k]),
                      c.kind = "push"
               PROVE  c.what.name # k
    BY DEF NewsOfOthers, Pushes, Carried
  <2>1. k # s
    BY <1>3, EmptyIs
  <2>2. CASE c \in ToSet(queue'[k])
    BY <1>3, <2>1, <2>2, GrownIs
  <2>3. CASE c \in ToSet(held'[k]) \cup ToSet(turn'[k])
    BY <1>3, <2>1, <2>3 DEF Core, NewsOfOthers, Pushes, Carried
  <2> QED BY <2>2, <2>3
<1>11. (layout.clean => NoSelf)'
  BY DEF Core, NoSelf, NamesIn, Entries
<1> QED BY <1>4, <1>5, <1>6, <1>7, <1>8, <1>9, <1>10, <1>11 DEF Core

(* What changes when the end of a connection is noted: nothing about the others. *)
OthersHeld ==
    /\ held' \in [Nodes -> Seq(Conn)]
    /\ \A k \in Nodes :
          /\ held'[k] = <<>> <=> held[k] = <<>>
          /\ \A d : d.kind # "gone" =>
                /\ d \in ToSet(held'[k]) <=> d \in ToSet(held[k])
                /\ Once(held[k], d) => Once(held'[k], d)

(* Entering a newcomer and telling everyone of it. *)
LEMMA IntroducingKeeps ==
    ASSUME Core, NEW s \in Nodes, NEW n \in Nodes, NEW c, Dispatched(s, c),
           s # n, mode[n] # "up", Noted(s),
           known' = [known EXCEPT ![s] = Introduced(s, n)], queue' = Announcing(s, n),
           OthersHeld, UNCHANGED <<layout, mode, ntoa, crashes>>,
           input' \in [Nodes -> {x \in Conn : x.kind # "gone"} \cup {Nobody}],
           ask' \in [Nodes -> {"none", "hello", "list"}],
           DOMAIN ans' = Nodes, \A m \in Nodes : ans'[m] \in Answers, AskInv',
           \A m \in Nodes : ans[m].kind # "list" => ans'[m].kind # "list"
    PROVE  Core'
<1>1. /\ Introduced(s, n) \in Table
      /\ Entries(Introduced(s, n)) \subseteq Entries(known[s]) \cup {Newcomer(s, n)}
      /\ Newcomer(s, n).name = n
      /\ Grown(queue')
  BY NewcomerIs
<1>2. known \in [Nodes -> Table]
  BY DEF Core, TypeOK
<1>3. /\ turn' \in [Nodes -> Seq(Conn \cup {TheAccept})]
      /\ \A k \in Nodes : ToSet(turn'[k]) \subseteq ToSet(turn[k])
      /\ \A k \in Nodes : \A d : Once(turn[k], d) => Once(turn'[k], d)
      /\ (\A k \in Nodes : k # s /\ queue[k] # <<>> => queue'[k] # <<>>) => TurnInv'
  BY Dispatching
<1>4. TypeOK'
  <2>1. queue' \in [Nodes -> Seq(Conn)] /\ held' \in [Nodes -> Seq(Conn)]
    BY <1>1 DEF Grown, OthersHeld
  <2>2. known' \in [Nodes -> Table]
    BY <1>1, <1>2
  <2> QED BY <1>3, <2>1, <2>2 DEF Core, TypeOK
<1>5. Quiet'
  <2> SUFFICES ASSUME NEW k \in Nodes, mode[k] # "up"
               PROVE  queue'[k] = <<>> /\ held'[k] = <<>> /\ turn'[k] = <<>>
    BY DEF Quiet
  <2>1. held[k] = <<>> /\ turn[k] = <<>>
    BY DEF Core, Quiet
  <2>2. ToSet(turn'[k]) = {} /\ turn'[k] \in Seq(Conn \cup {TheAccept})
    BY <1>3, <2>1, EmptyIs
  <2>3. turn'[k] = <<>>
    <3> DEFINE u == turn'[k]
    <3>1. u \in Seq(Conn \cup {TheAccept}) /\ ToSet(u) = {}
      BY <2>2
    <3> HIDE DEF u
    <3>2. u = <<>>
      BY <3>1, ToSetIs
    <3> QED BY <3>2 DEF u
  <2>4. queue'[k] = <<>>
    BY <1>1, GrownIs
  <2> QED BY <2>1, <2>3, <2>4 DEF OthersHeld
<1>6. TurnInv'
  BY <1>1, <1>3, GrownIs
<1>7. NotedInv'
  <2> SUFFICES ASSUME NEW k \in Nodes, held'[k] # <<>> \/ ToSet(turn'[k]) \ {TheAccept} # {}
               PROVE  Noted(k)
    BY DEF NotedInv, Noted, Host
  <2> QED BY <1>3 DEF Core, NotedInv, OthersHeld
<1>8. JoinsOnce'
  <2> SUFFICES ASSUME NEW k \in Nodes, NEW m \in Nodes
               PROVE  /\ Once(queue'[k], JoinOf(m)) /\ Once(held'[k], JoinOf(m))
                      /\ Once(turn'[k], JoinOf(m))
                      /\ JoinOf(m) \notin ToSet(queue'[k]) \cap ToSet(held'[k])
                      /\ JoinOf(m) \in ToSet(turn'[k]) => JoinOf(m) \in ToSet(held'[k])
                      /\ JoinOf(m) \in ToSet(queue'[k]) \cup ToSet(held'[k]) =>
                            k = SeedOf[m] /\ mode[m] \in {"hello", "list"} /\ ans'[m].kind # "list"
    BY DEF JoinsOnce, SeedOf
  <2>1. /\ Once(queue[k], JoinOf(m)) /\ Once(held[k], JoinOf(m)) /\ Once(turn[k], JoinOf(m))
        /\ JoinOf(m) \notin ToSet(queue[k]) \cap ToSet(held[k])
        /\ JoinOf(m) \in ToSet(turn[k]) => JoinOf(m) \in ToSet(held[k])
        /\ JoinOf(m) \in ToSet(queue[k]) \cup ToSet(held[k]) =>
              k = SeedOf[m] /\ mode[m] \in {"hello", "list"} /\ ans[m].kind # "list"
    BY DEF Core, JoinsOnce
  <2>2. JoinOf(m).kind # "push" /\ JoinOf(m).kind # "gone"
    BY ConnIs
  <2>3. Once(queue'[k], JoinOf(m)) /\ Once(turn'[k], JoinOf(m)) /\ Once(held'[k], JoinOf(m))
    BY <1>1, <1>3, <2>1, <2>2 DEF Grown, OthersHeld
  <2>4. JoinOf(m) \in ToSet(queue'[k]) <=> JoinOf(m) \in ToSet(queue[k])
    BY <1>1, GrownIs
  <2>5. JoinOf(m) \in ToSet(held'[k]) <=> JoinOf(m) \in ToSet(held[k])
    BY <2>2 DEF OthersHeld
  <2>6. JoinOf(m) \in ToSet(turn'[k]) => JoinOf(m) \in ToSet(turn[k])
    BY <1>3
  <2> QED BY <2>1, <2>3, <2>4, <2>5, <2>6
<1>9. NewsOfOthers'
  <2> SUFFICES ASSUME NEW k \in Nodes,
                      NEW d \in ToSet(queue'[k]) \cup ToSet(held'[k]) \cup ToSet(turn'[k]),
                      d.kind = "push"
               PROVE  d.what.name # k
    BY DEF NewsOfOthers, Pushes, Carried
  <2>1. CASE d \in ToSet(queue'[k])
    BY <1>1, <2>1, GrownIs
  <2>2. CASE d \in ToSet(held'[k]) \cup ToSet(turn'[k])
    <3>1. d \in ToSet(held[k]) \cup ToSet(turn[k])
      BY <1>3, <2>2 DEF OthersHeld
    <3> QED BY <3>1 DEF Core, NewsOfOthers, Pushes, Carried
  <2> QED BY <2>1, <2>2
<1>10. (layout.clean => NoSelf)'
  <2>1. s \in NamesIn(Introduced(s, n)) => s \in NamesIn(known[s])
    BY <1>1 DEF NamesIn
  <2> QED BY <1>2, <2>1 DEF Core, NoSelf
<1> QED BY <1>4, <1>5, <1>6, <1>7, <1>8, <1>9, <1>10 DEF Core

(* A HELLO enters the newcomer and tells everyone of it. *)
LEMMA HandlingHello ==
    ASSUME Core, NEW s \in Nodes, NEW n \in Nodes, HandleHello(s, n)
    PROVE  /\ mode[s] = "up" /\ mode[n] = "hello" /\ s = SeedOf[n] /\ s # n
           /\ JoinOf(n) \in ToSet(turn[s]) /\ JoinOf(n) \in ToSet(held[s])
           /\ ask[n] = "hello" /\ Newcomer(s, n) \in Entry
           /\ Newcomer(s, n).addr \in Addrs /\ Newcomer(s, n).name = n
           /\ Newcomer(s, n) = [name |-> n, addr |-> Newcomer(s, n).addr]
           /\ Noted(s)
<1>1. Dispatched(s, JoinOf(n)) /\ ask[n] = "hello"
  BY DEF HandleHello
<1>2. mode[s] = "up" /\ JoinOf(n) \in ToSet(turn[s])
  BY <1>1, Dispatching
<1>3. JoinOf(n) \in ToSet(held[s]) /\ s = SeedOf[n] /\ mode[n] = "hello"
  BY <1>1, <1>2 DEF Core, JoinsOnce, AskInv
<1>4. Noted(s)
  BY <1>2, ConnIs DEF Core, NotedInv
<1>5. s # n /\ mode[n] # "up"
  BY <1>2, <1>3
<1> QED BY <1>1, <1>2, <1>3, <1>4, <1>5, NewcomerIs

(* The newcomer is pushed to others: it does not listen yet. *)
LEMMA HandleHelloKeeps == ASSUME Core, NEW s \in Nodes, NEW n \in Nodes, HandleHello(s, n) PROVE Core'
<1>1. /\ Dispatched(s, JoinOf(n)) /\ Received(s, JoinOf(n))
      /\ known' = [known EXCEPT ![s] = Introduced(s, n)] /\ queue' = Announcing(s, n)
      /\ ask' = [ask EXCEPT ![n] = "none"] /\ ans' = [ans EXCEPT ![n] = [kind |-> "hello"]]
      /\ UNCHANGED <<layout, mode, ntoa, held, crashes>>
  BY DEF HandleHello
<1>2. mode[n] = "hello" /\ mode[n] # "up" /\ s # n /\ Noted(s)
  BY HandlingHello
<1>3. input' \in [Nodes -> {x \in Conn : x.kind # "gone"} \cup {Nobody}]
  BY <1>1, ConnIs, ReceivedIs DEF Core
<1>4. ask' \in [Nodes -> {"none", "hello", "list"}] /\ DOMAIN ans' = Nodes
  BY <1>1 DEF Core, TypeOK
<1>5. \A m \in Nodes : ans'[m] \in Answers /\ (ans[m].kind # "list" => ans'[m].kind # "list")
  BY <1>1, AnswerIs DEF Core, TypeOK
<1>6. AskInv'
  BY <1>1, <1>2 DEF Core, TypeOK, AskInv, SeedOf
<1>7. OthersHeld
  BY <1>1 DEF Core, TypeOK, OthersHeld
<1> QED BY <1>1, <1>2, <1>3, <1>4, <1>5, <1>6, <1>7, IntroducingKeeps

(* Once a request on a connection that is closed is handled, the connection is nowhere. *)
LEMMA Dropping ==
    ASSUME Core, NEW s \in Nodes, NEW c \in Conn, Dispatched(s, c), Dropped(s, c),
           UNCHANGED <<layout, mode, queue, ntoa>>
    PROVE  /\ Quiet' /\ TurnInv' /\ NotedInv' /\ NewsOfOthers'
           /\ turn' \in [Nodes -> Seq(Conn \cup {TheAccept})]
           /\ held' \in [Nodes -> Seq(Conn)]
           /\ \A k \in Nodes : ToSet(turn'[k]) \subseteq ToSet(turn[k])
           /\ \A k \in Nodes : ToSet(held'[k]) \subseteq ToSet(held[k])
           /\ Once(held[s], c) => c \notin ToSet(held'[s])
           /\ \A k \in Nodes, m \in Nodes :
                /\ Once(queue'[k], JoinOf(m)) /\ Once(held'[k], JoinOf(m))
                /\ Once(turn'[k], JoinOf(m))
                /\ JoinOf(m) \notin ToSet(queue'[k]) \cap ToSet(held'[k])
                /\ JoinOf(m) \in ToSet(turn'[k]) => JoinOf(m) \in ToSet(held'[k])
<1>1. held' = [held EXCEPT ![s] = RemoveFirst(held[s], c)]
  BY DEF Dropped
<1>2. held \in [Nodes -> Seq(Conn)]
  BY DEF Core, TypeOK
<1>3. /\ RemoveFirst(held[s], c) \in Seq(Conn)
      /\ ToSet(RemoveFirst(held[s], c)) \subseteq ToSet(held[s])
      /\ \A d \in ToSet(held[s]) : d # c => d \in ToSet(RemoveFirst(held[s], c))
      /\ \A d : Once(held[s], d) => Once(RemoveFirst(held[s], c), d)
      /\ Once(held[s], c) => c \notin ToSet(RemoveFirst(held[s], c))
  BY <1>2, FirstRemoved
<1>4. held'[s] = RemoveFirst(held[s], c) /\ \A k \in Nodes : k # s => held'[k] = held[k]
  BY <1>1, <1>2
<1>5. /\ mode[s] = "up"
      /\ turn' \in [Nodes -> Seq(Conn \cup {TheAccept})]
      /\ \A k \in Nodes : ToSet(turn'[k]) \subseteq ToSet(turn[k])
      /\ \A k \in Nodes : k # s => turn'[k] = turn[k]
      /\ \A k \in Nodes : \A d : Once(turn[k], d) => Once(turn'[k], d)
      /\ Once(turn[s], c) => c \notin ToSet(turn'[s])
      /\ (\A k \in Nodes : k # s /\ queue[k] # <<>> => queue'[k] # <<>>) => TurnInv'
  BY Dispatching
<1>6. held' \in [Nodes -> Seq(Conn)] /\ \A k \in Nodes : ToSet(held'[k]) \subseteq ToSet(held[k])
  BY <1>1, <1>2, <1>3, <1>4
<1>7. Quiet'
  BY <1>4, <1>5 DEF Core, Quiet
<1>8. NotedInv'
  <2> SUFFICES ASSUME NEW k \in Nodes, held'[k] # <<>> \/ ToSet(turn'[k]) \ {TheAccept} # {}
               PROVE  Noted(k)
    BY DEF NotedInv, Noted, Host
  <2>1. held'[k] # <<>> => held[k] # <<>>
    <3>1. held'[k] # <<>> => ToSet(held'[k]) # {}
      BY <1>6, ToSetIs
    <3> QED BY <1>6, <3>1, EmptyIs
  <2> QED BY <1>5, <2>1 DEF Core, NotedInv
<1>9. NewsOfOthers'
  BY <1>5, <1>6 DEF Core, NewsOfOthers, Pushes, Carried
<1>10. ASSUME NEW k \in Nodes, NEW m \in Nodes
       PROVE  /\ Once(queue'[k], JoinOf(m)) /\ Once(held'[k], JoinOf(m))
              /\ Once(turn'[k], JoinOf(m))
              /\ JoinOf(m) \notin ToSet(queue'[k]) \cap ToSet(held'[k])
              /\ JoinOf(m) \in ToSet(turn'[k]) => JoinOf(m) \in ToSet(held'[k])
  <2>1. /\ Once(queue[k], JoinOf(m)) /\ Once(held[k], JoinOf(m)) /\ Once(turn[k], JoinOf(m))
        /\ JoinOf(m) \notin ToSet(queue[k]) \cap ToSet(held[k])
        /\ JoinOf(m) \in ToSet(turn[k]) => JoinOf(m) \in ToSet(held[k])
    BY DEF Core, JoinsOnce
  <2>2. Once(held'[k], JoinOf(m)) /\ Once(turn'[k], JoinOf(m))
    BY <1>3, <1>4, <1>5, <2>1
  <2>3. JoinOf(m) \in ToSet(turn'[k]) => JoinOf(m) \in ToSet(held'[k])
    BY <1>3, <1>4, <1>5, <2>1
  <2> QED BY <1>6, <2>1, <2>2, <2>3
<1> QED BY <1>3, <1>4, <1>5, <1>6, <1>7, <1>8, <1>9, <1>10

(* The list is answered, and the connection closed. *)
LEMMA HandleGetNodeListKeeps ==
    ASSUME Core, NEW s \in Nodes, NEW n \in Nodes, HandleGetNodeList(s, n) PROVE Core'
<1>1. /\ Dispatched(s, JoinOf(n)) /\ Dropped(s, JoinOf(n)) /\ ask[n] = "list"
      /\ ask' = [ask EXCEPT ![n] = "none"]
      /\ ans' = [ans EXCEPT ![n] = [kind |-> "list", table |-> known[s]]]
      /\ UNCHANGED <<layout, mode, known, ntoa, queue, crashes>>
  BY DEF HandleGetNodeList
<1>2. JoinOf(n) \in Conn /\ known[s] \in Table /\ mode[n] = "list"
  BY <1>1, ConnIs, NodeTypes DEF Core, AskInv
<1>3. /\ Quiet' /\ TurnInv' /\ NotedInv' /\ NewsOfOthers'
      /\ turn' \in [Nodes -> Seq(Conn \cup {TheAccept})]
      /\ held' \in [Nodes -> Seq(Conn)]
      /\ \A k \in Nodes : ToSet(held'[k]) \subseteq ToSet(held[k])
      /\ Once(held[s], JoinOf(n)) => JoinOf(n) \notin ToSet(held'[s])
      /\ \A k \in Nodes, m \in Nodes :
           /\ Once(queue'[k], JoinOf(m)) /\ Once(held'[k], JoinOf(m))
           /\ Once(turn'[k], JoinOf(m))
           /\ JoinOf(m) \notin ToSet(queue'[k]) \cap ToSet(held'[k])
           /\ JoinOf(m) \in ToSet(turn'[k]) => JoinOf(m) \in ToSet(held'[k])
  BY <1>1, <1>2, Dropping
<1>4. JoinOf(n) \in ToSet(turn[s])
  BY <1>1, Dispatching
<1>10. input' \in [Nodes -> {x \in Conn : x.kind # "gone"} \cup {Nobody}]
  <2>1. Received(s, Nobody)
    BY DEF HandleGetNodeList
  <2> QED BY <2>1, ReceivedIs DEF Core
<1>5. TypeOK'
  BY <1>1, <1>2, <1>3, <1>10, AnswerIs DEF Core, TypeOK
<1>6. AskInv'
  BY <1>1, <1>2 DEF Core, TypeOK, AskInv, SeedOf
<1>7. \A k \in Nodes : JoinOf(n) \notin ToSet(queue'[k]) \cup ToSet(held'[k])
  <2>1. JoinOf(n) \in ToSet(held[s]) /\ Once(held[s], JoinOf(n))
        /\ JoinOf(n) \notin ToSet(queue[s])
    BY <1>4 DEF Core, JoinsOnce
  <2>2. \A k \in Nodes : k # s => JoinOf(n) \notin ToSet(queue[k]) \cup ToSet(held[k])
    BY <2>1 DEF Core, JoinsOnce
  <2> QED BY <1>1, <1>3, <2>1, <2>2
<1>8. JoinsOnce'
  <2> SUFFICES ASSUME NEW k \in Nodes, NEW m \in Nodes,
                      JoinOf(m) \in ToSet(queue'[k]) \cup ToSet(held'[k])
               PROVE  k = SeedOf[m] /\ mode[m] \in {"hello", "list"} /\ ans'[m].kind # "list"
    BY <1>1, <1>3 DEF JoinsOnce, SeedOf
  <2>1. m # n
    BY <1>7
  <2>2. ans'[m] = ans[m]
    BY <1>1, <2>1 DEF Core, TypeOK
  <2>3. JoinOf(m) \in ToSet(queue[k]) \cup ToSet(held[k])
    BY <1>1, <1>3
  <2> QED BY <2>2, <2>3 DEF Core, JoinsOnce
<1>9. (layout.clean => NoSelf)'
  BY <1>1 DEF Core, NoSelf, NamesIn, Entries
<1> QED BY <1>3, <1>5, <1>6, <1>8, <1>9 DEF Core

(* A push from a node that is known is entered, and the connection closed. *)
LEMMA HandlePushKeeps ==
    ASSUME Core, NEW s \in Nodes, NEW c \in ToSet(turn[s]), HandlePush(s, c) PROVE Core'
<1>1. /\ Dispatched(s, c) /\ Dropped(s, c) /\ c.kind = "push"
      /\ known' = [known EXCEPT ![s] = Learned(known[s], c.what.name, c.what.addr)]
      /\ UNCHANGED <<layout, mode, ntoa, queue, ask, ans, crashes>>
  BY DEF HandlePush
<1>2. c \in Conn
  BY <1>1, NodeTypes, ConnIs DEF Core
<1>3. c.what.name \in Nodes /\ c.what.addr \in Addrs /\ c.what.name # s
  <2>1. c.what \in Entry
    BY <1>1, <1>2, ConnIs
  <2>2. c.what.name # s
    BY <1>1 DEF Core, NewsOfOthers, Pushes, Carried
  <2> QED BY <2>1, <2>2 DEF Entry
<1>4. known \in [Nodes -> Table]
  BY DEF Core, TypeOK
<1>5. /\ Quiet' /\ TurnInv' /\ NotedInv' /\ NewsOfOthers'
      /\ turn' \in [Nodes -> Seq(Conn \cup {TheAccept})]
      /\ held' \in [Nodes -> Seq(Conn)]
      /\ \A k \in Nodes : ToSet(held'[k]) \subseteq ToSet(held[k])
      /\ \A k \in Nodes, m \in Nodes :
           /\ Once(queue'[k], JoinOf(m)) /\ Once(held'[k], JoinOf(m))
           /\ Once(turn'[k], JoinOf(m))
           /\ JoinOf(m) \notin ToSet(queue'[k]) \cap ToSet(held'[k])
           /\ JoinOf(m) \in ToSet(turn'[k]) => JoinOf(m) \in ToSet(held'[k])
  BY <1>1, <1>2, Dropping
<1> DEFINE t == Learned(known[s], c.what.name, c.what.addr)
<1>6. /\ t \in Table
      /\ Entries(t) \subseteq Entries(known[s]) \cup {[name |-> c.what.name, addr |-> c.what.addr]}
  BY <1>3, <1>4, LearnedIs
<1>7. known' = [known EXCEPT ![s] = t]
  BY <1>1
<1> HIDE DEF t
<1>12. input' \in [Nodes -> {x \in Conn : x.kind # "gone"} \cup {Nobody}]
  <2>1. Received(s, c)
    BY DEF HandlePush
  <2> QED BY <1>1, <1>2, <2>1, ReceivedIs DEF Core
<1>8. TypeOK'
  <2>1. known' \in [Nodes -> Table]
    BY <1>4, <1>6, <1>7
  <2> QED BY <1>1, <1>5, <1>12, <2>1 DEF Core, TypeOK
<1>9. AskInv'
  BY <1>1 DEF Core, AskInv, SeedOf
<1>10. JoinsOnce'
  <2> SUFFICES ASSUME NEW k \in Nodes, NEW m \in Nodes,
                      JoinOf(m) \in ToSet(queue'[k]) \cup ToSet(held'[k])
               PROVE  k = SeedOf[m] /\ mode[m] \in {"hello", "list"} /\ ans[m].kind # "list"
    BY <1>1, <1>5 DEF JoinsOnce, SeedOf
  <2>1. JoinOf(m) \in ToSet(queue[k]) \cup ToSet(held[k])
    BY <1>1, <1>5
  <2> QED BY <2>1 DEF Core, JoinsOnce
<1>11. (layout.clean => NoSelf)'
  <2>1. s \in NamesIn(t) => s \in NamesIn(known[s])
    BY <1>3, <1>6 DEF NamesIn
  <2> QED BY <1>1, <1>4, <1>7, <2>1 DEF Core, NoSelf
<1> QED BY <1>5, <1>8, <1>9, <1>10, <1>11 DEF Core

(* The end of a connection that is closed, and what is entered then. *)
LEMMA ClosingKeeps ==
    ASSUME Core, NEW s \in Nodes, NEW c \in Conn, c.kind = "gone", Dispatched(s, c), Dropped(s, c),
           UNCHANGED <<layout, mode, ntoa, queue, ask, ans, crashes>>,
           known' \in [Nodes -> Table], (layout.clean => NoSelf)',
           input' \in [Nodes -> {x \in Conn : x.kind # "gone"} \cup {Nobody}]
    PROVE  Core'
<1>1. /\ Quiet' /\ TurnInv' /\ NotedInv' /\ NewsOfOthers'
      /\ turn' \in [Nodes -> Seq(Conn \cup {TheAccept})]
      /\ held' \in [Nodes -> Seq(Conn)]
      /\ \A k \in Nodes : ToSet(held'[k]) \subseteq ToSet(held[k])
      /\ \A k \in Nodes, m \in Nodes :
           /\ Once(queue'[k], JoinOf(m)) /\ Once(held'[k], JoinOf(m))
           /\ Once(turn'[k], JoinOf(m))
           /\ JoinOf(m) \notin ToSet(queue'[k]) \cap ToSet(held'[k])
           /\ JoinOf(m) \in ToSet(turn'[k]) => JoinOf(m) \in ToSet(held'[k])
  BY Dropping
<1>2. TypeOK'
  BY <1>1 DEF Core, TypeOK
<1>3. AskInv'
  BY DEF Core, AskInv, SeedOf
<1>4. JoinsOnce'
  <2> SUFFICES ASSUME NEW k \in Nodes, NEW m \in Nodes,
                      JoinOf(m) \in ToSet(queue'[k]) \cup ToSet(held'[k])
               PROVE  k = SeedOf[m] /\ mode[m] \in {"hello", "list"} /\ ans[m].kind # "list"
    BY <1>1 DEF JoinsOnce, SeedOf
  <2>1. JoinOf(m) \in ToSet(queue[k]) \cup ToSet(held[k])
    BY <1>1
  <2> QED BY <2>1 DEF Core, JoinsOnce
<1> QED BY <1>1, <1>2, <1>3, <1>4 DEF Core

(* What is dispatched of a node that crashed. *)
LEMMA GoneDispatched ==
    ASSUME Core, NEW s \in Nodes, NEW n \in Nodes, NEW id \in 1 .. crashes, NEW gives,
           Dispatched(s, Gone(n, gives, id))
    PROVE  /\ Gone(n, gives, id) \in Conn /\ Gone(n, gives, id).kind = "gone"
           /\ Gone(n, gives, id) \in ToSet(turn[s]) /\ mode[s] = "up" /\ Noted(s)
<1>1. /\ mode[s] = "up" /\ Gone(n, gives, id) \in ToSet(turn[s])
      /\ Gone(n, gives, id) \in Conn \cup {TheAccept}
  BY Dispatching
<1>2. Gone(n, gives, id).kind = "gone" /\ Gone(n, gives, id) # TheAccept
  BY GoneIs, ConnIs
<1>3. Noted(s)
  BY <1>1, <1>2 DEF Core, NotedInv
<1> QED BY <1>1, <1>2, <1>3

(* A request for the list that nobody waits for any more is dropped. *)
LEMMA ListOfGoneKeeps ==
    ASSUME Core, NEW s \in Nodes, NEW n \in Nodes, NEW id \in 1 .. crashes, ListOfGone(s, n, id)
    PROVE  Core'
<1> DEFINE c == Gone(n, "list", id)
<1>1. /\ Dispatched(s, c) /\ Dropped(s, c) /\ Received(s, Nobody)
      /\ UNCHANGED <<layout, mode, known, ntoa, queue, ask, ans, crashes>>
  BY DEF ListOfGone
<1>2. c \in Conn /\ c.kind = "gone"
  BY <1>1, GoneDispatched
<1> HIDE DEF c
<1>3. input' \in [Nodes -> {x \in Conn : x.kind # "gone"} \cup {Nobody}]
  BY <1>1, ReceivedIs DEF Core
<1>4. known' \in [Nodes -> Table] /\ (layout.clean => NoSelf)'
  BY <1>1 DEF Core, TypeOK, NoSelf, NamesIn, Entries
<1> QED BY <1>1, <1>2, <1>3, <1>4, ClosingKeeps

(* An end that is dropped. *)
LEMMA NothingAgainKeeps ==
    ASSUME Core, NEW s \in Nodes, NEW n \in Nodes, NEW id \in 1 .. crashes, NothingAgain(s, n, id)
    PROVE  Core'
<1> DEFINE c == Gone(n, "end", id)
<1>1. /\ Dispatched(s, c) /\ Dropped(s, c)
      /\ UNCHANGED <<layout, mode, known, ntoa, queue, ask, ans, input, crashes>>
  BY DEF NothingAgain
<1>2. c \in Conn /\ c.kind = "gone"
  BY <1>1, GoneDispatched
<1> HIDE DEF c
<1>3. input' \in [Nodes -> {x \in Conn : x.kind # "gone"} \cup {Nobody}]
  BY <1>1 DEF Core, TypeOK
<1>4. known' \in [Nodes -> Table] /\ (layout.clean => NoSelf)'
  BY <1>1 DEF Core, TypeOK, NoSelf, NamesIn, Entries
<1> QED BY <1>1, <1>2, <1>3, <1>4, ClosingKeeps

(* A node that enters another does not list itself. *)
LEMMA LearningKeeps ==
    ASSUME Core, NEW s \in Nodes, NEW e \in Entry, e.name # s, layout' = layout,
           known' = [known EXCEPT ![s] = Learned(known[s], e.name, e.addr)]
    PROVE  known' \in [Nodes -> Table] /\ (layout.clean => NoSelf)'
<1> DEFINE t == Learned(known[s], e.name, e.addr)
<1>1. known \in [Nodes -> Table]
  BY DEF Core, TypeOK
<1>2. e.name \in Nodes /\ e.addr \in Addrs
  BY DEF Entry
<1>3. t \in Table /\ Entries(t) \subseteq Entries(known[s]) \cup {[name |-> e.name, addr |-> e.addr]}
  BY <1>1, <1>2, LearnedIs
<1>4. known' = [known EXCEPT ![s] = t]
  OBVIOUS
<1> HIDE DEF t
<1>5. s \in NamesIn(t) => s \in NamesIn(known[s])
  BY <1>3 DEF NamesIn
<1>6. (layout.clean => NoSelf)'
  BY <1>1, <1>4, <1>5 DEF Core, NoSelf
<1> QED BY <1>1, <1>3, <1>4, <1>6

(* A push that is entered again is of another node. *)
LEMMA PushAgainKeeps ==
    ASSUME IInv, NEW s \in Nodes, NEW n \in Nodes, NEW id \in 1 .. crashes, PushAgain(s, n, id)
    PROVE  Core'
<1> DEFINE c == Gone(n, "end", id)
           e == input[s].what
<1>1. /\ Dispatched(s, c) /\ Dropped(s, c) /\ input[s] # Nobody /\ input[s].kind = "push"
      /\ known' = [known EXCEPT ![s] = Learned(known[s], e.name, e.addr)]
      /\ UNCHANGED <<layout, mode, ntoa, queue, ask, ans, input, crashes>>
  BY DEF PushAgain
<1>2. Core
  BY DEF IInv
<1>3. c \in Conn /\ c.kind = "gone"
  BY <1>1, <1>2, GoneDispatched
<1>4. input[s] \in Conn
  BY <1>1, <1>2, NodeTypes DEF Core
<1>5. e \in Entry
  BY <1>1, <1>4, ConnIs
<1>6. e.name # s
  BY <1>1 DEF IInv, InputInv
<1> HIDE DEF c, e
<1>7. input' \in [Nodes -> {x \in Conn : x.kind # "gone"} \cup {Nobody}]
  BY <1>1, <1>2 DEF Core, TypeOK
<1>8. known' \in [Nodes -> Table] /\ (layout.clean => NoSelf)'
  BY <1>1, <1>2, <1>5, <1>6, LearningKeeps
<1> QED BY <1>1, <1>2, <1>3, <1>7, <1>8, ClosingKeeps

(* A node ends at the end of a connection. *)
LEMMA GoneKillsKeeps ==
    ASSUME IInv, NEW s \in Nodes, NEW n \in Nodes, NEW id \in 1 .. crashes, GoneKills(s, n, id)
    PROVE  Core'
<1>1. mode[s] = "up" /\ UNCHANGED <<layout, known, ntoa, ask, ans, crashes>>
  BY DEF GoneKills
<1>2. Core /\ crashes' \in 0 .. layout.crashes
  BY <1>1 DEF IInv, Core, TypeOK
<1>3. CASE Ends(s)
  <2>1. EndsAmid(s, queue) /\ Grown(queue)
    BY <1>2, <1>3, QueuesAre DEF Ends, Core
  <2> QED BY <1>1, <1>2, <2>1, EndsKeeps
<1>4. CASE \E m \in Nodes : input[s] = JoinOf(m) /\ EndsAmid(s, Announcing(s, m))
  <2>1. PICK m \in Nodes : input[s] = JoinOf(m) /\ EndsAmid(s, Announcing(s, m))
    BY <1>4
  <2>2. SeedOf[m] = s /\ mode[m] # "up"
    BY <2>1, ConnIs, NobodyConnects DEF IInv, InputInv
  <2>3. m # s /\ Noted(s)
    <3>1. turn[s] # <<>> /\ Head(turn[s]) \in {Gone(n, "end", id), Gone(n, "reset", id)}
      BY DEF GoneKills
    <3>2. turn[s] \in Seq(Conn \cup {TheAccept})
      BY <1>2, NodeTypes DEF Core
    <3>3. Head(turn[s]) \in ToSet(turn[s])
      BY <3>1, <3>2, TailOf
    <3>4. Head(turn[s]) # TheAccept
      BY <3>1, GoneIs, ConnIs
    <3> QED BY <1>1, <1>2, <2>2, <3>3, <3>4 DEF Core, NotedInv
  <2>4. Grown(Announcing(s, m))
    BY <1>2, <2>2, <2>3, NewcomerIs
  <2> QED BY <1>1, <1>2, <2>1, <2>4, EndsKeeps
<1> QED BY <1>3, <1>4 DEF GoneKills

(* How many crashes there were, and may be. *)
LEMMA CrashesAre == ASSUME TypeOK PROVE crashes \in Nat /\ layout.crashes \in Nat
<1>1. layout \in Layout
  BY MeshConstants DEF TypeOK
<1>2. layout.crashes \in Nat
  BY <1>1 DEF Layout
<1> QED BY <1>2 DEF TypeOK

(* The end of a connection is noted in its place. *)
LEMMA NotingEnd ==
    ASSUME Core, NEW s \in Nodes, NEW c \in Conn, NEW x \in Conn, c # x,
           c.kind = "gone", x.kind = "gone",
           held' = [held EXCEPT ![s] = ReplaceAll(held[s], c, x)]
    PROVE  OthersHeld
<1>1. held \in [Nodes -> Seq(Conn)]
  BY DEF Core, TypeOK
<1> DEFINE r == ReplaceAll(held[s], c, x)
<1>2. /\ r \in Seq(Conn) /\ (r = <<>> <=> held[s] = <<>>)
      /\ ToSet(r) = IF c \in ToSet(held[s]) THEN (ToSet(held[s]) \ {c}) \cup {x} ELSE ToSet(held[s])
      /\ \A d : d # x /\ Once(held[s], d) => Once(r, d)
  BY <1>1, Replaced
<1>3. held' = [held EXCEPT ![s] = r]
  OBVIOUS
<1> HIDE DEF r
<1>4. \A d : d.kind # "gone" => d # c /\ d # x
  OBVIOUS
<1>5. \A d : d.kind # "gone" => (d \in ToSet(r) <=> d \in ToSet(held[s]))
  BY <1>2, <1>4
<1>6. held' \in [Nodes -> Seq(Conn)]
  BY <1>1, <1>2, <1>3
<1>7. held'[s] = r /\ \A k \in Nodes : k # s => held'[k] = held[k]
  BY <1>1, <1>3
<1> QED BY <1>2, <1>4, <1>5, <1>6, <1>7 DEF OthersHeld

(* A HELLO that is left comes from a node that has got no further, and not from its receiver. *)
LEMMA LeftHelloIs ==
    ASSUME IInv, NEW s \in Nodes, NEW n \in Nodes, NEW id \in 1 .. crashes,
           Gone(n, "hello", id) \in ToSet(held[s]) \cup ToSet(queue[s]) \cup ToSet(turn[s])
    PROVE  /\ Gone(n, "hello", id) \in Left
           /\ s = SeedOf[n] /\ s # n /\ mode[n] \notin {"list", "up"} /\ ans[n].kind = "none"
           /\ mode[n] = "hello" => ask[n] = "hello" /\ Connected(n)
<1> DEFINE g == Gone(n, "hello", id)
<1>1. crashes \in Nat
  BY CrashesAre DEF IInv, Core
<1>2. g \in Left /\ g.from = n
  BY <1>1, GoneIs DEF Left
<1> HIDE DEF g
<1>3. g \in ToSet(queue[s]) \cup ToSet(held[s])
  BY <1>2 DEF IInv, LeftOnce, g
<1>4. /\ s = SeedOf[n] /\ mode[n] \notin {"list", "up"} /\ ans[n].kind = "none"
      /\ mode[n] = "hello" => ask[n] = "hello" /\ Connected(n)
  BY <1>2, <1>3 DEF IInv, LeftOnce
<1>5. s # n
  BY <1>4, LayoutGives DEF IInv, Core
<1> QED BY <1>2, <1>4, <1>5 DEF g

(* The HELLO of a node that has crashed tells of a node that does not listen. *)
LEMMA HelloOfGoneKeeps ==
    ASSUME IInv, NEW s \in Nodes, NEW n \in Nodes, NEW id \in 1 .. crashes, HelloOfGone(s, n, id)
    PROVE  Core'
<1> DEFINE c == Gone(n, "hello", id)
           x == Gone(n, "end", id)
<1>1. /\ Dispatched(s, c) /\ Received(s, JoinOf(n))
      /\ known' = [known EXCEPT ![s] = Introduced(s, n)] /\ queue' = Announcing(s, n)
      /\ held' = [held EXCEPT ![s] = ReplaceAll(held[s], c, x)]
      /\ UNCHANGED <<layout, mode, ntoa, ask, ans, crashes>>
  BY DEF HelloOfGone
<1>2. Core
  BY DEF IInv
<1>3. c \in Conn /\ c.kind = "gone" /\ c \in ToSet(turn[s]) /\ Noted(s)
  BY <1>1, <1>2, GoneDispatched
<1>4. s # n /\ mode[n] # "up"
  BY <1>3, LeftHelloIs
<1>5. x \in Conn /\ x.kind = "gone" /\ c # x
  <2>1. id \in Nat
    BY <1>2, CrashesAre DEF Core
  <2>2. c.gives # x.gives
    BY GoneIs
  <2> QED BY <2>1, <2>2, GoneIs
<1> HIDE DEF c, x
<1>6. OthersHeld
  BY <1>1, <1>2, <1>3, <1>5, NotingEnd
<1>7. JoinOf(n) \in {y \in Conn : y.kind # "gone"} \cup {Nobody}
  BY ConnIs
<1>8. input' \in [Nodes -> {y \in Conn : y.kind # "gone"} \cup {Nobody}]
  BY <1>1, <1>2, <1>7, ReceivedIs DEF Core
<1>9. /\ ask' \in [Nodes -> {"none", "hello", "list"}] /\ DOMAIN ans' = Nodes
      /\ \A m \in Nodes : ans'[m] \in Answers /\ (ans[m].kind # "list" => ans'[m].kind # "list")
  BY <1>1, <1>2 DEF Core, TypeOK
<1>10. AskInv'
  BY <1>1, <1>2 DEF Core, AskInv, SeedOf
<1> QED BY <1>1, <1>2, <1>3, <1>4, <1>6, <1>8, <1>9, <1>10, IntroducingKeeps

(* So does one that is handled again. *)
LEMMA HelloAgainKeeps ==
    ASSUME IInv, NEW s \in Nodes, NEW n \in Nodes, NEW id \in 1 .. crashes, HelloAgain(s, n, id)
    PROVE  Core'
<1> DEFINE c == Gone(n, "end", id)
           x == Gone(n, "reset", id)
<1>1. /\ Dispatched(s, c)
      /\ held' = [held EXCEPT ![s] = ReplaceAll(held[s], c, x)]
      /\ UNCHANGED <<layout, mode, ntoa, ask, ans, input, crashes>>
  BY DEF HelloAgain
<1>2. PICK m \in Nodes : /\ input[s] = JoinOf(m)
                         /\ known' = [known EXCEPT ![s] = Introduced(s, m)]
                         /\ queue' = Announcing(s, m)
  BY DEF HelloAgain
<1>3. Core
  BY DEF IInv
<1>4. c \in Conn /\ c.kind = "gone" /\ c \in ToSet(turn[s]) /\ Noted(s) /\ mode[s] = "up"
  BY <1>1, <1>3, GoneDispatched
<1>5. mode[m] # "up"
  BY <1>2, ConnIs, NobodyConnects DEF IInv, InputInv
<1>6. s # m
  BY <1>4, <1>5
<1>7. x \in Conn /\ x.kind = "gone" /\ c # x
  <2>1. id \in Nat
    BY <1>3, CrashesAre DEF Core
  <2>2. c.gives # x.gives
    BY GoneIs
  <2> QED BY <2>1, <2>2, GoneIs
<1> HIDE DEF c, x
<1>8. OthersHeld
  BY <1>1, <1>3, <1>4, <1>7, NotingEnd
<1>9. /\ input' \in [Nodes -> {y \in Conn : y.kind # "gone"} \cup {Nobody}]
      /\ ask' \in [Nodes -> {"none", "hello", "list"}] /\ DOMAIN ans' = Nodes
      /\ \A k \in Nodes : ans'[k] \in Answers /\ (ans[k].kind # "list" => ans'[k].kind # "list")
  BY <1>1, <1>3 DEF Core, TypeOK
<1>10. AskInv'
  BY <1>1, <1>3 DEF Core, AskInv, SeedOf
<1> QED BY <1>1, <1>2, <1>3, <1>4, <1>5, <1>6, <1>8, <1>9, <1>10, IntroducingKeeps

(* What a crash makes of the connection of a node that joins. *)
LEMMA CrashLeaves ==
    ASSUME Core, NEW n \in Nodes, CrashJoining(n)
    PROVE  /\ SeedOf[n] \in Nodes /\ SeedOf[n] # n /\ mode[n] \in {"hello", "list"}
           /\ \E gives \in {"hello", "list", "end", "reset"} :
                 LET x == Gone(n, gives, crashes + 1) IN
                 /\ gives = "hello" => ask[n] = "hello"
                 /\ gives \in {"hello", "list"} => ask[n] = gives
                 /\ x \in Conn /\ x.kind = "gone" /\ x.from = n /\ x.id = crashes + 1 /\ x # JoinOf(n)
                 /\ queue' = [queue EXCEPT ![SeedOf[n]] = ReplaceAll(queue[SeedOf[n]], JoinOf(n), x)]
                 /\ held' = [held EXCEPT ![SeedOf[n]] = ReplaceAll(held[SeedOf[n]], JoinOf(n), x)]
                 /\ turn' = [turn EXCEPT ![SeedOf[n]] = ReplaceAll(turn[SeedOf[n]], JoinOf(n), x)]
<1>1. mode[n] \in {"hello", "list"}
  BY DEF CrashJoining
<1>2. SeedOf[n] \in Nodes /\ SeedOf[n] # n
  BY <1>1, LayoutGives DEF Core, AskInv
<1>3. PICK gives \in IF ask[n] = "none" THEN {"end", "reset"} ELSE {ask[n]} :
          /\ queue' = [queue EXCEPT ![SeedOf[n]] =
                          ReplaceAll(queue[SeedOf[n]], JoinOf(n), Gone(n, gives, crashes + 1))]
          /\ held' = [held EXCEPT ![SeedOf[n]] =
                          ReplaceAll(held[SeedOf[n]], JoinOf(n), Gone(n, gives, crashes + 1))]
          /\ turn' = [turn EXCEPT ![SeedOf[n]] =
                          ReplaceAll(turn[SeedOf[n]], JoinOf(n), Gone(n, gives, crashes + 1))]
  BY DEF CrashJoining
<1>4. ask[n] \in {"none", "hello", "list"}
  BY NodeTypes DEF Core
<1>5. gives \in {"hello", "list", "end", "reset"} /\ (gives \in {"hello", "list"} => ask[n] = gives)
  BY <1>3, <1>4
<1>6. crashes + 1 \in Nat
  BY CrashesAre DEF Core
<1> DEFINE x == Gone(n, gives, crashes + 1)
<1>7. x \in Conn /\ x.kind = "gone" /\ x.from = n /\ x.id = crashes + 1 /\ x # JoinOf(n)
  BY <1>5, <1>6, GoneIs
<1> QED BY <1>1, <1>2, <1>3, <1>5, <1>7

(* What is not there comes at most once. *)
LEMMA NotInOnce ==
    ASSUME NEW S, NEW q \in Seq(S), NEW d, d \notin ToSet(q)
    PROVE  Once(q, d)
<1>1. ToSet(q) = {q[i] : i \in 1 .. Len(q)}
  BY ToSetIs
<1> QED BY <1>1 DEF Once

(* In r there is x where c was in q. *)
Instead(q, r, c, x) ==
    /\ ToSet(r) = IF c \in ToSet(q) THEN (ToSet(q) \ {c}) \cup {x} ELSE ToSet(q)
    /\ r = <<>> <=> q = <<>>
    /\ q # <<>> => Head(r) = IF Head(q) = c THEN x ELSE Head(q)
    /\ \A d : d # x /\ Once(q, d) => Once(r, d)
    /\ Once(q, c) /\ x \notin ToSet(q) => Once(r, x)
    /\ \A b, d : b # c /\ d # x /\ Ahead(q, b, d) => Ahead(r, b, d)

(* So each of the seed's sequences has what is left in the place of the connection. *)
LEMMA InsteadIs ==
    ASSUME TypeOK, NEW s \in Nodes, NEW c, NEW x \in Conn, c # x,
           queue' = [queue EXCEPT ![s] = ReplaceAll(queue[s], c, x)],
           held' = [held EXCEPT ![s] = ReplaceAll(held[s], c, x)],
           turn' = [turn EXCEPT ![s] = ReplaceAll(turn[s], c, x)]
    PROVE  /\ queue' \in [Nodes -> Seq(Conn)] /\ held' \in [Nodes -> Seq(Conn)]
           /\ turn' \in [Nodes -> Seq(Conn \cup {TheAccept})]
           /\ \A k \in Nodes : k # s => /\ queue'[k] = queue[k] /\ held'[k] = held[k]
                                        /\ turn'[k] = turn[k]
           /\ Instead(queue[s], queue'[s], c, x) /\ Instead(held[s], held'[s], c, x)
           /\ Instead(turn[s], turn'[s], c, x)
<1>1. /\ queue \in [Nodes -> Seq(Conn)] /\ held \in [Nodes -> Seq(Conn)]
      /\ turn \in [Nodes -> Seq(Conn \cup {TheAccept})]
  BY DEF TypeOK
<1> DEFINE q == ReplaceAll(queue[s], c, x)
           h == ReplaceAll(held[s], c, x)
           t == ReplaceAll(turn[s], c, x)
<1>2. q \in Seq(Conn) /\ Instead(queue[s], q, c, x)
  BY <1>1, Replaced DEF Instead
<1>3. h \in Seq(Conn) /\ Instead(held[s], h, c, x)
  BY <1>1, Replaced DEF Instead
<1>4. t \in Seq(Conn \cup {TheAccept}) /\ Instead(turn[s], t, c, x)
  BY <1>1, Replaced DEF Instead
<1>5. queue' = [queue EXCEPT ![s] = q] /\ held' = [held EXCEPT ![s] = h]
      /\ turn' = [turn EXCEPT ![s] = t]
  OBVIOUS
<1> HIDE DEF q, h, t
<1> QED BY <1>1, <1>2, <1>3, <1>4, <1>5

(* A node crashes while it joins. *)
LEMMA CrashJoiningKeeps == ASSUME Core, NEW n \in Nodes, CrashJoining(n) PROVE Core'
<1> DEFINE s == SeedOf[n]
           c == JoinOf(n)
<1>1. /\ mode' = [mode EXCEPT ![n] = "dead"] /\ ask' = [ask EXCEPT ![n] = "none"]
      /\ ans' = [ans EXCEPT ![n] = NoAnswer] /\ crashes' = crashes + 1
      /\ crashes < layout.crashes
      /\ UNCHANGED <<layout, known, ntoa, input>>
  BY DEF CrashJoining
<1>2. PICK gives \in {"hello", "list", "end", "reset"} :
          LET x == Gone(n, gives, crashes + 1) IN
          /\ x \in Conn /\ x.kind = "gone" /\ x # c
          /\ queue' = [queue EXCEPT ![s] = ReplaceAll(queue[s], c, x)]
          /\ held' = [held EXCEPT ![s] = ReplaceAll(held[s], c, x)]
          /\ turn' = [turn EXCEPT ![s] = ReplaceAll(turn[s], c, x)]
  BY CrashLeaves
<1> DEFINE x == Gone(n, gives, crashes + 1)
<1>3. s \in Nodes /\ s # n /\ mode[n] \in {"hello", "list"} /\ mode[n] # "up"
  BY CrashLeaves
<1>4. x \in Conn /\ x.kind = "gone" /\ x # c
  BY <1>2
<1> HIDE DEF x, s
<1>5. /\ queue' \in [Nodes -> Seq(Conn)] /\ held' \in [Nodes -> Seq(Conn)]
      /\ turn' \in [Nodes -> Seq(Conn \cup {TheAccept})]
      /\ \A k \in Nodes : k # s => queue'[k] = queue[k] /\ held'[k] = held[k] /\ turn'[k] = turn[k]
      /\ Instead(queue[s], queue'[s], c, x) /\ Instead(held[s], held'[s], c, x)
      /\ Instead(turn[s], turn'[s], c, x)
  BY <1>2, <1>3, <1>4, InsteadIs DEF Core, x
<1>6. \A k \in Nodes : /\ queue'[k] = <<>> <=> queue[k] = <<>>
                       /\ held'[k] = <<>> <=> held[k] = <<>>
                       /\ turn'[k] = <<>> <=> turn[k] = <<>>
  BY <1>5 DEF Instead
<1>7. \A k \in Nodes : \A d : d # x /\ d # c =>
          /\ d \in ToSet(queue'[k]) <=> d \in ToSet(queue[k])
          /\ d \in ToSet(held'[k]) <=> d \in ToSet(held[k])
          /\ d \in ToSet(turn'[k]) <=> d \in ToSet(turn[k])
          /\ Once(queue[k], d) => Once(queue'[k], d)
          /\ Once(held[k], d) => Once(held'[k], d)
          /\ Once(turn[k], d) => Once(turn'[k], d)
  BY <1>5 DEF Instead
<1>8. x # TheAccept /\ c # TheAccept /\ c.kind = "join" /\ \A m : JoinOf(m) # x
  BY <1>4, ConnIs
<1>9. TypeOK'
  <2>1. crashes' \in 0 .. layout'.crashes
    BY <1>1, CrashesAre DEF Core
  <2>2. mode' \in [Nodes -> {"down", "hello", "list", "up", "dead", "wild"}]
    BY <1>1 DEF Core, TypeOK
  <2>3. DOMAIN ans' = Nodes /\ \A m \in Nodes : ans'[m] \in Answers
    BY <1>1, AnswerIs DEF Core, TypeOK
  <2> QED BY <1>1, <1>5, <2>1, <2>2, <2>3 DEF Core, TypeOK
<1>10. \A k \in Nodes : mode'[k] = IF k = n THEN "dead" ELSE mode[k]
  BY <1>1 DEF Core, TypeOK
<1>11. Quiet'
  BY <1>3, <1>6, <1>10 DEF Core, Quiet
<1>12. TurnInv'
  <2> SUFFICES ASSUME NEW k \in Nodes
               PROVE  /\ Once(turn'[k], TheAccept)
                      /\ TheAccept \in ToSet(turn'[k]) =>
                            Head(turn'[k]) = TheAccept /\ queue'[k] # <<>>
    BY DEF TurnInv
  <2>1. /\ Once(turn[k], TheAccept)
        /\ TheAccept \in ToSet(turn[k]) => Head(turn[k]) = TheAccept /\ queue[k] # <<>>
    BY DEF Core, TurnInv
  <2>2. Once(turn'[k], TheAccept) /\ (TheAccept \in ToSet(turn'[k]) <=> TheAccept \in ToSet(turn[k]))
    BY <1>7, <1>8, <2>1
  <2>3. ASSUME TheAccept \in ToSet(turn[k]) PROVE Head(turn'[k]) = TheAccept
    <3>1. turn[k] # <<>>
      BY <2>3, EmptyIs
    <3>2. CASE k = s
      BY <1>5, <1>8, <2>1, <2>3, <3>1, <3>2 DEF Instead
    <3>3. CASE k # s
      BY <1>5, <2>1, <2>3, <3>3
    <3> QED BY <3>2, <3>3
  <2> QED BY <1>6, <2>1, <2>2, <2>3
<1>13. NotedInv'
  <2> SUFFICES ASSUME NEW k \in Nodes, held'[k] # <<>> \/ ToSet(turn'[k]) \ {TheAccept} # {}
               PROVE  Noted(k)
    BY <1>1 DEF NotedInv, Noted, Host
  <2>1. CASE k = s
    <3>1. ToSet(turn[k]) \ {TheAccept} = {} => ToSet(turn'[k]) \ {TheAccept} = {}
      BY <1>5, <1>8, <2>1 DEF Instead
    <3> QED BY <1>6, <3>1 DEF Core, NotedInv
  <2>2. CASE k # s
    BY <1>5, <2>2 DEF Core, NotedInv
  <2> QED BY <2>1, <2>2
<1>14. AskInv'
  BY <1>1, AnswerIs DEF Core, TypeOK, AskInv, SeedOf
<1>15. JoinsOnce'
  <2> SUFFICES ASSUME NEW k \in Nodes, NEW m \in Nodes
               PROVE  /\ Once(queue'[k], JoinOf(m)) /\ Once(held'[k], JoinOf(m))
                      /\ Once(turn'[k], JoinOf(m))
                      /\ JoinOf(m) \notin ToSet(queue'[k]) \cap ToSet(held'[k])
                      /\ JoinOf(m) \in ToSet(turn'[k]) => JoinOf(m) \in ToSet(held'[k])
                      /\ JoinOf(m) \in ToSet(queue'[k]) \cup ToSet(held'[k]) =>
                            k = SeedOf[m] /\ mode'[m] \in {"hello", "list"} /\ ans'[m].kind # "list"
    BY <1>1 DEF JoinsOnce, SeedOf
  <2>1. /\ Once(queue[k], JoinOf(m)) /\ Once(held[k], JoinOf(m)) /\ Once(turn[k], JoinOf(m))
        /\ JoinOf(m) \notin ToSet(queue[k]) \cap ToSet(held[k])
        /\ JoinOf(m) \in ToSet(turn[k]) => JoinOf(m) \in ToSet(held[k])
        /\ JoinOf(m) \in ToSet(queue[k]) \cup ToSet(held[k]) =>
              k = SeedOf[m] /\ mode[m] \in {"hello", "list"} /\ ans[m].kind # "list"
    BY DEF Core, JoinsOnce
  <2>2. CASE m # n
    <3>1. JoinOf(m) # c /\ JoinOf(m) # x
      BY <1>8, <2>2, ConnIs
    <3>2. ans'[m] = ans[m] /\ mode'[m] = mode[m]
      BY <1>1, <1>10, <2>2
    <3> QED BY <1>7, <2>1, <3>1, <3>2
  <2>3. CASE m = n
    <3>1. JoinOf(m) \notin ToSet(queue'[k]) \cup ToSet(held'[k]) \cup ToSet(turn'[k])
      <4>1. CASE k = s
        BY <1>4, <1>5, <2>3, <4>1 DEF Instead
      <4>2. CASE k # s
        BY <1>5, <2>1, <2>3, <4>2 DEF s
      <4> QED BY <4>1, <4>2
    <3>2. queue'[k] \in Seq(Conn) /\ held'[k] \in Seq(Conn) /\ turn'[k] \in Seq(Conn \cup {TheAccept})
      BY <1>5
    <3>3. Once(queue'[k], JoinOf(m)) /\ Once(held'[k], JoinOf(m)) /\ Once(turn'[k], JoinOf(m))
      BY <3>1, <3>2, NotInOnce
    <3> QED BY <3>1, <3>3
  <2> QED BY <2>2, <2>3
<1>16. NewsOfOthers'
  <2>1. \A k \in Nodes : \A d : d.kind = "push" => d # x /\ d # c
    BY <1>4, <1>8
  <2> QED BY <1>7, <2>1 DEF Core, NewsOfOthers, Pushes, Carried
<1>17. (layout.clean => NoSelf)'
  BY <1>1 DEF Core, NoSelf, NamesIn, Entries
<1> QED BY <1>9, <1>11, <1>12, <1>13, <1>14, <1>15, <1>16, <1>17 DEF Core

(* What else the inductive invariant says. *)
Remains == NoneGone /\ LeftOnce /\ LeftFirst /\ InputInv

(* In r, the HELLOs that are left are some of those in q, and in the same order to the others. *)
Kept(q, r) ==
    \A g \in Left :
        /\ g \in ToSet(r) => g \in ToSet(q)
        /\ Once(q, g) => Once(r, g)
        /\ \A m \in Nodes : g \in ToSet(r) /\ Ahead(q, g, JoinOf(m)) => Ahead(r, g, JoinOf(m))

(* No HELLO that is left is an accept or another kind of connection. *)
LEMMA LeftIs ==
    \A g \in Left : /\ g \in Conn /\ g.kind = "gone" /\ g.gives = "hello" /\ g.from \in Nodes
                    /\ g # TheAccept /\ \A m : g # JoinOf(m)
<1> SUFFICES ASSUME NEW g \in Left
             PROVE  /\ g \in Conn /\ g.kind = "gone" /\ g.gives = "hello" /\ g.from \in Nodes
                    /\ g # TheAccept /\ \A m : g # JoinOf(m)
  OBVIOUS
<1>1. g \in Conn /\ g.kind = "gone" /\ g.gives = "hello"
  BY DEF Left
<1> QED BY <1>1, ConnIs

(* Where nothing changes, or nothing is left, *)
LEMMA KeptSame ==
    ASSUME NEW q
    PROVE  Kept(q, q) /\ Kept(q, <<>>)
<1>1. \A g, m : Ahead(<<>>, g, m)
  BY EmptySeq DEF Ahead
<1> QED BY <1>1, EmptyIs DEF Kept

(* when another connection is dropped, *)
LEMMA KeptDropped ==
    ASSUME NEW q \in Seq(Conn), NEW c, c \notin Left
    PROVE  Kept(q, RemoveFirst(q, c))
<1>1. /\ ToSet(RemoveFirst(q, c)) \subseteq ToSet(q)
      /\ \A d : Once(q, d) => Once(RemoveFirst(q, c), d)
      /\ \A b, d : b # c /\ Ahead(q, b, d) => Ahead(RemoveFirst(q, c), b, d)
  BY FirstRemoved
<1> QED BY <1>1 DEF Kept

(* when a connection is replaced by what is none of these, *)
LEMMA KeptReplaced ==
    ASSUME NEW q, NEW r, NEW c, NEW x \in Conn, c # x, x \notin Left, x.kind # "join",
           Instead(q, r, c, x)
    PROVE  Kept(q, r)
<1>1. /\ ToSet(r) = IF c \in ToSet(q) THEN (ToSet(q) \ {c}) \cup {x} ELSE ToSet(q)
      /\ \A d : d # x /\ Once(q, d) => Once(r, d)
      /\ \A b, d : b # c /\ d # x /\ Ahead(q, b, d) => Ahead(r, b, d)
  BY DEF Instead
<1>2. \A m : JoinOf(m) # x
  BY ConnIs
<1> SUFFICES ASSUME NEW g \in Left
             PROVE  /\ g \in ToSet(r) => g \in ToSet(q)
                    /\ Once(q, g) => Once(r, g)
                    /\ \A m \in Nodes : g \in ToSet(r) /\ Ahead(q, g, JoinOf(m))
                                            => Ahead(r, g, JoinOf(m))
  BY DEF Kept
<1>3. g # x
  OBVIOUS
<1>4. g \in ToSet(r) => g \in ToSet(q)
  BY <1>1, <1>3
<1>5. g \in ToSet(r) => g # c
  BY <1>1, <1>3
<1> QED BY <1>1, <1>2, <1>3, <1>4, <1>5

(* and when there are more pushes. *)
LEMMA KeptGrown ==
    ASSUME NEW q, Grown(q), NEW k \in Nodes
    PROVE  Kept(queue[k], q[k])
<1>1. \A m : JoinOf(m).kind # "push"
  BY ConnIs
<1> QED BY <1>1, LeftIs DEF Kept, Grown

(* What is left of a turn has them in the same order, and only those that are held. *)
KeptTurn(k) ==
    \A g \in Left :
        /\ Once(turn[k], g) => Once(turn'[k], g)
        /\ g \in ToSet(turn'[k]) => g \in ToSet(held'[k])
        /\ \A m \in Nodes : g \in ToSet(held'[k]) /\ Ahead(turn[k], g, JoinOf(m))
                               => Ahead(turn'[k], g, JoinOf(m))

(* That is so when a connection is dispatched, and done with if it is one of them. *)
LEMMA KeptDispatching ==
    ASSUME IInv, NEW s \in Nodes, NEW c, Dispatched(s, c),
           \A k \in Nodes : \A g \in Left : g \in ToSet(held[k]) /\ ~(k = s /\ g = c)
                                              => g \in ToSet(held'[k]),
           c \in Left => c \notin ToSet(held'[s]),
           NEW k \in Nodes
    PROVE  KeptTurn(k)
<1>1. turn[s] # <<>> /\ c = Head(turn[s]) /\ turn' = [turn EXCEPT ![s] = Tail(turn[s])]
  BY DEF Dispatched
<1>2. turn \in [Nodes -> Seq(Conn \cup {TheAccept})]
  BY DEF IInv, Core, TypeOK
<1>3. turn'[s] = Tail(turn[s]) /\ (k # s => turn'[k] = turn[k])
  BY <1>1, <1>2
<1>4. ASSUME NEW g \in Left
      PROVE  Once(turn[k], g) /\ (g \in ToSet(turn[k]) => g \in ToSet(held[k]))
  BY DEF IInv, LeftOnce
<1>5. CASE k # s
  BY <1>3, <1>4, <1>5 DEF KeptTurn
<1>6. CASE k = s
  <2>1. /\ ToSet(turn[s]) = ToSet(Tail(turn[s])) \cup {c}
        /\ \A d : Once(turn[s], d) => Once(Tail(turn[s]), d)
        /\ Once(turn[s], c) => c \notin ToSet(Tail(turn[s]))
    BY <1>1, <1>2, TailOf
  <2> SUFFICES ASSUME NEW g \in Left
               PROVE  /\ Once(turn'[s], g)
                      /\ g \in ToSet(turn'[s]) => g \in ToSet(held'[s])
                      /\ \A m \in Nodes : g \in ToSet(held'[s]) /\ Ahead(turn[s], g, JoinOf(m))
                                             => Ahead(turn'[s], g, JoinOf(m))
    BY <1>6 DEF KeptTurn
  <2>2. Once(turn'[s], g) /\ (g \in ToSet(turn'[s]) => g \in ToSet(held'[s]))
    BY <1>3, <1>4, <1>6, <2>1
  <2>3. ASSUME NEW m \in Nodes, g \in ToSet(held'[s]), Ahead(turn[s], g, JoinOf(m))
        PROVE  Ahead(turn'[s], g, JoinOf(m))
    <3>1. g # Head(turn[s])
      BY <1>1, <2>3
    <3>2. turn[s] \in Seq(Conn \cup {TheAccept})
      BY <1>2
    <3>3. Ahead(Tail(turn[s]), g, JoinOf(m))
      BY <1>1, <2>3, <3>1, <3>2, AheadInTail
    <3> QED BY <1>3, <3>3
  <2> QED BY <2>2, <2>3
<1> QED BY <1>5, <1>6

(* So HELLOs that are left stay what they were. *)
LEMMA LeftKept ==
    ASSUME IInv, layout' = layout, crashes \in Nat, crashes' \in Nat, crashes <= crashes',
           \A k \in Nodes : Kept(queue[k], queue'[k]) /\ Kept(held[k], held'[k]) /\ KeptTurn(k),
           \A k, m \in Nodes : JoinOf(m) \in ToSet(held'[k]) => JoinOf(m) \in ToSet(held[k]),
           \A n \in Nodes : \A g \in Left :
               g.from = n /\ SeedOf[n] \in Nodes
               /\ g \in ToSet(queue'[SeedOf[n]]) \cup ToSet(held'[SeedOf[n]]) =>
                   /\ mode'[n] \notin {"list", "up"} /\ ans'[n].kind = "none"
                   /\ mode'[n] = "hello" => ask'[n] = "hello" /\ Connected(n)'
    PROVE  LeftOnce' /\ LeftFirst'
<1>1. ASSUME NEW k \in Nodes, NEW g \in Left
      PROVE  /\ Once(queue[k], g) /\ Once(held[k], g) /\ Once(turn[k], g)
             /\ g \notin ToSet(queue[k]) \cap ToSet(held[k])
             /\ g \in ToSet(turn[k]) => g \in ToSet(held[k])
             /\ g \in ToSet(queue[k]) \cup ToSet(held[k]) => k = SeedOf[g.from] /\ g.id <= crashes
             /\ g \in ToSet(held[k]) =>
                   Ahead(held[k], g, JoinOf(g.from)) /\ Ahead(turn[k], g, JoinOf(g.from))
             /\ g \in ToSet(queue[k]) =>
                   Ahead(queue[k], g, JoinOf(g.from)) /\ JoinOf(g.from) \notin ToSet(held[k])
             /\ g.from \in Nodes /\ g.id \in Nat
  BY GoneIs, LeftIs DEF IInv, LeftOnce, LeftFirst
<1>2. ASSUME NEW k \in Nodes, NEW g \in Left
      PROVE  /\ g \in ToSet(queue'[k]) => g \in ToSet(queue[k])
             /\ g \in ToSet(held'[k]) => g \in ToSet(held[k])
             /\ Once(queue'[k], g) /\ Once(held'[k], g) /\ Once(turn'[k], g)
             /\ g \in ToSet(turn'[k]) => g \in ToSet(held'[k])
  BY <1>1 DEF Kept, KeptTurn
<1>3. LeftOnce'
  <2> SUFFICES ASSUME NEW k \in Nodes, NEW g \in Left
               PROVE  /\ Once(queue'[k], g) /\ Once(held'[k], g) /\ Once(turn'[k], g)
                      /\ g \notin ToSet(queue'[k]) \cap ToSet(held'[k])
                      /\ g \in ToSet(turn'[k]) => g \in ToSet(held'[k])
                      /\ g \in ToSet(queue'[k]) \cup ToSet(held'[k]) =>
                            /\ k = SeedOf'[g.from] /\ g.id <= crashes'
                            /\ mode'[g.from] \notin {"list", "up"} /\ ans'[g.from].kind = "none"
                            /\ mode'[g.from] = "hello" =>
                                  ask'[g.from] = "hello" /\ Connected(g.from)'
    BY DEF LeftOnce
  <2>1. SeedOf' = SeedOf
    BY DEF SeedOf
  <2>2. ASSUME g \in ToSet(queue'[k]) \cup ToSet(held'[k])
        PROVE  /\ k = SeedOf[g.from] /\ g.id <= crashes'
               /\ mode'[g.from] \notin {"list", "up"} /\ ans'[g.from].kind = "none"
               /\ mode'[g.from] = "hello" => ask'[g.from] = "hello" /\ Connected(g.from)'
    <3>1. k = SeedOf[g.from] /\ g.id <= crashes /\ g.from \in Nodes /\ g.id \in Nat
      BY <1>1, <1>2, <2>2
    <3>2. g.id <= crashes'
      BY <3>1
    <3> QED BY <2>2, <3>1, <3>2
  <2> QED BY <1>1, <1>2, <2>1, <2>2
<1>4. LeftFirst'
  <2> SUFFICES ASSUME NEW k \in Nodes, NEW g \in Left
               PROVE  /\ g \in ToSet(held'[k]) =>
                            /\ Ahead(held'[k], g, JoinOf(g.from))
                            /\ Ahead(turn'[k], g, JoinOf(g.from))
                      /\ g \in ToSet(queue'[k]) =>
                            /\ Ahead(queue'[k], g, JoinOf(g.from))
                            /\ JoinOf(g.from) \notin ToSet(held'[k])
    BY DEF LeftFirst
  <2> QED BY <1>1, <1>2 DEF Kept, KeptTurn
<1> QED BY <1>3, <1>4

(* What a HELLO in the buffer tells of its sender. *)
LEMMA InputIs ==
    ASSUME IInv, NEW s \in Nodes, NEW m \in Nodes, input[s] = JoinOf(m)
    PROVE  /\ SeedOf[m] = s /\ mode[s] = "up" /\ mode[m] # "up" /\ ans[m].kind # "list"
           /\ mode[m] \in {"hello", "list"} => Connected(m)
<1>1. input[s] # Nobody
  BY ConnIs, NobodyConnects
<1> QED BY <1>1 DEF IInv, InputInv

(* What an unread HELLO tells of its sender. *)
LEMMA LeftFrom ==
    ASSUME IInv, NEW s \in Nodes, NEW g \in Left,
           g \in ToSet(queue[s]) \cup ToSet(held[s]) \cup ToSet(turn[s])
    PROVE  /\ s = SeedOf[g.from] /\ s # g.from /\ mode[s] = "up"
           /\ mode[g.from] \notin {"list", "up"} /\ ans[g.from].kind = "none"
           /\ mode[g.from] = "hello" => ask[g.from] = "hello" /\ Connected(g.from)
<1>1. g \in ToSet(queue[s]) \cup ToSet(held[s]) /\ g.from \in Nodes
  BY LeftIs DEF IInv, LeftOnce
<1>2. /\ s = SeedOf[g.from] /\ mode[g.from] \notin {"list", "up"} /\ ans[g.from].kind = "none"
      /\ mode[g.from] = "hello" => ask[g.from] = "hello" /\ Connected(g.from)
  BY <1>1 DEF IInv, LeftOnce
<1>3. s # g.from
  BY <1>1, <1>2, LayoutGives DEF IInv, Core
<1>4. mode[s] = "up"
  BY <1>1, EmptyIs DEF IInv, Core, Quiet
<1> QED BY <1>2, <1>3, <1>4

(* A step of a node that does not serve leaves what there is of other nodes. *)
LEMMA RemainsRest ==
    ASSUME IInv, NEW n \in Nodes, mode[n] # "up",
           layout' = layout, queue' = queue, held' = held, turn' = turn, input' = input,
           crashes' = crashes,
           \A k \in Nodes : k # n => mode'[k] = mode[k] /\ ask'[k] = ask[k] /\ ans'[k] = ans[k],
           \A g \in Left : g.from = n /\ SeedOf[n] \in Nodes
                           /\ g \in ToSet(queue[SeedOf[n]]) \cup ToSet(held[SeedOf[n]]) =>
               /\ mode'[n] \notin {"list", "up"} /\ ans'[n].kind = "none"
               /\ mode'[n] = "hello" => ask'[n] = "hello" /\ Connected(n),
           SeedOf[n] \in Nodes /\ input[SeedOf[n]] = JoinOf(n) =>
               /\ mode'[n] # "up" /\ ans'[n].kind # "list"
               /\ mode'[n] \in {"hello", "list"} => Connected(n)
    PROVE  Remains'
<1>1. SeedOf' = SeedOf /\ \A m : Connected(m)' <=> Connected(m)
  BY DEF SeedOf, Connected
<1>2. NoneGone'
  BY DEF IInv, NoneGone, Carried
<1>3. LeftOnce' /\ LeftFirst'
  <2>1. \A g \in Left, s \in Nodes : g \in ToSet(queue[s]) \cup ToSet(held[s]) =>
            /\ mode'[g.from] \notin {"list", "up"} /\ ans'[g.from].kind = "none"
            /\ mode'[g.from] = "hello" => ask'[g.from] = "hello" /\ Connected(g.from)
    <3> SUFFICES ASSUME NEW g \in Left, NEW s \in Nodes, g \in ToSet(queue[s]) \cup ToSet(held[s])
                 PROVE  /\ mode'[g.from] \notin {"list", "up"} /\ ans'[g.from].kind = "none"
                        /\ mode'[g.from] = "hello" => ask'[g.from] = "hello" /\ Connected(g.from)
      OBVIOUS
    <3>1. /\ s = SeedOf[g.from]
          /\ mode[g.from] \notin {"list", "up"} /\ ans[g.from].kind = "none"
          /\ mode[g.from] = "hello" => ask[g.from] = "hello" /\ Connected(g.from)
      BY LeftFrom
    <3>2. g.from \in Nodes
      BY LeftIs
    <3> QED BY <3>1, <3>2
  <2>2. LeftOnce'
    <3> SUFFICES ASSUME NEW s \in Nodes, NEW g \in Left
                 PROVE  /\ Once(queue[s], g) /\ Once(held[s], g) /\ Once(turn[s], g)
                        /\ g \notin ToSet(queue[s]) \cap ToSet(held[s])
                        /\ g \in ToSet(turn[s]) => g \in ToSet(held[s])
                        /\ g \in ToSet(queue[s]) \cup ToSet(held[s]) =>
                              /\ s = SeedOf[g.from] /\ g.id <= crashes
                              /\ mode'[g.from] \notin {"list", "up"} /\ ans'[g.from].kind = "none"
                              /\ mode'[g.from] = "hello" =>
                                    ask'[g.from] = "hello" /\ Connected(g.from)
      BY <1>1 DEF LeftOnce
    <3> QED BY <2>1 DEF IInv, LeftOnce
  <2>3. LeftFirst'
    BY DEF IInv, LeftFirst
  <2> QED BY <2>2, <2>3
<1>4. InputInv'
  <2> SUFFICES ASSUME NEW s \in Nodes, input[s] # Nobody
               PROVE  /\ mode'[s] = "up"
                      /\ input[s].kind = "push" => input[s].what.name # s
                      /\ \A m \in Nodes : input[s] = JoinOf(m) =>
                            /\ SeedOf[m] = s /\ mode'[m] # "up" /\ ans'[m].kind # "list"
                            /\ mode'[m] \in {"hello", "list"} => Connected(m)
    BY <1>1 DEF InputInv
  <2>1. mode[s] = "up" /\ (input[s].kind = "push" => input[s].what.name # s)
    BY DEF IInv, InputInv
  <2>2. ASSUME NEW m \in Nodes, input[s] = JoinOf(m)
        PROVE  /\ SeedOf[m] = s /\ mode'[m] # "up" /\ ans'[m].kind # "list"
               /\ mode'[m] \in {"hello", "list"} => Connected(m)
    BY <2>2, InputIs
  <2> QED BY <2>1, <2>2
<1> QED BY <1>2, <1>3, <1>4 DEF Remains

(* What the first steps of a node leave of those that crashed. *)
LEMMA StartAloneRest == ASSUME IInv, NEW n \in Nodes, StartAlone(n) PROVE Remains'
<1>1. /\ mode[n] = "down" /\ SeedOf[n] = Nobody /\ mode' = [mode EXCEPT ![n] = "up"]
      /\ UNCHANGED <<layout, known, ntoa, queue, held, turn, ask, ans, input, crashes>>
  BY DEF StartAlone
<1>2. SeedOf[n] \notin Nodes
  BY <1>1, MeshConstants
<1>3. \A k \in Nodes : k # n => mode'[k] = mode[k]
  BY <1>1 DEF IInv, Core, TypeOK
<1> QED BY <1>1, <1>2, <1>3, RemainsRest

(* The same when it takes garbage for an address, *)
LEMMA StartByGarbageRest == ASSUME IInv, NEW n \in Nodes, StartByGarbage(n) PROVE Remains'
<1>1. /\ mode[n] = "down" /\ SeedOf[n] = Nobody /\ mode' = [mode EXCEPT ![n] = "dead"]
      /\ UNCHANGED <<layout, known, ntoa, queue, held, turn, ask, ans, input, crashes>>
  BY DEF StartByGarbage
<1>2. SeedOf[n] \notin Nodes
  BY <1>1, MeshConstants
<1>3. \A k \in Nodes : k # n => mode'[k] = mode[k]
  BY <1>1 DEF IInv, Core, TypeOK
<1> QED BY <1>1, <1>2, <1>3, RemainsRest

(* or does not reach its seed. *)
LEMMA StartUnreachableRest == ASSUME IInv, NEW n \in Nodes, StartUnreachable(n) PROVE Remains'
<1>1. PICK end \in AnyLength : mode' = [mode EXCEPT ![n] = end]
  BY DEF StartUnreachable
<1>2. /\ mode[n] = "down" /\ mode[SeedOf[n]] # "up"
      /\ UNCHANGED <<layout, ntoa, queue, held, turn, ask, ans, input, crashes>>
  BY DEF StartUnreachable
<1>3. \A k \in Nodes : k # n => mode'[k] = mode[k]
  BY <1>1 DEF IInv, Core, TypeOK
<1>4. \A g \in Left : ~(SeedOf[n] \in Nodes
                        /\ g \in ToSet(queue[SeedOf[n]]) \cup ToSet(held[SeedOf[n]]))
  BY <1>2, LeftFrom
<1>5. ~(SeedOf[n] \in Nodes /\ input[SeedOf[n]] = JoinOf(n))
  BY <1>2, InputIs
<1> QED BY <1>2, <1>3, <1>4, <1>5, RemainsRest

(* A node that has its answer has left no HELLO behind. *)
LEMMA HelloAnsweredRest == ASSUME IInv, NEW n \in Nodes, HelloAnswered(n) PROVE Remains'
<1>1. /\ mode[n] = "hello" /\ ans[n].kind = "hello" /\ mode' = [mode EXCEPT ![n] = "list"]
      /\ ask' = [ask EXCEPT ![n] = "list"] /\ ans' = [ans EXCEPT ![n] = NoAnswer]
      /\ UNCHANGED <<layout, ntoa, queue, held, turn, input, crashes>>
  BY DEF HelloAnswered
<1>2. /\ \A k \in Nodes : k # n => mode'[k] = mode[k] /\ ask'[k] = ask[k] /\ ans'[k] = ans[k]
      /\ mode'[n] = "list" /\ ans'[n].kind = "none"
  BY <1>1, AnswerIs DEF IInv, Core, TypeOK
<1>3. \A g \in Left : ~(g.from = n /\ SeedOf[n] \in Nodes
                        /\ g \in ToSet(queue[SeedOf[n]]) \cup ToSet(held[SeedOf[n]]))
  BY <1>1, LeftFrom
<1>4. SeedOf[n] \in Nodes /\ input[SeedOf[n]] = JoinOf(n) => Connected(n)
  BY <1>1, InputIs
<1> QED BY <1>1, <1>2, <1>3, <1>4, RemainsRest

(* A node that gets to serve is not one whose HELLO is in a buffer. *)
LEMMA ListAnsweredRest == ASSUME IInv, NEW n \in Nodes, ListAnswered(n) PROVE Remains'
<1>1. /\ mode[n] = "list" /\ ans[n].kind = "list" /\ mode' = [mode EXCEPT ![n] = "up"]
      /\ ans' = [ans EXCEPT ![n] = NoAnswer]
      /\ UNCHANGED <<layout, ntoa, queue, held, turn, ask, input, crashes>>
  BY DEF ListAnswered
<1>2. \A k \in Nodes : k # n => mode'[k] = mode[k] /\ ask'[k] = ask[k] /\ ans'[k] = ans[k]
  BY <1>1 DEF IInv, Core, TypeOK
<1>3. \A g \in Left : ~(g.from = n /\ SeedOf[n] \in Nodes
                        /\ g \in ToSet(queue[SeedOf[n]]) \cup ToSet(held[SeedOf[n]]))
  BY <1>1, LeftFrom
<1>4. ~(SeedOf[n] \in Nodes /\ input[SeedOf[n]] = JoinOf(n))
  BY <1>1, InputIs
<1> QED BY <1>1, <1>2, <1>3, <1>4, RemainsRest

(* Nor is one whose join breaks: its seed does not have its connection. *)
LEMMA JoinBrokenRest == ASSUME IInv, NEW n \in Nodes, JoinBroken(n) PROVE Remains'
<1>1. /\ mode[n] \in {"hello", "list"} /\ ~Connected(n)
      /\ ask' = [ask EXCEPT ![n] = "none"]
      /\ UNCHANGED <<layout, ntoa, queue, held, turn, ans, input, crashes>>
  BY DEF JoinBroken
<1>2. PICK end : mode' = [mode EXCEPT ![n] = end]
  BY DEF JoinBroken
<1>3. \A k \in Nodes : k # n => mode'[k] = mode[k] /\ ask'[k] = ask[k]
  BY <1>1, <1>2 DEF IInv, Core, TypeOK
<1>4. \A g \in Left : ~(g.from = n /\ SeedOf[n] \in Nodes
                        /\ g \in ToSet(queue[SeedOf[n]]) \cup ToSet(held[SeedOf[n]]))
  BY <1>1, LeftFrom
<1>5. ~(SeedOf[n] \in Nodes /\ input[SeedOf[n]] = JoinOf(n))
  BY <1>1, InputIs
<1> QED BY <1>1, <1>3, <1>4, <1>5, RemainsRest

(* A node that starts again is down. *)
LEMMA RestartRest == ASSUME IInv, NEW n \in Nodes, Restart(n) PROVE Remains'
<1>1. /\ mode[n] = "dead" /\ mode' = [mode EXCEPT ![n] = "down"]
      /\ UNCHANGED <<layout, queue, held, turn, ask, ans, input, crashes>>
  BY DEF Restart
<1>2. mode'[n] = "down" /\ \A k \in Nodes : k # n => mode'[k] = mode[k]
  BY <1>1 DEF IInv, Core, TypeOK
<1>3. \A g \in Left : g.from = n /\ SeedOf[n] \in Nodes
                        /\ g \in ToSet(queue[SeedOf[n]]) \cup ToSet(held[SeedOf[n]])
                      => ans[n].kind = "none"
  BY LeftFrom
<1>4. SeedOf[n] \in Nodes /\ input[SeedOf[n]] = JoinOf(n) => ans[n].kind # "list"
  BY InputIs
<1> QED BY <1>1, <1>2, <1>3, <1>4, RemainsRest

(* A new connection comes after what is left of the old one. *)
LEMMA StartJoinRest == ASSUME IInv, NEW n \in Nodes, StartJoin(n) PROVE Remains'
<1> DEFINE s == SeedOf[n]
           c == JoinOf(n)
<1>1. /\ mode[n] = "down" /\ s # Nobody
      /\ mode' = [mode EXCEPT ![n] = "hello"]
      /\ queue' = [queue EXCEPT ![s] = Append(queue[s], c)]
      /\ ask' = [ask EXCEPT ![n] = "hello"]
      /\ UNCHANGED <<layout, known, ntoa, held, turn, ans, input, crashes>>
  BY DEF StartJoin
<1>2. Core
  BY DEF IInv
<1>3. s \in Nodes /\ c \in Conn
  BY <1>1, <1>2, LayoutGives, ConnIs DEF Core
<1>4. /\ queue \in [Nodes -> Seq(Conn)] /\ ask \in [Nodes -> {"none", "hello", "list"}]
      /\ mode \in [Nodes -> {"down", "hello", "list", "up", "dead", "wild"}]
  BY <1>2 DEF Core, TypeOK
<1>5. /\ ToSet(Append(queue[s], c)) = ToSet(queue[s]) \cup {c}
      /\ \A d : Once(queue[s], d) /\ (d # c \/ d \notin ToSet(queue[s]))
                  => Once(Append(queue[s], c), d)
      /\ \A b, d : Ahead(queue[s], b, d) /\ (c # d \/ b \in ToSet(queue[s]))
                      => Ahead(Append(queue[s], c), b, d)
  <2>1. queue[s] \in Seq(Conn)
    BY <1>3, <1>4
  <2> QED BY <1>3, <2>1, Appended, AheadAppended
<1>6. /\ queue'[s] = Append(queue[s], c) /\ \A k \in Nodes : k # s => queue'[k] = queue[k]
      /\ mode'[n] = "hello" /\ ask'[n] = "hello"
      /\ \A k \in Nodes : k # n => mode'[k] = mode[k] /\ ask'[k] = ask[k]
  BY <1>1, <1>3, <1>4
<1>7. c.kind = "join" /\ c \notin Left /\ \A m : JoinOf(m) = c => m = n
  BY LeftIs, ConnIs
<1>8. \A k \in Nodes : c \notin ToSet(held[k])
  BY <1>1, <1>2 DEF Core, JoinsOnce
<1>9. /\ SeedOf' = SeedOf /\ c \in ToSet(queue'[s])
      /\ \A k \in Nodes : ToSet(queue[k]) \subseteq ToSet(queue'[k])
      /\ \A k \in Nodes : \A d : d # c => (d \in ToSet(queue'[k]) <=> d \in ToSet(queue[k]))
  BY <1>1, <1>5, <1>6 DEF SeedOf
<1>10. Connected(n)' /\ \A m \in Nodes : SeedOf[m] \in Nodes /\ Connected(m) => Connected(m)'
  BY <1>1, <1>9 DEF Connected
<1> HIDE DEF s, c
<1>11. NoneGone'
  BY <1>1, <1>5, <1>6, <1>7 DEF IInv, NoneGone, Carried
<1>12. ASSUME NEW k \in Nodes, NEW g \in Left
       PROVE  /\ Once(queue[k], g) /\ Once(held[k], g) /\ Once(turn[k], g)
              /\ g \notin ToSet(queue[k]) \cap ToSet(held[k])
              /\ g \in ToSet(turn[k]) => g \in ToSet(held[k])
              /\ g \in ToSet(queue[k]) \cup ToSet(held[k]) =>
                    /\ k = SeedOf[g.from] /\ g.id <= crashes
                    /\ mode[g.from] \notin {"list", "up"} /\ ans[g.from].kind = "none"
                    /\ mode[g.from] = "hello" => ask[g.from] = "hello" /\ Connected(g.from)
  BY DEF IInv, LeftOnce
<1>13. LeftOnce'
  <2> SUFFICES ASSUME NEW k \in Nodes, NEW g \in Left
               PROVE  /\ Once(queue'[k], g) /\ Once(held[k], g) /\ Once(turn[k], g)
                      /\ g \notin ToSet(queue'[k]) \cap ToSet(held[k])
                      /\ g \in ToSet(turn[k]) => g \in ToSet(held[k])
                      /\ g \in ToSet(queue'[k]) \cup ToSet(held[k]) =>
                            /\ k = SeedOf[g.from] /\ g.id <= crashes
                            /\ mode'[g.from] \notin {"list", "up"} /\ ans[g.from].kind = "none"
                            /\ mode'[g.from] = "hello" =>
                                  ask'[g.from] = "hello" /\ Connected(g.from)'
    BY <1>1, <1>9 DEF LeftOnce
  <2>1. g # c /\ g.from \in Nodes
    BY <1>7, LeftIs
  <2>2. Once(queue'[k], g) /\ (g \in ToSet(queue'[k]) <=> g \in ToSet(queue[k]))
    <3>1. Once(queue[k], g)
      BY <1>12
    <3>2. CASE k = s
      BY <1>5, <1>6, <2>1, <3>1, <3>2
    <3>3. CASE k # s
      BY <1>6, <3>1, <3>3
    <3> QED BY <3>2, <3>3
  <2>3. g \in ToSet(queue[k]) \cup ToSet(held[k]) =>
            /\ mode'[g.from] \notin {"list", "up"}
            /\ mode'[g.from] = "hello" => ask'[g.from] = "hello" /\ Connected(g.from)'
    <3>1. CASE g.from = n
      BY <1>6, <1>10, <3>1
    <3>2. CASE g.from # n
      BY <1>6, <1>10, <1>12, <2>1, <3>2
    <3> QED BY <3>1, <3>2
  <2> QED BY <1>12, <2>2, <2>3
<1>14. LeftFirst'
  <2> SUFFICES ASSUME NEW k \in Nodes, NEW g \in Left
               PROVE  /\ g \in ToSet(held[k]) =>
                            /\ Ahead(held[k], g, JoinOf(g.from))
                            /\ Ahead(turn[k], g, JoinOf(g.from))
                      /\ g \in ToSet(queue'[k]) =>
                            /\ Ahead(queue'[k], g, JoinOf(g.from))
                            /\ JoinOf(g.from) \notin ToSet(held[k])
    BY <1>1 DEF LeftFirst
  <2>1. g \in ToSet(queue'[k]) => g \in ToSet(queue[k])
    BY <1>7, <1>9
  <2>2. g \in ToSet(queue[k]) => Ahead(queue'[k], g, JoinOf(g.from))
    <3>1. g \in ToSet(queue[k]) => Ahead(queue[k], g, JoinOf(g.from))
      BY DEF IInv, LeftFirst
    <3> QED BY <1>5, <1>6, <3>1
  <2> QED BY <2>1, <2>2 DEF IInv, LeftFirst
<1>15. InputInv'
  <2> SUFFICES ASSUME NEW k \in Nodes, input[k] # Nobody
               PROVE  /\ mode'[k] = "up"
                      /\ input[k].kind = "push" => input[k].what.name # k
                      /\ \A m \in Nodes : input[k] = JoinOf(m) =>
                            /\ SeedOf[m] = k /\ mode'[m] # "up" /\ ans[m].kind # "list"
                            /\ mode'[m] \in {"hello", "list"} => Connected(m)'
    BY <1>1, <1>9 DEF InputInv
  <2>1. mode[k] = "up" /\ (input[k].kind = "push" => input[k].what.name # k)
    BY DEF IInv, InputInv
  <2>2. mode'[k] = "up"
    BY <1>1, <1>6, <2>1
  <2>3. ASSUME NEW m \in Nodes, input[k] = JoinOf(m)
        PROVE  /\ SeedOf[m] = k /\ mode'[m] # "up" /\ ans[m].kind # "list"
               /\ mode'[m] \in {"hello", "list"} => Connected(m)'
    <3>1. /\ SeedOf[m] = k /\ mode[m] # "up" /\ ans[m].kind # "list"
          /\ mode[m] \in {"hello", "list"} => Connected(m)
      BY <2>3, InputIs
    <3>2. CASE m = n
      BY <1>6, <1>10, <3>1, <3>2
    <3>3. CASE m # n
      BY <1>6, <1>10, <3>1, <3>3
    <3> QED BY <3>2, <3>3
  <2> QED BY <2>1, <2>2, <2>3
<1> QED BY <1>11, <1>13, <1>14, <1>15 DEF Remains

(* A turn keeps the order in which the connections are held. *)
LEMMA PollRest == ASSUME IInv, NEW s \in Nodes, Poll(s) PROVE Remains'
<1> DEFINE A == IF queue[s] # <<>> THEN <<TheAccept>> ELSE <<>>
           t == A \o Ready(s)
<1>1. /\ turn' = [turn EXCEPT ![s] = t]
      /\ UNCHANGED <<layout, mode, known, ntoa, queue, held, ask, ans, input, crashes>>
  BY DEF Poll
<1>2. held[s] \in Seq(Conn) /\ turn \in [Nodes -> Seq(Conn \cup {TheAccept})]
  BY DEF IInv, Core, TypeOK
<1>3. /\ Ready(s) \in Seq(Conn) /\ ToSet(Ready(s)) \subseteq ToSet(held[s])
      /\ \A d : Once(held[s], d) => Once(Ready(s), d)
  BY <1>2, ReadyIs
<1>4. A \in Seq(Conn \cup {TheAccept}) /\ ToSet(A) \subseteq {TheAccept}
  <2>1. CASE queue[s] # <<>>
    <3>1. <<TheAccept>> \in Seq(Conn \cup {TheAccept}) /\ Len(<<TheAccept>>) = 1
          /\ <<TheAccept>>[1] = TheAccept
      OBVIOUS
    <3>2. ToSet(<<TheAccept>>) = {<<TheAccept>>[i] : i \in 1 .. Len(<<TheAccept>>)}
      BY <3>1, ToSetIs
    <3>3. ToSet(<<TheAccept>>) = {TheAccept}
      BY <3>1, <3>2
    <3> QED BY <2>1, <3>1, <3>3
  <2>2. CASE queue[s] = <<>>
    BY <2>2, EmptyIs
  <2> QED BY <2>1, <2>2
<1>5. Ready(s) \in Seq(Conn \cup {TheAccept})
  BY <1>3
<1> HIDE DEF A
<1>6. /\ ToSet(t) = ToSet(A) \cup ToSet(Ready(s))
      /\ \A d : Once(Ready(s), d) /\ d \notin ToSet(A) => Once(t, d)
  BY <1>4, <1>5, Concatenated
<1>7. ASSUME NEW g \in Left
      PROVE  /\ Once(held[s], g) => Once(t, g)
             /\ g \in ToSet(t) => g \in ToSet(held[s])
             /\ \A m \in Nodes : Ahead(held[s], g, JoinOf(m)) => Ahead(t, g, JoinOf(m))
  <2>1. g # TheAccept /\ g.kind # "join"
    BY LeftIs
  <2>2. Readable(g)
    BY <2>1 DEF Readable
  <2>3. ASSUME NEW m \in Nodes, Ahead(held[s], g, JoinOf(m)) PROVE Ahead(t, g, JoinOf(m))
    <3>1. Ahead(Ready(s), g, JoinOf(m))
      BY <1>2, <2>2, <2>3, ReadyInOrder
    <3>2. JoinOf(m) \notin ToSet(A)
      BY <1>4, ConnIs
    <3> QED BY <1>4, <1>5, <3>1, <3>2, AheadBehind
  <2> QED BY <1>3, <1>4, <1>6, <2>1, <2>3
<1> HIDE DEF t
<1>8. turn'[s] = t /\ \A k \in Nodes : k # s => turn'[k] = turn[k]
  BY <1>1, <1>2
<1>9. SeedOf' = SeedOf /\ \A m : Connected(m)' <=> Connected(m)
  BY <1>1 DEF SeedOf, Connected
<1>10. NoneGone'
  <2>1. TheAccept.kind # "gone"
    BY ConnIs
  <2> QED BY <1>1, <1>3, <1>4, <1>6, <1>8, <2>1 DEF IInv, NoneGone, Carried
<1>11. LeftOnce'
  <2> SUFFICES ASSUME NEW k \in Nodes, NEW g \in Left
               PROVE  Once(turn'[k], g) /\ (g \in ToSet(turn'[k]) => g \in ToSet(held[k]))
    BY <1>1, <1>9 DEF IInv, LeftOnce
  <2>1. Once(turn[k], g) /\ Once(held[k], g) /\ (g \in ToSet(turn[k]) => g \in ToSet(held[k]))
    BY DEF IInv, LeftOnce
  <2> QED BY <1>7, <1>8, <2>1
<1>12. LeftFirst'
  <2> SUFFICES ASSUME NEW k \in Nodes, NEW g \in Left, g \in ToSet(held[k])
               PROVE  Ahead(turn'[k], g, JoinOf(g.from))
    BY <1>1 DEF IInv, LeftFirst
  <2>1. Ahead(turn[k], g, JoinOf(g.from)) /\ Ahead(held[k], g, JoinOf(g.from)) /\ g.from \in Nodes
    BY LeftIs DEF IInv, LeftFirst
  <2> QED BY <1>7, <1>8, <2>1
<1>13. InputInv'
  BY <1>1, <1>9 DEF IInv, InputInv
<1> QED BY <1>10, <1>11, <1>12, <1>13 DEF Remains

(* The connection accepted goes from the one sequence to the other. *)
LEMMA AcceptRest == ASSUME IInv, NEW s \in Nodes, Accept(s) PROVE Remains'
<1> DEFINE h == Head(queue[s])
<1>1. /\ Dispatched(s, TheAccept)
      /\ held' = [held EXCEPT ![s] = Append(held[s], h)]
      /\ queue' = [queue EXCEPT ![s] = Tail(queue[s])]
      /\ UNCHANGED <<layout, mode, known, ask, ans, input, crashes>>
  BY DEF Accept
<1>2. Core
  BY DEF IInv
<1>3. /\ queue[s] # <<>>
      /\ \A k \in Nodes : ToSet(turn'[k]) \subseteq ToSet(turn[k])
      /\ \A k \in Nodes : k # s => turn'[k] = turn[k]
      /\ \A k \in Nodes : \A d : Once(turn[k], d) => Once(turn'[k], d)
  BY <1>1, <1>2, Dispatching
<1>4. queue \in [Nodes -> Seq(Conn)] /\ held \in [Nodes -> Seq(Conn)]
      /\ turn \in [Nodes -> Seq(Conn \cup {TheAccept})]
  BY <1>2 DEF Core, TypeOK
<1>5. /\ h \in Conn /\ h \in ToSet(queue[s])
      /\ ToSet(queue[s]) = ToSet(Tail(queue[s])) \cup {h}
      /\ \A d : Once(queue[s], d) => Once(Tail(queue[s]), d)
      /\ Once(queue[s], h) => h \notin ToSet(Tail(queue[s]))
      /\ \A b, d : b # h /\ Ahead(queue[s], b, d) => Ahead(Tail(queue[s]), b, d)
      /\ \A b, d : Ahead(queue[s], b, d) => d # h
  <2>1. queue[s] \in Seq(Conn)
    BY <1>4
  <2>2. \A b, d : Ahead(queue[s], b, d) => d # h
    <3> SUFFICES ASSUME NEW b, Ahead(queue[s], b, h) PROVE FALSE
      OBVIOUS
    <3>1. h \in ToSet(queue[s])
      BY <1>3, <2>1, TailOf
    <3> QED BY <2>1, <3>1, AheadIs
  <2>3. \A b, d : b # h /\ Ahead(queue[s], b, d) => Ahead(Tail(queue[s]), b, d)
    BY <1>3, <2>1, AheadInTail
  <2> QED BY <1>3, <2>1, <2>2, <2>3, TailOf
<1> HIDE DEF h
<1>6. /\ ToSet(Append(held[s], h)) = ToSet(held[s]) \cup {h}
      /\ \A d : Once(held[s], d) /\ (d # h \/ d \notin ToSet(held[s])) => Once(Append(held[s], h), d)
      /\ \A b, d : Ahead(held[s], b, d) /\ (h # d \/ b \in ToSet(held[s]))
                      => Ahead(Append(held[s], h), b, d)
  <2>1. held[s] \in Seq(Conn)
    BY <1>4
  <2> QED BY <1>5, <2>1, Appended, AheadAppended
<1>7. /\ queue'[s] = Tail(queue[s]) /\ held'[s] = Append(held[s], h)
      /\ \A k \in Nodes : k # s => queue'[k] = queue[k] /\ held'[k] = held[k]
  BY <1>1, <1>4
<1>8. SeedOf' = SeedOf
      /\ \A k \in Nodes : ToSet(queue'[k]) \cup ToSet(held'[k]) = ToSet(queue[k]) \cup ToSet(held[k])
  BY <1>1, <1>5, <1>6, <1>7 DEF SeedOf
<1>9. \A m \in Nodes : SeedOf[m] \in Nodes => (Connected(m)' <=> Connected(m))
  BY <1>8 DEF Connected
<1>10. NoneGone'
  BY <1>1, <1>3, <1>8 DEF IInv, NoneGone, Carried
<1>11. ASSUME NEW k \in Nodes, NEW g \in Left
       PROVE  /\ Once(queue[k], g) /\ Once(held[k], g) /\ Once(turn[k], g)
              /\ g \notin ToSet(queue[k]) \cap ToSet(held[k])
              /\ g \in ToSet(turn[k]) => g \in ToSet(held[k])
              /\ g \in ToSet(queue[k]) \cup ToSet(held[k]) =>
                    /\ k = SeedOf[g.from] /\ g.id <= crashes
                    /\ mode[g.from] \notin {"list", "up"} /\ ans[g.from].kind = "none"
                    /\ mode[g.from] = "hello" => ask[g.from] = "hello" /\ Connected(g.from)
              /\ g.from \in Nodes
  BY LeftIs DEF IInv, LeftOnce
<1>12. LeftOnce'
  <2> SUFFICES ASSUME NEW k \in Nodes, NEW g \in Left
               PROVE  /\ Once(queue'[k], g) /\ Once(held'[k], g) /\ Once(turn'[k], g)
                      /\ g \notin ToSet(queue'[k]) \cap ToSet(held'[k])
                      /\ g \in ToSet(turn'[k]) => g \in ToSet(held'[k])
                      /\ g \in ToSet(queue'[k]) \cup ToSet(held'[k]) =>
                            /\ k = SeedOf[g.from] /\ g.id <= crashes
                            /\ mode[g.from] \notin {"list", "up"} /\ ans[g.from].kind = "none"
                            /\ mode[g.from] = "hello" =>
                                  ask[g.from] = "hello" /\ Connected(g.from)'
    BY <1>1, <1>8 DEF LeftOnce
  <2>1. g \in ToSet(queue'[k]) \cup ToSet(held'[k]) =>
            /\ k = SeedOf[g.from] /\ g.id <= crashes
            /\ mode[g.from] \notin {"list", "up"} /\ ans[g.from].kind = "none"
            /\ mode[g.from] = "hello" => ask[g.from] = "hello" /\ Connected(g.from)'
    BY <1>8, <1>9, <1>11
  <2>2. Once(turn'[k], g) /\ (g \in ToSet(turn'[k]) => g \in ToSet(held[k]))
    BY <1>3, <1>11
  <2>3. CASE k # s
    BY <1>7, <1>11, <2>1, <2>2, <2>3
  <2>4. CASE k = s
    <3>1. Once(queue'[s], g) /\ (g = h => g \notin ToSet(queue'[s]))
      BY <1>5, <1>7, <1>11, <2>4
    <3>2. g = h => g \notin ToSet(held[s])
      BY <1>5, <1>11, <2>4
    <3>3. Once(held'[s], g)
      BY <1>6, <1>7, <1>11, <2>4, <3>2
    <3>4. g \notin ToSet(queue'[s]) \cap ToSet(held'[s])
      BY <1>5, <1>6, <1>7, <1>11, <2>4, <3>1
    <3>5. g \in ToSet(held[s]) => g \in ToSet(held'[s])
      BY <1>6, <1>7
    <3> QED BY <2>1, <2>2, <2>4, <3>1, <3>3, <3>4, <3>5
  <2> QED BY <2>3, <2>4
<1>13. LeftFirst'
  <2> SUFFICES ASSUME NEW k \in Nodes, NEW g \in Left
               PROVE  /\ g \in ToSet(held'[k]) =>
                            /\ Ahead(held'[k], g, JoinOf(g.from))
                            /\ Ahead(turn'[k], g, JoinOf(g.from))
                      /\ g \in ToSet(queue'[k]) =>
                            /\ Ahead(queue'[k], g, JoinOf(g.from))
                            /\ JoinOf(g.from) \notin ToSet(held'[k])
    BY DEF LeftFirst
  <2> DEFINE j == JoinOf(g.from)
  <2>1. /\ g \in ToSet(held[k]) => Ahead(held[k], g, j) /\ Ahead(turn[k], g, j)
        /\ g \in ToSet(queue[k]) => Ahead(queue[k], g, j) /\ j \notin ToSet(held[k])
    BY DEF IInv, LeftFirst
  <2>2. j # g /\ j # TheAccept /\ g # TheAccept /\ g.from \in Nodes
    BY LeftIs, ConnIs
  <2>3. j \in ToSet(turn[k]) => j \in ToSet(held[k])
    BY <1>2, <2>2 DEF Core, JoinsOnce
  <2> HIDE DEF j
  <2>4. CASE k # s
    <3>1. queue'[k] = queue[k] /\ held'[k] = held[k] /\ turn'[k] = turn[k]
      BY <1>3, <1>7, <2>4
    <3> QED BY <2>1, <3>1 DEF j
  <2>5. CASE k = s /\ g \in ToSet(held[s])
    <3>1. Ahead(held'[s], g, j)
      BY <1>6, <1>7, <2>1, <2>5
    <3>2. Ahead(turn'[s], g, j)
      <4>1. turn[s] # <<>> /\ Head(turn[s]) = TheAccept /\ turn'[s] = Tail(turn[s])
        BY <1>1, <1>4 DEF Dispatched
      <4>2. turn[s] \in Seq(Conn \cup {TheAccept})
        BY <1>4
      <4> QED BY <2>1, <2>2, <2>5, <4>1, <4>2, AheadInTail
    <3>3. g \notin ToSet(queue'[s])
      BY <1>5, <1>7, <1>11, <2>5
    <3> QED BY <2>5, <3>1, <3>2, <3>3 DEF j
  <2>6. CASE k = s /\ g \notin ToSet(held[s])
    <3>1. g \in ToSet(queue'[s]) => g \in ToSet(queue[s]) /\ g # h
      BY <1>5, <1>7, <1>11, <2>6
    <3>2. g \in ToSet(held'[s]) => g = h /\ g \in ToSet(queue[s])
      BY <1>5, <1>6, <1>7, <2>6
    <3>3. g \in ToSet(queue[s]) => j # h /\ j \notin ToSet(held[s])
      BY <1>5, <2>1, <2>6
    <3>4. g \in ToSet(queue[s]) => j \notin ToSet(held'[s]) /\ j \notin ToSet(turn'[s])
      BY <1>3, <1>6, <1>7, <2>3, <2>6, <3>3
    <3>5. held'[s] \in Seq(Conn) /\ turn'[s] \in Seq(Conn \cup {TheAccept})
      <4>1. Core'
        BY <1>2, AcceptKeeps
      <4> QED BY <4>1 DEF Core, TypeOK
    <3>6. g \in ToSet(held'[s]) => Ahead(held'[s], g, j) /\ Ahead(turn'[s], g, j)
      BY <3>2, <3>4, <3>5, AheadIs
    <3>7. g \in ToSet(queue'[s]) => Ahead(queue'[s], g, j)
      BY <1>5, <1>7, <2>1, <2>6, <3>1
    <3> QED BY <2>6, <3>1, <3>4, <3>6, <3>7 DEF j
  <2> QED BY <2>4, <2>5, <2>6
<1>14. InputInv'
  <2> SUFFICES ASSUME NEW k \in Nodes, input[k] # Nobody
               PROVE  /\ mode[k] = "up"
                      /\ input[k].kind = "push" => input[k].what.name # k
                      /\ \A m \in Nodes : input[k] = JoinOf(m) =>
                            /\ SeedOf[m] = k /\ mode[m] # "up" /\ ans[m].kind # "list"
                            /\ mode[m] \in {"hello", "list"} => Connected(m)'
    BY <1>1, <1>8 DEF InputInv
  <2>1. mode[k] = "up" /\ (input[k].kind = "push" => input[k].what.name # k)
    BY DEF IInv, InputInv
  <2>2. ASSUME NEW m \in Nodes, input[k] = JoinOf(m)
        PROVE  /\ SeedOf[m] = k /\ mode[m] # "up" /\ ans[m].kind # "list"
               /\ mode[m] \in {"hello", "list"} => Connected(m)'
    BY <1>9, <2>2, InputIs
  <2> QED BY <2>1, <2>2
<1> QED BY <1>10, <1>12, <1>13, <1>14 DEF Remains

(* What may get into the buffer of a node that serves. *)
InputOf(k, m) ==
    /\ SeedOf[m] = k /\ mode[m] # "up" /\ ans'[m].kind # "list"
    /\ mode[m] \in {"hello", "list"} => Connected(m)'

(* A step of the event loop that handles something on c; D is whose request it is. *)
Handled(s, c, D) ==
    /\ Dispatched(s, c)
    /\ layout' = layout /\ mode' = mode /\ crashes' = crashes
    /\ \A k \in Nodes : Kept(queue[k], queue'[k]) /\ Kept(held[k], held'[k])
    /\ \A k \in Nodes : \A g \in Left : g \in ToSet(held[k]) /\ ~(k = s /\ g = c)
                                           => g \in ToSet(held'[k])
    /\ c \in Left => c \notin ToSet(held'[s])
    /\ \A k, m \in Nodes : JoinOf(m) \in ToSet(held'[k]) => JoinOf(m) \in ToSet(held[k])
    /\ \A m \in Nodes \ D :
          /\ ask'[m] = ask[m] /\ ans'[m] = ans[m]
          /\ SeedOf[m] \in Nodes /\ Connected(m) => Connected(m)'
    /\ \A m \in D :
          /\ \A g \in Left : ~(g.from = m /\ SeedOf[m] \in Nodes
                               /\ g \in ToSet(queue[SeedOf[m]]) \cup ToSet(held[SeedOf[m]]))
          /\ \A k \in Nodes : input'[k] = JoinOf(m) => InputOf(k, m)
    /\ \A k \in Nodes : input'[k] # input[k] /\ input'[k] # Nobody =>
          /\ mode[k] = "up"
          /\ input'[k].kind = "push" => input'[k].what.name # k
          /\ \A m \in Nodes : input'[k] = JoinOf(m) => InputOf(k, m)
    /\ layout.crashes = 0 => input' = input
    /\ \A k \in Nodes : \A d \in Carried(k)' : d.kind = "gone" =>
          \E x \in Carried(k) : x.kind = "gone"

(* A step of a node that serves, by what it leaves of the parts. *)
LEMMA ServingRest ==
    ASSUME IInv, NEW s \in Nodes, NEW c, NEW D \in SUBSET Nodes, Handled(s, c, D)
    PROVE  Remains'
<1> USE DEF Handled
<1>1. NoneGone'
  BY DEF IInv, NoneGone
<1>2. \A k \in Nodes : KeptTurn(k)
  BY KeptDispatching
<1>3. crashes \in Nat /\ crashes <= crashes
  BY CrashesAre DEF IInv, Core
<1>4. ASSUME NEW n \in Nodes, NEW g \in Left, g.from = n, SeedOf[n] \in Nodes,
             g \in ToSet(queue'[SeedOf[n]]) \cup ToSet(held'[SeedOf[n]])
      PROVE  /\ mode'[n] \notin {"list", "up"} /\ ans'[n].kind = "none"
             /\ mode'[n] = "hello" => ask'[n] = "hello" /\ Connected(n)'
  <2>1. g \in ToSet(queue[SeedOf[n]]) \cup ToSet(held[SeedOf[n]])
    BY <1>4 DEF Kept
  <2>2. n \notin D
    BY <1>4, <2>1
  <2>3. /\ mode[n] \notin {"list", "up"} /\ ans[n].kind = "none"
        /\ mode[n] = "hello" => ask[n] = "hello" /\ Connected(n)
    BY <1>4, <2>1, LeftFrom
  <2> QED BY <1>4, <2>2, <2>3
<1>5. LeftOnce' /\ LeftFirst'
  BY <1>2, <1>3, <1>4, LeftKept
<1>6. InputInv'
  <2> SUFFICES ASSUME NEW k \in Nodes, input'[k] # Nobody
               PROVE  /\ mode[k] = "up"
                      /\ input'[k].kind = "push" => input'[k].what.name # k
                      /\ \A m \in Nodes : input'[k] = JoinOf(m) => InputOf(k, m)
    BY DEF InputInv, InputOf, SeedOf
  <2>1. CASE input'[k] # input[k]
    BY <2>1
  <2>2. CASE input'[k] = input[k]
    <3>1. mode[k] = "up" /\ (input[k].kind = "push" => input[k].what.name # k)
      BY <2>2 DEF IInv, InputInv
    <3>2. ASSUME NEW m \in Nodes, input[k] = JoinOf(m), m \notin D
          PROVE  InputOf(k, m)
      <4>1. /\ SeedOf[m] = k /\ mode[m] # "up" /\ ans[m].kind # "list"
            /\ mode[m] \in {"hello", "list"} => Connected(m)
        BY <3>2, InputIs
      <4> QED BY <3>2, <4>1 DEF InputOf
    <3> QED BY <2>2, <3>1, <3>2
  <2> QED BY <2>1, <2>2
<1> QED BY <1>1, <1>5, <1>6 DEF Remains

(* What is received, when it may be received. *)
LEMMA ReceivedRest ==
    ASSUME IInv, NEW s \in Nodes, NEW c \in {x \in Conn : x.kind # "gone"} \cup {Nobody},
           Received(s, c), mode[s] = "up", c.kind = "push" => c.what.name # s,
           \A m \in Nodes : c = JoinOf(m) => InputOf(s, m)
    PROVE  /\ \A k \in Nodes : input'[k] # input[k] /\ input'[k] # Nobody =>
                 /\ mode[k] = "up"
                 /\ input'[k].kind = "push" => input'[k].what.name # k
                 /\ \A m \in Nodes : input'[k] = JoinOf(m) => InputOf(k, m)
           /\ layout.crashes = 0 => input' = input
           /\ layout.crashes # 0 => input'[s] = c
           /\ \A k \in Nodes : k # s => input'[k] = input[k]
<1>1. /\ layout.crashes = 0 => input' = input
      /\ layout.crashes # 0 => input'[s] = c
      /\ \A k \in Nodes : k # s => input'[k] = input[k]
  BY ReceivedIs DEF IInv, Core
<1>2. \A k \in Nodes : input'[k] # input[k] => k = s /\ input'[k] = c
  BY <1>1
<1> QED BY <1>1, <1>2

(* Dropping a connection that is not an unread HELLO. *)
LEMMA DroppingKept ==
    ASSUME IInv, NEW s \in Nodes, NEW c, c \notin Left, Dispatched(s, c), Dropped(s, c)
    PROVE  \A k \in Nodes :
              /\ Kept(held[k], held'[k])
              /\ \A d \in ToSet(held[k]) : ~(k = s /\ d = c) => d \in ToSet(held'[k])
              /\ \A d \in ToSet(held'[k]) : d \in ToSet(held[k])
              /\ \A d \in ToSet(turn'[k]) : d \in ToSet(turn[k])
<1>1. held \in [Nodes -> Seq(Conn)]
  BY DEF IInv, Core, TypeOK
<1>2. held'[s] = RemoveFirst(held[s], c) /\ \A k \in Nodes : k # s => held'[k] = held[k]
  BY <1>1 DEF Dropped
<1>3. held[s] \in Seq(Conn)
  BY <1>1
<1>4. /\ Kept(held[s], held'[s]) /\ ToSet(held'[s]) \subseteq ToSet(held[s])
      /\ \A d \in ToSet(held[s]) : d # c => d \in ToSet(held'[s])
  BY <1>2, <1>3, KeptDropped, FirstRemoved
<1>5. \A k \in Nodes : ToSet(turn'[k]) \subseteq ToSet(turn[k])
  BY Dispatching DEF IInv
<1> QED BY <1>2, <1>4, <1>5, KeptSame

(* A push that is read is in the buffer, and is of another node. *)
LEMMA HandlePushRest ==
    ASSUME IInv, NEW s \in Nodes, NEW c \in ToSet(turn[s]), HandlePush(s, c) PROVE Remains'
<1>1. /\ Dispatched(s, c) /\ Dropped(s, c) /\ c.kind = "push" /\ Received(s, c)
      /\ UNCHANGED <<layout, mode, queue, ask, ans, crashes>>
  BY DEF HandlePush
<1>2. c \in Conn /\ mode[s] = "up"
  BY <1>1, Dispatching, NodeTypes, ConnIs DEF IInv, Core
<1>3. c \notin Left /\ c.what.name # s /\ \A m : c # JoinOf(m)
  BY <1>1, <1>2, LeftIs, ConnIs DEF IInv, Core, NewsOfOthers, Pushes, Carried
<1>4. \A k \in Nodes :
          /\ Kept(held[k], held'[k])
          /\ \A d \in ToSet(held[k]) : ~(k = s /\ d = c) => d \in ToSet(held'[k])
          /\ \A d \in ToSet(held'[k]) : d \in ToSet(held[k])
          /\ \A d \in ToSet(turn'[k]) : d \in ToSet(turn[k])
  BY <1>1, <1>3, DroppingKept
<1>5. \A m \in Nodes : SeedOf[m] \in Nodes /\ Connected(m) => Connected(m)'
  BY <1>1, <1>3, <1>4 DEF Connected, SeedOf
<1>6. \A k \in Nodes : \A d \in Carried(k)' : d.kind = "gone" => \E b \in Carried(k) : b.kind = "gone"
  BY <1>1, <1>4 DEF Carried
<1>7. /\ \A k \in Nodes : input'[k] # input[k] /\ input'[k] # Nobody =>
            /\ mode[k] = "up"
            /\ input'[k].kind = "push" => input'[k].what.name # k
            /\ \A m \in Nodes : input'[k] = JoinOf(m) => InputOf(k, m)
      /\ layout.crashes = 0 => input' = input
  BY <1>1, <1>2, <1>3, ReceivedRest
<1>8. \A k \in Nodes : Kept(queue[k], queue'[k])
  BY <1>1, KeptSame
<1> DEFINE E == {}
<1>19. E \in SUBSET Nodes
  OBVIOUS
<1>20. Handled(s, c, E)
  BY <1>1, <1>3, <1>4, <1>5, <1>6, <1>7, <1>8 DEF Handled, E
<1> HIDE DEF E
<1> QED BY <1>19, <1>20, ServingRest

(* A request for the list leaves nothing in the buffer. *)
LEMMA ListOfGoneRest ==
    ASSUME IInv, NEW s \in Nodes, NEW n \in Nodes, NEW id \in 1 .. crashes, ListOfGone(s, n, id)
    PROVE  Remains'
<1> DEFINE c == Gone(n, "list", id)
<1>1. /\ Dispatched(s, c) /\ Dropped(s, c) /\ Received(s, Nobody)
      /\ UNCHANGED <<layout, mode, known, ntoa, queue, ask, ans, crashes>>
  BY DEF ListOfGone
<1>2. c.gives = "list" /\ c.kind = "gone" /\ mode[s] = "up"
  BY <1>1, GoneIs, Dispatching DEF IInv
<1> HIDE DEF c
<1>3. c \notin Left /\ \A m : c # JoinOf(m)
  BY <1>2, LeftIs, ConnIs
<1>4. \A k \in Nodes :
          /\ Kept(held[k], held'[k])
          /\ \A d \in ToSet(held[k]) : ~(k = s /\ d = c) => d \in ToSet(held'[k])
          /\ \A d \in ToSet(held'[k]) : d \in ToSet(held[k])
          /\ \A d \in ToSet(turn'[k]) : d \in ToSet(turn[k])
  BY <1>1, <1>3, DroppingKept
<1>5. \A m \in Nodes : SeedOf[m] \in Nodes /\ Connected(m) => Connected(m)'
  BY <1>1, <1>3, <1>4 DEF Connected, SeedOf
<1>6. \A k \in Nodes : \A d \in Carried(k)' : d.kind = "gone" => \E b \in Carried(k) : b.kind = "gone"
  BY <1>1, <1>4 DEF Carried
<1>7. /\ layout.crashes = 0 => input' = input
      /\ layout.crashes # 0 => input'[s] = Nobody
      /\ \A k \in Nodes : k # s => input'[k] = input[k]
  BY <1>1, ReceivedIs DEF IInv, Core
<1>8. \A k \in Nodes : ~(input'[k] # input[k] /\ input'[k] # Nobody)
  BY <1>7
<1>9. \A k \in Nodes : Kept(queue[k], queue'[k])
  BY <1>1, KeptSame
<1> DEFINE E == {}
<1>19. E \in SUBSET Nodes
  OBVIOUS
<1>20. Handled(s, c, E)
  BY <1>1, <1>3, <1>4, <1>5, <1>6, <1>7, <1>8, <1>9 DEF Handled, E
<1> HIDE DEF E
<1> QED BY <1>19, <1>20, ServingRest

(* Nothing but tables changes when a connection is dropped after its end. *)
LEMMA ClosingRest ==
    ASSUME IInv, NEW s \in Nodes, NEW c, c \notin Left, \A m : c # JoinOf(m), Dispatched(s, c),
           Dropped(s, c), UNCHANGED <<layout, mode, ntoa, queue, ask, ans, input, crashes>>
    PROVE  Remains'
<1>4. \A k \in Nodes :
          /\ Kept(held[k], held'[k])
          /\ \A d \in ToSet(held[k]) : ~(k = s /\ d = c) => d \in ToSet(held'[k])
          /\ \A d \in ToSet(held'[k]) : d \in ToSet(held[k])
          /\ \A d \in ToSet(turn'[k]) : d \in ToSet(turn[k])
  BY DroppingKept
<1>5. \A m \in Nodes : SeedOf[m] \in Nodes /\ Connected(m) => Connected(m)'
  BY <1>4 DEF Connected, SeedOf
<1>6. \A k \in Nodes : \A d \in Carried(k)' : d.kind = "gone" => \E b \in Carried(k) : b.kind = "gone"
  BY <1>4 DEF Carried
<1>9. \A k \in Nodes : Kept(queue[k], queue'[k])
  BY KeptSame
<1> DEFINE E == {}
<1>19. E \in SUBSET Nodes
  OBVIOUS
<1>20. Handled(s, c, E)
  BY <1>4, <1>5, <1>6, <1>9 DEF Handled, E
<1> HIDE DEF E
<1> QED BY <1>19, <1>20, ServingRest

(* Handling a push again leaves the buffer alone, *)
LEMMA PushAgainRest ==
    ASSUME IInv, NEW s \in Nodes, NEW n \in Nodes, NEW id \in 1 .. crashes, PushAgain(s, n, id)
    PROVE  Remains'
<1> DEFINE c == Gone(n, "end", id)
<1>1. /\ Dispatched(s, c) /\ Dropped(s, c)
      /\ UNCHANGED <<layout, mode, ntoa, queue, ask, ans, input, crashes>>
  BY DEF PushAgain
<1>2. c.gives = "end" /\ c.kind = "gone"
  BY GoneIs
<1> HIDE DEF c
<1>3. c \notin Left /\ \A m : c # JoinOf(m)
  BY <1>2, LeftIs, ConnIs
<1> QED BY <1>1, <1>3, ClosingRest

(* as does an end that is dropped. *)
LEMMA NothingAgainRest ==
    ASSUME IInv, NEW s \in Nodes, NEW n \in Nodes, NEW id \in 1 .. crashes, NothingAgain(s, n, id)
    PROVE  Remains'
<1> DEFINE c == Gone(n, "end", id)
<1>1. /\ Dispatched(s, c) /\ Dropped(s, c)
      /\ UNCHANGED <<layout, mode, ntoa, queue, ask, ans, input, crashes>>
  BY DEF NothingAgain
<1>2. c.gives = "end" /\ c.kind = "gone"
  BY GoneIs
<1> HIDE DEF c
<1>3. c \notin Left /\ \A m : c # JoinOf(m)
  BY <1>2, LeftIs, ConnIs
<1> QED BY <1>1, <1>3, ClosingRest

(* A node that is sent the list is not one whose HELLO is in the buffer. *)
LEMMA HandleGetNodeListRest ==
    ASSUME IInv, NEW s \in Nodes, NEW n \in Nodes, HandleGetNodeList(s, n) PROVE Remains'
<1> DEFINE c == JoinOf(n)
<1>1. /\ Dispatched(s, c) /\ Dropped(s, c) /\ Received(s, Nobody) /\ ask[n] = "list"
      /\ UNCHANGED <<layout, mode, known, ntoa, queue, crashes>>
  BY DEF HandleGetNodeList
<1>2. \A m \in Nodes : m # n => ask'[m] = ask[m] /\ ans'[m] = ans[m]
  BY DEF HandleGetNodeList, IInv, Core, TypeOK
<1>3. mode[s] = "up" /\ mode[n] = "list" /\ c \in ToSet(turn[s])
  BY <1>1, Dispatching DEF IInv, Core, AskInv
<1>4. s = SeedOf[n]
  BY <1>3 DEF IInv, Core, JoinsOnce
<1>5. c \notin Left /\ c.kind = "join" /\ \A m : c = JoinOf(m) => m = n
  BY LeftIs, ConnIs
<1> HIDE DEF c
<1>6. \A k \in Nodes :
          /\ Kept(held[k], held'[k])
          /\ \A d \in ToSet(held[k]) : ~(k = s /\ d = c) => d \in ToSet(held'[k])
          /\ \A d \in ToSet(held'[k]) : d \in ToSet(held[k])
          /\ \A d \in ToSet(turn'[k]) : d \in ToSet(turn[k])
  BY <1>1, <1>5, DroppingKept
<1>7. \A m \in Nodes \ {n} : SeedOf[m] \in Nodes /\ Connected(m) => Connected(m)'
  BY <1>1, <1>5, <1>6 DEF Connected, SeedOf
<1>8. \A k \in Nodes : \A d \in Carried(k)' : d.kind = "gone" => \E b \in Carried(k) : b.kind = "gone"
  BY <1>1, <1>6 DEF Carried
<1>9. /\ layout.crashes = 0 => input' = input
      /\ layout.crashes # 0 => input'[s] = Nobody
      /\ \A k \in Nodes : k # s => input'[k] = input[k]
  BY <1>1, ReceivedIs DEF IInv, Core
<1>10. \A k \in Nodes : ~(input'[k] # input[k] /\ input'[k] # Nobody)
  BY <1>9
<1>11. \A k \in Nodes : input'[k] # JoinOf(n)
  <2> SUFFICES ASSUME NEW k \in Nodes, input'[k] = JoinOf(n) PROVE FALSE
    OBVIOUS
  <2>1. JoinOf(n) # Nobody
    BY ConnIs, NobodyConnects
  <2>2. input[k] = JoinOf(n)
    BY <1>10, <2>1
  <2>3. k = s
    BY <1>4, <2>2, InputIs
  <2>4. layout.crashes = 0
    BY <1>9, <2>1, <2>3
  <2> QED BY <2>1, <2>2, <2>4 DEF IInv, NoneGone
<1>12. \A g \in Left : ~(g.from = n /\ SeedOf[n] \in Nodes
                         /\ g \in ToSet(queue[SeedOf[n]]) \cup ToSet(held[SeedOf[n]]))
  BY <1>3, LeftFrom
<1>13. \A k \in Nodes : Kept(queue[k], queue'[k])
  BY <1>1, KeptSame
<1> DEFINE D == {n}
<1>14. /\ D \in SUBSET Nodes
       /\ \A m \in Nodes \ D :
             /\ ask'[m] = ask[m] /\ ans'[m] = ans[m]
             /\ SeedOf[m] \in Nodes /\ Connected(m) => Connected(m)'
       /\ \A m \in D :
             /\ \A g \in Left : ~(g.from = m /\ SeedOf[m] \in Nodes
                                  /\ g \in ToSet(queue[SeedOf[m]]) \cup ToSet(held[SeedOf[m]]))
             /\ \A k \in Nodes : input'[k] = JoinOf(m) => InputOf(k, m)
  BY <1>2, <1>7, <1>11, <1>12
<1> HIDE DEF D
<1>20. Handled(s, c, D)
  BY <1>1, <1>5, <1>6, <1>8, <1>9, <1>10, <1>13, <1>14 DEF Handled
<1> QED BY <1>14, <1>20, ServingRest

(* Introducing somebody leaves what there is: the news comes behind. *)
LEMMA IntroducingKept ==
    ASSUME IInv, NEW s \in Nodes, NEW c, Dispatched(s, c), Grown(queue'), OthersHeld, layout' = layout
    PROVE  /\ \A k \in Nodes : Kept(queue[k], queue'[k])
           /\ \A m \in Nodes : SeedOf[m] \in Nodes /\ Connected(m) => Connected(m)'
           /\ \A k, m \in Nodes : JoinOf(m) \in ToSet(held'[k]) => JoinOf(m) \in ToSet(held[k])
           /\ \A k \in Nodes : \A d \in ToSet(queue'[k]) : d.kind = "gone" => d \in ToSet(queue[k])
           /\ \A k \in Nodes : \A d \in ToSet(turn'[k]) : d \in ToSet(turn[k])
<1>1. \A k \in Nodes : Kept(queue[k], queue'[k])
  <2> DEFINE q == queue'
  <2>1. Grown(q)
    OBVIOUS
  <2> HIDE DEF q
  <2>2. \A k \in Nodes : Kept(queue[k], q[k])
    BY <2>1, KeptGrown
  <2> QED BY <2>2 DEF q
<1>2. \A m : JoinOf(m).kind # "gone"
  BY ConnIs
<1>3. \A k, m \in Nodes : JoinOf(m) \in ToSet(held'[k]) <=> JoinOf(m) \in ToSet(held[k])
  BY <1>2 DEF OthersHeld
<1>4. \A k \in Nodes : ToSet(queue[k]) \subseteq ToSet(queue'[k])
  BY DEF Grown
<1>5. \A m \in Nodes : SeedOf[m] \in Nodes /\ Connected(m) => Connected(m)'
  BY <1>3, <1>4 DEF Connected, SeedOf
<1>6. \A k \in Nodes : \A d \in ToSet(queue'[k]) : d.kind = "gone" => d \in ToSet(queue[k])
  BY DEF Grown
<1>7. \A k \in Nodes : ToSet(turn'[k]) \subseteq ToSet(turn[k])
  BY Dispatching DEF IInv
<1> QED BY <1>1, <1>3, <1>5, <1>6, <1>7

(* A HELLO that is read is in the buffer, and its connection is kept. *)
LEMMA HandleHelloRest ==
    ASSUME IInv, NEW s \in Nodes, NEW n \in Nodes, HandleHello(s, n) PROVE Remains'
<1> DEFINE c == JoinOf(n)
<1>1. /\ Dispatched(s, c) /\ Received(s, c) /\ queue' = Announcing(s, n)
      /\ UNCHANGED <<layout, mode, ntoa, held, crashes>>
  BY DEF HandleHello
<1>2. /\ \A m \in Nodes : m # n => ask'[m] = ask[m] /\ ans'[m] = ans[m]
      /\ ans'[n].kind = "hello"
  BY DEF HandleHello, IInv, Core, TypeOK
<1>3. /\ mode[s] = "up" /\ mode[n] = "hello" /\ s = SeedOf[n] /\ s # n
      /\ c \in ToSet(turn[s]) /\ c \in ToSet(held[s]) /\ Noted(s)
  BY HandlingHello DEF IInv
<1>4. Grown(queue')
  BY <1>1, <1>3, NewcomerIs DEF IInv
<1>5. OthersHeld
  BY <1>1 DEF IInv, Core, TypeOK, OthersHeld
<1>6. c \in {x \in Conn : x.kind # "gone"} \cup {Nobody} /\ c \notin Left /\ c.kind = "join"
      /\ \A m : c = JoinOf(m) => m = n
  BY LeftIs, ConnIs
<1>7. /\ \A k \in Nodes : Kept(queue[k], queue'[k])
      /\ \A m \in Nodes : SeedOf[m] \in Nodes /\ Connected(m) => Connected(m)'
      /\ \A k \in Nodes : \A d \in ToSet(queue'[k]) : d.kind = "gone" => d \in ToSet(queue[k])
      /\ \A k \in Nodes : \A d \in ToSet(turn'[k]) : d \in ToSet(turn[k])
  BY <1>1, <1>4, <1>5, IntroducingKept
<1>8. InputOf(s, n)
  <2>1. Connected(n)
    BY <1>3 DEF Connected
  <2> QED BY <1>2, <1>3, <1>7, <2>1 DEF InputOf
<1>9. \A g \in Left : ~(g.from = n /\ SeedOf[n] \in Nodes
                        /\ g \in ToSet(queue[SeedOf[n]]) \cup ToSet(held[SeedOf[n]]))
  <2> SUFFICES ASSUME NEW g \in Left, g.from = n, g \in ToSet(queue[s]) \cup ToSet(held[s])
               PROVE  FALSE
    BY <1>3
  <2>1. turn[s] # <<>> /\ Head(turn[s]) = c /\ turn[s] \in Seq(Conn \cup {TheAccept})
    BY <1>1 DEF Dispatched, IInv, Core, TypeOK
  <2>2. g \in ToSet(held[s])
    BY <1>3 DEF IInv, LeftFirst
  <2>3. Ahead(turn[s], g, c)
    BY <2>2 DEF IInv, LeftFirst
  <2> QED BY <1>3, <2>1, <2>3, AheadIs
<1> HIDE DEF c
<1>10. /\ \A k \in Nodes : input'[k] # input[k] /\ input'[k] # Nobody =>
            /\ mode[k] = "up"
            /\ input'[k].kind = "push" => input'[k].what.name # k
            /\ \A m \in Nodes : input'[k] = JoinOf(m) => InputOf(k, m)
       /\ layout.crashes = 0 => input' = input
       /\ \A k \in Nodes : k # s => input'[k] = input[k]
  BY <1>1, <1>3, <1>6, <1>8, ReceivedRest
<1>11. \A k \in Nodes : input'[k] = JoinOf(n) => InputOf(k, n)
  <2> SUFFICES ASSUME NEW k \in Nodes, input'[k] = JoinOf(n), k # s PROVE FALSE
    BY <1>8
  <2>1. input[k] = JoinOf(n)
    BY <1>10
  <2> QED BY <1>3, <2>1, InputIs
<1>12. \A k \in Nodes : \A d \in Carried(k)' : d.kind = "gone" =>
          \E b \in Carried(k) : b.kind = "gone"
  BY <1>1, <1>7 DEF Carried
<1> DEFINE D == {n}
<1>14. /\ D \in SUBSET Nodes
       /\ \A m \in Nodes \ D :
             /\ ask'[m] = ask[m] /\ ans'[m] = ans[m]
             /\ SeedOf[m] \in Nodes /\ Connected(m) => Connected(m)'
       /\ \A m \in D :
             /\ \A g \in Left : ~(g.from = m /\ SeedOf[m] \in Nodes
                                  /\ g \in ToSet(queue[SeedOf[m]]) \cup ToSet(held[SeedOf[m]]))
             /\ \A k \in Nodes : input'[k] = JoinOf(m) => InputOf(k, m)
  BY <1>2, <1>7, <1>9, <1>11
<1> HIDE DEF D
<1>15. \A k \in Nodes : Kept(held[k], held'[k])
  BY <1>1, KeptSame
<1>20. Handled(s, c, D)
  BY <1>1, <1>6, <1>7, <1>10, <1>12, <1>14, <1>15 DEF Handled
<1> QED BY <1>14, <1>20, ServingRest

(* The end of a connection that is noted in its place. *)
LEMMA NotingKept ==
    ASSUME IInv, NEW s \in Nodes, NEW c \in Conn, NEW x \in Conn, c # x,
           c.kind = "gone", x.kind = "gone", x \notin Left,
           held' = [held EXCEPT ![s] = ReplaceAll(held[s], c, x)]
    PROVE  /\ \A k \in Nodes : Kept(held[k], held'[k])
           /\ \A k \in Nodes : \A g \in Left : g \in ToSet(held[k]) /\ ~(k = s /\ g = c)
                                                 => g \in ToSet(held'[k])
           /\ c \notin ToSet(held'[s])
           /\ \A k \in Nodes : k # s => held'[k] = held[k]
<1>1. held \in [Nodes -> Seq(Conn)]
  BY DEF IInv, Core, TypeOK
<1> DEFINE r == ReplaceAll(held[s], c, x)
<1>2. Instead(held[s], r, c, x)
  BY <1>1, Replaced DEF Instead
<1>3. held'[s] = r /\ \A k \in Nodes : k # s => held'[k] = held[k]
  BY <1>1
<1> HIDE DEF r
<1>4. Kept(held[s], r)
  BY <1>2, KeptReplaced
<1>5. ToSet(r) = IF c \in ToSet(held[s]) THEN (ToSet(held[s]) \ {c}) \cup {x} ELSE ToSet(held[s])
  BY <1>2 DEF Instead
<1> QED BY <1>3, <1>4, <1>5, KeptSame

(* So is the HELLO of a node that crashed, of which only the end is left. *)
LEMMA HelloOfGoneRest ==
    ASSUME IInv, NEW s \in Nodes, NEW n \in Nodes, NEW id \in 1 .. crashes, HelloOfGone(s, n, id)
    PROVE  Remains'
<1> DEFINE c == Gone(n, "hello", id)
           x == Gone(n, "end", id)
           j == JoinOf(n)
<1>1. /\ Dispatched(s, c) /\ Received(s, j) /\ queue' = Announcing(s, n)
      /\ held' = [held EXCEPT ![s] = ReplaceAll(held[s], c, x)]
      /\ UNCHANGED <<layout, mode, ntoa, ask, ans, crashes>>
  BY DEF HelloOfGone
<1>2. Core
  BY DEF IInv
<1>3. c \in Conn /\ c.kind = "gone" /\ c \in ToSet(turn[s]) /\ Noted(s) /\ mode[s] = "up"
  BY <1>1, <1>2, GoneDispatched
<1>4. /\ c \in Left /\ s # n /\ s = SeedOf[n]
      /\ mode[n] \notin {"list", "up"} /\ ans[n].kind = "none"
      /\ mode[n] = "hello" => ask[n] = "hello" /\ Connected(n)
  BY <1>3, LeftHelloIs
<1>5. x \in Conn /\ x.kind = "gone" /\ x.gives = "end" /\ c # x
  <2>1. id \in Nat
    BY <1>2, CrashesAre DEF Core
  <2>2. c.gives # x.gives
    BY GoneIs
  <2> QED BY <2>1, <2>2, GoneIs
<1>6. j \in {y \in Conn : y.kind # "gone"} \cup {Nobody} /\ j.kind = "join"
      /\ \A m : j = JoinOf(m) => m = n
  BY ConnIs
<1> HIDE DEF c, x, j
<1>7. x \notin Left
  BY <1>5, LeftIs
<1>8. OthersHeld
  BY <1>1, <1>2, <1>3, <1>5, NotingEnd
<1>9. Grown(queue')
  BY <1>1, <1>2, <1>3, <1>4, NewcomerIs
<1>10. /\ \A k \in Nodes : Kept(queue[k], queue'[k])
       /\ \A m \in Nodes : SeedOf[m] \in Nodes /\ Connected(m) => Connected(m)'
       /\ \A k, m \in Nodes : JoinOf(m) \in ToSet(held'[k]) => JoinOf(m) \in ToSet(held[k])
       /\ \A k \in Nodes : \A d \in ToSet(queue'[k]) : d.kind = "gone" => d \in ToSet(queue[k])
       /\ \A k \in Nodes : \A d \in ToSet(turn'[k]) : d \in ToSet(turn[k])
  BY <1>1, <1>8, <1>9, IntroducingKept
<1>11. /\ \A k \in Nodes : Kept(held[k], held'[k])
       /\ \A k \in Nodes : \A g \in Left : g \in ToSet(held[k]) /\ ~(k = s /\ g = c)
                                             => g \in ToSet(held'[k])
       /\ c \notin ToSet(held'[s])
       /\ \A k \in Nodes : k # s => held'[k] = held[k]
  BY <1>1, <1>3, <1>5, <1>7, NotingKept
<1>12. InputOf(s, n)
  BY <1>1, <1>3, <1>4, <1>10 DEF InputOf
<1>13. /\ \A k \in Nodes : input'[k] # input[k] /\ input'[k] # Nobody =>
            /\ mode[k] = "up"
            /\ input'[k].kind = "push" => input'[k].what.name # k
            /\ \A m \in Nodes : input'[k] = JoinOf(m) => InputOf(k, m)
       /\ layout.crashes = 0 => input' = input
  BY <1>1, <1>3, <1>6, <1>12, ReceivedRest
<1>14. \A k \in Nodes : \A d \in Carried(k)' : d.kind = "gone" =>
          \E b \in Carried(k) : b.kind = "gone"
  <2>1. c \in Carried(s)
    BY <1>3 DEF Carried
  <2> QED BY <1>3, <1>10, <1>11, <2>1 DEF Carried
<1> DEFINE E == {}
<1>19. E \in SUBSET Nodes
  OBVIOUS
<1>20. Handled(s, c, E)
  BY <1>1, <1>10, <1>11, <1>13, <1>14 DEF Handled, E
<1> HIDE DEF E
<1> QED BY <1>19, <1>20, ServingRest

(* Handling a HELLO again leaves the buffer alone, and the connection is reset. *)
LEMMA HelloAgainRest ==
    ASSUME IInv, NEW s \in Nodes, NEW n \in Nodes, NEW id \in 1 .. crashes, HelloAgain(s, n, id)
    PROVE  Remains'
<1> DEFINE c == Gone(n, "end", id)
           x == Gone(n, "reset", id)
<1>1. /\ Dispatched(s, c)
      /\ held' = [held EXCEPT ![s] = ReplaceAll(held[s], c, x)]
      /\ UNCHANGED <<layout, mode, ntoa, ask, ans, input, crashes>>
  BY DEF HelloAgain
<1>2. PICK h \in Nodes : input[s] = JoinOf(h) /\ queue' = Announcing(s, h)
  BY DEF HelloAgain
<1>3. Core
  BY DEF IInv
<1>4. c \in Conn /\ c.kind = "gone" /\ c \in ToSet(turn[s]) /\ Noted(s) /\ mode[s] = "up"
  BY <1>1, <1>3, GoneDispatched
<1>5. mode[h] # "up" /\ s # h
  BY <1>2, <1>4, InputIs
<1>6. x \in Conn /\ x.kind = "gone" /\ x.gives = "reset" /\ c.gives = "end" /\ c # x
  <2>1. id \in Nat
    BY <1>3, CrashesAre DEF Core
  <2>2. c.gives # x.gives
    BY GoneIs
  <2> QED BY <2>1, <2>2, GoneIs
<1> HIDE DEF c, x
<1>7. x \notin Left /\ c \notin Left
  BY <1>6, LeftIs
<1>8. OthersHeld
  BY <1>1, <1>3, <1>4, <1>6, NotingEnd
<1>9. Grown(queue')
  BY <1>2, <1>3, <1>4, <1>5, NewcomerIs
<1>10. /\ \A k \in Nodes : Kept(queue[k], queue'[k])
       /\ \A m \in Nodes : SeedOf[m] \in Nodes /\ Connected(m) => Connected(m)'
       /\ \A k, m \in Nodes : JoinOf(m) \in ToSet(held'[k]) => JoinOf(m) \in ToSet(held[k])
       /\ \A k \in Nodes : \A d \in ToSet(queue'[k]) : d.kind = "gone" => d \in ToSet(queue[k])
       /\ \A k \in Nodes : \A d \in ToSet(turn'[k]) : d \in ToSet(turn[k])
  BY <1>1, <1>8, <1>9, IntroducingKept
<1>11. /\ \A k \in Nodes : Kept(held[k], held'[k])
       /\ \A k \in Nodes : \A g \in Left : g \in ToSet(held[k]) /\ ~(k = s /\ g = c)
                                             => g \in ToSet(held'[k])
       /\ \A k \in Nodes : k # s => held'[k] = held[k]
  BY <1>1, <1>4, <1>6, <1>7, NotingKept
<1>12. \A k \in Nodes : \A d \in Carried(k)' : d.kind = "gone" =>
          \E b \in Carried(k) : b.kind = "gone"
  <2>1. c \in Carried(s)
    BY <1>4 DEF Carried
  <2> QED BY <1>4, <1>10, <1>11, <2>1 DEF Carried
<1> DEFINE E == {}
<1>19. E \in SUBSET Nodes
  OBVIOUS
<1>20. Handled(s, c, E)
  BY <1>1, <1>7, <1>10, <1>11, <1>12 DEF Handled, E
<1> HIDE DEF E
<1> QED BY <1>19, <1>20, ServingRest

(* When a node ends, there is nothing left with it, and nothing changes for the others. *)
LEMMA EndsRest ==
    ASSUME IInv, NEW s \in Nodes, NEW q, mode[s] = "up", Grown(q), EndsAmid(s, q),
           UNCHANGED <<layout, ask, ans>>, crashes' \in Nat, crashes <= crashes'
    PROVE  Remains'
<1>1. /\ mode \in [Nodes -> {"down", "hello", "list", "up", "dead", "wild"}]
      /\ q \in [Nodes -> Seq(Conn)] /\ held \in [Nodes -> Seq(Conn)]
      /\ turn \in [Nodes -> Seq(Conn \cup {TheAccept})]
      /\ input \in [Nodes -> {c \in Conn : c.kind # "gone"} \cup {Nobody}]
  BY DEF IInv, Core, TypeOK, Grown
<1>2. /\ mode'[s] = "dead" /\ queue'[s] = <<>> /\ held'[s] = <<>> /\ turn'[s] = <<>>
      /\ input'[s] = Nobody
      /\ \A k \in Nodes : k # s => /\ mode'[k] = mode[k] /\ queue'[k] = q[k]
                                   /\ held'[k] = held[k] /\ turn'[k] = turn[k]
                                   /\ input'[k] = input[k]
  BY <1>1 DEF EndsAmid
<1>3. \A k \in Nodes : Kept(queue[k], queue'[k]) /\ Kept(held[k], held'[k])
  BY <1>2, KeptGrown, KeptSame
<1>4. \A k \in Nodes : KeptTurn(k)
  <2> SUFFICES ASSUME NEW k \in Nodes, NEW g \in Left
               PROVE  /\ Once(turn[k], g) => Once(turn'[k], g)
                      /\ g \in ToSet(turn'[k]) => g \in ToSet(held'[k])
                      /\ \A m \in Nodes : g \in ToSet(held'[k]) /\ Ahead(turn[k], g, JoinOf(m))
                                             => Ahead(turn'[k], g, JoinOf(m))
    BY DEF KeptTurn
  <2>1. CASE k = s
    BY <1>2, <2>1, EmptyIs
  <2>2. CASE k # s
    BY <1>2, <2>2 DEF IInv, LeftOnce
  <2> QED BY <2>1, <2>2
<1>5. \A k, m \in Nodes : JoinOf(m) \in ToSet(held'[k]) => JoinOf(m) \in ToSet(held[k])
  BY <1>2, EmptyIs
<1>6. ASSUME NEW m \in Nodes, SeedOf[m] \in Nodes, SeedOf[m] # s, Connected(m)
      PROVE  Connected(m)'
  BY <1>2, <1>6 DEF Connected, SeedOf, Grown
<1>7. ASSUME NEW n \in Nodes, NEW g \in Left, g.from = n, SeedOf[n] \in Nodes,
             g \in ToSet(queue'[SeedOf[n]]) \cup ToSet(held'[SeedOf[n]])
      PROVE  /\ mode'[n] \notin {"list", "up"} /\ ans'[n].kind = "none"
             /\ mode'[n] = "hello" => ask'[n] = "hello" /\ Connected(n)'
  <2>1. SeedOf[n] # s
    BY <1>2, <1>7, EmptyIs
  <2>2. g \in ToSet(queue[SeedOf[n]]) \cup ToSet(held[SeedOf[n]])
    BY <1>3, <1>7 DEF Kept
  <2>3. /\ mode[n] \notin {"list", "up"} /\ ans[n].kind = "none"
        /\ mode[n] = "hello" => ask[n] = "hello" /\ Connected(n)
    BY <1>7, <2>2, LeftFrom
  <2>4. n # s
    BY <2>3
  <2> QED BY <1>2, <1>6, <1>7, <2>1, <2>3, <2>4
<1>8. LeftOnce' /\ LeftFirst'
  <2>1. crashes \in Nat
    BY CrashesAre DEF IInv, Core
  <2> QED BY <1>3, <1>4, <1>5, <1>7, <2>1, LeftKept
<1>9. InputInv'
  <2> SUFFICES ASSUME NEW k \in Nodes, input'[k] # Nobody
               PROVE  /\ mode'[k] = "up"
                      /\ input'[k].kind = "push" => input'[k].what.name # k
                      /\ \A m \in Nodes : input'[k] = JoinOf(m) =>
                            /\ SeedOf[m] = k /\ mode'[m] # "up" /\ ans[m].kind # "list"
                            /\ mode'[m] \in {"hello", "list"} => Connected(m)'
    BY DEF InputInv, SeedOf
  <2>1. k # s /\ input'[k] = input[k] /\ mode'[k] = mode[k]
    BY <1>2
  <2>2. mode[k] = "up" /\ (input[k].kind = "push" => input[k].what.name # k)
    BY <2>1 DEF IInv, InputInv
  <2>3. ASSUME NEW m \in Nodes, input[k] = JoinOf(m)
        PROVE  /\ SeedOf[m] = k /\ mode'[m] # "up" /\ ans[m].kind # "list"
               /\ mode'[m] \in {"hello", "list"} => Connected(m)'
    <3>1. /\ SeedOf[m] = k /\ mode[m] # "up" /\ ans[m].kind # "list"
          /\ mode[m] \in {"hello", "list"} => Connected(m)
      BY <2>3, InputIs
    <3>2. m # s
      BY <3>1
    <3> QED BY <1>2, <1>6, <2>1, <3>1, <3>2
  <2> QED BY <2>1, <2>2, <2>3
<1>10. NoneGone'
  <2> SUFFICES ASSUME layout.crashes = 0, NEW k \in Nodes
               PROVE  /\ input'[k] = Nobody
                      /\ \A c \in ToSet(queue'[k]) \cup ToSet(held'[k]) \cup ToSet(turn'[k]) :
                            c.kind # "gone"
    BY DEF NoneGone, Carried
  <2>1. input[k] = Nobody
        /\ \A c \in ToSet(queue[k]) \cup ToSet(held[k]) \cup ToSet(turn[k]) : c.kind # "gone"
    BY DEF IInv, NoneGone, Carried
  <2>2. CASE k = s
    BY <1>2, <2>2, EmptyIs
  <2>3. CASE k # s
    BY <1>2, <2>1, <2>3 DEF Grown
  <2> QED BY <2>2, <2>3
<1> QED BY <1>8, <1>9, <1>10 DEF Remains

(* A push from an unknown address ends the node. *)
LEMMA PushKillsKeeps ==
    ASSUME IInv, NEW s \in Nodes, NEW c \in ToSet(turn[s]), PushKills(s, c)
    PROVE  Core' /\ Remains'
<1>1. mode[s] = "up" /\ Ends(s) /\ UNCHANGED <<layout, known, ntoa, ask, ans, crashes>>
  BY DEF PushKills
<1>2. Core /\ EndsAmid(s, queue) /\ Grown(queue)
  BY <1>1, QueuesAre DEF IInv, Core, Ends
<1>3. crashes' \in 0 .. layout.crashes /\ crashes' \in Nat /\ crashes <= crashes'
  BY <1>1, <1>2, CrashesAre DEF Core, TypeOK
<1>4. Core'
  BY <1>1, <1>2, <1>3, EndsKeeps
<1>5. Remains'
  BY <1>1, <1>2, <1>3, EndsRest
<1> QED BY <1>4, <1>5

(* A crash ends it. *)
LEMMA CrashKeeps == ASSUME IInv, NEW s \in Nodes, Crash(s) PROVE Core' /\ Remains'
<1>1. /\ mode[s] = "up" /\ Ends(s) /\ UNCHANGED <<layout, known, ntoa, ask, ans>>
      /\ crashes < layout.crashes /\ crashes' = crashes + 1
  BY DEF Crash
<1>2. Core /\ EndsAmid(s, queue) /\ Grown(queue)
  BY <1>1, QueuesAre DEF IInv, Core, Ends
<1>3. crashes' \in 0 .. layout.crashes /\ crashes' \in Nat /\ crashes <= crashes'
  <2>1. crashes \in Nat /\ layout.crashes \in Nat
    BY <1>2, CrashesAre DEF Core
  <2> QED BY <1>1, <2>1
<1>4. Core'
  BY <1>1, <1>2, <1>3, EndsKeeps
<1>5. Remains'
  BY <1>1, <1>2, <1>3, EndsRest
<1> QED BY <1>4, <1>5

(* So does the answer to a node that crashed. *)
LEMMA GoneKillsRest ==
    ASSUME IInv, NEW s \in Nodes, NEW n \in Nodes, NEW id \in 1 .. crashes, GoneKills(s, n, id)
    PROVE  Remains'
<1>1. mode[s] = "up" /\ UNCHANGED <<layout, known, ntoa, ask, ans, crashes>>
  BY DEF GoneKills
<1>2. Core /\ crashes' \in Nat /\ crashes <= crashes'
  BY <1>1, CrashesAre DEF IInv, Core
<1>3. CASE Ends(s)
  <2>1. EndsAmid(s, queue) /\ Grown(queue)
    BY <1>2, <1>3, QueuesAre DEF Ends, Core
  <2> QED BY <1>1, <1>2, <2>1, EndsRest
<1>4. CASE \E m \in Nodes : input[s] = JoinOf(m) /\ EndsAmid(s, Announcing(s, m))
  <2>1. PICK m \in Nodes : input[s] = JoinOf(m) /\ EndsAmid(s, Announcing(s, m))
    BY <1>4
  <2>2. SeedOf[m] = s /\ mode[m] # "up"
    BY <2>1, InputIs
  <2>3. m # s /\ Noted(s)
    <3>1. turn[s] # <<>> /\ Head(turn[s]) \in {Gone(n, "end", id), Gone(n, "reset", id)}
      BY DEF GoneKills
    <3>2. turn[s] \in Seq(Conn \cup {TheAccept})
      BY <1>2, NodeTypes DEF Core
    <3>3. Head(turn[s]) \in ToSet(turn[s])
      BY <3>1, <3>2, TailOf
    <3>4. Head(turn[s]) # TheAccept
      BY <3>1, GoneIs, ConnIs
    <3> QED BY <1>1, <1>2, <2>2, <3>3, <3>4 DEF Core, NotedInv
  <2>4. Grown(Announcing(s, m))
    BY <1>2, <2>2, <2>3, NewcomerIs
  <2> QED BY <1>1, <1>2, <2>1, <2>4, EndsRest
<1> QED BY <1>3, <1>4 DEF GoneKills

(* A crash in a join leaves its request where its connection was. *)
LEMMA CrashJoiningRest == ASSUME IInv, NEW n \in Nodes, CrashJoining(n) PROVE Remains'
<1> DEFINE s == SeedOf[n]
           c == JoinOf(n)
<1>1. /\ mode' = [mode EXCEPT ![n] = "dead"] /\ ask' = [ask EXCEPT ![n] = "none"]
      /\ ans' = [ans EXCEPT ![n] = NoAnswer] /\ crashes' = crashes + 1
      /\ crashes < layout.crashes
      /\ UNCHANGED <<layout, known, ntoa, input>>
  BY DEF CrashJoining
<1>2. Core
  BY DEF IInv
<1>3. PICK gives \in {"hello", "list", "end", "reset"} :
          LET x == Gone(n, gives, crashes + 1) IN
          /\ gives = "hello" => ask[n] = "hello"
          /\ x \in Conn /\ x.kind = "gone" /\ x.from = n /\ x.id = crashes + 1 /\ x # c
          /\ queue' = [queue EXCEPT ![s] = ReplaceAll(queue[s], c, x)]
          /\ held' = [held EXCEPT ![s] = ReplaceAll(held[s], c, x)]
          /\ turn' = [turn EXCEPT ![s] = ReplaceAll(turn[s], c, x)]
  BY <1>2, CrashLeaves
<1> DEFINE x == Gone(n, gives, crashes + 1)
<1>4. s \in Nodes /\ s # n /\ mode[n] \in {"hello", "list"}
  BY <1>2, CrashLeaves
<1>5. x \in Conn /\ x.kind = "gone" /\ x # c /\ x.from = n /\ x.id = crashes + 1
  BY <1>3
<1> HIDE DEF x, s
<1>6. /\ \A k \in Nodes : k # s => queue'[k] = queue[k] /\ held'[k] = held[k] /\ turn'[k] = turn[k]
      /\ Instead(queue[s], queue'[s], c, x) /\ Instead(held[s], held'[s], c, x)
      /\ Instead(turn[s], turn'[s], c, x)
  BY <1>2, <1>3, <1>4, <1>5, InsteadIs DEF Core, x
<1>7. \A k \in Nodes : k # n => mode'[k] = mode[k] /\ ask'[k] = ask[k] /\ ans'[k] = ans[k]
  BY <1>1, <1>2 DEF Core, TypeOK
<1>8. mode'[n] = "dead" /\ ans'[n].kind = "none"
  BY <1>1, <1>2, AnswerIs DEF Core, TypeOK
<1>9. c.kind = "join" /\ c \notin Left /\ c # x /\ (\A m : JoinOf(m) # x)
      /\ \A m : JoinOf(m) = c => m = n
  BY <1>5, LeftIs, ConnIs
<1>10. Core'
  BY <1>2, CrashJoiningKeeps
<1>11. crashes \in Nat /\ crashes' = crashes + 1 /\ layout.crashes # 0
  BY <1>1, <1>2, CrashesAre DEF Core
<1>12. \A k \in Nodes : x \notin ToSet(queue[k]) \cup ToSet(held[k]) \cup ToSet(turn[k]) \/ x \notin Left
  <2> SUFFICES ASSUME NEW k \in Nodes, x \in Left,
                      x \in ToSet(queue[k]) \cup ToSet(held[k]) \cup ToSet(turn[k])
               PROVE  FALSE
    OBVIOUS
  <2>1. x.id <= crashes
    BY DEF IInv, LeftOnce
  <2> QED BY <1>5, <1>11, <2>1
<1>13. NoneGone'
  BY <1>1, <1>11 DEF NoneGone
<1>14. \A m \in Nodes : c \notin ToSet(queue'[m]) \cup ToSet(held'[m]) \cup ToSet(turn'[m])
  <2> SUFFICES ASSUME NEW k \in Nodes, c \in ToSet(queue'[k]) \cup ToSet(held'[k]) \cup ToSet(turn'[k])
               PROVE  FALSE
    OBVIOUS
  <2>1. c \in ToSet(queue'[k]) \cup ToSet(held'[k])
    BY <1>10 DEF Core, JoinsOnce
  <2> QED BY <1>8, <1>10, <2>1 DEF Core, JoinsOnce
<1>15. ASSUME NEW m \in Nodes, m # n, SeedOf[m] \in Nodes, Connected(m)
       PROVE  Connected(m)'
  <2>1. JoinOf(m) # c
    BY <1>9, <1>15
  <2>2. \A k \in Nodes : JoinOf(m) \in ToSet(queue[k]) \cup ToSet(held[k])
                           => JoinOf(m) \in ToSet(queue'[k]) \cup ToSet(held'[k])
    BY <1>6, <2>1 DEF Instead
  <2> QED BY <1>1, <1>15, <2>2 DEF Connected, SeedOf
<1>16. ASSUME NEW k \in Nodes, NEW g \in Left
       PROVE  /\ Once(queue[k], g) /\ Once(held[k], g) /\ Once(turn[k], g)
              /\ g \notin ToSet(queue[k]) \cap ToSet(held[k])
              /\ g \in ToSet(turn[k]) => g \in ToSet(held[k])
              /\ g \in ToSet(queue[k]) \cup ToSet(held[k]) =>
                    /\ k = SeedOf[g.from] /\ g.id <= crashes
                    /\ mode[g.from] \notin {"list", "up"} /\ ans[g.from].kind = "none"
                    /\ mode[g.from] = "hello" => ask[g.from] = "hello" /\ Connected(g.from)
              /\ g \in ToSet(held[k]) =>
                    Ahead(held[k], g, JoinOf(g.from)) /\ Ahead(turn[k], g, JoinOf(g.from))
              /\ g \in ToSet(queue[k]) =>
                    Ahead(queue[k], g, JoinOf(g.from)) /\ JoinOf(g.from) \notin ToSet(held[k])
              /\ g.from \in Nodes /\ g.id \in Nat
  BY LeftIs, GoneIs DEF IInv, LeftOnce, LeftFirst
<1>17. ASSUME NEW k \in Nodes
       PROVE  /\ Once(queue[k], c) /\ Once(held[k], c) /\ Once(turn[k], c)
              /\ c \notin ToSet(queue[k]) \cap ToSet(held[k])
              /\ c \in ToSet(turn[k]) => c \in ToSet(held[k])
  BY <1>2 DEF Core, JoinsOnce
<1>18. LeftOnce'
  <2> SUFFICES ASSUME NEW k \in Nodes, NEW g \in Left
               PROVE  /\ Once(queue'[k], g) /\ Once(held'[k], g) /\ Once(turn'[k], g)
                      /\ g \notin ToSet(queue'[k]) \cap ToSet(held'[k])
                      /\ g \in ToSet(turn'[k]) => g \in ToSet(held'[k])
                      /\ g \in ToSet(queue'[k]) \cup ToSet(held'[k]) =>
                            /\ k = SeedOf[g.from] /\ g.id <= crashes'
                            /\ mode'[g.from] \notin {"list", "up"} /\ ans'[g.from].kind = "none"
                            /\ mode'[g.from] = "hello" =>
                                  ask'[g.from] = "hello" /\ Connected(g.from)'
    BY <1>1 DEF LeftOnce, SeedOf
  <2>1. CASE g # x
    <3>1. g # c
      BY <1>9
    <3>2. /\ g \in ToSet(queue'[k]) <=> g \in ToSet(queue[k])
          /\ g \in ToSet(held'[k]) <=> g \in ToSet(held[k])
          /\ g \in ToSet(turn'[k]) <=> g \in ToSet(turn[k])
      BY <1>6, <2>1, <3>1 DEF Instead
    <3>3. Once(queue'[k], g) /\ Once(held'[k], g) /\ Once(turn'[k], g)
      <4>1. CASE k = s
        BY <1>6, <1>16, <2>1, <4>1 DEF Instead
      <4>2. CASE k # s
        BY <1>6, <1>16, <4>2
      <4> QED BY <4>1, <4>2
    <3>4. g \in ToSet(queue[k]) \cup ToSet(held[k]) =>
              /\ mode'[g.from] \notin {"list", "up"} /\ ans'[g.from].kind = "none"
              /\ mode'[g.from] = "hello" => ask'[g.from] = "hello" /\ Connected(g.from)'
      <4>1. CASE g.from = n
        BY <1>8, <4>1
      <4>2. CASE g.from # n
        BY <1>7, <1>15, <1>16, <4>2
      <4> QED BY <4>1, <4>2
    <3>5. g \in ToSet(queue[k]) \cup ToSet(held[k]) => g.id <= crashes'
      BY <1>11, <1>16
    <3> QED BY <1>16, <3>2, <3>3, <3>4, <3>5
  <2>2. CASE g = x
    <3>1. x \notin ToSet(queue[k]) \cup ToSet(held[k]) \cup ToSet(turn[k])
      BY <1>12, <2>2
    <3>2. CASE k # s
      BY <1>6, <1>16, <2>2, <3>1, <3>2
    <3>3. CASE k = s
      <4>1. Once(queue'[s], x) /\ Once(held'[s], x) /\ Once(turn'[s], x)
        BY <1>6, <1>17, <3>1, <3>3 DEF Instead
      <4>2. /\ x \in ToSet(queue'[s]) <=> c \in ToSet(queue[s])
            /\ x \in ToSet(held'[s]) <=> c \in ToSet(held[s])
            /\ x \in ToSet(turn'[s]) <=> c \in ToSet(turn[s])
        BY <1>6, <3>1, <3>3 DEF Instead
      <4>3. x.id <= crashes'
        BY <1>5, <1>11
      <4> QED BY <1>5, <1>8, <1>17, <2>2, <3>3, <4>1, <4>2, <4>3 DEF s
    <3> QED BY <3>2, <3>3
  <2> QED BY <2>1, <2>2
<1>19. LeftFirst'
  <2> SUFFICES ASSUME NEW k \in Nodes, NEW g \in Left
               PROVE  /\ g \in ToSet(held'[k]) =>
                            /\ Ahead(held'[k], g, JoinOf(g.from))
                            /\ Ahead(turn'[k], g, JoinOf(g.from))
                      /\ g \in ToSet(queue'[k]) =>
                            /\ Ahead(queue'[k], g, JoinOf(g.from))
                            /\ JoinOf(g.from) \notin ToSet(held'[k])
    BY DEF LeftFirst
  <2>1. CASE g.from = n
    <3>1. /\ queue'[k] \in Seq(Conn) /\ held'[k] \in Seq(Conn)
          /\ turn'[k] \in Seq(Conn \cup {TheAccept})
      BY <1>10 DEF Core, TypeOK
    <3>2. c \notin ToSet(queue'[k]) /\ c \notin ToSet(held'[k]) /\ c \notin ToSet(turn'[k])
      BY <1>14
    <3>3. Ahead(queue'[k], g, c) /\ Ahead(held'[k], g, c) /\ Ahead(turn'[k], g, c)
      BY <3>1, <3>2, AheadIs
    <3> QED BY <2>1, <3>2, <3>3
  <2>2. CASE g.from # n
    <3>1. g # x /\ g # c /\ JoinOf(g.from) # x /\ JoinOf(g.from) # c
      BY <1>5, <1>9, <2>2
    <3>2. CASE k # s
      BY <1>6, <1>16, <3>2
    <3>3. CASE k = s
      <4>1. /\ g \in ToSet(queue'[s]) <=> g \in ToSet(queue[s])
            /\ g \in ToSet(held'[s]) <=> g \in ToSet(held[s])
            /\ JoinOf(g.from) \in ToSet(held'[s]) <=> JoinOf(g.from) \in ToSet(held[s])
        BY <1>6, <3>1 DEF Instead
      <4>2. /\ Ahead(queue[s], g, JoinOf(g.from)) => Ahead(queue'[s], g, JoinOf(g.from))
            /\ Ahead(held[s], g, JoinOf(g.from)) => Ahead(held'[s], g, JoinOf(g.from))
            /\ Ahead(turn[s], g, JoinOf(g.from)) => Ahead(turn'[s], g, JoinOf(g.from))
        BY <1>6, <3>1 DEF Instead
      <4> QED BY <1>16, <3>3, <4>1, <4>2
    <3> QED BY <3>2, <3>3
  <2> QED BY <2>1, <2>2
<1>20. InputInv'
  <2> SUFFICES ASSUME NEW k \in Nodes, input[k] # Nobody
               PROVE  /\ mode'[k] = "up"
                      /\ input[k].kind = "push" => input[k].what.name # k
                      /\ \A m \in Nodes : input[k] = JoinOf(m) =>
                            /\ SeedOf[m] = k /\ mode'[m] # "up" /\ ans'[m].kind # "list"
                            /\ mode'[m] \in {"hello", "list"} => Connected(m)'
    BY <1>1 DEF InputInv, SeedOf
  <2>1. mode[k] = "up" /\ (input[k].kind = "push" => input[k].what.name # k)
    BY DEF IInv, InputInv
  <2>2. mode'[k] = "up"
    BY <1>4, <1>7, <2>1
  <2>3. ASSUME NEW m \in Nodes, input[k] = JoinOf(m)
        PROVE  /\ SeedOf[m] = k /\ mode'[m] # "up" /\ ans'[m].kind # "list"
               /\ mode'[m] \in {"hello", "list"} => Connected(m)'
    <3>1. /\ SeedOf[m] = k /\ mode[m] # "up" /\ ans[m].kind # "list"
          /\ mode[m] \in {"hello", "list"} => Connected(m)
      BY <2>3, InputIs
    <3>2. CASE m = n
      BY <1>8, <3>1, <3>2
    <3>3. CASE m # n
      BY <1>7, <1>15, <3>1, <3>3
    <3> QED BY <3>2, <3>3
  <2> QED BY <2>1, <2>2, <2>3
<1> QED BY <1>13, <1>18, <1>19, <1>20 DEF Remains

(* Every step keeps the invariant. *)
LEMMA NextIInv == IInv /\ [Next]_vars => IInv'
<1> SUFFICES ASSUME IInv, [Next]_vars PROVE Core' /\ Remains'
  BY DEF IInv, Remains
<1>1. Core
  BY DEF IInv
<1>2. CASE UNCHANGED vars
  BY <1>2 DEF vars, IInv, Remains, Core, TypeOK, Quiet, TurnInv, NotedInv, Noted, AskInv, JoinsOnce,
              NewsOfOthers, Pushes, Carried, NoSelf, NamesIn, Entries, Host, SeedOf,
              NoneGone, LeftOnce, LeftFirst, InputInv, Connected
<1>3. ASSUME NEW n \in Nodes, Starts(n) PROVE Core' /\ Remains'
  BY <1>1, <1>3, StartAloneKeeps, StartAloneRest, StartByGarbageKeeps, StartByGarbageRest,
     StartJoinKeeps, StartJoinRest, StartUnreachableKeeps, StartUnreachableRest DEF Starts
<1>4. ASSUME NEW n \in Nodes, Joins(n) PROVE Core' /\ Remains'
  BY <1>1, <1>4, HelloAnsweredKeeps, HelloAnsweredRest, ListAnsweredKeeps, ListAnsweredRest,
     JoinBrokenKeeps, JoinBrokenRest DEF Joins
<1>5. ASSUME NEW n \in Nodes, Fails(n) PROVE Core' /\ Remains'
  BY <1>1, <1>5, CrashKeeps, CrashJoiningKeeps, CrashJoiningRest, RestartKeeps, RestartRest DEF Fails
<1>6. ASSUME NEW s \in Nodes, NEW n \in Nodes, NEW id \in 1 .. crashes, HandleGone(s, n, id)
      PROVE  Core' /\ Remains'
  BY <1>1, <1>6, HelloOfGoneKeeps, HelloOfGoneRest, ListOfGoneKeeps, ListOfGoneRest,
     HelloAgainKeeps, HelloAgainRest, PushAgainKeeps, PushAgainRest,
     NothingAgainKeeps, NothingAgainRest, GoneKillsKeeps, GoneKillsRest DEF HandleGone
<1>7. ASSUME NEW s \in Nodes, Serves(s) PROVE Core' /\ Remains'
  BY <1>1, <1>6, <1>7, PollKeeps, PollRest, AcceptKeeps, AcceptRest,
     HandleHelloKeeps, HandleHelloRest, HandleGetNodeListKeeps, HandleGetNodeListRest,
     HandlePushKeeps, HandlePushRest, PushKillsKeeps DEF Serves
<1> QED BY <1>2, <1>3, <1>4, <1>5, <1>7 DEF Next

(* The initial states have it. *)
LEMMA InitIInv == Init => IInv
<1> SUFFICES ASSUME Init PROVE IInv
  OBVIOUS
<1>1. Core
  BY InitCore
<1>2. \A s \in Nodes : queue[s] = <<>> /\ held[s] = <<>> /\ turn[s] = <<>> /\ input[s] = Nobody
  BY DEF Init
<1>3. NoneGone /\ LeftOnce /\ LeftFirst /\ InputInv
  BY <1>2, EmptyIs DEF NoneGone, LeftOnce, LeftFirst, InputInv, Carried
<1> QED BY <1>1, <1>3 DEF IInv

(***************************************************************************)
(* The invariant holds of every reachable state.                           *)
(***************************************************************************)
THEOREM InductiveInvariant == Spec => []IInv
BY InitIInv, NextIInv, PTL DEF Spec

(***************************************************************************)
(* The state keeps its types: in particular, a turn dispatches accepts and *)
(* connections that there are, and a node has an address to tell of when   *)
(* it handles a HELLO.                                                     *)
(***************************************************************************)
THEOREM TypeCorrect == Spec => []TypeOK
<1>1. IInv => TypeOK
  BY DEF IInv, Core
<1> QED BY <1>1, InductiveInvariant, PTL

(***************************************************************************)
(* As long as nodes are only started while their seed is listening, none   *)
(* lists itself, whichever nodes crash, while they serve or while they     *)
(* join, and come back: its own name is skipped in the list, nobody pushes *)
(* it to it, and a request that is handled once more, because there was    *)
(* nothing to receive, is not of the node itself either.  It ends where a  *)
(* node reads a node list out of memory that it did not initialise.        *)
(***************************************************************************)
THEOREM NobodyListsItself == Spec => [](layout.clean /\ Tame => NoSelf)
<1>1. IInv => (layout.clean /\ Tame => NoSelf)
  BY DEF IInv, Core
<1> QED BY <1>1, InductiveInvariant, PTL

-----------------------------------------------------------------------------
(* Where news comes from: what a step adds to pushes, tables and lists *)

(* The two ways to end when no connection has. *)
Ending(s) == PushKills(s, Head(turn[s])) \/ Crash(s)

(* The steps in which nobody serves. *)
Aside(n) ==
    \/ StartAlone(n) \/ StartByGarbage(n) \/ StartUnreachable(n)
    \/ HelloAnswered(n) \/ ListAnswered(n) \/ JoinBroken(n) \/ Restart(n)

(* The steps by what they do to the connections. *)
LEMMA StepIs ==
    ASSUME Next
    PROVE  \/ /\ UNCHANGED <<layout, queue, held, turn, input>>
              /\ \E n \in Nodes : Aside(n)
           \/ \E n \in Nodes : StartJoin(n)
           \/ \E s \in Nodes : Poll(s) \/ Accept(s) \/ Ending(s)
           \/ \E s, n \in Nodes : HandleHello(s, n) \/ HandleGetNodeList(s, n)
           \/ \E s \in Nodes : \E c \in ToSet(turn[s]) : HandlePush(s, c)
           \/ \E n \in Nodes : CrashJoining(n)
           \/ \E s, n \in Nodes : \E id \in 1 .. crashes : HandleGone(s, n, id)
<1>1. ASSUME NEW n \in Nodes, Aside(n)
      PROVE  UNCHANGED <<layout, queue, held, turn, input>>
  BY <1>1 DEF Aside, StartAlone, StartByGarbage, StartUnreachable, HelloAnswered, ListAnswered,
              JoinBroken, Restart
<1>2. ASSUME NEW s \in Nodes, NEW c, PushKills(s, c)
      PROVE  Ending(s)
  BY <1>2 DEF PushKills, Ending
<1>3. ASSUME NEW s \in Nodes, Serves(s)
      PROVE  \/ Poll(s) \/ Accept(s) \/ Ending(s)
             \/ \E n \in Nodes : HandleHello(s, n) \/ HandleGetNodeList(s, n)
             \/ \E c \in ToSet(turn[s]) : HandlePush(s, c)
             \/ \E n \in Nodes : \E id \in 1 .. crashes : HandleGone(s, n, id)
  BY <1>2, <1>3 DEF Serves
<1>4. ASSUME NEW n \in Nodes, Starts(n) \/ Joins(n) \/ Fails(n)
      PROVE  Aside(n) \/ StartJoin(n) \/ Ending(n) \/ CrashJoining(n)
  BY <1>4 DEF Starts, Joins, Fails, Aside, Ending
<1>5. PICK n \in Nodes : Starts(n) \/ Joins(n) \/ Serves(n) \/ Fails(n)
  BY DEF Next
<1>6. CASE Serves(n)
  BY <1>3, <1>6
<1>7. CASE Starts(n) \/ Joins(n) \/ Fails(n)
  BY <1>1, <1>4, <1>7
<1> QED BY <1>5, <1>6, <1>7

(* A node that ends loses its connections and changes nothing else. *)
LEMMA EndingIs ==
    ASSUME Core, NEW s \in Nodes, Ending(s)
    PROVE  /\ UNCHANGED <<layout, known, ntoa, ask, ans>>
           /\ mode[s] = "up" /\ mode'[s] = "dead"
           /\ queue'[s] = <<>> /\ held'[s] = <<>> /\ turn'[s] = <<>>
           /\ \A k \in Nodes : k # s => /\ mode'[k] = mode[k] /\ queue'[k] = queue[k]
                                        /\ held'[k] = held[k] /\ turn'[k] = turn[k]
<1>1. /\ UNCHANGED <<layout, known, ntoa, ask, ans>> /\ mode[s] = "up"
      /\ mode' = [mode EXCEPT ![s] = "dead"] /\ queue' = [queue EXCEPT ![s] = <<>>]
      /\ held' = [held EXCEPT ![s] = <<>>] /\ turn' = [turn EXCEPT ![s] = <<>>]
  BY DEF Ending, PushKills, Crash, Ends, EndsAmid
<1> QED BY <1>1 DEF Core, TypeOK

(* The queue of a seed when a node joins. *)
LEMMA StartJoinIs ==
    ASSUME Core, NEW n \in Nodes, StartJoin(n)
    PROVE  /\ SeedOf[n] \in Nodes /\ SeedOf[n] # n
           /\ ToSet(queue'[SeedOf[n]]) = ToSet(queue[SeedOf[n]]) \cup {JoinOf(n)}
           /\ \A k \in Nodes : k # SeedOf[n] => queue'[k] = queue[k]
           /\ mode'[n] = "hello" /\ \A k \in Nodes : k # n => mode'[k] = mode[k]
           /\ ask'[n] = "hello" /\ \A k \in Nodes : k # n => ask'[k] = ask[k]
<1>1. SeedOf[n] \in Nodes /\ SeedOf[n] # n
  BY LayoutGives DEF StartJoin, Core
<1> DEFINE s == SeedOf[n]
<1> HIDE DEF s
<1>2. /\ queue' = [queue EXCEPT ![s] = Append(queue[s], JoinOf(n))]
      /\ mode' = [mode EXCEPT ![n] = "hello"] /\ ask' = [ask EXCEPT ![n] = "hello"]
  BY DEF StartJoin, s
<1>3. queue \in [Nodes -> Seq(Conn)] /\ s \in Nodes /\ JoinOf(n) \in Conn
  BY <1>1, ConnIs DEF Core, TypeOK, s
<1>4. ToSet(Append(queue[s], JoinOf(n))) = ToSet(queue[s]) \cup {JoinOf(n)}
  BY <1>3, Appended
<1>5. /\ ToSet(queue'[s]) = ToSet(queue[s]) \cup {JoinOf(n)}
      /\ \A k \in Nodes : k # s => queue'[k] = queue[k]
  BY <1>2, <1>3, <1>4
<1>6. /\ mode'[n] = "hello" /\ \A k \in Nodes : k # n => mode'[k] = mode[k]
      /\ ask'[n] = "hello" /\ \A k \in Nodes : k # n => ask'[k] = ask[k]
  BY <1>2 DEF Core, TypeOK
<1> QED BY <1>1, <1>5, <1>6 DEF s

(* What a poll puts into the turn. *)
LEMMA PollIs ==
    ASSUME Core, NEW s \in Nodes, Poll(s)
    PROVE  /\ UNCHANGED <<layout, mode, known, ntoa, queue, held, ask, ans, crashes>>
           /\ ToSet(turn'[s]) \subseteq ToSet(held[s]) \cup {TheAccept}
           /\ \A k \in Nodes : k # s => turn'[k] = turn[k]
<1> DEFINE A == IF queue[s] # <<>> THEN <<TheAccept>> ELSE <<>>
<1>1. turn' = [turn EXCEPT ![s] = A \o Ready(s)]
      /\ UNCHANGED <<layout, mode, known, ntoa, queue, held, ask, ans, crashes>>
  BY DEF Poll
<1>2. held[s] \in Seq(Conn) /\ turn \in [Nodes -> Seq(Conn \cup {TheAccept})]
  BY DEF Core, TypeOK
<1>3. Ready(s) \in Seq(Conn) /\ ToSet(Ready(s)) \subseteq ToSet(held[s])
  BY <1>2, ReadyIs
<1>4. A \in Seq(Conn \cup {TheAccept}) /\ Ready(s) \in Seq(Conn \cup {TheAccept})
      /\ ToSet(A) \subseteq {TheAccept}
  <2>1. Ready(s) \in Seq(Conn \cup {TheAccept})
    BY <1>3
  <2>2. <<TheAccept>> \in Seq(Conn \cup {TheAccept}) /\ Len(<<TheAccept>>) = 1
        /\ <<TheAccept>>[1] = TheAccept
    OBVIOUS
  <2>3. ToSet(<<TheAccept>>) = {<<TheAccept>>[i] : i \in 1 .. Len(<<TheAccept>>)}
    BY <2>2, ToSetIs
  <2>4. ToSet(<<TheAccept>>) \subseteq {TheAccept}
    BY <2>2, <2>3
  <2> QED BY <2>1, <2>2, <2>4, EmptyIs
<1> HIDE DEF A
<1>5. ToSet(A \o Ready(s)) = ToSet(A) \cup ToSet(Ready(s))
  BY <1>4, Concatenated
<1> QED BY <1>1, <1>2, <1>3, <1>4, <1>5

(* What an accept moves. *)
LEMMA AcceptIs ==
    ASSUME Core, NEW s \in Nodes, Accept(s)
    PROVE  \E h \in Conn :
              /\ ToSet(queue[s]) = ToSet(queue'[s]) \cup {h}
              /\ ToSet(held'[s]) = ToSet(held[s]) \cup {h}
              /\ Len(held'[s]) = Len(held[s]) + 1 /\ Len(held[s]) \in Nat
              /\ ntoa'[s] = Host[h.from]
              /\ \A k \in Nodes : k # s => /\ queue'[k] = queue[k] /\ held'[k] = held[k]
                                           /\ ntoa'[k] = ntoa[k]
              /\ \A k \in Nodes : ToSet(turn'[k]) \subseteq ToSet(turn[k])
              /\ UNCHANGED <<layout, mode, known, ask, ans, crashes>>
<1> DEFINE h == Head(queue[s])
<1>1. /\ Dispatched(s, TheAccept)
      /\ held' = [held EXCEPT ![s] = Append(held[s], h)]
      /\ queue' = [queue EXCEPT ![s] = Tail(queue[s])]
      /\ ntoa' = [ntoa EXCEPT ![s] = Host[h.from]]
      /\ UNCHANGED <<layout, mode, known, ask, ans, crashes>>
  BY DEF Accept
<1>2. queue[s] # <<>> /\ \A k \in Nodes : ToSet(turn'[k]) \subseteq ToSet(turn[k])
  BY <1>1, Dispatching
<1>3. /\ queue \in [Nodes -> Seq(Conn)] /\ held \in [Nodes -> Seq(Conn)]
      /\ ntoa \in [Nodes -> Hosts \cup {Nobody}]
  BY DEF Core, TypeOK
<1>4. h \in Conn /\ ToSet(queue[s]) = ToSet(Tail(queue[s])) \cup {h}
  BY <1>2, <1>3, TailOf
<1> HIDE DEF h
<1>5. ToSet(Append(held[s], h)) = ToSet(held[s]) \cup {h}
  BY <1>3, <1>4, Appended
<1>6. Len(Append(held[s], h)) = Len(held[s]) + 1 /\ Len(held[s]) \in Nat
  BY <1>3, <1>4, AppendProperties, LenProperties
<1>7. /\ queue'[s] = Tail(queue[s]) /\ held'[s] = Append(held[s], h) /\ ntoa'[s] = Host[h.from]
      /\ \A k \in Nodes : k # s => queue'[k] = queue[k] /\ held'[k] = held[k] /\ ntoa'[k] = ntoa[k]
  BY <1>1, <1>3
<1> QED BY <1>1, <1>2, <1>4, <1>5, <1>6, <1>7

(* What a HELLO does. *)
LEMMA HandleHelloIs ==
    ASSUME Core, NEW s \in Nodes, NEW n \in Nodes, HandleHello(s, n)
    PROVE  /\ UNCHANGED <<layout, mode, ntoa, held, crashes>>
           /\ known'[s] = Learned(known[s], n, Newcomer(s, n).addr)
           /\ \A k \in Nodes : k # s => known'[k] = known[k]
           /\ ask'[n] = "none" /\ \A k \in Nodes : k # n => ask'[k] = ask[k]
           /\ ans'[n].kind = "hello" /\ \A k \in Nodes : k # n => ans'[k] = ans[k]
           /\ \A k \in Nodes :
                /\ queue'[k] \in Seq(Conn)
                /\ ToSet(queue[k]) \subseteq ToSet(queue'[k])
                /\ \A d \in ToSet(queue'[k]) :
                      \/ d \in ToSet(queue[k])
                      \/ d = [kind |-> "push", from |-> s, what |-> Newcomer(s, n)]
                /\ ToSet(turn'[k]) \subseteq ToSet(turn[k])
<1> DEFINE e == Newcomer(s, n)
           t == Learned(known[s], n, e.addr)
<1>1. /\ Dispatched(s, JoinOf(n))
      /\ known' = [known EXCEPT ![s] = t]
      /\ queue' = [k \in Nodes |-> Pushed(s, t, e, k)]
      /\ ask' = [ask EXCEPT ![n] = "none"] /\ ans' = [ans EXCEPT ![n] = [kind |-> "hello"]]
      /\ UNCHANGED <<layout, mode, ntoa, held, crashes>>
  BY DEF HandleHello, Introduced, Announcing
<1>2. e \in Entry /\ e.addr \in Addrs
  BY HandlingHello
<1> HIDE DEF e
<1>3. known \in [Nodes -> Table]
  BY DEF Core, TypeOK
<1>4. t \in Table
  BY <1>2, <1>3, LearnedIs
<1>5. known'[s] = t /\ \A k \in Nodes : k # s => known'[k] = known[k]
  BY <1>1, <1>3
<1> HIDE DEF t
<1>6. ASSUME NEW k \in Nodes
      PROVE  /\ queue'[k] \in Seq(Conn)
             /\ ToSet(queue[k]) \subseteq ToSet(queue'[k])
             /\ \A d \in ToSet(queue'[k]) :
                   d \in ToSet(queue[k]) \/ d = [kind |-> "push", from |-> s, what |-> e]
  <2>1. queue'[k] = Pushed(s, t, e, k)
    BY <1>1
  <2> QED BY <1>2, <1>4, <2>1, PushedIs DEF Core
<1>7. \A k \in Nodes : ToSet(turn'[k]) \subseteq ToSet(turn[k])
  BY <1>1, Dispatching
<1>8. /\ ask'[n] = "none" /\ \A k \in Nodes : k # n => ask'[k] = ask[k]
      /\ ans'[n].kind = "hello" /\ \A k \in Nodes : k # n => ans'[k] = ans[k]
  BY <1>1 DEF Core, TypeOK
<1> QED BY <1>1, <1>5, <1>6, <1>7, <1>8 DEF e, t

(* What the other requests do. *)
LEMMA HandleGetNodeListIs ==
    ASSUME Core, NEW s \in Nodes, NEW n \in Nodes, HandleGetNodeList(s, n)
    PROVE  /\ UNCHANGED <<layout, mode, known, ntoa, queue, crashes>>
           /\ mode[s] = "up" /\ mode[n] = "list" /\ s = SeedOf[n] /\ ask[n] = "list"
           /\ ask'[n] = "none" /\ \A k \in Nodes : k # n => ask'[k] = ask[k]
           /\ ans'[n] = [kind |-> "list", table |-> known[s]]
           /\ \A k \in Nodes : k # n => ans'[k] = ans[k]
           /\ \A k \in Nodes : /\ ToSet(turn'[k]) \subseteq ToSet(turn[k])
                               /\ ToSet(held'[k]) \subseteq ToSet(held[k])
           /\ \A k \in Nodes : \A d \in ToSet(held[k]) : d # JoinOf(n) => d \in ToSet(held'[k])
<1>1. /\ Dispatched(s, JoinOf(n)) /\ Dropped(s, JoinOf(n)) /\ ask[n] = "list"
      /\ ask' = [ask EXCEPT ![n] = "none"]
      /\ ans' = [ans EXCEPT ![n] = [kind |-> "list", table |-> known[s]]]
      /\ UNCHANGED <<layout, mode, known, ntoa, queue, crashes>>
  BY DEF HandleGetNodeList
<1>2. mode[n] = "list" /\ JoinOf(n) \in Conn
  BY <1>1, ConnIs DEF Core, AskInv
<1>3. /\ \A k \in Nodes : ToSet(turn'[k]) \subseteq ToSet(turn[k])
      /\ \A k \in Nodes : ToSet(held'[k]) \subseteq ToSet(held[k])
  BY <1>1, <1>2, Dropping
<1>4. mode[s] = "up" /\ JoinOf(n) \in ToSet(turn[s])
  BY <1>1, Dispatching
<1>5. s = SeedOf[n]
  BY <1>4 DEF Core, JoinsOnce
<1>6. /\ ask'[n] = "none" /\ \A k \in Nodes : k # n => ask'[k] = ask[k]
      /\ ans'[n] = [kind |-> "list", table |-> known[s]]
      /\ \A k \in Nodes : k # n => ans'[k] = ans[k]
  BY <1>1 DEF Core, TypeOK
<1>7. \A k \in Nodes : \A d \in ToSet(held[k]) : d # JoinOf(n) => d \in ToSet(held'[k])
  <2>1. held \in [Nodes -> Seq(Conn)]
    BY DEF Core, TypeOK
  <2>2. \A d \in ToSet(held[s]) : d # JoinOf(n) => d \in ToSet(RemoveFirst(held[s], JoinOf(n)))
    BY <2>1, FirstRemoved
  <2> QED BY <1>1, <2>1, <2>2 DEF Dropped
<1> QED BY <1>1, <1>2, <1>3, <1>4, <1>5, <1>6, <1>7

(* What a push does. *)
LEMMA HandlePushIs ==
    ASSUME Core, NEW s \in Nodes, NEW c \in ToSet(turn[s]), HandlePush(s, c)
    PROVE  /\ UNCHANGED <<layout, mode, ntoa, queue, ask, ans, crashes>>
           /\ c \in Pushes(s) /\ c \in Conn /\ c.what \in Entry
           /\ known'[s] = Learned(known[s], c.what.name, c.what.addr)
           /\ \A k \in Nodes : k # s => known'[k] = known[k]
           /\ \A k \in Nodes : /\ ToSet(turn'[k]) \subseteq ToSet(turn[k])
                               /\ ToSet(held'[k]) \subseteq ToSet(held[k])
           /\ \A k \in Nodes : \A d \in ToSet(held[k]) : d # c => d \in ToSet(held'[k])
<1>1. /\ Dispatched(s, c) /\ Dropped(s, c) /\ c.kind = "push"
      /\ known' = [known EXCEPT ![s] = Learned(known[s], c.what.name, c.what.addr)]
      /\ UNCHANGED <<layout, mode, ntoa, queue, ask, ans, crashes>>
  BY DEF HandlePush
<1>2. c \in Conn
  BY <1>1, NodeTypes, ConnIs DEF Core
<1>3. c \in Pushes(s) /\ c.what \in Entry
  BY <1>1, <1>2, ConnIs DEF Pushes, Carried
<1>4. /\ \A k \in Nodes : ToSet(turn'[k]) \subseteq ToSet(turn[k])
      /\ \A k \in Nodes : ToSet(held'[k]) \subseteq ToSet(held[k])
  BY <1>1, <1>2, Dropping
<1>5. /\ known'[s] = Learned(known[s], c.what.name, c.what.addr)
      /\ \A k \in Nodes : k # s => known'[k] = known[k]
  BY <1>1 DEF Core, TypeOK
<1>6. \A k \in Nodes : \A d \in ToSet(held[k]) : d # c => d \in ToSet(held'[k])
  <2>1. held \in [Nodes -> Seq(Conn)]
    BY DEF Core, TypeOK
  <2>2. \A d \in ToSet(held[s]) : d # c => d \in ToSet(RemoveFirst(held[s], c))
    BY <2>1, FirstRemoved
  <2> QED BY <1>1, <2>1, <2>2 DEF Dropped
<1> QED BY <1>1, <1>2, <1>3, <1>4, <1>5, <1>6

(* The push that tells of a newcomer. *)
PushOf(s, n) == [kind |-> "push", from |-> s, what |-> Newcomer(s, n)]

(* The step handles the HELLO of n, at last or once more. *)
Introduces(s, n) ==
    \/ HandleHello(s, n)
    \/ \E id \in 1 .. crashes : HelloOfGone(s, n, id)
    \/ RunsAgain(s) /\ input[s] = JoinOf(n)

(* The head of a turn, when it is not an accept, is a connection that the node has. *)
LEMMA AtHead ==
    ASSUME Core, NEW s \in Nodes, turn[s] # <<>>, Head(turn[s]).kind = "gone"
    PROVE  Noted(s) /\ Head(turn[s]) \in Conn /\ Head(turn[s]) \in ToSet(turn[s])
<1>1. turn[s] \in Seq(Conn \cup {TheAccept})
  BY NodeTypes DEF Core
<1>2. Head(turn[s]) \in ToSet(turn[s]) /\ Head(turn[s]) \in Conn \cup {TheAccept}
  BY <1>1, TailOf
<1>3. Head(turn[s]) # TheAccept
  BY DEF TheAccept
<1> QED BY <1>2, <1>3 DEF Core, NotedInv

(* Whoever is introduced is another node, which does not serve. *)
LEMMA IntroducesIs ==
    ASSUME IInv, NEW s \in Nodes, NEW n \in Nodes, Introduces(s, n)
    PROVE  s # n /\ mode[n] # "up" /\ Noted(s)
<1>1. Core
  BY DEF IInv
<1>2. CASE HandleHello(s, n)
  BY <1>1, <1>2, HandlingHello
<1>3. ASSUME NEW id \in 1 .. crashes, HelloOfGone(s, n, id)
      PROVE  s # n /\ mode[n] # "up" /\ Noted(s)
  <2>1. Dispatched(s, Gone(n, "hello", id))
    BY <1>3 DEF HelloOfGone
  <2>2. Gone(n, "hello", id) \in ToSet(turn[s]) /\ Noted(s)
    BY <1>1, <2>1, GoneDispatched
  <2> QED BY <2>2, LeftHelloIs
<1>4. CASE RunsAgain(s) /\ input[s] = JoinOf(n)
  <2>1. SeedOf[n] = s /\ mode[n] # "up"
    BY <1>4, InputIs
  <2>2. s # n
    BY <2>1, LayoutGives DEF IInv, Core
  <2>3. Noted(s)
    BY <1>1, <1>4, AtHead DEF RunsAgain
  <2> QED BY <2>1, <2>2, <2>3
<1> QED BY <1>2, <1>3, <1>4 DEF Introduces

(* What is announced, and to whom. *)
LEMMA AnnouncedAre ==
    ASSUME IInv, NEW s \in Nodes, NEW n \in Nodes, Introduces(s, n), NEW k \in Nodes,
           NEW d \in ToSet(Announcing(s, n)[k])
    PROVE  d \in ToSet(queue[k]) \/ d = PushOf(s, n)
<1>1. s # n /\ mode[n] # "up" /\ Noted(s) /\ Core
  BY IntroducesIs DEF IInv
<1>2. Newcomer(s, n) \in Entry /\ Introduced(s, n) \in Table
  BY <1>1, NewcomerIs
<1> DEFINE t == Introduced(s, n)
           e == Newcomer(s, n)
<1>3. Announcing(s, n)[k] = Pushed(s, t, e, k)
  BY DEF Announcing
<1>4. e \in Entry /\ t \in Table
  BY <1>2
<1>5. PushOf(s, n) = [kind |-> "push", from |-> s, what |-> e]
  BY DEF PushOf
<1> HIDE DEF t, e
<1> QED BY <1>1, <1>3, <1>4, <1>5, PushedIs DEF Core

(* A request is handled again when the head of the turn is an end or a reset. *)
LEMMA AgainIs ==
    ASSUME IInv, NEW s \in Nodes, NEW n \in Nodes, NEW id \in 1 .. crashes,
           HelloAgain(s, n, id) \/ PushAgain(s, n, id) \/ GoneKills(s, n, id)
    PROVE  RunsAgain(s)
<1>1. turn \in [Nodes -> Seq(Conn \cup {TheAccept})]
  BY DEF IInv, Core, TypeOK
<1>2. ASSUME Dispatched(s, Gone(n, "end", id))
      PROVE  RunsAgain(s)
  <2>1. turn[s] # <<>> /\ Head(turn[s]) = Gone(n, "end", id) /\ turn'[s] = Tail(turn[s])
    BY <1>1, <1>2 DEF Dispatched
  <2>2. Len(Tail(turn[s])) = Len(turn[s]) - 1 /\ Len(turn[s]) \in Nat
    BY <1>1, <2>1, HeadTailProperties, LenProperties
  <2>3. turn'[s] # turn[s]
    <3>1. Len(turn[s]) - 1 # Len(turn[s])
      BY <2>2
    <3> QED BY <2>1, <2>2, <3>1
  <2> QED BY <2>1, <2>3, GoneIs DEF RunsAgain
<1>3. CASE GoneKills(s, n, id)
  <2>1. turn[s] # <<>> /\ Head(turn[s]) \in {Gone(n, "end", id), Gone(n, "reset", id)}
    BY <1>3 DEF GoneKills
  <2>2. turn' = [turn EXCEPT ![s] = <<>>]
    BY <1>3 DEF GoneKills, Ends, EndsAmid
  <2>3. turn'[s] = <<>>
    BY <1>1, <2>2
  <2>4. Head(turn[s]).kind = "gone" /\ Head(turn[s]).gives \in {"end", "reset"}
    BY <2>1, GoneIs
  <2> QED BY <2>1, <2>3, <2>4 DEF RunsAgain
<1> QED BY <1>2, <1>3 DEF HelloAgain, PushAgain

(* What handling what is left of a node may do. *)
LateKnown(s) ==
    /\ \A k \in Nodes : k # s => known'[k] = known[k]
    /\ \A e \in Entries(known'[s]) :
          \/ e \in Entries(known[s])
          \/ \E m \in Nodes : Introduces(s, m) /\ e = Newcomer(s, m)
          \/ input[s] # Nobody /\ input[s].kind = "push" /\ e = input[s].what

LateQueue(s) ==
    \A k \in Nodes : \A d \in ToSet(queue'[k]) :
        d \in ToSet(queue[k]) \/ \E m \in Nodes : Introduces(s, m) /\ d = PushOf(s, m)

LateHeld(s) ==
    /\ \A k \in Nodes : k # s => held'[k] = held[k]
    /\ \A d \in ToSet(held'[s]) :
          d \in ToSet(held[s]) \/ (d.kind = "gone" /\ d.gives # "hello")

LateInput ==
    \A k \in Nodes : input'[k] = input[k] \/ input'[k] = Nobody \/ input'[k].kind = "join"

Late(s) ==
    /\ UNCHANGED <<layout, ntoa, ask, ans, crashes>>
    /\ \A k \in Nodes : ToSet(turn'[k]) \subseteq ToSet(turn[k])
    /\ LateKnown(s) /\ LateQueue(s) /\ LateHeld(s) /\ LateInput

(* What is the same is not new. *)
LEMMA NothingLate ==
    ASSUME NEW s \in Nodes
    PROVE  /\ known' = known => LateKnown(s)
           /\ queue' = queue => LateQueue(s)
           /\ input' = input => LateInput
BY DEF LateKnown, LateQueue, LateInput

(* One who is introduced is entered and pushed. *)
LEMMA IntroducedLate ==
    ASSUME IInv, NEW s \in Nodes, NEW m \in Nodes, Introduces(s, m)
    PROVE  /\ known' = [known EXCEPT ![s] = Introduced(s, m)] => LateKnown(s)
           /\ queue' = Announcing(s, m) => LateQueue(s)
<1>1. s # m /\ mode[m] # "up" /\ Noted(s) /\ Core
  BY IntroducesIs DEF IInv
<1>2. Entries(Introduced(s, m)) \subseteq Entries(known[s]) \cup {Newcomer(s, m)}
  BY <1>1, NewcomerIs
<1>3. known \in [Nodes -> Table]
  BY <1>1 DEF Core, TypeOK
<1>4. ASSUME known' = [known EXCEPT ![s] = Introduced(s, m)]
      PROVE  LateKnown(s)
  <2>1. known'[s] = Introduced(s, m) /\ \A k \in Nodes : k # s => known'[k] = known[k]
    BY <1>3, <1>4
  <2>2. \A e \in Entries(known'[s]) : e \in Entries(known[s]) \/ e = Newcomer(s, m)
    BY <1>2, <2>1
  <2> QED BY <2>1, <2>2 DEF LateKnown
<1>5. ASSUME queue' = Announcing(s, m)
      PROVE  LateQueue(s)
  <2> SUFFICES ASSUME NEW k \in Nodes, NEW d \in ToSet(Announcing(s, m)[k])
               PROVE  d \in ToSet(queue[k]) \/ d = PushOf(s, m)
    BY <1>5 DEF LateQueue
  <2> QED BY AnnouncedAre
<1> QED BY <1>4, <1>5

(* A connection that is closed, or whose end is noted. *)
LEMMA ClosedLate ==
    ASSUME IInv, NEW s \in Nodes, NEW c \in Conn
    PROVE  /\ Dropped(s, c) => LateHeld(s)
           /\ \A x \in Conn :
                 /\ x # c /\ x.kind = "gone" /\ x.gives # "hello"
                 /\ held' = [held EXCEPT ![s] = ReplaceAll(held[s], c, x)]
                 => LateHeld(s)
<1>1. held \in [Nodes -> Seq(Conn)]
  BY DEF IInv, Core, TypeOK
<1>2. ASSUME Dropped(s, c)
      PROVE  LateHeld(s)
  <2>1. held'[s] = RemoveFirst(held[s], c) /\ \A k \in Nodes : k # s => held'[k] = held[k]
    BY <1>1, <1>2 DEF Dropped
  <2>2. ToSet(RemoveFirst(held[s], c)) \subseteq ToSet(held[s])
    BY <1>1, FirstRemoved
  <2> QED BY <2>1, <2>2 DEF LateHeld
<1>3. ASSUME NEW x \in Conn, x # c, x.kind = "gone", x.gives # "hello",
             held' = [held EXCEPT ![s] = ReplaceAll(held[s], c, x)]
      PROVE  LateHeld(s)
  <2>1. held'[s] = ReplaceAll(held[s], c, x) /\ \A k \in Nodes : k # s => held'[k] = held[k]
    BY <1>1, <1>3
  <2>2. ToSet(ReplaceAll(held[s], c, x)) \subseteq ToSet(held[s]) \cup {x}
    BY <1>1, <1>3, Replaced
  <2> QED BY <1>3, <2>1, <2>2 DEF LateHeld
<1> QED BY <1>2, <1>3

(* A node that ends. *)
LEMMA EndedLate ==
    ASSUME IInv, NEW s \in Nodes, NEW q, EndsAmid(s, q), known' = known,
           UNCHANGED <<layout, ntoa, ask, ans, crashes>>,
           \A k \in Nodes : \A d \in ToSet(q[k]) :
               d \in ToSet(queue[k]) \/ \E m \in Nodes : Introduces(s, m) /\ d = PushOf(s, m),
           \E f : q = [k \in Nodes |-> f[k]]
    PROVE  Late(s)
<1>1. /\ held \in [Nodes -> Seq(Conn)] /\ turn \in [Nodes -> Seq(Conn \cup {TheAccept})]
      /\ input \in [Nodes -> {c \in Conn : c.kind # "gone"} \cup {Nobody}]
  BY DEF IInv, Core, TypeOK
<1>2. /\ queue' = [q EXCEPT ![s] = <<>>] /\ held' = [held EXCEPT ![s] = <<>>]
      /\ turn' = [turn EXCEPT ![s] = <<>>] /\ input' = [input EXCEPT ![s] = Nobody]
  BY DEF EndsAmid
<1>3. held'[s] = <<>> /\ \A k \in Nodes : k # s => held'[k] = held[k]
  BY <1>1, <1>2
<1>4. LateHeld(s)
  BY <1>3, EmptyIs DEF LateHeld
<1>5. turn'[s] = <<>> /\ \A k \in Nodes : k # s => turn'[k] = turn[k]
  BY <1>1, <1>2
<1>6. \A k \in Nodes : ToSet(turn'[k]) \subseteq ToSet(turn[k])
  BY <1>5, EmptyIs
<1>7. LateInput
  BY <1>1, <1>2 DEF LateInput
<1>8. queue'[s] = <<>> /\ \A k \in Nodes : k # s => queue'[k] = q[k]
  BY <1>2
<1>9. LateQueue(s)
  <2> SUFFICES ASSUME NEW k \in Nodes, NEW d \in ToSet(queue'[k])
               PROVE  d \in ToSet(queue[k]) \/ \E m \in Nodes : Introduces(s, m) /\ d = PushOf(s, m)
    BY DEF LateQueue
  <2>1. k # s
    BY <1>8, EmptyIs
  <2> QED BY <1>8, <2>1
<1> QED BY <1>4, <1>6, <1>7, <1>9, NothingLate DEF Late

(* What is received of a node that is gone. *)
LEMMA ReceivedLate ==
    ASSUME IInv, NEW s \in Nodes, NEW n \in Nodes,
           Received(s, Nobody) \/ Received(s, JoinOf(n))
    PROVE  LateInput
<1>1. TypeOK /\ JoinOf(n) \in {x \in Conn : x.kind # "gone"} /\ JoinOf(n).kind = "join"
  BY ConnIs DEF IInv, Core
<1>2. input \in [Nodes -> {c \in Conn : c.kind # "gone"} \cup {Nobody}]
  BY <1>1 DEF TypeOK
<1>3. ASSUME NEW c, Received(s, c), c = Nobody \/ c.kind = "join"
      PROVE  LateInput
  <2>1. input' = input \/ input' = [input EXCEPT ![s] = c]
    BY <1>3 DEF Received
  <2> QED BY <1>2, <1>3, <2>1 DEF LateInput
<1> QED BY <1>1, <1>3

(* What the handling of one that crashed does to tables, queues and buffers. *)
LEMMA LateIs ==
    ASSUME IInv, NEW s \in Nodes, NEW n \in Nodes, NEW id \in 1 .. crashes, HandleGone(s, n, id)
    PROVE  Late(s)
<1>1. Core /\ id \in Nat
  BY CrashesAre DEF IInv, Core
<1>2. /\ Gone(n, "hello", id) \in Conn /\ Gone(n, "list", id) \in Conn
      /\ Gone(n, "end", id) \in Conn /\ Gone(n, "reset", id) \in Conn
      /\ Gone(n, "end", id) # Gone(n, "hello", id) /\ Gone(n, "end", id) # Gone(n, "reset", id)
      /\ Gone(n, "end", id).kind = "gone" /\ Gone(n, "reset", id).kind = "gone"
      /\ Gone(n, "end", id).gives # "hello" /\ Gone(n, "reset", id).gives # "hello"
  BY <1>1, GoneIs
<1>3. ASSUME NEW c, Dispatched(s, c)
      PROVE  \A k \in Nodes : ToSet(turn'[k]) \subseteq ToSet(turn[k])
  BY <1>1, <1>3, Dispatching
<1>4. CASE HelloOfGone(s, n, id)
  <2>1. /\ Dispatched(s, Gone(n, "hello", id)) /\ Received(s, JoinOf(n))
        /\ known' = [known EXCEPT ![s] = Introduced(s, n)]
        /\ queue' = Announcing(s, n)
        /\ held' = [held EXCEPT ![s] = ReplaceAll(held[s], Gone(n, "hello", id), Gone(n, "end", id))]
        /\ UNCHANGED <<layout, mode, ntoa, ask, ans, crashes>>
    BY <1>4 DEF HelloOfGone
  <2>2. Introduces(s, n)
    BY <1>4 DEF Introduces
  <2>3. LateKnown(s) /\ LateQueue(s)
    BY <2>1, <2>2, IntroducedLate
  <2>4. LateHeld(s)
    BY <1>2, <2>1, ClosedLate
  <2>5. LateInput
    BY <2>1, ReceivedLate
  <2> QED BY <1>3, <2>1, <2>3, <2>4, <2>5 DEF Late
<1>5. CASE ListOfGone(s, n, id)
  <2>1. /\ Dispatched(s, Gone(n, "list", id)) /\ Dropped(s, Gone(n, "list", id))
        /\ Received(s, Nobody)
        /\ UNCHANGED <<layout, mode, known, ntoa, queue, ask, ans, crashes>>
    BY <1>5 DEF ListOfGone
  <2>2. LateHeld(s)
    BY <1>2, <2>1, ClosedLate
  <2>3. LateInput
    BY <2>1, ReceivedLate
  <2> QED BY <1>3, <2>1, <2>2, <2>3, NothingLate DEF Late
<1>6. CASE HelloAgain(s, n, id)
  <2>1. PICK m \in Nodes :
          /\ input[s] = JoinOf(m)
          /\ known' = [known EXCEPT ![s] = Introduced(s, m)]
          /\ queue' = Announcing(s, m)
    BY <1>6 DEF HelloAgain
  <2>2. Introduces(s, m)
    BY <1>6, <2>1, AgainIs DEF Introduces
  <2>3. LateKnown(s) /\ LateQueue(s)
    BY <2>1, <2>2, IntroducedLate
  <2>4. /\ Dispatched(s, Gone(n, "end", id))
        /\ held' = [held EXCEPT ![s] = ReplaceAll(held[s], Gone(n, "end", id), Gone(n, "reset", id))]
        /\ UNCHANGED <<layout, ntoa, ask, ans, input, crashes>>
    BY <1>6 DEF HelloAgain
  <2>5. LateHeld(s)
    BY <1>2, <2>4, ClosedLate
  <2> QED BY <1>3, <2>3, <2>4, <2>5, NothingLate DEF Late
<1>7. CASE PushAgain(s, n, id)
  <2> DEFINE c == input[s]
  <2>1. /\ Dispatched(s, Gone(n, "end", id)) /\ Dropped(s, Gone(n, "end", id))
        /\ c # Nobody /\ c.kind = "push"
        /\ known' = [known EXCEPT ![s] = Learned(known[s], c.what.name, c.what.addr)]
        /\ UNCHANGED <<layout, mode, ntoa, queue, ask, ans, input, crashes>>
    BY <1>7 DEF PushAgain
  <2>2. c \in Conn
    BY <1>1, <2>1, NodeTypes DEF Core
  <2> HIDE DEF c
  <2>3. /\ c.what.name \in Nodes /\ c.what.addr \in Addrs
        /\ c.what = [name |-> c.what.name, addr |-> c.what.addr]
    BY <2>1, <2>2, ConnIs DEF Entry
  <2>4. known \in [Nodes -> Table]
    BY <1>1 DEF Core, TypeOK
  <2>5. Entries(Learned(known[s], c.what.name, c.what.addr)) \subseteq Entries(known[s]) \cup {c.what}
    BY <2>3, <2>4, LearnedIs
  <2>6. /\ known'[s] = Learned(known[s], c.what.name, c.what.addr)
        /\ \A k \in Nodes : k # s => known'[k] = known[k]
    BY <2>1, <2>4
  <2>7. \A e \in Entries(known'[s]) : e \in Entries(known[s]) \/ e = c.what
    BY <2>5, <2>6
  <2>8. LateKnown(s)
    BY <2>1, <2>6, <2>7 DEF LateKnown, c
  <2>9. LateHeld(s)
    BY <1>2, <2>1, ClosedLate
  <2> QED BY <1>3, <2>1, <2>8, <2>9, NothingLate DEF Late
<1>8. CASE NothingAgain(s, n, id)
  <2>1. /\ Dispatched(s, Gone(n, "end", id)) /\ Dropped(s, Gone(n, "end", id))
        /\ UNCHANGED <<layout, mode, known, ntoa, queue, ask, ans, input, crashes>>
    BY <1>8 DEF NothingAgain
  <2>2. LateHeld(s)
    BY <1>2, <2>1, ClosedLate
  <2> QED BY <1>3, <2>1, <2>2, NothingLate DEF Late
<1>9. CASE GoneKills(s, n, id)
  <2>1. UNCHANGED <<layout, known, ntoa, ask, ans, crashes>>
    BY <1>9 DEF GoneKills
  <2>2. CASE Ends(s)
    <3>1. queue = [k \in Nodes |-> queue[k]]
      BY <1>1 DEF Core, TypeOK
    <3> QED BY <2>1, <2>2, <3>1, EndedLate DEF Ends
  <2>3. ASSUME NEW m \in Nodes, input[s] = JoinOf(m), EndsAmid(s, Announcing(s, m))
        PROVE  Late(s)
    <3>1. Introduces(s, m)
      BY <1>9, <2>3, AgainIs DEF Introduces
    <3>2. Announcing(s, m) = [k \in Nodes |-> Announcing(s, m)[k]]
      BY DEF Announcing
    <3>3. \A k \in Nodes : \A d \in ToSet(Announcing(s, m)[k]) : d \in ToSet(queue[k]) \/ d = PushOf(s, m)
      BY <3>1, AnnouncedAre
    <3> DEFINE q == Announcing(s, m)
    <3>4. EndsAmid(s, q) /\ \E f : q = [k \in Nodes |-> f[k]]
      BY <2>3, <3>2
    <3>5. \A k \in Nodes : \A d \in ToSet(q[k]) :
               d \in ToSet(queue[k]) \/ \E j \in Nodes : Introduces(s, j) /\ d = PushOf(s, j)
      BY <3>1, <3>3
    <3> HIDE DEF q
    <3> QED BY <2>1, <3>4, <3>5, EndedLate
  <2> QED BY <1>9, <2>2, <2>3 DEF GoneKills
<1> QED BY <1>4, <1>5, <1>6, <1>7, <1>8, <1>9 DEF HandleGone

(* What a node leaves that crashes while it joins: its request, in place of its connection. *)
LEMMA CrashLeft ==
    ASSUME Core, NEW n \in Nodes, CrashJoining(n)
    PROVE  /\ UNCHANGED <<layout, known, ntoa, input>>
           /\ ask'[n] = "none" /\ ans'[n].kind = "none"
           /\ \A k \in Nodes : k # n => ask'[k] = ask[k] /\ ans'[k] = ans[k]
           /\ \A k \in Nodes :
                /\ \A d \in ToSet(held'[k]) :
                      \/ d \in ToSet(held[k])
                      \/ /\ d.kind = "gone" /\ d.from = n
                         /\ d.gives = "hello" => ask[n] = "hello" /\ JoinOf(n) \in ToSet(held[k])
                /\ \A d \in ToSet(queue'[k]) : d \in ToSet(queue[k]) \/ d.kind = "gone"
                /\ \A d \in ToSet(turn'[k]) : d \in ToSet(turn[k]) \/ d.kind = "gone"
<1> DEFINE s == SeedOf[n]
<1>1. PICK gives \in {"hello", "list", "end", "reset"} :
         LET x == Gone(n, gives, crashes + 1) IN
         /\ gives = "hello" => ask[n] = "hello"
         /\ x \in Conn /\ x.kind = "gone" /\ x.from = n /\ x # JoinOf(n)
         /\ queue' = [queue EXCEPT ![s] = ReplaceAll(queue[s], JoinOf(n), x)]
         /\ held' = [held EXCEPT ![s] = ReplaceAll(held[s], JoinOf(n), x)]
         /\ turn' = [turn EXCEPT ![s] = ReplaceAll(turn[s], JoinOf(n), x)]
  BY CrashLeaves
<1>2. s \in Nodes
  BY CrashLeaves
<1> DEFINE x == Gone(n, gives, crashes + 1)
           c == JoinOf(n)
<1>3. x.gives = gives
  BY GoneIs
<1>4. /\ gives = "hello" => ask[n] = "hello"
      /\ x \in Conn /\ x.kind = "gone" /\ x.from = n /\ c # x
      /\ queue' = [queue EXCEPT ![s] = ReplaceAll(queue[s], c, x)]
      /\ held' = [held EXCEPT ![s] = ReplaceAll(held[s], c, x)]
      /\ turn' = [turn EXCEPT ![s] = ReplaceAll(turn[s], c, x)]
  BY <1>1
<1> HIDE DEF x, c, s
<1>5. /\ \A k \in Nodes : k # s => /\ queue'[k] = queue[k] /\ held'[k] = held[k] /\ turn'[k] = turn[k]
      /\ Instead(queue[s], queue'[s], c, x) /\ Instead(held[s], held'[s], c, x)
      /\ Instead(turn[s], turn'[s], c, x)
  BY <1>2, <1>4, InsteadIs DEF Core
<1>6. /\ ToSet(held'[s]) = IF c \in ToSet(held[s]) THEN (ToSet(held[s]) \ {c}) \cup {x} ELSE ToSet(held[s])
      /\ ToSet(queue'[s]) \subseteq ToSet(queue[s]) \cup {x}
      /\ ToSet(turn'[s]) \subseteq ToSet(turn[s]) \cup {x}
  BY <1>5 DEF Instead
<1>7. UNCHANGED <<layout, known, ntoa, input>>
  BY DEF CrashJoining
<1>8. ask' = [ask EXCEPT ![n] = "none"] /\ ans' = [ans EXCEPT ![n] = NoAnswer]
  BY DEF CrashJoining
<1>9. /\ ask'[n] = "none" /\ ans'[n].kind = "none"
      /\ \A k \in Nodes : k # n => ask'[k] = ask[k] /\ ans'[k] = ans[k]
  BY <1>8, AnswerIs DEF Core, TypeOK
<1>10. ASSUME NEW k \in Nodes, NEW d \in ToSet(held'[k])
       PROVE  \/ d \in ToSet(held[k])
              \/ /\ d.kind = "gone" /\ d.from = n
                 /\ d.gives = "hello" => ask[n] = "hello" /\ c \in ToSet(held[k])
  BY <1>3, <1>4, <1>5, <1>6 DEF x
<1>11. ASSUME NEW k \in Nodes
       PROVE  /\ \A d \in ToSet(queue'[k]) : d \in ToSet(queue[k]) \/ d.kind = "gone"
              /\ \A d \in ToSet(turn'[k]) : d \in ToSet(turn[k]) \/ d.kind = "gone"
  BY <1>4, <1>5, <1>6
<1> QED BY <1>7, <1>9, <1>10, <1>11 DEF c

(* The layout is chosen once. *)
LEMMA LayoutStays == ASSUME IInv, Next PROVE layout' = layout
<1>1. ASSUME NEW s \in Nodes, Ending(s)
      PROVE  layout' = layout
  BY <1>1, EndingIs DEF IInv
<1>2. ASSUME NEW s \in Nodes, Poll(s) \/ Accept(s) \/ StartJoin(s) \/ CrashJoining(s)
      PROVE  layout' = layout
  BY <1>2 DEF Poll, Accept, StartJoin, CrashJoining
<1>3. ASSUME NEW s \in Nodes, NEW n \in Nodes, HandleHello(s, n) \/ HandleGetNodeList(s, n)
      PROVE  layout' = layout
  BY <1>3 DEF HandleHello, HandleGetNodeList
<1>4. ASSUME NEW s \in Nodes, NEW c, HandlePush(s, c)
      PROVE  layout' = layout
  BY <1>4 DEF HandlePush
<1>5. ASSUME NEW s \in Nodes, NEW n \in Nodes, NEW id \in 1 .. crashes, HandleGone(s, n, id)
      PROVE  layout' = layout
  BY <1>5, LateIs DEF Late
<1> QED BY <1>1, <1>2, <1>3, <1>4, <1>5, StepIs

(* The only new pushes are those about one who is introduced. *)
LEMMA PushesOf ==
    ASSUME IInv, Core, Next, NEW k \in Nodes, NEW c \in Pushes(k)'
    PROVE  \/ c \in Pushes(k)
           \/ \E s, n \in Nodes :
                 /\ Introduces(s, n) /\ c \in ToSet(queue'[k])
                 /\ c = PushOf(s, n)
<1>1. /\ c \in ToSet(queue'[k]) \cup ToSet(held'[k]) \cup ToSet(turn'[k])
      /\ c.kind = "push"
  BY DEF Pushes, Carried
<1>2. \/ c \in ToSet(queue[k]) \cup ToSet(held[k]) \cup ToSet(turn[k])
      \/ \E s, n \in Nodes :
            /\ Introduces(s, n) /\ c \in ToSet(queue'[k])
            /\ c = PushOf(s, n)
  <2>1. CASE UNCHANGED <<queue, held, turn>>
    BY <1>1, <2>1
  <2>2. ASSUME NEW n \in Nodes, StartJoin(n)
        PROVE  c \in ToSet(queue[k]) \cup ToSet(held[k]) \cup ToSet(turn[k])
    <3>1. held' = held /\ turn' = turn
      BY <2>2 DEF StartJoin
    <3>2. c # JoinOf(n)
      BY <1>1, ConnIs
    <3>3. ToSet(queue'[k]) \subseteq ToSet(queue[k]) \cup {JoinOf(n)}
      BY <2>2, StartJoinIs
    <3> QED BY <1>1, <3>1, <3>2, <3>3
  <2>3. ASSUME NEW s \in Nodes, Poll(s)
        PROVE  c \in ToSet(queue[k]) \cup ToSet(held[k]) \cup ToSet(turn[k])
    <3>1. c # TheAccept
      BY <1>1, ConnIs
    <3>2. /\ queue' = queue /\ held' = held
          /\ ToSet(turn'[k]) \subseteq ToSet(turn[k]) \cup ToSet(held[k]) \cup {TheAccept}
      BY <2>3, PollIs
    <3> QED BY <1>1, <3>1, <3>2
  <2>4. ASSUME NEW s \in Nodes, Accept(s)
        PROVE  c \in ToSet(queue[k]) \cup ToSet(held[k]) \cup ToSet(turn[k])
    <3>1. ToSet(queue'[k]) \cup ToSet(held'[k]) \cup ToSet(turn'[k])
             \subseteq ToSet(queue[k]) \cup ToSet(held[k]) \cup ToSet(turn[k])
      BY <2>4, AcceptIs
    <3> QED BY <1>1, <3>1
  <2>5. ASSUME NEW s \in Nodes, Ending(s)
        PROVE  c \in ToSet(queue[k]) \cup ToSet(held[k]) \cup ToSet(turn[k])
    <3>1. CASE k = s
      BY <1>1, <2>5, <3>1, EndingIs, EmptyIs
    <3>2. CASE k # s
      BY <1>1, <2>5, <3>2, EndingIs
    <3> QED BY <3>1, <3>2
  <2>6. ASSUME NEW s \in Nodes, NEW n \in Nodes, HandleHello(s, n)
        PROVE  \/ c \in ToSet(queue[k]) \cup ToSet(held[k]) \cup ToSet(turn[k])
               \/ /\ c \in ToSet(queue'[k])
                  /\ c = [kind |-> "push", from |-> s, what |-> Newcomer(s, n)]
    <3>1. held' = held
      BY <2>6 DEF HandleHello
    <3>2. ToSet(turn'[k]) \subseteq ToSet(turn[k])
      BY <2>6, HandleHelloIs, ZenonT(30)
    <3>3. \A d \in ToSet(queue'[k]) :
             \/ d \in ToSet(queue[k])
             \/ d = [kind |-> "push", from |-> s, what |-> Newcomer(s, n)]
      BY <2>6, HandleHelloIs, ZenonT(30)
    <3> QED BY <1>1, <3>1, <3>2, <3>3
  <2>7. ASSUME NEW s \in Nodes, NEW n \in Nodes, HandleGetNodeList(s, n)
        PROVE  c \in ToSet(queue[k]) \cup ToSet(held[k]) \cup ToSet(turn[k])
    BY <1>1, <2>7, HandleGetNodeListIs
  <2>8. ASSUME NEW s \in Nodes, NEW d \in ToSet(turn[s]), HandlePush(s, d)
        PROVE  c \in ToSet(queue[k]) \cup ToSet(held[k]) \cup ToSet(turn[k])
    BY <1>1, <2>8, HandlePushIs
  <2>9. ASSUME NEW n \in Nodes, CrashJoining(n)
        PROVE  c \in ToSet(queue[k]) \cup ToSet(held[k]) \cup ToSet(turn[k])
    BY <1>1, <2>9, CrashLeft
  <2>10. ASSUME NEW s \in Nodes, NEW n \in Nodes, NEW id \in 1 .. crashes, HandleGone(s, n, id)
         PROVE  \/ c \in ToSet(queue[k]) \cup ToSet(held[k]) \cup ToSet(turn[k])
                \/ \E m \in Nodes : Introduces(s, m) /\ c \in ToSet(queue'[k]) /\ c = PushOf(s, m)
    <3>1. Late(s)
      BY <2>10, LateIs
    <3>2. CASE c \in ToSet(queue'[k])
      BY <3>1, <3>2 DEF Late, LateQueue
    <3>3. CASE c \in ToSet(held'[k]) \cup ToSet(turn'[k])
      BY <1>1, <3>1, <3>3 DEF Late, LateHeld
    <3> QED BY <1>1, <3>2, <3>3
  <2>11. \A s, n \in Nodes : HandleHello(s, n) => Introduces(s, n)
    BY DEF Introduces
  <2> QED BY <2>1, <2>2, <2>3, <2>4, <2>5, <2>6, <2>7, <2>8, <2>9, <2>10, <2>11, StepIs DEF PushOf
<1> QED BY <1>1, <1>2 DEF Pushes, Carried
(* What a node enters comes from a HELLO, a push, a list, or its own bootstrap. *)
LEMMA KnownOf ==
    ASSUME IInv, Core, Next, NEW k \in Nodes, NEW e \in Entries(known'[k])
    PROVE  \/ e \in Entries(known[k])
           \/ \E n \in Nodes : Introduces(k, n) /\ e = Newcomer(k, n)
           \/ \E c \in Pushes(k) : HandlePush(k, c) /\ e = c.what
           \/ input[k] # Nobody /\ input[k].kind = "push" /\ e = input[k].what
           \/ ListAnswered(k) /\ ans[k].kind = "list" /\ e \in Entries(ans[k].table)
           \/ /\ HelloAnswered(k) /\ SeedOf[k] \in Nodes
              /\ e = [name |-> SeedOf[k], addr |-> AddrOf(SeedOf[k])]
           \/ /\ StartUnreachable(k) /\ SeedOf[k] \in Nodes
              /\ e = [name |-> k, addr |-> [host |-> Host[SeedOf[k]], port |-> Port[k]]]
<1>1. known \in [Nodes -> Table]
  BY DEF Core, TypeOK
<1>2. CASE known' = known
  BY <1>2
<1>3. ASSUME NEW n \in Nodes, StartUnreachable(n)
      PROVE  \/ e \in Entries(known[k])
             \/ /\ n = k /\ SeedOf[k] \in Nodes
                /\ e = [name |-> k, addr |-> [host |-> Host[SeedOf[k]], port |-> Port[k]]]
  <2> DEFINE x == [host |-> Host[SeedOf[n]], port |-> Port[n]]
  <2>1. SeedOf[n] \in Nodes
    BY <1>3, LayoutGives DEF StartUnreachable, Core
  <2>2. x \in Addrs
    BY <2>1, LayoutGives DEF Core, Addrs
  <2>3. known' = [known EXCEPT ![n] = Learned(known[n], n, x)]
    BY <1>3 DEF StartUnreachable
  <2>4. Entries(Learned(known[n], n, x)) \subseteq Entries(known[n]) \cup {[name |-> n, addr |-> x]}
    BY <1>1, <2>2, LearnedIs
  <2> QED BY <1>1, <2>1, <2>3, <2>4
<1>4. ASSUME NEW n \in Nodes, HelloAnswered(n)
      PROVE  \/ e \in Entries(known[k])
             \/ /\ n = k /\ SeedOf[k] \in Nodes
                /\ e = [name |-> SeedOf[k], addr |-> AddrOf(SeedOf[k])]
  <2>1. SeedOf[n] # Nobody
    BY <1>4 DEF HelloAnswered, Core, AskInv
  <2>2. SeedOf[n] \in Nodes /\ AddrOf(SeedOf[n]) \in Addrs
    BY <2>1, LayoutGives DEF Core
  <2>3. known' = [known EXCEPT ![n] = Learned(known[n], SeedOf[n], AddrOf(SeedOf[n]))]
    BY <1>4 DEF HelloAnswered
  <2>4. Entries(Learned(known[n], SeedOf[n], AddrOf(SeedOf[n])))
           \subseteq Entries(known[n]) \cup {[name |-> SeedOf[n], addr |-> AddrOf(SeedOf[n])]}
    BY <1>1, <2>2, LearnedIs
  <2> QED BY <1>1, <2>2, <2>3, <2>4
<1>5. ASSUME NEW n \in Nodes, ListAnswered(n)
      PROVE  \/ e \in Entries(known[k])
             \/ n = k /\ ans[k].kind = "list" /\ e \in Entries(ans[k].table)
  <2>1. ans[n].kind = "list" /\ known' = [known EXCEPT ![n] = OthersOf(n, ans[n].table, known[n])]
    BY <1>5 DEF ListAnswered
  <2>2. ans[n].table \in Table
    BY <2>1, NodeTypes, AnswerIs DEF Core
  <2>3. \A d \in Entries(OthersOf(n, ans[n].table, known[n])) :
           d \in Entries(known[n]) \/ d \in Entries(ans[n].table)
    BY <1>1, <2>2, OthersAre
  <2> QED BY <1>1, <2>1, <2>3
<1>6. ASSUME NEW n \in Nodes, Restart(n)
      PROVE  e \in Entries(known[k])
  <2>1. known' = [known EXCEPT ![n] = NoTable] /\ Entries(NoTable) = {}
    BY <1>6 DEF Restart, NoTable, Entries
  <2> QED BY <1>1, <2>1
<1>7. ASSUME NEW s \in Nodes, NEW n \in Nodes, HandleHello(s, n)
      PROVE  e \in Entries(known[k]) \/ (s = k /\ e = Newcomer(s, n))
  <2> DEFINE x == Newcomer(s, n)
  <2>1. x.addr \in Addrs /\ x = [name |-> n, addr |-> x.addr]
    BY <1>7, HandlingHello
  <2>2. known'[s] = Learned(known[s], n, x.addr) /\ \A j \in Nodes : j # s => known'[j] = known[j]
    BY <1>7, HandleHelloIs
  <2> HIDE DEF x
  <2>3. Entries(Learned(known[s], n, x.addr)) \subseteq Entries(known[s]) \cup {[name |-> n, addr |-> x.addr]}
    BY <1>1, <2>1, LearnedIs
  <2>4. e \in Entries(known[k]) \/ (s = k /\ e = x)
    BY <2>1, <2>2, <2>3
  <2> QED BY <2>4 DEF x
<1>8. ASSUME NEW s \in Nodes, NEW c \in ToSet(turn[s]), HandlePush(s, c)
      PROVE  e \in Entries(known[k]) \/ (s = k /\ c \in Pushes(s) /\ e = c.what)
  <2>1. /\ c \in Pushes(s) /\ c.what \in Entry
        /\ known'[s] = Learned(known[s], c.what.name, c.what.addr)
        /\ \A j \in Nodes : j # s => known'[j] = known[j]
    BY <1>8, HandlePushIs
  <2>2. /\ c.what.name \in Nodes /\ c.what.addr \in Addrs
        /\ c.what = [name |-> c.what.name, addr |-> c.what.addr]
    BY <2>1 DEF Entry
  <2>3. Entries(Learned(known[s], c.what.name, c.what.addr))
           \subseteq Entries(known[s]) \cup {[name |-> c.what.name, addr |-> c.what.addr]}
    BY <1>1, <2>2, LearnedIs
  <2> QED BY <2>1, <2>2, <2>3
<1>9. ASSUME NEW n \in Nodes, \/ StartAlone(n) \/ StartByGarbage(n) \/ StartJoin(n)
                              \/ JoinBroken(n) \/ CrashJoining(n)
      PROVE  known' = known
  BY <1>9 DEF StartAlone, StartByGarbage, StartJoin, JoinBroken, CrashJoining
<1>10. ASSUME NEW s \in Nodes, Poll(s) \/ Accept(s) \/ Ending(s)
       PROVE  known' = known
  BY <1>10, EndingIs DEF Poll, Accept
<1>11. ASSUME NEW s \in Nodes, NEW n \in Nodes, HandleGetNodeList(s, n)
       PROVE  known' = known
  BY <1>11 DEF HandleGetNodeList
<1>12. ASSUME NEW s \in Nodes, NEW n \in Nodes, NEW id \in 1 .. crashes, HandleGone(s, n, id)
       PROVE  \/ e \in Entries(known[k])
              \/ \E m \in Nodes : Introduces(k, m) /\ e = Newcomer(k, m)
              \/ input[k] # Nobody /\ input[k].kind = "push" /\ e = input[k].what
  BY <1>12, LateIs DEF Late, LateKnown
<1>13. \A n \in Nodes : HandleHello(k, n) => Introduces(k, n)
  BY DEF Introduces
<1>14. ASSUME NEW n \in Nodes, Aside(n)
       PROVE  \/ e \in Entries(known[k])
              \/ ListAnswered(k) /\ ans[k].kind = "list" /\ e \in Entries(ans[k].table)
              \/ /\ HelloAnswered(k) /\ SeedOf[k] \in Nodes
                 /\ e = [name |-> SeedOf[k], addr |-> AddrOf(SeedOf[k])]
              \/ /\ StartUnreachable(k) /\ SeedOf[k] \in Nodes
                 /\ e = [name |-> k, addr |-> [host |-> Host[SeedOf[k]], port |-> Port[k]]]
  BY <1>2, <1>3, <1>4, <1>5, <1>6, <1>9, <1>14 DEF Aside
<1> QED BY <1>2, <1>7, <1>8, <1>9, <1>10, <1>11, <1>12, <1>13, <1>14, StepIs

(* A list is the table of the seed. *)
LEMMA ListOf ==
    ASSUME IInv, Core, Next, NEW k \in Nodes, ans'[k].kind = "list"
    PROVE  \/ ans'[k] = ans[k]
           \/ \E s \in Nodes : HandleGetNodeList(s, k) /\ ans'[k].table = known[s]
<1>1. ASSUME NEW n \in Nodes, HelloAnswered(n) \/ ListAnswered(n)
      PROVE  ans'[k] = ans[k]
  <2>1. ans' = [ans EXCEPT ![n] = NoAnswer]
    BY <1>1 DEF HelloAnswered, ListAnswered
  <2>2. k # n
    BY <2>1, AnswerIs DEF Core, TypeOK
  <2> QED BY <2>1, <2>2 DEF Core, TypeOK
<1>2. ASSUME NEW n \in Nodes, \/ StartAlone(n) \/ StartByGarbage(n) \/ StartUnreachable(n)
                              \/ StartJoin(n) \/ JoinBroken(n) \/ Restart(n)
      PROVE  ans' = ans
  BY <1>2 DEF StartAlone, StartByGarbage, StartUnreachable, StartJoin, JoinBroken, Restart
<1>3. ASSUME NEW s \in Nodes, Poll(s) \/ Accept(s) \/ Ending(s)
      PROVE  ans' = ans
  BY <1>3, EndingIs DEF Poll, Accept
<1>4. ASSUME NEW s \in Nodes, NEW n \in Nodes, HandleHello(s, n)
      PROVE  ans'[k] = ans[k]
  <2>1. ans'[n].kind = "hello" /\ \A j \in Nodes : j # n => ans'[j] = ans[j]
    BY <1>4, HandleHelloIs
  <2> QED BY <2>1
<1>5. ASSUME NEW s \in Nodes, NEW n \in Nodes, HandleGetNodeList(s, n)
      PROVE  ans'[k] = ans[k] \/ (n = k /\ ans'[k].table = known[s])
  <2>1. /\ ans'[n] = [kind |-> "list", table |-> known[s]]
        /\ \A j \in Nodes : j # n => ans'[j] = ans[j]
    BY <1>5, HandleGetNodeListIs
  <2> QED BY <2>1
<1>6. ASSUME NEW s \in Nodes, NEW c \in ToSet(turn[s]), HandlePush(s, c)
      PROVE  ans' = ans
  BY <1>6 DEF HandlePush
<1>7. ASSUME NEW n \in Nodes, CrashJoining(n)
      PROVE  ans'[k] = ans[k]
  <2>1. ans'[n].kind = "none" /\ \A j \in Nodes : j # n => ans'[j] = ans[j]
    BY <1>7, CrashLeft
  <2> QED BY <2>1
<1>8. ASSUME NEW s \in Nodes, NEW n \in Nodes, NEW id \in 1 .. crashes, HandleGone(s, n, id)
      PROVE  ans' = ans
  BY <1>8, LateIs DEF Late
<1>9. ASSUME NEW n \in Nodes, Aside(n)
      PROVE  ans'[k] = ans[k]
  BY <1>1, <1>2, <1>9 DEF Aside
<1> QED BY <1>2, <1>3, <1>4, <1>5, <1>6, <1>7, <1>8, <1>9, StepIs

(* A push in the buffer was there, or has been read. *)
LEMMA PushRead ==
    ASSUME IInv, Core, Next, NEW k \in Nodes, input'[k] # Nobody, input'[k].kind = "push"
    PROVE  input'[k] = input[k] \/ input'[k] \in Pushes(k)
<1>1. TypeOK /\ input \in [Nodes -> {c \in Conn : c.kind # "gone"} \cup {Nobody}]
  BY DEF Core, TypeOK
<1>2. CASE input' = input
  BY <1>2
<1>3. ASSUME NEW s \in Nodes, NEW c, Received(s, c)
      PROVE  input'[k] = input[k] \/ (k = s /\ input'[k] = c)
  BY <1>1, <1>3 DEF Received
<1>4. ASSUME NEW s \in Nodes, NEW n \in Nodes, HandleHello(s, n) \/ HandleGetNodeList(s, n)
      PROVE  input'[k] = input[k]
  BY <1>3, <1>4, ConnIs DEF HandleHello, HandleGetNodeList
<1>5. ASSUME NEW s \in Nodes, NEW c \in ToSet(turn[s]), HandlePush(s, c)
      PROVE  input'[k] = input[k] \/ input'[k] \in Pushes(k)
  <2>1. Received(s, c)
    BY <1>5 DEF HandlePush
  <2>2. c \in Pushes(s)
    BY <1>5, HandlePushIs
  <2> QED BY <1>3, <2>1, <2>2
<1>6. ASSUME NEW s \in Nodes, Ending(s)
      PROVE  input'[k] = input[k]
  <2>1. input' = [input EXCEPT ![s] = Nobody]
    BY <1>6 DEF Ending, PushKills, Crash, Ends, EndsAmid
  <2> QED BY <1>1, <2>1
<1>7. ASSUME NEW s \in Nodes, NEW n \in Nodes, NEW id \in 1 .. crashes, HandleGone(s, n, id)
      PROVE  input'[k] = input[k]
  <2>1. LateInput
    BY <1>7, LateIs DEF Late
  <2> QED BY <2>1 DEF LateInput
<1>8. ASSUME NEW n \in Nodes, Poll(n) \/ Accept(n) \/ StartJoin(n) \/ CrashJoining(n)
      PROVE  input' = input
  BY <1>8 DEF Poll, Accept, StartJoin, CrashJoining
<1> QED BY <1>2, <1>4, <1>5, <1>6, <1>7, <1>8, StepIs

(* So what is said stays true if what HELLO and a failed bootstrap say is. *)
LEMMA TruthKept ==
    ASSUME IInv, Core, Next, Truth,
           \A s, n \in Nodes : Introduces(s, n) => ntoa[s] = Host[n],
           \A n \in Nodes : StartUnreachable(n) => SingleHost
    PROVE  Truth'
<1>1. layout' = layout
  BY LayoutStays
<1>2. ASSUME NEW s \in Nodes, NEW n \in Nodes, Introduces(s, n)
      PROVE  IsTrue(Newcomer(s, n))
  BY <1>2 DEF IsTrue, Newcomer, AddrOf
<1>3. ASSUME NEW k \in Nodes, NEW e \in Entries(known'[k])
      PROVE  IsTrue(e)
  <2>1. CASE e = [name |-> k, addr |-> [host |-> Host[SeedOf[k]], port |-> Port[k]]]
             /\ StartUnreachable(k) /\ SeedOf[k] \in Nodes
    BY <2>1 DEF IsTrue, AddrOf, SingleHost
  <2>2. CASE SeedOf[k] \in Nodes /\ e = [name |-> SeedOf[k], addr |-> AddrOf(SeedOf[k])]
    BY <2>2 DEF IsTrue
  <2>3. CASE ans[k].kind = "list" /\ e \in Entries(ans[k].table)
    BY <2>3 DEF Truth
  <2>4. CASE \E c \in Pushes(k) : e = c.what
    BY <2>4 DEF Truth
  <2>5. CASE e \in Entries(known[k])
    BY <2>5 DEF Truth
  <2>6. CASE \E n \in Nodes : Introduces(k, n) /\ e = Newcomer(k, n)
    BY <1>2, <2>6
  <2>7. CASE input[k] # Nobody /\ input[k].kind = "push" /\ e = input[k].what
    BY <2>7 DEF Truth
  <2> QED BY <2>1, <2>2, <2>3, <2>4, <2>5, <2>6, <2>7, KnownOf
<1>4. ASSUME NEW k \in Nodes, NEW c \in Pushes(k)'
      PROVE  IsTrue(c.what)
  <2>1. CASE c \in Pushes(k)
    BY <2>1 DEF Truth
  <2>2. CASE \E s, n \in Nodes : Introduces(s, n) /\ c = PushOf(s, n)
    BY <1>2, <2>2 DEF PushOf
  <2> QED BY <2>1, <2>2, PushesOf
<1>5. ASSUME NEW k \in Nodes, ans'[k].kind = "list", NEW e \in Entries(ans'[k].table)
      PROVE  IsTrue(e)
  <2>1. CASE ans'[k] = ans[k]
    BY <1>5, <2>1 DEF Truth
  <2>2. CASE \E s \in Nodes : ans'[k].table = known[s]
    BY <1>5, <2>2 DEF Truth
  <2> QED BY <1>5, <2>1, <2>2, ListOf
<1>6. ASSUME NEW k \in Nodes, input'[k] # Nobody, input'[k].kind = "push"
      PROVE  IsTrue(input'[k].what)
  BY <1>6, PushRead DEF Truth
<1> QED BY <1>1, <1>3, <1>4, <1>5, <1>6 DEF Truth, IsTrue, AddrOf, Host, Port

-----------------------------------------------------------------------------
(* What the tables say is true *)

(* The host of one who is introduced is the right one where there is only one. *)
LEMMA OneHostIsRight ==
    ASSUME IInv, SingleHost, NEW s \in Nodes, NEW n \in Nodes, Introduces(s, n)
    PROVE  ntoa[s] = Host[n]
<1>1. PICK m \in Nodes : ntoa[s] = Host[m]
  BY IntroducesIs DEF Noted
<1> QED BY <1>1 DEF SingleHost

(* At first nothing is said. *)
LEMMA InitTruth == Init => Truth
<1> SUFFICES ASSUME Init PROVE Truth
  OBVIOUS
<1>1. \A n \in Nodes : Entries(known[n]) = {}
  BY DEF Init, Entries, NoTable
<1>2. \A k \in Nodes : Pushes(k) = {}
  BY EmptyIs DEF Init, Pushes, Carried
<1>3. \A n \in Nodes : ans[n].kind = "none"
  BY AnswerIs DEF Init
<1>4. \A s \in Nodes : input[s] = Nobody
  BY DEF Init
<1> QED BY <1>1, <1>2, <1>3, <1>4 DEF Truth

(***************************************************************************)
(* Whatever crashes, while it serves or while it joins, and comes back: on *)
(* one host every address in every table is right, even after a bootstrap  *)
(* that reached nobody and when a request is handled once more; and if     *)
(* nodes are only started while their seed is listening none lists itself. *)
(* The truth of the tables rests on that of the pushes and lists on their  *)
(* way, and of the push that a buffer still holds.  It ends where a node   *)
(* reads a node list out of memory that it did not initialise.             *)
(***************************************************************************)
THEOREM TablesStayTrue == Spec => []TablesTrue
<1> DEFINE TInv == IInv /\ (SingleHost => Truth)
<1>1. Init => TInv
  BY InitIInv, InitTruth
<1>2. TInv /\ [Next]_vars => TInv'
  <2> SUFFICES ASSUME TInv, [Next]_vars PROVE TInv'
    OBVIOUS
  <2>1. IInv' /\ Core
    BY NextIInv DEF IInv
  <2>2. CASE Next
    <3>1. SingleHost' <=> SingleHost
      BY <2>2, LayoutStays DEF SingleHost, Host
    <3>2. SingleHost => Truth'
      BY <2>1, <2>2, OneHostIsRight, TruthKept
    <3> QED BY <2>1, <3>1, <3>2
  <2>3. CASE UNCHANGED vars
    BY <2>1, <2>3 DEF vars, SingleHost, Truth, IsTrue, AddrOf, Host, Port, Entries, Pushes, Carried
  <2> QED BY <2>2, <2>3
<1>3. TInv => TablesTrue
  <2> SUFFICES ASSUME TInv PROVE TablesTrue
    OBVIOUS
  <2>1. SingleHost => AddressesTrue
    BY DEF Truth, IsTrue, AddressesTrue
  <2> QED BY <2>1 DEF IInv, Core, TablesTrue
<1> HIDE DEF TInv
<1> QED BY <1>1, <1>2, <1>3, PTL DEF Spec

(* A HELLO or a push that is not handled yet, by the requests under way. *)
Pending(x, asked) ==
    \/ x.kind = "push"
    \/ x.kind = "join" /\ asked[x.from] = "hello"
    \/ x.kind = "gone" /\ x.gives = "hello"

(* A request that is held and pending is unhandled. *)
LEMMA PendingIs ==
    ASSUME NEW s, NEW x, x \in ToSet(held[s]), Pending(x, ask)
    PROVE  x \in Unhandled(s)
<1>1. CASE x.kind = "push"
  BY <1>1 DEF Unhandled
<1>2. CASE x.kind = "join" /\ ask[x.from] = "hello"
  BY <1>2 DEF Unhandled
<1>3. CASE x.kind = "gone" /\ x.gives = "hello"
  BY <1>3 DEF Unhandled
<1> QED BY <1>1, <1>2, <1>3 DEF Pending

(* No new request is left without its host in the buffer. *)
LEMMA BufferKept ==
    ASSUME IInv, Core, Next, BufferTrue,
           \A s \in Nodes : Len(held'[s]) > Len(held[s]) => Unhandled(s) = {}
    PROVE  BufferTrue'
<1>1. layout' = layout
  BY LayoutStays
<1> SUFFICES ASSUME NEW k \in Nodes, NEW x \in ToSet(held'[k]),
                    Pending(x, ask')
             PROVE  ntoa'[k] = Host[x.from]
  <2> SUFFICES ASSUME NEW k \in Nodes, NEW x \in Unhandled(k)'
               PROVE  x \in ToSet(held'[k]) /\ Pending(x, ask')
    BY <1>1 DEF BufferTrue, Host
  <2>1. x \in ToSet(held'[k])
    BY DEF Unhandled
  <2>2. held'[k] \in Seq(Conn)
    BY NextIInv DEF IInv, Core, TypeOK
  <2>3. x \in Conn
    <3> DEFINE u == held'[k]
    <3>1. u \in Seq(Conn) /\ x \in ToSet(u)
      BY <2>1, <2>2
    <3> HIDE DEF u
    <3> QED BY <3>1, ToSetIs
  <2>4. x.kind \in {"join", "push", "gone"}
    BY <2>3, ConnIs
  <2> QED BY <2>1, <2>4 DEF Unhandled, Pending
<1>2. ASSUME x \in ToSet(held[k]), Pending(x, ask)
      PROVE  ntoa[k] = Host[x.from]
  BY <1>2 DEF BufferTrue, Unhandled, Pending
<1>20. \/ x.kind = "push" \/ (x.kind = "join" /\ ask'[x.from] = "hello")
       \/ (x.kind = "gone" /\ x.gives = "hello")
  BY DEF Pending
<1>3. held[k] \in Seq(Conn) /\ ToSet(held[k]) \subseteq Conn
  BY NodeTypes DEF Core
<1>4. ASSUME NEW n \in Nodes, held' = held,
             \/ StartAlone(n) \/ StartByGarbage(n) \/ StartUnreachable(n)
             \/ HelloAnswered(n) \/ ListAnswered(n) \/ JoinBroken(n)
      PROVE  ntoa'[k] = Host[x.from]
  <2>1. ntoa' = ntoa
    BY <1>4 DEF StartAlone, StartByGarbage, StartUnreachable, HelloAnswered, ListAnswered, JoinBroken
  <2>2. ask' = ask \/ ask' = [ask EXCEPT ![n] = "list"] \/ ask' = [ask EXCEPT ![n] = "none"]
    BY <1>4 DEF StartAlone, StartByGarbage, StartUnreachable, HelloAnswered, ListAnswered, JoinBroken
  <2>3. x.from \in Nodes
    BY <1>3, <1>4, ConnIs
  <2>4. ask'[x.from] = "hello" => ask[x.from] = "hello"
    BY <2>2, <2>3 DEF Core, TypeOK
  <2>5. Pending(x, ask)
    BY <1>20, <2>4 DEF Pending
  <2> QED BY <1>2, <1>4, <2>1, <2>5
<1>5. ASSUME NEW n \in Nodes, Restart(n)
      PROVE  ntoa'[k] = Host[x.from]
  <2>1. /\ ntoa' = [ntoa EXCEPT ![n] = Nobody] /\ held' = held /\ ask' = ask /\ mode[n] = "dead"
    BY <1>5 DEF Restart
  <2>2. k # n
    BY <2>1, EmptyIs DEF Core, Quiet
  <2>3. ntoa'[k] = ntoa[k]
    BY <2>1, <2>2 DEF Core, TypeOK
  <2> QED BY <1>2, <2>1, <2>3
<1>6. ASSUME NEW n \in Nodes, StartJoin(n)
      PROVE  ntoa'[k] = Host[x.from]
  <2>1. held' = held /\ ntoa' = ntoa /\ mode[n] = "down"
    BY <1>6 DEF StartJoin
  <2>2. \A j \in Nodes : j # n => ask'[j] = ask[j]
    BY <1>6, StartJoinIs
  <2>3. JoinOf(n) \notin ToSet(held[k])
    BY <2>1 DEF Core, JoinsOnce
  <2>4. x.kind = "join" => x.from \in Nodes /\ x.from # n
    BY <1>3, <2>1, <2>3, ConnIs
  <2>5. Pending(x, ask)
    BY <1>20, <2>2, <2>4 DEF Pending
  <2> QED BY <1>2, <2>1, <2>5
<1>7. ASSUME NEW s \in Nodes, Poll(s)
      PROVE  ntoa'[k] = Host[x.from]
  BY <1>2, <1>7, PollIs
<1>8. ASSUME NEW s \in Nodes, Ending(s)
      PROVE  ntoa'[k] = Host[x.from]
  <2>1. /\ ask' = ask /\ ntoa' = ntoa /\ held'[s] = <<>>
        /\ k # s => held'[k] = held[k]
    BY <1>8, EndingIs
  <2>2. k # s
    BY <2>1, EmptyIs
  <2> QED BY <1>2, <2>1, <2>2
<1>9. ASSUME NEW s \in Nodes, Accept(s)
      PROVE  ntoa'[k] = Host[x.from]
  <2>1. PICK h \in Conn :
              /\ ToSet(held'[s]) = ToSet(held[s]) \cup {h}
              /\ Len(held'[s]) = Len(held[s]) + 1 /\ Len(held[s]) \in Nat
              /\ ntoa'[s] = Host[h.from]
              /\ \A j \in Nodes : j # s => held'[j] = held[j] /\ ntoa'[j] = ntoa[j]
              /\ ask' = ask
    BY <1>9, AcceptIs
  <2>2. CASE k # s
    BY <1>2, <2>1, <2>2
  <2>3. CASE k = s
    <3>1. Unhandled(s) = {}
      BY <2>1
    <3>2. x = h
      BY <2>1, <2>3, <3>1 DEF Unhandled, Pending
    <3> QED BY <2>1, <2>3, <3>2
  <2> QED BY <2>2, <2>3
<1>10. ASSUME NEW s \in Nodes, NEW n \in Nodes, HandleHello(s, n)
       PROVE  ntoa'[k] = Host[x.from]
  <2>1. /\ held' = held /\ ntoa' = ntoa /\ ask'[n] = "none"
        /\ \A j \in Nodes : j # n => ask'[j] = ask[j]
    BY <1>10, HandleHelloIs
  <2>2. x.from \in Nodes
    BY <1>3, <2>1, ConnIs
  <2>3. Pending(x, ask)
    BY <1>20, <2>1, <2>2 DEF Pending
  <2> QED BY <1>2, <2>1, <2>3
<1>11. ASSUME NEW s \in Nodes, NEW n \in Nodes, HandleGetNodeList(s, n)
       PROVE  ntoa'[k] = Host[x.from]
  <2>1. /\ ToSet(held'[k]) \subseteq ToSet(held[k]) /\ ntoa' = ntoa /\ ask'[n] = "none"
        /\ \A j \in Nodes : j # n => ask'[j] = ask[j]
    <3>1. ToSet(held'[k]) \subseteq ToSet(held[k])
      BY <1>11, HandleGetNodeListIs
    <3>2. ntoa' = ntoa
      BY <1>11, HandleGetNodeListIs
    <3>3. ask' = [ask EXCEPT ![n] = "none"]
      BY <1>11 DEF HandleGetNodeList
    <3>4. ask'[n] = "none" /\ \A j \in Nodes : j # n => ask'[j] = ask[j]
      BY <3>3 DEF Core, TypeOK
    <3> QED BY <3>1, <3>2, <3>4
  <2>2. x.from \in Nodes
    BY <1>3, <2>1, ConnIs
  <2>3. Pending(x, ask)
    BY <1>20, <2>1, <2>2 DEF Pending
  <2> QED BY <1>2, <2>1, <2>3
<1>12. ASSUME NEW s \in Nodes, NEW c \in ToSet(turn[s]), HandlePush(s, c)
       PROVE  ntoa'[k] = Host[x.from]
  <2>1. ToSet(held'[k]) \subseteq ToSet(held[k]) /\ ntoa' = ntoa /\ ask' = ask
    BY <1>12, HandlePushIs
  <2> QED BY <1>2, <2>1
<1>13. ASSUME NEW n \in Nodes, CrashJoining(n)
       PROVE  ntoa'[k] = Host[x.from]
  <2>1. /\ ntoa' = ntoa /\ ask'[n] = "none" /\ \A j \in Nodes : j # n => ask'[j] = ask[j]
        /\ \/ x \in ToSet(held[k])
           \/ /\ x.kind = "gone" /\ x.from = n
              /\ x.gives = "hello" => ask[n] = "hello" /\ JoinOf(n) \in ToSet(held[k])
    BY <1>13, CrashLeft
  <2>2. CASE x \in ToSet(held[k])
    <3>1. x.from \in Nodes
      BY <1>3, <2>2, ConnIs
    <3>2. Pending(x, ask)
      BY <1>20, <2>1, <3>1 DEF Pending
    <3> QED BY <1>2, <2>1, <2>2, <3>2
  <2>3. CASE x \notin ToSet(held[k])
    <3>1. x.from = n /\ ask[n] = "hello" /\ JoinOf(n) \in ToSet(held[k])
      BY <1>20, <2>1, <2>3
    <3>2. JoinOf(n) \in Unhandled(k) /\ JoinOf(n).from = n
      BY <3>1, ConnIs DEF Unhandled
    <3>3. ntoa[k] = Host[n]
      BY <3>2 DEF BufferTrue
    <3> QED BY <2>1, <3>1, <3>3
  <2> QED BY <2>2, <2>3
<1>14. ASSUME NEW s \in Nodes, NEW n \in Nodes, NEW id \in 1 .. crashes, HandleGone(s, n, id)
       PROVE  ntoa'[k] = Host[x.from]
  <2>1. /\ ntoa' = ntoa /\ ask' = ask
        /\ x \in ToSet(held[k]) \/ (x.kind = "gone" /\ x.gives # "hello")
    BY <1>14, LateIs DEF Late, LateHeld
  <2>2. x \in ToSet(held[k])
    BY <1>20, <2>1
  <2> QED BY <1>2, <2>1, <2>2
<1> QED BY <1>4, <1>5, <1>6, <1>7, <1>8, <1>9, <1>10, <1>11, <1>12, <1>13, <1>14, StepIs DEF Aside

(* At first nothing is said and nobody has connected. *)
LEMMA InitOverlap == OverlapInit => OverlapInv
<1>1. Init => BufferTrue
  BY EmptyIs DEF Init, BufferTrue, Unhandled
<1> QED BY <1>1, InitTruth DEF OverlapInit, OverlapInv

(* The tables stay true, and the buffer has the host of the one request to be handled. *)
LEMMA OverlapKept == IInv /\ OverlapInv /\ [OverlapNext]_<<vars, overlap>> => OverlapInv'
<1> SUFFICES ASSUME IInv, Core, OverlapInv, [OverlapNext]_<<vars, overlap>> PROVE OverlapInv'
  BY DEF IInv
<1>1. CASE OverlapNext
  <2>1. Next
    BY <1>1 DEF OverlapNext
  <2>2. layout' = layout
    BY <2>1, LayoutStays
  <2> SUFFICES ASSUME layout'.clean, ~overlap'
               PROVE  Truth' /\ (~SingleHost' => BufferTrue')
    BY DEF OverlapInv
  <2>3. /\ layout.clean /\ ~overlap /\ (SingleHost' <=> SingleHost)
        /\ ~SingleHost => \A s \in Nodes : Len(held'[s]) > Len(held[s]) => Unhandled(s) = {}
        /\ ~SingleHost => \A s \in Nodes : ~RunsAgain(s)
    BY <1>1, <2>2 DEF OverlapNext, SingleHost, Host
  <2>4. Truth /\ (~SingleHost => BufferTrue)
    BY <2>3 DEF OverlapInv
  <2>5. ASSUME NEW s \in Nodes, NEW n \in Nodes, Introduces(s, n)
        PROVE  ntoa[s] = Host[n]
    <3>1. CASE SingleHost
      BY <2>5, <3>1, OneHostIsRight
    <3>2. CASE ~SingleHost
      <4>1. CASE HandleHello(s, n)
        <5>1. JoinOf(n) \in ToSet(held[s]) /\ JoinOf(n).from = n /\ Pending(JoinOf(n), ask)
          BY <4>1, HandlingHello, ConnIs DEF Pending
        <5>2. JoinOf(n) \in Unhandled(s)
          BY <5>1, PendingIs
        <5> QED BY <2>4, <3>2, <5>1, <5>2 DEF BufferTrue
      <4>2. ASSUME NEW id \in 1 .. crashes, HelloOfGone(s, n, id)
            PROVE  ntoa[s] = Host[n]
        <5> DEFINE g == Gone(n, "hello", id)
        <5>1. Dispatched(s, g)
          BY <4>2 DEF HelloOfGone
        <5>2. g \in Conn /\ g \in ToSet(turn[s])
          BY <5>1, GoneDispatched
        <5>3. g.kind = "gone" /\ g.gives = "hello" /\ g.from = n
          BY GoneIs
        <5>4. g \in ToSet(held[s])
          BY <5>2, <5>3 DEF IInv, LeftOnce, Left
        <5>5. g \in Unhandled(s)
          BY <5>3, <5>4, PendingIs DEF Pending
        <5> QED BY <2>4, <3>2, <5>3, <5>5 DEF BufferTrue
      <4>3. ~RunsAgain(s)
        BY <2>3, <3>2
      <4> QED BY <2>5, <4>1, <4>2, <4>3 DEF Introduces
    <3> QED BY <3>1, <3>2
  <2>6. \A n \in Nodes : ~StartUnreachable(n)
    BY <2>3 DEF StartUnreachable
  <2>7. Truth'
    BY <2>1, <2>4, <2>5, <2>6, TruthKept
  <2>8. ~SingleHost => BufferTrue'
    BY <2>1, <2>3, <2>4, BufferKept
  <2> QED BY <2>3, <2>7, <2>8
<1>2. CASE UNCHANGED <<vars, overlap>>
  <2>1. /\ (SingleHost' <=> SingleHost) /\ (Truth' <=> Truth)
    BY <1>2 DEF vars, SingleHost, Truth, IsTrue, AddrOf, Host, Port, Entries, Pushes, Carried
  <2>2. \A s \in Nodes : Unhandled(s)' = Unhandled(s)
    BY <1>2 DEF vars, Unhandled
  <2>3. BufferTrue' <=> BufferTrue
    BY <1>2, <2>2 DEF vars, BufferTrue, Host
  <2> QED BY <1>2, <2>1, <2>3 DEF vars, OverlapInv
<1> QED BY <1>1, <1>2

(***************************************************************************)
(* With hosts of their own, too, the tables are true until two accepts     *)
(* overlap, or a request is handled again: until then the address buffer   *)
(* has the host of the one request that a node has still to handle,        *)
(* whichever nodes crash and come back.                                    *)
(***************************************************************************)
THEOREM TrueTillOverlap == OverlapSpec => []TrueUntilOverlap
<1> DEFINE TInv == IInv /\ OverlapInv
<1>1. OverlapInit => TInv
  BY InitIInv, InitOverlap DEF OverlapInit
<1>2. TInv /\ [OverlapNext]_<<vars, overlap>> => TInv'
  <2>1. [OverlapNext]_<<vars, overlap>> => [Next]_vars
    BY DEF OverlapNext
  <2> QED BY <2>1, NextIInv, OverlapKept
<1>3. TInv => TrueUntilOverlap
  <2> SUFFICES ASSUME TInv, layout.clean, ~overlap PROVE AddressesTrue
    BY DEF TrueUntilOverlap
  <2> QED BY DEF OverlapInv, Truth, IsTrue, AddressesTrue
<1> HIDE DEF TInv
<1> QED BY <1>1, <1>2, <1>3, PTL DEF OverlapSpec

-----------------------------------------------------------------------------
(* Undisturbed: nothing crashes, so there is nothing left of anybody *)

(* The steps of an undisturbed network. *)
LEMMA CalmStep ==
    ASSUME IInv, Core, Next, Undisturbed
    PROVE  \/ /\ UNCHANGED <<layout, queue, held, turn, input>>
              /\ \E n \in Nodes : Aside(n)
           \/ \E n \in Nodes : StartJoin(n)
           \/ \E s \in Nodes : Poll(s) \/ Accept(s) \/ Ending(s)
           \/ \E s, n \in Nodes : HandleHello(s, n) \/ HandleGetNodeList(s, n)
           \/ \E s \in Nodes : \E c \in ToSet(turn[s]) : HandlePush(s, c)
<1>1. crashes = 0 /\ layout.crashes = 0
  BY DEF Core, TypeOK, Undisturbed
<1>2. \A n \in Nodes : ~CrashJoining(n)
  BY <1>1 DEF CrashJoining
<1>3. 1 .. crashes = {}
  BY <1>1
<1> QED BY <1>2, <1>3, StepIs

(* Who is introduced says HELLO. *)
LEMMA CalmIntroduces ==
    ASSUME IInv, Core, Undisturbed, NEW s \in Nodes, NEW n \in Nodes, Introduces(s, n)
    PROVE  HandleHello(s, n)
<1>1. crashes = 0 /\ layout.crashes = 0
  BY DEF Core, TypeOK, Undisturbed
<1>2. input[s] = Nobody
  BY <1>1 DEF IInv, NoneGone
<1>3. 1 .. crashes = {}
  BY <1>1
<1>4. JoinOf(n) # Nobody
  BY ConnIs, NobodyConnects
<1> QED BY <1>2, <1>3, <1>4 DEF Introduces

(* The new pushes. *)
LEMMA CalmPushesOf ==
    ASSUME IInv, Core, Next, Undisturbed, NEW k \in Nodes, NEW c \in Pushes(k)'
    PROVE  \/ c \in Pushes(k)
           \/ \E s, n \in Nodes :
                 /\ HandleHello(s, n) /\ c \in ToSet(queue'[k])
                 /\ c = [kind |-> "push", from |-> s, what |-> Newcomer(s, n)]
<1>1. \/ c \in Pushes(k)
      \/ \E s, n \in Nodes :
            /\ Introduces(s, n) /\ c \in ToSet(queue'[k])
            /\ c = PushOf(s, n)
  BY PushesOf
<1> QED BY <1>1, CalmIntroduces DEF PushOf

(* Where entries come from. *)
LEMMA CalmKnownOf ==
    ASSUME IInv, Core, Next, Undisturbed, NEW k \in Nodes, NEW e \in Entries(known'[k])
    PROVE  \/ e \in Entries(known[k])
           \/ \E n \in Nodes : HandleHello(k, n) /\ e = Newcomer(k, n)
           \/ \E c \in Pushes(k) : HandlePush(k, c) /\ e = c.what
           \/ ListAnswered(k) /\ ans[k].kind = "list" /\ e \in Entries(ans[k].table)
           \/ /\ HelloAnswered(k) /\ SeedOf[k] \in Nodes
              /\ e = [name |-> SeedOf[k], addr |-> AddrOf(SeedOf[k])]
<1>1. input[k] = Nobody
  BY DEF IInv, NoneGone, Undisturbed
<1>2. ~StartUnreachable(k)
  BY DEF StartUnreachable, Undisturbed
<1> QED BY <1>1, <1>2, KnownOf, CalmIntroduces

-----------------------------------------------------------------------------
(* Who has met whom *)

(* A node's mode changes by its own doing. *)
LEMMA ModeOf ==
    ASSUME IInv, Core, Next, Undisturbed, NEW n \in Nodes, mode'[n] # mode[n]
    PROVE  \/ StartAlone(n) \/ StartByGarbage(n) \/ StartUnreachable(n) \/ StartJoin(n)
           \/ HelloAnswered(n) \/ ListAnswered(n) \/ JoinBroken(n)
           \/ Restart(n) \/ Ending(n)
<1>1. ASSUME NEW k \in Nodes, \/ StartAlone(k) \/ StartByGarbage(k) \/ StartUnreachable(k) \/ StartJoin(k)
                              \/ HelloAnswered(k) \/ ListAnswered(k) \/ JoinBroken(k) \/ Restart(k)
      PROVE  k = n
  <2>1. \E x : mode' = [mode EXCEPT ![k] = x]
    BY <1>1 DEF StartAlone, StartByGarbage, StartUnreachable, StartJoin, HelloAnswered,
         ListAnswered, JoinBroken, Restart
  <2> QED BY <2>1 DEF Core, TypeOK
<1>2. ASSUME NEW s \in Nodes, Ending(s)
      PROVE  s = n
  BY <1>2, EndingIs
<1>3. ASSUME NEW s \in Nodes, Poll(s) \/ Accept(s)
      PROVE  FALSE
  BY <1>3 DEF Poll, Accept
<1>4. ASSUME NEW s \in Nodes, NEW k \in Nodes, HandleHello(s, k) \/ HandleGetNodeList(s, k)
      PROVE  FALSE
  BY <1>4 DEF HandleHello, HandleGetNodeList
<1>5. ASSUME NEW s \in Nodes, NEW c, HandlePush(s, c)
      PROVE  FALSE
  BY <1>5 DEF HandlePush
<1> QED BY <1>1, <1>2, <1>3, <1>4, <1>5, CalmStep DEF Aside

(* A node's answer changes when the seed gives it or the node takes it. *)
LEMMA AnswerOf ==
    ASSUME IInv, Core, Next, Undisturbed, NEW n \in Nodes, ans'[n] # ans[n]
    PROVE  \/ HelloAnswered(n) \/ ListAnswered(n)
           \/ \E s \in Nodes : HandleHello(s, n) \/ HandleGetNodeList(s, n)
<1>1. ASSUME NEW k \in Nodes, HelloAnswered(k) \/ ListAnswered(k)
      PROVE  k = n
  <2>1. ans' = [ans EXCEPT ![k] = NoAnswer]
    BY <1>1 DEF HelloAnswered, ListAnswered
  <2> QED BY <2>1 DEF Core, TypeOK
<1>2. ASSUME NEW k \in Nodes, \/ StartAlone(k) \/ StartByGarbage(k) \/ StartUnreachable(k)
                              \/ StartJoin(k) \/ JoinBroken(k) \/ Restart(k)
      PROVE  FALSE
  BY <1>2 DEF StartAlone, StartByGarbage, StartUnreachable, StartJoin, JoinBroken, Restart
<1>3. ASSUME NEW s \in Nodes, Poll(s) \/ Accept(s) \/ Ending(s)
      PROVE  FALSE
  BY <1>3, EndingIs DEF Poll, Accept
<1>4. ASSUME NEW s \in Nodes, NEW k \in Nodes, HandleHello(s, k) \/ HandleGetNodeList(s, k)
      PROVE  k = n
  <2>1. \E x : ans' = [ans EXCEPT ![k] = x]
    BY <1>4 DEF HandleHello, HandleGetNodeList
  <2> QED BY <2>1 DEF Core, TypeOK
<1>5. ASSUME NEW s \in Nodes, NEW c \in ToSet(turn[s]), HandlePush(s, c)
      PROVE  FALSE
  BY <1>5 DEF HandlePush
<1> QED BY <1>1, <1>2, <1>3, <1>4, <1>5, CalmStep DEF Aside

(* Undisturbed, a node goes from mode to mode as its bootstrap has it, and ends for good. *)
LEMMA CalmModes ==
    ASSUME IInv, Core, Next, Undisturbed, NEW n \in Nodes
    PROVE  /\ mode[n] = "dead" => mode'[n] = "dead"
           /\ mode[n] = "up" => mode'[n] \in {"up", "dead"}
           /\ mode'[n] = "up" /\ mode[n] # "up" =>
                 StartAlone(n) \/ ListAnswered(n) \/ (JoinBroken(n) /\ mode[n] = "list")
           /\ mode'[n] = "list" /\ mode[n] # "list" => HelloAnswered(n)
           /\ mode'[n] = "hello" /\ mode[n] # "hello" => StartJoin(n)
<1>1. CASE mode'[n] = mode[n]
  BY <1>1
<1>2. CASE mode'[n] # mode[n]
  <2>1. ~StartByGarbage(n) /\ ~StartUnreachable(n)
    BY DEF StartByGarbage, StartUnreachable, Undisturbed
  <2>2. ~Restart(n)
    <3>1. crashes = 0
      BY DEF Core, TypeOK, Undisturbed
    <3> QED BY <3>1 DEF Restart
  <2>3. mode \in [Nodes -> {"down", "hello", "list", "up", "dead", "wild"}]
    BY DEF Core, TypeOK
  <2>4. ASSUME StartAlone(n)
        PROVE  mode[n] = "down" /\ mode'[n] = "up"
    BY <2>3, <2>4 DEF StartAlone
  <2>5. ASSUME StartJoin(n)
        PROVE  mode[n] = "down" /\ mode'[n] = "hello"
    BY <2>3, <2>5 DEF StartJoin
  <2>6. ASSUME HelloAnswered(n)
        PROVE  mode[n] = "hello" /\ mode'[n] = "list"
    BY <2>3, <2>6 DEF HelloAnswered
  <2>7. ASSUME ListAnswered(n)
        PROVE  mode[n] = "list" /\ mode'[n] = "up"
    BY <2>3, <2>7 DEF ListAnswered
  <2>8. ASSUME JoinBroken(n)
        PROVE  \/ mode[n] = "list" /\ mode'[n] \in {"up", "dead", "wild"}
               \/ mode[n] = "hello" /\ mode'[n] = "dead"
    BY <2>3, <2>8 DEF JoinBroken, AnyLength
  <2>9. ASSUME Ending(n)
        PROVE  mode[n] = "up" /\ mode'[n] = "dead"
    BY <2>9, EndingIs
  <2> QED BY <1>2, <2>1, <2>2, <2>4, <2>5, <2>6, <2>7, <2>8, <2>9, ModeOf
<1> QED BY <1>1, <1>2

(* A seed keeps the connection of a joining node until it sends the list, or ends. *)
LEMMA ConnectionKept ==
    ASSUME IInv, Core, Next, Undisturbed, NEW n \in Nodes, SeedOf[n] \in Nodes,
           Connected(n), mode'[SeedOf[n]] = "up"
    PROVE  Connected(n)' \/ HandleGetNodeList(SeedOf[n], n)
<1> DEFINE s == SeedOf[n]
<1>1. JoinOf(n) \in ToSet(queue[s]) \cup ToSet(held[s])
  BY DEF Connected
<1>2. layout' = layout
  BY LayoutStays
<1> SUFFICES ASSUME ~HandleGetNodeList(s, n)
             PROVE  JoinOf(n) \in ToSet(queue'[s]) \cup ToSet(held'[s])
  BY <1>2 DEF Connected, SeedOf
<1> HIDE DEF s
<1>3. s \in Nodes /\ mode'[s] = "up"
  BY DEF s
<1>4. CASE UNCHANGED <<queue, held>>
  BY <1>1, <1>4
<1>5. ASSUME NEW k \in Nodes, StartJoin(k)
      PROVE  JoinOf(n) \in ToSet(queue'[s]) \cup ToSet(held'[s])
  <2>1. held' = held
    BY <1>5 DEF StartJoin
  <2>2. ToSet(queue[s]) \subseteq ToSet(queue'[s])
    BY <1>3, <1>5, StartJoinIs
  <2> QED BY <1>1, <2>1, <2>2
<1>6. ASSUME NEW k \in Nodes, Poll(k)
      PROVE  JoinOf(n) \in ToSet(queue'[s]) \cup ToSet(held'[s])
  BY <1>1, <1>6, PollIs
<1>7. ASSUME NEW k \in Nodes, Accept(k)
      PROVE  JoinOf(n) \in ToSet(queue'[s]) \cup ToSet(held'[s])
  <2>1. ToSet(queue'[s]) \cup ToSet(held'[s]) = ToSet(queue[s]) \cup ToSet(held[s])
    BY <1>3, <1>7, AcceptIs
  <2> QED BY <1>1, <2>1
<1>8. ASSUME NEW k \in Nodes, Ending(k)
      PROVE  JoinOf(n) \in ToSet(queue'[s]) \cup ToSet(held'[s])
  BY <1>1, <1>3, <1>8, EndingIs
<1>9. ASSUME NEW k \in Nodes, NEW m \in Nodes, HandleHello(k, m)
      PROVE  JoinOf(n) \in ToSet(queue'[s]) \cup ToSet(held'[s])
  <2>1. held' = held /\ ToSet(queue[s]) \subseteq ToSet(queue'[s])
    BY <1>3, <1>9, HandleHelloIs
  <2> QED BY <1>1, <2>1
<1>10. ASSUME NEW k \in Nodes, NEW m \in Nodes, HandleGetNodeList(k, m)
       PROVE  JoinOf(n) \in ToSet(queue'[s]) \cup ToSet(held'[s])
  <2>1. k = SeedOf[m]
    BY <1>10, HandleGetNodeListIs
  <2>2. m # n
    BY <1>10, <2>1 DEF s
  <2>3. JoinOf(n) # JoinOf(m)
    BY <2>2, ConnIs
  <2>4. queue' = queue
    BY <1>10 DEF HandleGetNodeList
  <2>5. \A j \in Nodes : \A d \in ToSet(held[j]) : d # JoinOf(m) => d \in ToSet(held'[j])
    <3>1. held' = [held EXCEPT ![k] = RemoveFirst(held[k], JoinOf(m))]
      BY <1>10 DEF HandleGetNodeList, Dropped
    <3>2. held \in [Nodes -> Seq(Conn)]
      BY DEF Core, TypeOK
    <3>3. \A d \in ToSet(held[k]) : d # JoinOf(m) => d \in ToSet(RemoveFirst(held[k], JoinOf(m)))
      BY <3>2, FirstRemoved
    <3> QED BY <3>1, <3>2, <3>3
  <2> QED BY <1>1, <1>3, <2>3, <2>4, <2>5
<1>11. ASSUME NEW k \in Nodes, NEW c \in ToSet(turn[k]), HandlePush(k, c)
       PROVE  JoinOf(n) \in ToSet(queue'[s]) \cup ToSet(held'[s])
  <2>1. c # JoinOf(n)
    BY <1>11, ConnIs DEF HandlePush
  <2>2. queue' = queue /\ \A d \in ToSet(held[s]) : d # c => d \in ToSet(held'[s])
    BY <1>3, <1>11, HandlePushIs
  <2> QED BY <1>1, <2>1, <2>2
<1> QED BY <1>4, <1>5, <1>6, <1>7, <1>8, <1>9, <1>10, <1>11, CalmStep

(* Undisturbed, a table only grows. *)
LEMMA TablesGrow ==
    ASSUME IInv, Core, Next, Undisturbed, Homes
    PROVE  Homes' /\ \A k \in Nodes : NamesIn(known[k]) \subseteq NamesIn(known'[k])
<1>1. known \in [Nodes -> Table] /\ \A i, j \in Nodes : Hash[i] = Hash[j] => i = j
  BY DEF Core, TypeOK, Undisturbed
<1>2. ASSUME NEW k \in Nodes
      PROVE  Home(known'[k]) /\ NamesIn(known[k]) \subseteq NamesIn(known'[k])
  <2>1. known[k] \in Table /\ Home(known[k])
    BY <1>1 DEF Homes
  <2>2. CASE known'[k] = known[k]
    BY <2>1, <2>2
  <2>3. ASSUME NEW n \in Nodes, HelloAnswered(n), known'[k] # known[k]
        PROVE  Home(known'[k]) /\ NamesIn(known[k]) \subseteq NamesIn(known'[k])
    <3>1. SeedOf[n] # Nobody
      BY <2>3 DEF HelloAnswered, Core, AskInv
    <3>2. SeedOf[n] \in Nodes /\ AddrOf(SeedOf[n]) \in Addrs
      BY <3>1, LayoutGives DEF Core
    <3>3. known' = [known EXCEPT ![n] = Learned(known[n], SeedOf[n], AddrOf(SeedOf[n]))]
      BY <2>3 DEF HelloAnswered
    <3>4. known'[k] = Learned(known[k], SeedOf[n], AddrOf(SeedOf[n]))
      BY <1>1, <2>3, <3>3
    <3> QED BY <1>1, <2>1, <3>2, <3>4, LearnedIs
  <2>4. ASSUME NEW n \in Nodes, ListAnswered(n), known'[k] # known[k]
        PROVE  Home(known'[k]) /\ NamesIn(known[k]) \subseteq NamesIn(known'[k])
    <3>1. ans[n].kind = "list" /\ known' = [known EXCEPT ![n] = OthersOf(n, ans[n].table, known[n])]
      BY <2>4 DEF ListAnswered
    <3>2. ans[n].table \in Table /\ Home(ans[n].table)
      BY <3>1, NodeTypes, AnswerIs DEF Core, Homes
    <3>3. n = k /\ known'[k] = OthersOf(k, ans[k].table, known[k])
      BY <1>1, <2>4, <3>1
    <3> QED BY <1>1, <2>1, <3>2, <3>3, OthersAre
  <2>5. ASSUME NEW s \in Nodes, NEW n \in Nodes, HandleHello(s, n), known'[k] # known[k]
        PROVE  Home(known'[k]) /\ NamesIn(known[k]) \subseteq NamesIn(known'[k])
    <3>1. Newcomer(s, n).addr \in Addrs
      BY <2>5, HandlingHello
    <3>2. known'[k] = Learned(known[k], n, Newcomer(s, n).addr)
      BY <2>5, HandleHelloIs
    <3>3. PICK x \in Addrs : known'[k] = Learned(known[k], n, x)
      BY <3>1, <3>2
    <3>4. Home(Learned(known[k], n, x)) /\ NamesIn(known[k]) \subseteq NamesIn(Learned(known[k], n, x))
      BY <1>1, <2>1, LearnedIs
    <3> QED BY <3>3, <3>4
  <2>6. ASSUME NEW s \in Nodes, NEW c \in ToSet(turn[s]), HandlePush(s, c), known'[k] # known[k]
        PROVE  Home(known'[k]) /\ NamesIn(known[k]) \subseteq NamesIn(known'[k])
    <3>1. c.what \in Entry /\ known'[k] = Learned(known[k], c.what.name, c.what.addr)
      BY <2>6, HandlePushIs
    <3>2. c.what.name \in Nodes /\ c.what.addr \in Addrs
      BY <3>1 DEF Entry
    <3>3. PICK m \in Nodes, x \in Addrs : known'[k] = Learned(known[k], m, x)
      BY <3>1, <3>2
    <3>4. Home(Learned(known[k], m, x)) /\ NamesIn(known[k]) \subseteq NamesIn(Learned(known[k], m, x))
      BY <1>1, <2>1, LearnedIs
    <3> QED BY <3>3, <3>4
  <2>7. ASSUME NEW n \in Nodes, StartAlone(n) \/ StartJoin(n) \/ JoinBroken(n)
        PROVE  known' = known
    BY <2>7 DEF StartAlone, StartJoin, JoinBroken
  <2>8. ASSUME NEW s \in Nodes, Poll(s) \/ Accept(s) \/ Ending(s)
        PROVE  known' = known
    BY <2>8, EndingIs DEF Poll, Accept
  <2>9. ASSUME NEW s \in Nodes, NEW n \in Nodes, HandleGetNodeList(s, n)
        PROVE  known' = known
    BY <2>9 DEF HandleGetNodeList
  <2>10. ASSUME NEW n \in Nodes
         PROVE  ~StartByGarbage(n) /\ ~StartUnreachable(n) /\ ~Restart(n)
    <3>1. crashes = 0
      BY DEF Core, TypeOK, Undisturbed
    <3> QED BY <3>1 DEF Restart, StartByGarbage, StartUnreachable, Undisturbed
  <2> QED BY <2>2, <2>3, <2>4, <2>5, <2>6, <2>7, <2>8, <2>9, <2>10, CalmStep DEF Aside
<1>3. ASSUME NEW k \in Nodes, ans'[k].kind = "list"
      PROVE  Home(ans'[k].table)
  BY <1>3, ListOf DEF Homes
<1>4. Homes'
  BY <1>2, <1>3 DEF Homes, Home
<1> QED BY <1>2, <1>4

(* A node that has joined, or is joining, has a seed that was there before. *)
LEMMA SeedKept ==
    ASSUME IInv, Core, Next, Undisturbed, NEW n \in Nodes, SeedOf[n] # Nobody, Met(n),
           mode[n] \in {"hello", "list", "up"}
    PROVE  /\ mode'[SeedOf[n]] \in {"up", "dead"}
           /\ mode'[SeedOf[n]] = "up" => mode[SeedOf[n]] = "up"
<1>1. SeedOf[n] \in Nodes
  BY LayoutGives DEF Core
<1>2. mode[SeedOf[n]] \in {"up", "dead"}
  BY DEF Met
<1> QED BY <1>1, <1>2, CalmModes

(* A node that has met its seed has met it still. *)
LEMMA MetKept ==
    ASSUME IInv, Core, Next, Undisturbed, Homes, NEW n \in Nodes, SeedOf[n] # Nobody, Met(n)
    PROVE  Met(n)'
<1> DEFINE s == SeedOf[n]
<1>1. s \in Nodes /\ s # n
  BY LayoutGives DEF Core
<1>2. layout' = layout
  BY LayoutStays
<1>3. NamesIn(known[s]) \subseteq NamesIn(known'[s]) /\ NamesIn(known[n]) \subseteq NamesIn(known'[n])
  BY <1>1, TablesGrow
<1>4. ASSUME mode[n] \in {"hello", "list", "up"}
      PROVE  mode'[s] \in {"up", "dead"} /\ (mode'[s] = "up" => mode[s] = "up")
  BY <1>4, SeedKept
<1>5. /\ mode[n] \in {"down", "hello", "list", "up", "dead", "wild"}
      /\ mode'[n] = "up" /\ mode[n] # "up" => mode[n] = "list"
      /\ mode'[n] = "list" /\ mode[n] # "list" => HelloAnswered(n)
      /\ mode'[n] = "hello" /\ mode[n] # "hello" => StartJoin(n)
      /\ mode[n] = "up" => mode'[n] \in {"up", "dead"}
  <2>1. ~StartAlone(n)
    BY DEF StartAlone
  <2>2. ListAnswered(n) => mode[n] = "list"
    BY DEF ListAnswered
  <2> QED BY <2>1, <2>2, CalmModes, NodeTypes DEF Core
<1>6. ASSUME StartJoin(n)
      PROVE  mode'[s] = "up" /\ Connected(n)'
  <2>1. mode[s] = "up"
    BY <1>6 DEF StartJoin
  <2>2. mode'[s] = mode[s] /\ JoinOf(n) \in ToSet(queue'[s])
    BY <1>1, <1>6, StartJoinIs
  <2> QED BY <1>2, <2>1, <2>2 DEF Connected, SeedOf
<1>7. mode'[n] \in {"hello", "list", "up"} => mode'[s] \in {"up", "dead"}
  <2>1. HelloAnswered(n) => mode[n] = "hello"
    BY DEF HelloAnswered
  <2> QED BY <1>4, <1>5, <1>6, <2>1
<1>8. ASSUME mode'[n] \in {"hello", "list"}, ans'[n].kind # "list", mode'[s] = "up"
      PROVE  Connected(n)'
  <2>1. CASE StartJoin(n)
    BY <1>6, <2>1
  <2>2. CASE ~StartJoin(n)
    <3>1. mode[n] \in {"hello", "list"}
      <4>1. HelloAnswered(n) => mode[n] = "hello"
        BY DEF HelloAnswered
      <4> QED BY <1>5, <1>8, <2>2, <4>1
    <3>2. mode[s] = "up"
      BY <1>4, <1>8, <3>1
    <3>3. ans[n].kind # "list"
      <4> SUFFICES ASSUME ans[n].kind = "list" PROVE FALSE
        OBVIOUS
      <4>1. ans'[n] # ans[n]
        BY <1>8
      <4>2. mode[n] = "list" /\ ask[n] = "none"
        BY DEF Core, AskInv
      <4>3. ~HelloAnswered(n)
        BY <4>2 DEF HelloAnswered
      <4>4. ~ListAnswered(n)
        <5>1. ListAnswered(n) => mode'[n] = "up"
          BY DEF ListAnswered, Core, TypeOK
        <5> QED BY <1>8, <5>1
      <4>5. \A k \in Nodes : ~HandleHello(k, n) /\ ~HandleGetNodeList(k, n)
        BY <4>2 DEF HandleHello, HandleGetNodeList
      <4> QED BY <4>1, <4>3, <4>4, <4>5, AnswerOf
    <3>4. Connected(n)
      BY <3>1, <3>2, <3>3 DEF Met
    <3>5. ~HandleGetNodeList(s, n)
      <4>1. HandleGetNodeList(s, n) => ans'[n] = [kind |-> "list", table |-> known[s]]
        BY DEF HandleGetNodeList, Core, TypeOK
      <4> QED BY <1>8, <4>1
    <3> QED BY <1>1, <1>8, <3>4, <3>5, ConnectionKept
  <2> QED BY <2>1, <2>2
<1>9. ASSUME mode'[n] \in {"list", "up"} \/ ans'[n].kind = "hello"
      PROVE  n \in NamesIn(known'[s])
  <2>1. CASE mode[n] \in {"list", "up"} \/ ans[n].kind = "hello"
    BY <1>3, <2>1 DEF Met
  <2>2. CASE HelloAnswered(n)
    <3>1. ans[n].kind = "hello"
      BY <2>2 DEF HelloAnswered
    <3> QED BY <2>1, <3>1
  <2>3. CASE ~HelloAnswered(n) /\ ~(mode[n] \in {"list", "up"} \/ ans[n].kind = "hello")
    <3>1. mode'[n] \notin {"list", "up"}
      BY <1>5, <2>3
    <3>2. ans'[n].kind = "hello" /\ ans'[n] # ans[n]
      BY <1>9, <2>3, <3>1
    <3>3. PICK k \in Nodes : HandleHello(k, n) \/ HandleGetNodeList(k, n)
      <4>1. ~ListAnswered(n)
        BY <2>3 DEF ListAnswered
      <4> QED BY <2>3, <3>2, <4>1, AnswerOf
    <3>4. ~HandleGetNodeList(k, n)
      <4>1. HandleGetNodeList(k, n) => ans'[n] = [kind |-> "list", table |-> known[k]]
        BY DEF HandleGetNodeList, Core, TypeOK
      <4> QED BY <3>2, <4>1
    <3>5. HandleHello(k, n) /\ k = s
      BY <3>3, <3>4, HandlingHello
    <3>6. Newcomer(s, n).addr \in Addrs /\ known'[s] = Learned(known[s], n, Newcomer(s, n).addr)
      BY <3>5, HandlingHello, HandleHelloIs
    <3>7. known[s] \in Table
      BY <1>1, NodeTypes DEF Core
    <3>8. n \in NamesIn(Learned(known[s], n, Newcomer(s, n).addr))
      BY <3>6, <3>7, LearnedIs
    <3> QED BY <3>6, <3>8
  <2> QED BY <2>1, <2>2, <2>3
<1>10. ASSUME mode'[n] \in {"list", "up"}
       PROVE  s \in NamesIn(known'[n])
  <2>1. CASE mode[n] \in {"list", "up"}
    BY <1>3, <2>1 DEF Met
  <2>2. CASE mode[n] \notin {"list", "up"}
    <3>1. HelloAnswered(n)
      BY <1>5, <1>10, <2>2
    <3>2. known'[n] = Learned(known[n], s, AddrOf(s)) /\ known[n] \in Table
      BY <3>1 DEF HelloAnswered, Core, TypeOK
    <3>3. AddrOf(s) \in Addrs
      BY <1>1, LayoutGives DEF Core
    <3> HIDE DEF s
    <3>4. s \in NamesIn(Learned(known[n], s, AddrOf(s)))
      BY <1>1, <3>2, <3>3, LearnedIs
    <3> QED BY <3>2, <3>4
  <2> QED BY <2>1, <2>2
<1>11. (SeedOf[n])' = s
  BY <1>2 DEF SeedOf
<1> HIDE DEF s
<1> QED BY <1>7, <1>8, <1>9, <1>10, <1>11 DEF Met

(* What has been listed stays listed. *)
LEMMA ListedKept ==
    ASSUME IInv, Core, Next, Undisturbed, Homes, NEW n \in Nodes, SeedOf[n] # Nobody,
           Past(n), Past(n)'
    PROVE  Listed(n) \ {n} \subseteq Listed(n)'
<1>1. CASE mode[n] = "up"
  <2>1. mode'[n] = "up"
    <3>1. CASE mode'[n] = "dead"
      <4>1. Core'
        BY NextIInv DEF IInv
      <4>2. ans'[n].kind # "list"
        BY <3>1, <4>1 DEF Core, AskInv
      <4> QED BY <3>1, <4>2 DEF Past
    <3> QED BY <1>1, <3>1, CalmModes
  <2> QED BY <1>1, <2>1, TablesGrow DEF Listed
<1>2. CASE mode[n] # "up"
  <2>1. ans[n].kind = "list" /\ mode[n] = "list" /\ ask[n] = "none"
    BY <1>2 DEF Past, Core, AskInv
  <2>2. CASE mode'[n] = "up"
    <3>1. ~StartAlone(n) /\ ~JoinBroken(n)
      BY <2>1, AnswerIs DEF StartAlone, JoinBroken
    <3>2. ListAnswered(n)
      BY <1>2, <2>2, <3>1, CalmModes
    <3>3. known'[n] = OthersOf(n, ans[n].table, known[n]) /\ known[n] \in Table
      BY <3>2 DEF ListAnswered, Core, TypeOK
    <3>4. ans[n].table \in Table /\ Home(ans[n].table) /\ Home(known[n])
      BY <2>1, NodeTypes, AnswerIs DEF Core, Homes
    <3>5. NamesIn(ans[n].table) \ {n} \subseteq NamesIn(OthersOf(n, ans[n].table, known[n]))
      BY <3>3, <3>4, OthersAre DEF Undisturbed
    <3> QED BY <1>2, <2>2, <3>3, <3>5 DEF Listed
  <2>3. CASE mode'[n] # "up"
    <3>1. ans'[n] = ans[n]
      <4>1. ~HelloAnswered(n)
        BY <2>1 DEF HelloAnswered
      <4>2. ListAnswered(n) => mode'[n] = "up"
        BY DEF ListAnswered, Core, TypeOK
      <4>3. \A k \in Nodes : ~HandleHello(k, n) /\ ~HandleGetNodeList(k, n)
        BY <2>1 DEF HandleHello, HandleGetNodeList
      <4> QED BY <2>3, <4>1, <4>2, <4>3, AnswerOf
    <3> QED BY <1>2, <2>3, <3>1 DEF Listed
  <2> QED BY <2>2, <2>3
<1> QED BY <1>1, <1>2

(* A node that is given the list finds everyone in it who was given it before. *)
LEMMA NewlyPast ==
    ASSUME IInv, Core, Next, Undisturbed, NEW n \in Nodes, SeedOf[n] # Nobody, Met(n),
           Past(n)', ~Past(n), mode'[SeedOf[n]] = "up"
    PROVE  HandleGetNodeList(SeedOf[n], n)
<1>1. CASE mode'[n] = "up"
  <2>1. ~StartAlone(n) /\ ~ListAnswered(n)
    BY DEF StartAlone, ListAnswered, Past
  <2>2. JoinBroken(n) /\ mode[n] = "list"
    BY <1>1, <2>1, CalmModes DEF Past
  <2>3. mode[SeedOf[n]] = "up"
    BY <2>2, SeedKept
  <2>4. Connected(n)
    BY <2>2, <2>3 DEF Met, Past
  <2> QED BY <2>2, <2>4 DEF JoinBroken
<1>2. CASE mode'[n] # "up"
  <2>1. ans'[n].kind = "list" /\ ans[n].kind # "list"
    BY <1>2 DEF Past
  <2>2. PICK k \in Nodes : HandleGetNodeList(k, n)
    BY <2>1, ListOf
  <2>3. k = SeedOf[n]
    BY <2>2, HandleGetNodeListIs
  <2> QED BY <2>2, <2>3
<1> QED BY <1>1, <1>2

(* Of two that have their lists, one is still in the list of the other. *)
LEMMA PairKept ==
    ASSUME IInv, Core, Next, Undisturbed, Homes, AllMet, PairsListed
    PROVE  PairsListed'
<1>1. layout' = layout
  BY LayoutStays
<1> SUFFICES ASSUME NEW m \in Nodes, NEW n \in Nodes, m # n,
                    SeedOf[m] # Nobody, SeedOf[m] = SeedOf[n],
                    Past(m)', Past(n)', mode'[SeedOf[m]] = "up"
             PROVE  m \in Listed(n)' \/ n \in Listed(m)'
  BY <1>1 DEF PairsListed, SeedOf
<1>2. Met(m) /\ Met(n)
  BY DEF AllMet
<1>3. ASSUME NEW i \in Nodes, NEW j \in Nodes, i # j, SeedOf[i] # Nobody, SeedOf[i] = SeedOf[j],
             Past(i), Met(i), HandleGetNodeList(SeedOf[j], j)
      PROVE  i \in Listed(j)'
  <2>1. mode[i] \in {"list", "up"}
    BY <1>3 DEF Past, Core, AskInv
  <2>2. i \in NamesIn(known[SeedOf[j]])
    BY <1>3, <2>1 DEF Met
  <2>3. ans'[j] = [kind |-> "list", table |-> known[SeedOf[j]]] /\ mode'[j] = "list"
    <3>1. ask[j] = "list" /\ mode' = mode
      BY <1>3 DEF HandleGetNodeList
    <3>2. mode[j] = "list"
      BY <3>1 DEF Core, AskInv
    <3>3. ans'[j] = [kind |-> "list", table |-> known[SeedOf[j]]]
      BY <1>3 DEF HandleGetNodeList, Core, TypeOK
    <3> QED BY <3>1, <3>2, <3>3
  <2> QED BY <2>2, <2>3 DEF Listed
<1>4. CASE Past(m) /\ Past(n)
  <2>1. mode[m] \in {"hello", "list", "up"}
    BY <1>4 DEF Past, Core, AskInv
  <2>2. mode[SeedOf[m]] = "up"
    BY <1>2, <2>1, SeedKept
  <2>3. m \in Listed(n) \/ n \in Listed(m)
    BY <1>4, <2>2 DEF PairsListed
  <2>4. Listed(n) \ {n} \subseteq Listed(n)' /\ Listed(m) \ {m} \subseteq Listed(m)'
    BY <1>4, ListedKept
  <2> QED BY <2>3, <2>4
<1>5. CASE ~Past(n) /\ Past(m)
  <2>1. HandleGetNodeList(SeedOf[n], n)
    BY <1>2, <1>5, NewlyPast
  <2> QED BY <1>2, <1>3, <1>5, <2>1
<1>6. CASE ~Past(m) /\ Past(n)
  <2>1. HandleGetNodeList(SeedOf[m], m)
    BY <1>2, <1>6, NewlyPast
  <2> QED BY <1>2, <1>3, <1>6, <2>1
<1>7. CASE ~Past(m) /\ ~Past(n)
  <2>1. HandleGetNodeList(SeedOf[m], m) /\ HandleGetNodeList(SeedOf[n], n)
    BY <1>2, <1>7, NewlyPast
  <2>2. ask[n] = "list" /\ ask' = [ask EXCEPT ![m] = "none"] /\ ask' = [ask EXCEPT ![n] = "none"]
    BY <2>1 DEF HandleGetNodeList
  <2> QED BY <2>2 DEF Core, TypeOK
<1> QED BY <1>4, <1>5, <1>6, <1>7

(* At first nobody has to have met anybody. *)
LEMMA InitMeet == Init => MeetInv
<1> SUFFICES ASSUME Init PROVE MeetInv
  OBVIOUS
<1>1. \A n \in Nodes : mode[n] = "down" /\ ans[n].kind = "none" /\ known[n] = NoTable
  BY AnswerIs DEF Init
<1>2. Homes
  BY <1>1 DEF Homes, Home, NoTable
<1>3. AllMet /\ PairsListed
  BY <1>1 DEF AllMet, Met, PairsListed, Past
<1> QED BY <1>2, <1>3 DEF MeetInv

(* Those who have met stay acquainted. *)
LEMMA MeetInvKept == IInv /\ MeetInv /\ [Next]_vars => MeetInv'
<1> SUFFICES ASSUME IInv, Core, MeetInv, [Next]_vars PROVE MeetInv'
  BY DEF IInv
<1>1. CASE Next
  <2>1. layout' = layout
    BY <1>1, LayoutStays
  <2> SUFFICES ASSUME Undisturbed PROVE Homes' /\ AllMet' /\ PairsListed'
    BY <2>1 DEF MeetInv, Undisturbed
  <2>2. Homes /\ AllMet /\ PairsListed
    BY DEF MeetInv
  <2>3. Homes'
    BY <1>1, <2>2, TablesGrow
  <2>4. AllMet'
    <3> SUFFICES ASSUME NEW n \in Nodes, SeedOf[n] # Nobody PROVE Met(n)'
      BY <2>1 DEF AllMet, SeedOf
    <3>1. Met(n)
      BY <2>2 DEF AllMet
    <3> QED BY <1>1, <2>2, <3>1, MetKept
  <2>5. PairsListed'
    BY <1>1, <2>2, PairKept
  <2> QED BY <2>3, <2>4, <2>5
<1>2. CASE UNCHANGED vars
  BY <1>2 DEF vars, MeetInv, Undisturbed, Homes, Home, AllMet, Met, PairsListed, Past,
       Listed, NamesIn, Entries, Connected, SeedOf
<1> QED BY <1>1, <1>2

(***************************************************************************)
(* Of two nodes that joined through one seed one knows the other, and a    *)
(* node that serves and its seed know each other, if nothing disturbs the  *)
(* network: the seed enters a node before it answers its HELLO, so whoever *)
(* is sent the list later finds it there, and no table loses a name.       *)
(***************************************************************************)
THEOREM JoinersMeet == Spec => []Acquainted
<1> DEFINE MInv == IInv /\ MeetInv
<1>1. Init => MInv
  BY InitIInv, InitMeet
<1>2. MInv /\ [Next]_vars => MInv'
  BY NextIInv, MeetInvKept
<1>3. MInv => Acquainted
  <2> SUFFICES ASSUME MInv, Undisturbed PROVE SiblingsMeet /\ SeedAndJoinerMeet
    BY DEF Acquainted
  <2>1. AllMet /\ PairsListed
    BY DEF MeetInv
  <2>2. SeedAndJoinerMeet
    BY <2>1 DEF AllMet, Met, SeedAndJoinerMeet
  <2>3. SiblingsMeet
    BY <2>1 DEF PairsListed, Past, Listed, SiblingsMeet
  <2> QED BY <2>2, <2>3
<1> HIDE DEF MInv
<1> QED BY <1>1, <1>2, <1>3, PTL DEF Spec

-----------------------------------------------------------------------------
(* Nodes and those above them *)

(* One above a node is its seed or above its seed. *)
LEMMA AboveIs ==
    ASSUME Core, NEW m \in Nodes, NEW n \in Nodes
    PROVE  /\ Over(m, n) => SeedOf[n] \in Nodes /\ (m = SeedOf[n] \/ Over(m, SeedOf[n]))
           /\ SeedOf[n] \in Nodes /\ Above(m, SeedOf[n]) => Above(m, n)
           /\ Above(n, n)
<1>1. ASSUME Over(m, n)
      PROVE  SeedOf[n] \in Nodes
  <2>1. SUFFICES ASSUME SeedOf[n] = Nobody PROVE FALSE
    BY LayoutGives DEF Core
  <2>2. {n} \in SUBSET Nodes /\ n \in {n} /\ m \notin {n}
    BY <1>1 DEF Over
  <2> QED BY <1>1, <2>1, <2>2 DEF Over, Above
<1>2. ASSUME Over(m, n), m # SeedOf[n]
      PROVE  Over(m, SeedOf[n])
  <2> SUFFICES ASSUME NEW T \in SUBSET Nodes, SeedOf[n] \in T,
                      \A k \in T : SeedOf[k] = Nobody \/ SeedOf[k] \in T
               PROVE  m \in T
    BY <1>2 DEF Over, Above
  <2> DEFINE U == T \cup {n}
  <2>1. U \in SUBSET Nodes /\ n \in U /\ \A k \in U : SeedOf[k] = Nobody \/ SeedOf[k] \in U
    OBVIOUS
  <2> HIDE DEF U
  <2>2. m \in U
    BY <1>2, <2>1 DEF Over, Above
  <2> QED BY <1>2, <2>2 DEF Over, U
<1>3. ASSUME SeedOf[n] \in Nodes, Above(m, SeedOf[n])
      PROVE  Above(m, n)
  <2> SUFFICES ASSUME NEW T \in SUBSET Nodes, n \in T,
                      \A k \in T : SeedOf[k] = Nobody \/ SeedOf[k] \in T
               PROVE  m \in T
    BY DEF Above
  <2>1. SeedOf[n] \in T
    BY <1>3, MeshConstants
  <2> QED BY <1>3, <2>1 DEF Above
<1>4. Above(n, n)
  BY DEF Above
<1> QED BY <1>1, <1>2, <1>3, <1>4

(* Who is above whom is a matter of the layout. *)
LEMMA RelativesStay ==
    ASSUME layout' = layout
    PROVE  \A m, n : Over(m, n)' <=> Over(m, n)
BY DEF Over, Above, SeedOf

(* Whoever is above a node that has started is no longer joining. *)
LEMMA Elder ==
    ASSUME Core, SeedsStart, NEW m \in Nodes, NEW n \in Nodes, Over(m, n), Started(n)
    PROVE  mode[m] \in {"up", "dead"}
<1> DEFINE T == {k \in Nodes : mode[k] \in {"up", "dead"}} \cup {n}
<1>1. T \in SUBSET Nodes /\ n \in T
  OBVIOUS
<1>2. ASSUME NEW k \in T
      PROVE  SeedOf[k] = Nobody \/ SeedOf[k] \in T
  <2>1. k \in Nodes /\ Started(k)
    BY DEF Started
  <2>2. SeedOf[k] # Nobody => mode[SeedOf[k]] \in {"up", "dead"} /\ SeedOf[k] \in Nodes
    BY <2>1, LayoutGives DEF SeedsStart, Core
  <2> QED BY <2>2
<1>3. m \in T
  BY <1>1, <1>2 DEF Over, Above
<1> QED BY <1>3 DEF Over

(* Everything there is to know about an undisturbed network before a step. *)
Calm == IInv /\ Core /\ Undisturbed /\ Truth /\ Homes /\ AllMet /\ Branching

(* How a name comes into a table. *)
LEMMA NamesOf ==
    ASSUME Calm, Next, NEW k \in Nodes, NEW n \in Names(k)', n \notin Names(k)
    PROVE  /\ n \in Nodes
           /\ \/ HandleHello(k, n) /\ SeedOf[n] = k /\ mode[k] = "up" /\ mode[n] = "hello"
              \/ \E c \in Pushes(k) : HandlePush(k, c) /\ n = c.what.name /\ mode[k] = "up"
              \/ ListAnswered(k) /\ ans[k].kind = "list" /\ n \in NamesIn(ans[k].table)
              \/ HelloAnswered(k) /\ n = SeedOf[k]
<1>1. PICK e \in Entries(known'[k]) : n = e.name
  BY DEF Names, NamesIn, Entries
<1>2. e \notin Entries(known[k])
  BY <1>1 DEF Names, NamesIn
<1>3. known'[k] \in Table
  BY NextIInv DEF Calm, IInv, Core, TypeOK
<1>4. n \in Nodes
  BY <1>1, <1>3 DEF Entries, Table, Entry
<1>5. ~StartUnreachable(k)
  BY DEF Calm, Undisturbed, StartUnreachable
<1>6. ASSUME NEW h \in Nodes, HandleHello(k, h), e = Newcomer(k, h)
      PROVE  HandleHello(k, n) /\ SeedOf[n] = k /\ mode[k] = "up" /\ mode[n] = "hello"
  <2>1. e.name = h /\ k = SeedOf[h] /\ mode[k] = "up" /\ mode[h] = "hello"
    BY <1>6, HandlingHello DEF Calm
  <2> QED BY <1>1, <1>6, <2>1
<1>7. ASSUME NEW c \in Pushes(k), HandlePush(k, c), e = c.what
      PROVE  HandlePush(k, c) /\ n = c.what.name /\ mode[k] = "up"
  BY <1>1, <1>7 DEF HandlePush, Dispatched
<1>8. e \in Entries(ans[k].table) => n \in NamesIn(ans[k].table)
  BY <1>1 DEF NamesIn
<1> QED BY <1>1, <1>2, <1>4, <1>5, <1>6, <1>7, <1>8, CalmKnownOf DEF Calm

(* What a newcomer's seed pushes to a node: the news, if it knows the node and that serves. *)
LEMMA NewsPushed ==
    ASSUME Calm, Next, Truth', NEW s \in Nodes, NEW n \in Nodes, HandleHello(s, n), NEW k \in Nodes,
           NEW p, p = [kind |-> "push", from |-> s, what |-> Newcomer(s, n)]
    PROVE  /\ p \in Conn
           /\ \/ queue'[k] = queue[k] /\ ~(k \in Names(s)' /\ mode[k] = "up")
              \/ queue'[k] = Append(queue[k], p) /\ k \in Names(s)' /\ mode[k] = "up"
<1> DEFINE e == Newcomer(s, n)
           t == Learned(known[s], n, e.addr)
           to == {x \in Entries(t) : ListensAt(k, x.addr)}
           r == [j \in 1 .. Cardinality(to) |-> p]
           x0 == [name |-> k, addr |-> AddrOf(k)]
<1>1. known' = [known EXCEPT ![s] = t] /\ queue' = [j \in Nodes |-> Pushed(s, t, e, j)]
  BY DEF HandleHello, Introduced, Announcing
<1>2. known'[s] = t /\ queue'[k] = queue[k] \o r
  BY <1>1 DEF Pushed, Calm, Core, TypeOK
<1>3. p \in Conn
  BY HandlingHello, ConnIs DEF Calm
<1>4. layout' = layout
  BY LayoutStays DEF Calm
<1>5. Entries(t) = Entries(known'[s]) /\ known'[s] \in Table
  BY <1>2, NextIInv DEF Calm, IInv, Core, TypeOK
<1> HIDE DEF t
<1>6. \A x \in Entries(t) : x \in Entry /\ x.addr = AddrOf(x.name)
  <2> SUFFICES ASSUME NEW x \in Entries(known'[s])
               PROVE  x \in Entry /\ x.addr = AddrOf(x.name)
    BY <1>5
  <2>1. x \in Entry
    BY <1>5 DEF Entries, Table
  <2>2. IsTrue(x)'
    BY DEF Truth, Entries
  <2> QED BY <1>4, <2>1, <2>2 DEF IsTrue, AddrOf, Host, Port
<1>7. \A x \in to : x = x0 /\ mode[k] = "up"
  <2> SUFFICES ASSUME NEW x \in to
               PROVE  x = x0 /\ mode[k] = "up"
    OBVIOUS
  <2>1. x \in Entry /\ x.addr = AddrOf(x.name) /\ x.addr = AddrOf(k) /\ mode[k] = "up"
    BY <1>6 DEF ListensAt
  <2>2. x = [name |-> x.name, addr |-> x.addr] /\ x.name \in Nodes
    BY <2>1 DEF Entry
  <2>3. Host[x.name] = Host[k] /\ Port[x.name] = Port[k]
    BY <2>1 DEF AddrOf
  <2>4. x.name = k
    BY <2>2, <2>3, LayoutGives DEF Calm, Core
  <2> QED BY <2>1, <2>2, <2>4
<1>8. k \in Names(s)' /\ mode[k] = "up" => x0 \in to
  <2> SUFFICES ASSUME k \in Names(s)', mode[k] = "up"
               PROVE  x0 \in to
    OBVIOUS
  <2>1. PICK x \in Entries(t) : x.name = k
    BY <1>5 DEF Names, NamesIn, Entries
  <2>2. x \in Entry /\ x.addr = AddrOf(k)
    BY <1>6, <2>1
  <2>3. x = x0
    BY <2>1, <2>2 DEF Entry
  <2> QED BY <2>1, <2>2, <2>3 DEF ListensAt
<1>9. x0 \in to => k \in Names(s)'
  <2> SUFFICES ASSUME x0 \in to
               PROVE  k \in Names(s)'
    OBVIOUS
  <2>1. x0 \in Entries(known'[s]) /\ x0.name = k
    BY <1>5
  <2> QED BY <2>1 DEF Names, NamesIn, Entries
<1>10. queue[k] \in Seq(Conn)
  BY DEF Calm, Core, TypeOK
<1> HIDE DEF to, x0
<1>11. CASE x0 \in to
  <2>1. to = {x0}
    BY <1>7, <1>11
  <2>2. Cardinality(to) = 1
    BY <2>1, FS_Singleton
  <2>3. r = <<p>>
    BY <2>2
  <2>4. queue[k] \o <<p>> = Append(queue[k], p)
    BY <1>3, <1>10
  <2> QED BY <1>2, <1>3, <1>7, <1>9, <1>11, <2>3, <2>4
<1>12. CASE x0 \notin to
  <2>1. to = {}
    BY <1>7, <1>12
  <2>2. Cardinality(to) = 0
    BY <2>1, FS_EmptySet
  <2>3. r = <<>>
    BY <2>2
  <2>4. queue[k] \o <<>> = queue[k]
    BY <1>10, ConcatEmptySeq
  <2> QED BY <1>2, <1>3, <1>8, <1>12, <2>3, <2>4
<1> QED BY <1>11, <1>12

(* A node that has started stays so, and one that no longer joins does not come back. *)
LEMMA StartedStays ==
    ASSUME Calm, Next, NEW n \in Nodes
    PROVE  /\ Started(n) => Started(n)'
           /\ mode[n] \in {"up", "dead"} => mode'[n] \in {"up", "dead"}
           /\ mode[n] \in {"up", "dead"} /\ mode'[n] = "up" => mode[n] = "up"
<1>1. ~Restart(n)
  BY DEF Calm, Core, TypeOK, Undisturbed, Restart
<1>2. mode \in [Nodes -> {"down", "hello", "list", "up", "dead", "wild"}]
  BY DEF Calm, Core, TypeOK
<1>3. ASSUME mode'[n] = "down", mode[n] # "down"
      PROVE  FALSE
  <2>1. ASSUME \/ StartAlone(n) \/ StartByGarbage(n) \/ StartUnreachable(n) \/ StartJoin(n)
        PROVE  FALSE
    BY <1>3, <2>1 DEF StartAlone, StartByGarbage, StartUnreachable, StartJoin
  <2>2. ~HelloAnswered(n) /\ ~ListAnswered(n) /\ ~JoinBroken(n)
    BY <1>2, <1>3 DEF HelloAnswered, ListAnswered, JoinBroken, AnyLength
  <2>3. ~Ending(n)
    BY <1>3, EndingIs DEF Calm
  <2> QED BY <1>1, <1>3, <2>1, <2>2, <2>3, ModeOf DEF Calm
<1> QED BY <1>3, CalmModes DEF Calm, Started

(* A seed has started before those that join through it. *)
LEMMA SeedsStartKept == ASSUME Calm, Next PROVE SeedsStart'
<1> SUFFICES ASSUME NEW n \in Nodes, Started(n)', SeedOf[n] # Nobody
             PROVE  mode'[SeedOf[n]] \in {"up", "dead"}
  BY LayoutStays DEF SeedsStart, SeedOf, Calm
<1>1. SeedOf[n] \in Nodes
  BY LayoutGives DEF Calm, Core
<1>2. mode[SeedOf[n]] \in {"up", "dead"}
  <2>1. CASE Started(n)
    BY <2>1 DEF Calm, Branching, SeedsStart
  <2>2. CASE ~Started(n)
    <3>1. mode[n] = "down" /\ mode'[n] # mode[n]
      BY <2>2 DEF Started
    <3>2. StartJoin(n)
      <4>1. ~StartAlone(n) /\ ~StartByGarbage(n)
        BY DEF StartAlone, StartByGarbage
      <4>2. ~StartUnreachable(n)
        BY DEF Calm, Undisturbed, StartUnreachable
      <4>3. ~HelloAnswered(n) /\ ~ListAnswered(n) /\ ~JoinBroken(n) /\ ~Restart(n)
        BY <3>1 DEF HelloAnswered, ListAnswered, JoinBroken, Restart
      <4>4. ~Ending(n)
        BY <3>1, EndingIs DEF Calm
      <4> QED BY <3>1, <4>1, <4>2, <4>3, <4>4, ModeOf DEF Calm
    <3> QED BY <3>2 DEF StartJoin
  <2> QED BY <2>1, <2>2
<1> QED BY <1>1, <1>2, StartedStays

(* Tables and lists name nodes that have started. *)
LEMMA NamesStartKept == ASSUME Calm, Next PROVE NamesStart'
<1>1. ASSUME NEW k \in Nodes, NEW n \in Names(k)'
      PROVE  Started(n)'
  <2>1. known[k] \in Table
    BY DEF Calm, Core, TypeOK
  <2>2. n \in Nodes /\ Started(n)
    <3>1. CASE n \in Names(k)
      BY <2>1, <3>1 DEF Names, NamesIn, Entries, Table, Entry, Calm, Branching, NamesStart
    <3>2. CASE n \notin Names(k)
      <4>1. CASE mode[n] = "hello"
        BY <3>2, <4>1, NamesOf DEF Started
      <4>2. ASSUME NEW c \in Pushes(k), n = c.what.name
            PROVE  Started(n)
        BY <4>2 DEF Calm, Branching, PushesRight
      <4>3. ASSUME ans[k].kind = "list", n \in NamesIn(ans[k].table)
            PROVE  Started(n)
        BY <4>3 DEF Calm, Branching, NamesStart
      <4>4. ASSUME HelloAnswered(k), n = SeedOf[k], n \in Nodes
            PROVE  Started(n)
        <5>1. Started(k) /\ SeedOf[k] # Nobody
          BY <4>4, MeshConstants DEF HelloAnswered, Started
        <5> QED BY <4>4, <5>1 DEF Calm, Branching, SeedsStart, Started
      <4> QED BY <3>2, <4>1, <4>2, <4>3, <4>4, NamesOf
    <3> QED BY <3>1, <3>2
  <2> QED BY <2>2, StartedStays
<1>2. ASSUME NEW k \in Nodes, ans'[k].kind = "list", NEW n \in NamesIn(ans'[k].table)
      PROVE  Started(n)'
  <2>1. n \in Nodes
    <3>1. ans'[k].table \in Table
      BY <1>2, NextIInv, AnswerIs DEF Calm, IInv, Core, TypeOK
    <3> QED BY <3>1 DEF NamesIn, Entries, Table, Entry
  <2>2. Started(n)
    <3>1. CASE ans'[k] = ans[k]
      BY <1>2, <3>1 DEF Calm, Branching, NamesStart
    <3>2. CASE \E s \in Nodes : ans'[k].table = known[s]
      BY <1>2, <3>2 DEF Calm, Branching, NamesStart, Names
    <3> QED BY <1>2, <3>1, <3>2, ListOf DEF Calm
  <2> QED BY <2>1, <2>2, StartedStays
<1> QED BY <1>1, <1>2 DEF NamesStart, Names, NamesIn, Entries

(* A node that serves no longer hears of one above it. *)
LEMMA NoLateNews ==
    ASSUME Calm, Next, NEW m \in Nodes, NEW k \in Nodes, Over(m, k), mode[k] \in {"up", "dead"},
           m \in Names(k)'
    PROVE  m \in Names(k)
<1> SUFFICES ASSUME m \notin Names(k)
             PROVE  FALSE
  OBVIOUS
<1>1. mode[m] # "hello"
  BY Elder DEF Calm, Branching, Started
<1>2. ~ListAnswered(k) /\ ~HelloAnswered(k)
  BY DEF ListAnswered, HelloAnswered
<1>3. ASSUME NEW c \in Pushes(k), m = c.what.name
      PROVE  FALSE
  BY <1>3 DEF Calm, Branching, PushesRight, Over
<1> QED BY <1>1, <1>2, <1>3, NamesOf

(* A seed enters a node that joined through it at its HELLO. *)
LEMMA OnlyHello ==
    ASSUME Calm, Next, NEW m \in Nodes, NEW s \in Nodes, s = SeedOf[m], m \in Names(s)',
           m \notin Names(s)
    PROVE  HandleHello(s, m)
<1>1. ASSUME NEW c \in Pushes(s), m = c.what.name
      PROVE  FALSE
  <2>1. s \in Names(s)
    BY <1>1 DEF Calm, Branching, PushesRight
  <2> QED BY <2>1 DEF Calm, Undisturbed, Core, NoSelf, Names
<1>2. s # Nobody
  BY MeshConstants
<1>3. ASSUME Started(m)
      PROVE  ~ListAnswered(s) /\ ~HelloAnswered(s)
  <2>1. mode[s] \in {"up", "dead"}
    BY <1>2, <1>3 DEF Calm, Branching, SeedsStart
  <2> QED BY <2>1 DEF ListAnswered, HelloAnswered
<1>4. ASSUME ans[s].kind = "list", m \in NamesIn(ans[s].table)
      PROVE  Started(m)
  BY <1>4 DEF Calm, Branching, NamesStart
<1>5. ASSUME HelloAnswered(s), m = SeedOf[s]
      PROVE  Started(m)
  <2>1. Started(s) /\ SeedOf[s] # Nobody
    BY <1>5, MeshConstants DEF HelloAnswered, Started
  <2> QED BY <1>5, <2>1 DEF Calm, Branching, SeedsStart, Started
<1> QED BY <1>1, <1>3, <1>4, <1>5, NamesOf

(* Names stay in the tables. *)
LEMMA NamesGrow ==
    ASSUME Calm, Next, NEW k \in Nodes
    PROVE  Names(k) \subseteq Names(k)'
BY TablesGrow DEF Calm, Names, NamesIn, Entries

(* A push that is new tells of a node that says HELLO to its sender. *)
LEMMA NewPush ==
    ASSUME Calm, Next, Truth', NEW k \in Nodes, NEW c \in Pushes(k)', c \notin Pushes(k)
    PROVE  \E s, n \in Nodes :
              /\ HandleHello(s, n) /\ s = SeedOf[n] /\ mode[n] = "hello" /\ mode[s] = "up"
              /\ ask[n] = "hello" /\ ask'[n] = "none"
              /\ c = [kind |-> "push", from |-> s, what |-> Newcomer(s, n)] /\ c.what.name = n
              /\ queue'[k] = Append(queue[k], c) /\ k \in Names(s)' /\ mode[k] = "up"
<1>1. PICK s \in Nodes, n \in Nodes :
         /\ HandleHello(s, n) /\ c \in ToSet(queue'[k])
         /\ c = [kind |-> "push", from |-> s, what |-> Newcomer(s, n)]
  BY CalmPushesOf DEF Calm
<1>2. /\ s = SeedOf[n] /\ mode[n] = "hello" /\ mode[s] = "up" /\ ask[n] = "hello"
      /\ Newcomer(s, n).name = n
  BY <1>1, HandlingHello DEF Calm
<1>3. ask'[n] = "none"
  BY <1>1 DEF HandleHello, Calm, Core, TypeOK
<1>4. c \notin ToSet(queue[k])
  BY <1>1 DEF Pushes, Carried
<1>5. queue'[k] = Append(queue[k], c) /\ k \in Names(s)' /\ mode[k] = "up"
  BY <1>1, <1>4, NewsPushed
<1> QED BY <1>1, <1>2, <1>3, <1>5

(* A node has said HELLO once and for all. *)
LEMMA AskOf ==
    ASSUME IInv, Core, Next, Undisturbed, NEW n \in Nodes, ask'[n] = "hello", ask[n] # "hello"
    PROVE  StartJoin(n)
<1>0. ask \in [Nodes -> {"none", "hello", "list"}]
  BY DEF Core, TypeOK
<1>1. ASSUME NEW k \in Nodes, StartJoin(k)
      PROVE  k = n
  BY <1>0, <1>1 DEF StartJoin
<1>2. ASSUME NEW k \in Nodes, StartAlone(k) \/ StartByGarbage(k) \/ StartUnreachable(k) \/ Restart(k)
      PROVE  FALSE
  BY <1>2 DEF StartAlone, StartByGarbage, StartUnreachable, Restart
<1>3. ASSUME NEW k \in Nodes, HelloAnswered(k) \/ ListAnswered(k) \/ JoinBroken(k)
      PROVE  FALSE
  BY <1>0, <1>3 DEF HelloAnswered, ListAnswered, JoinBroken
<1>4. ASSUME NEW s \in Nodes, Poll(s) \/ Accept(s) \/ Ending(s)
      PROVE  FALSE
  BY <1>4, EndingIs DEF Poll, Accept
<1>5. ASSUME NEW s \in Nodes, NEW k \in Nodes, HandleHello(s, k) \/ HandleGetNodeList(s, k)
      PROVE  FALSE
  BY <1>0, <1>5 DEF HandleHello, HandleGetNodeList
<1>6. ASSUME NEW s \in Nodes, NEW c, HandlePush(s, c)
      PROVE  FALSE
  BY <1>6 DEF HandlePush
<1> QED BY <1>1, <1>2, <1>3, <1>4, <1>5, <1>6, CalmStep DEF Aside

(* Pushes are of newcomers, from their seeds, to those that the seed knows. *)
LEMMA PushesRightKept == ASSUME Calm, Next, Truth' PROVE PushesRight'
<1>1. layout' = layout
  BY LayoutStays DEF Calm
<1> SUFFICES ASSUME NEW k \in Nodes, NEW c \in Pushes(k)'
             PROVE  /\ SeedOf[c.what.name] = c.from /\ k \in Names(c.from)'
                    /\ Started(c.what.name)' /\ ask'[c.what.name] # "hello" /\ ~Above(c.what.name, k)
  BY <1>1 DEF PushesRight, SeedOf, Above
<1>2. c \in Conn /\ c.kind = "push"
  <2>1. c \in (Conn \cup {TheAccept}) /\ c.kind = "push"
    <3>1. TypeOK'
      BY NextIInv DEF Calm, IInv, Core
    <3>2. /\ ToSet(queue'[k]) \subseteq Conn /\ ToSet(held'[k]) \subseteq Conn
          /\ ToSet(turn'[k]) \subseteq Conn \cup {TheAccept}
      <4>1. queue'[k] \in Seq(Conn) /\ held'[k] \in Seq(Conn) /\ turn'[k] \in Seq(Conn \cup {TheAccept})
        BY <3>1 DEF TypeOK
      <4>2. ToSet(queue'[k]) \subseteq Conn /\ ToSet(held'[k]) \subseteq Conn
        BY <4>1, ToSetIs
      <4>3. ToSet(turn'[k]) \subseteq Conn \cup {TheAccept}
        BY <4>1, ToSetIs
      <4> QED BY <4>2, <4>3
    <3> QED BY <3>2 DEF Pushes, Carried
  <2> QED BY <2>1, ConnIs
<1>3. c.from \in Nodes /\ c.what.name \in Nodes
  BY <1>2, ConnIs DEF Entry
<1>4. CASE c \in Pushes(k)
  <2>1. /\ SeedOf[c.what.name] = c.from /\ k \in Names(c.from)
        /\ Started(c.what.name) /\ ask[c.what.name] # "hello" /\ ~Above(c.what.name, k)
    BY <1>4 DEF Calm, Branching, PushesRight
  <2>2. ask'[c.what.name] # "hello"
    <3>1. SUFFICES ASSUME ask'[c.what.name] = "hello" PROVE FALSE
      OBVIOUS
    <3>2. StartJoin(c.what.name)
      BY <1>3, <2>1, <3>1, AskOf DEF Calm
    <3> QED BY <2>1, <3>2 DEF StartJoin, Started
  <2> QED BY <1>3, <2>1, <2>2, NamesGrow, StartedStays
<1>5. CASE c \notin Pushes(k)
  <2>1. PICK s \in Nodes, n \in Nodes :
           /\ s = SeedOf[n] /\ mode[n] = "hello" /\ ask'[n] = "none"
           /\ c.from = s /\ c.what.name = n
           /\ k \in Names(s)' /\ mode[k] = "up"
    BY <1>5, NewPush
  <2>2. Started(n)'
    BY <2>1, StartedStays DEF Started
  <2>3. ~Above(n, k)
    BY <2>1, Elder DEF Over, Started, Calm, Branching
  <2> QED BY <2>1, <2>2, <2>3
<1> QED BY <1>4, <1>5

-----------------------------------------------------------------------------
(* What relatives know of each other *)

(* The list comes from the seed. *)
LEMMA ListFromSeed ==
    ASSUME Calm, NEW s \in Nodes, NEW n \in Nodes, HandleGetNodeList(s, n)
    PROVE  s = SeedOf[n]
<1>1. Core
  BY DEF Calm
<1> QED BY <1>1, HandleGetNodeListIs, Zenon

(* Whom a node knows above it its seed knew. *)
LEMMA InheritedKept == ASSUME Calm, Next PROVE Inherited'
<1>1. layout' = layout
  BY LayoutStays DEF Calm
<1>2. \A m, n : Over(m, n)' <=> Over(m, n)
  BY <1>1, RelativesStay
<1> SUFFICES ASSUME NEW m \in Nodes, NEW k \in Nodes, NEW s \in Nodes, s = SeedOf[m],
                    Over(k, m), k # s,
                    k \in Names(m)' \/ (ans'[m].kind = "list" /\ k \in NamesIn(ans'[m].table))
             PROVE  k \in Names(s)'
  <2>1. \A m, k \in Nodes : Over(k, m) => SeedOf[m] \in Nodes
    BY AboveIs DEF Calm
  <2> QED BY <1>1, <1>2, <2>1 DEF Inherited, SeedOf, NamesIn, Entries
<1>4. CASE k \in Names(s)
  BY <1>4, NamesGrow
<1>5. CASE k \in Names(m)' /\ k \notin Names(s)
  <2>1. k \notin Names(m)
    BY <1>5 DEF Calm, Branching, Inherited
  <2>2. ~(mode[k] = "hello" /\ mode[m] = "up")
    BY Elder DEF Calm, Branching, Started
  <2>3. ASSUME NEW c \in Pushes(m), k = c.what.name
        PROVE  FALSE
    BY <2>3 DEF Calm, Branching, PushesRight, Over
  <2>4. ~(ans[m].kind = "list" /\ k \in NamesIn(ans[m].table))
    BY <1>5 DEF Calm, Branching, Inherited
  <2> QED BY <1>5, <2>1, <2>2, <2>3, <2>4, NamesOf
<1>6. CASE ans'[m].kind = "list" /\ k \in NamesIn(ans'[m].table)
  <2>1. CASE ans'[m] = ans[m]
    BY <1>4, <1>6, <2>1 DEF Calm, Branching, Inherited
  <2>2. ASSUME NEW j \in Nodes, HandleGetNodeList(j, m), ans'[m].table = known[j]
        PROVE  k \in Names(s)
    <3>1. j = s
      BY <2>2, ListFromSeed
    <3> QED BY <1>6, <2>2, <3>1 DEF Names
  <2> QED BY <1>4, <1>6, <2>1, <2>2, ListOf DEF Calm
<1> QED BY <1>4, <1>5, <1>6

(* Who is above a node and knows it, its seed knew. *)
LEMMA ReturnedKept == ASSUME Calm, Next PROVE Returned'
<1>1. layout' = layout
  BY LayoutStays DEF Calm
<1>2. \A m, n : Over(m, n)' <=> Over(m, n)
  BY <1>1, RelativesStay
<1> SUFFICES ASSUME NEW m \in Nodes, NEW k \in Nodes, NEW s \in Nodes, s = SeedOf[k],
                    Over(m, k), m # s, k \in Names(m)'
             PROVE  m \in Names(s)'
  <2>1. \A m, k \in Nodes : Over(m, k) => SeedOf[k] \in Nodes
    BY AboveIs DEF Calm
  <2> QED BY <1>1, <1>2, <2>1 DEF Returned, SeedOf, Names, NamesIn, Entries
<1>4. CASE m \in Names(s)
  BY <1>4, NamesGrow
<1>5. CASE m \notin Names(s)
  <2>1. k \notin Names(m)
    BY <1>5 DEF Calm, Branching, Returned
  <2>2. ASSUME NEW c \in Pushes(m), k = c.what.name
        PROVE  FALSE
    BY <1>5, <2>2 DEF Calm, Branching, PushesRight
  <2>3. Started(k) => ~ListAnswered(m) /\ ~HelloAnswered(m)
    BY Elder DEF Calm, Branching, ListAnswered, HelloAnswered
  <2>4. ans[m].kind = "list" /\ k \in NamesIn(ans[m].table) => Started(k)
    BY DEF Calm, Branching, NamesStart
  <2>5. HelloAnswered(m) /\ k = SeedOf[m] => Started(k)
    <3>1. HelloAnswered(m) /\ k = SeedOf[m] => Started(m) /\ SeedOf[m] # Nobody
      BY MeshConstants DEF HelloAnswered, Started
    <3> QED BY <3>1 DEF Calm, Branching, SeedsStart, Started
  <2>6. SeedOf[k] # m
    OBVIOUS
  <2> QED BY <2>1, <2>2, <2>3, <2>4, <2>5, <2>6, NamesOf
<1> QED BY <1>4, <1>5

(* Whom its seed knows above a node it has from the list. *)
LEMMA HandedKept == ASSUME Calm, Next PROVE Handed'
<1>1. layout' = layout
  BY LayoutStays DEF Calm
<1>2. \A m, n : Over(m, n)' <=> Over(m, n)
  BY <1>1, RelativesStay
<1> SUFFICES ASSUME NEW m \in Nodes, NEW k \in Nodes, NEW s \in Nodes, s = SeedOf[k],
                    Over(m, k), m # s, m \in Names(s)', mode'[s] = "up",
                    mode'[k] = "up" \/ ans'[k].kind = "list"
             PROVE  /\ mode'[k] = "up" => m \in Names(k)'
                    /\ ans'[k].kind = "list" => m \in NamesIn(ans'[k].table)
  <2>1. \A m, k \in Nodes : Over(m, k) => SeedOf[k] \in Nodes
    BY AboveIs DEF Calm
  <2> QED BY <1>1, <1>2, <2>1 DEF Handed, SeedOf, NamesIn, Entries
<1>3. ~StartAlone(k) /\ SeedOf[k] # Nobody
  BY MeshConstants DEF StartAlone
<1>4. mode'[k] \in {"up", "list"}
  BY NextIInv DEF Calm, IInv, Core, AskInv
<1>5. Started(k)
  <2>1. SUFFICES ASSUME mode[k] = "down" PROVE FALSE
    BY DEF Started
  <2>2. ~ListAnswered(k) /\ ~JoinBroken(k) /\ ~HelloAnswered(k)
    BY <2>1 DEF ListAnswered, JoinBroken, HelloAnswered
  <2> QED BY <1>3, <1>4, <2>1, <2>2, CalmModes DEF Calm
<1>6. mode[s] = "up"
  <2>1. mode[s] \in {"up", "dead"}
    BY <1>3, <1>5 DEF Calm, Branching, SeedsStart
  <2> QED BY <2>1, StartedStays
<1>7. m \in Names(s)
  <2>1. Over(m, s)
    BY AboveIs DEF Calm
  <2> QED BY <1>6, <2>1, NoLateNews
<1>8. ASSUME mode'[k] = "up"
      PROVE  m \in Names(k)'
  <2>1. CASE mode[k] = "up"
    <3>1. m \in Names(k)
      BY <1>6, <1>7, <2>1 DEF Calm, Branching, Handed
    <3> QED BY <3>1, NamesGrow
  <2>2. CASE ListAnswered(k)
    <3>1. ans[k].kind = "list" /\ known'[k] = OthersOf(k, ans[k].table, known[k])
      BY <2>2 DEF ListAnswered, Calm, Core, TypeOK
    <3>2. m \in NamesIn(ans[k].table)
      BY <1>6, <1>7, <3>1 DEF Calm, Branching, Handed
    <3>3. /\ known[k] \in Table /\ ans[k].table \in Table
          /\ Home(known[k]) /\ Home(ans[k].table)
          /\ \A i, j \in Nodes : Hash[i] = Hash[j] => i = j
      BY <3>1, NodeTypes, AnswerIs DEF Calm, Core, Homes, Undisturbed
    <3>4. m \in NamesIn(known'[k])
      BY <3>1, <3>2, <3>3, OthersAre DEF Over
    <3> QED BY <3>4 DEF Names, NamesIn, Entries
  <2>3. ~(JoinBroken(k) /\ mode[k] = "list")
    <3>1. SUFFICES ASSUME JoinBroken(k), mode[k] = "list" PROVE FALSE
      OBVIOUS
    <3>2. ans[k].kind # "list" /\ ~Connected(k)
      BY <3>1, AnswerIs DEF JoinBroken
    <3>3. Met(k)
      BY <1>3 DEF Calm, AllMet
    <3> QED BY <1>6, <3>1, <3>2, <3>3 DEF Met
  <2> QED BY <1>3, <1>8, <2>1, <2>2, <2>3, CalmModes DEF Calm
<1>9. ASSUME ans'[k].kind = "list"
      PROVE  m \in NamesIn(ans'[k].table)
  <2>1. CASE ans'[k] = ans[k]
    BY <1>6, <1>7, <1>9, <2>1 DEF Calm, Branching, Handed
  <2>2. ASSUME NEW j \in Nodes, HandleGetNodeList(j, k), ans'[k].table = known[j]
        PROVE  m \in NamesIn(ans'[k].table)
    <3>1. j = s
      BY <2>2, ListFromSeed
    <3> QED BY <1>7, <2>2, <3>1 DEF Names
  <2> QED BY <1>9, <2>1, <2>2, ListOf DEF Calm
<1> QED BY <1>8, <1>9

-----------------------------------------------------------------------------
(* The order of the connections to a node *)

\* What a step may do to the connections to a node: it leaves them alone,
Rests(k) == queue'[k] = queue[k] /\ held'[k] = held[k] /\ turn'[k] = turn[k]

\* one is made, not the same push twice,
Comes(k, x) ==
    /\ x \in Conn /\ (x.kind = "push" => x \notin Carried(k))
    /\ queue'[k] = Append(queue[k], x) /\ held'[k] = held[k] /\ turn'[k] = turn[k]

\* those to be served are reported,
Reported(k) ==
    /\ queue'[k] = queue[k] /\ held'[k] = held[k]
    /\ \E A \in Seq(Conn \cup {TheAccept}) :
          ToSet(A) \subseteq {TheAccept} /\ turn'[k] = A \o Ready(k)

\* the first that waits is accepted,
Accepted(k) ==
    /\ turn[k] # <<>> /\ Head(turn[k]) = TheAccept /\ turn'[k] = Tail(turn[k])
    /\ queue[k] # <<>> /\ queue'[k] = Tail(queue[k])
    /\ held'[k] = Append(held[k], Head(queue[k]))

\* a request is served on a connection that stays,
Answered(k) ==
    /\ queue'[k] = queue[k] /\ held'[k] = held[k]
    /\ turn[k] # <<>> /\ Head(turn[k]) \in Conn /\ Head(turn[k]).kind = "join"
    /\ turn'[k] = Tail(turn[k])

\* or on one that is closed,
Served(k, x) ==
    /\ queue'[k] = queue[k] /\ held'[k] = RemoveFirst(held[k], x)
    /\ turn[k] # <<>> /\ Head(turn[k]) = x /\ turn'[k] = Tail(turn[k])
    /\ x \in Conn /\ (x.kind = "push" => x.what.name \in Names(k)')

\* or all are lost.
Lost(k) == queue'[k] = <<>> /\ held'[k] = <<>> /\ turn'[k] = <<>> /\ mode'[k] = "dead"

(* Every step does one of these. *)
LEMMA LineSteps ==
    ASSUME Calm, Next, Truth', NEW k \in Nodes
    PROVE  \/ Rests(k) \/ Reported(k) \/ Accepted(k) \/ Answered(k) \/ Lost(k)
           \/ \E x : Comes(k, x) \/ Served(k, x)
<1>1. /\ queue \in [Nodes -> Seq(Conn)] /\ held \in [Nodes -> Seq(Conn)]
      /\ turn \in [Nodes -> Seq(Conn \cup {TheAccept})]
  BY DEF Calm, Core, TypeOK
<1>2. CASE UNCHANGED <<queue, held, turn>>
  BY <1>2 DEF Rests
<1>3. ASSUME NEW n \in Nodes, StartJoin(n)
      PROVE  Rests(k) \/ Comes(k, JoinOf(n))
  <2>1. queue' = [queue EXCEPT ![SeedOf[n]] = Append(@, JoinOf(n))] /\ held' = held /\ turn' = turn
    BY <1>3 DEF StartJoin
  <2>2. JoinOf(n) \in Conn /\ JoinOf(n).kind = "join"
    BY ConnIs
  <2>3. CASE k = SeedOf[n]
    <3>1. queue'[k] = Append(queue[k], JoinOf(n))
      BY <1>1, <2>1, <2>3
    <3> QED BY <2>1, <2>2, <3>1 DEF Comes
  <2>4. CASE k # SeedOf[n]
    <3>1. queue'[k] = queue[k]
      BY <1>1, <2>1, <2>4
    <3> QED BY <2>1, <3>1 DEF Rests
  <2> QED BY <2>3, <2>4
<1>4. ASSUME NEW s \in Nodes, Poll(s)
      PROVE  Rests(k) \/ Reported(k)
  <2> DEFINE A == IF queue[s] # <<>> THEN <<TheAccept>> ELSE <<>>
  <2>1. turn' = [turn EXCEPT ![s] = A \o Ready(s)] /\ queue' = queue /\ held' = held
    BY <1>4 DEF Poll
  <2>2. A \in Seq(Conn \cup {TheAccept}) /\ ToSet(A) \subseteq {TheAccept}
    <3>1. /\ <<TheAccept>> \in Seq(Conn \cup {TheAccept}) /\ Len(<<TheAccept>>) = 1
          /\ <<TheAccept>>[1] = TheAccept
      OBVIOUS
    <3>2. ToSet(<<TheAccept>>) = {<<TheAccept>>[i] : i \in 1 .. Len(<<TheAccept>>)}
      BY <3>1, ToSetIs
    <3>3. ToSet(<<TheAccept>>) \subseteq {TheAccept}
      BY <3>1, <3>2
    <3> QED BY <3>1, <3>3, EmptyIs
  <2> HIDE DEF A
  <2>3. CASE k = s
    <3>1. turn'[k] = A \o Ready(k)
      BY <1>1, <2>1, <2>3
    <3> QED BY <2>1, <2>2, <3>1 DEF Reported
  <2>4. CASE k # s
    <3>1. turn'[k] = turn[k]
      BY <1>1, <2>1, <2>4
    <3> QED BY <2>1, <3>1 DEF Rests
  <2> QED BY <2>3, <2>4
<1>5. ASSUME NEW s \in Nodes, Accept(s)
      PROVE  Rests(k) \/ Accepted(k)
  <2>1. /\ Dispatched(s, TheAccept)
        /\ held' = [held EXCEPT ![s] = Append(held[s], Head(queue[s]))]
        /\ queue' = [queue EXCEPT ![s] = Tail(queue[s])]
    BY <1>5 DEF Accept
  <2>2. queue[s] # <<>>
    BY <2>1, Dispatching DEF Calm
  <2>3. /\ turn[s] # <<>> /\ Head(turn[s]) = TheAccept
        /\ turn' = [turn EXCEPT ![s] = Tail(turn[s])]
    BY <2>1 DEF Dispatched
  <2>4. CASE k = s
    BY <1>1, <2>1, <2>2, <2>3, <2>4 DEF Accepted
  <2>5. CASE k # s
    BY <1>1, <2>1, <2>3, <2>5 DEF Rests
  <2> QED BY <2>4, <2>5
<1>6. ASSUME NEW s \in Nodes, Ending(s)
      PROVE  Rests(k) \/ Lost(k)
  BY <1>6, EndingIs DEF Calm, Rests, Lost
<1>7. ASSUME NEW s \in Nodes, NEW n \in Nodes, HandleHello(s, n)
      PROVE  Rests(k) \/ Answered(k) \/ \E x : Comes(k, x)
  <2> DEFINE p == [kind |-> "push", from |-> s, what |-> Newcomer(s, n)]
  <2>1. /\ p \in Conn
        /\ \/ queue'[k] = queue[k]
           \/ queue'[k] = Append(queue[k], p) /\ k \in Names(s)'
    BY <1>7, NewsPushed
  <2>2. /\ held' = held
        /\ turn[s] # <<>> /\ Head(turn[s]) = JoinOf(n)
        /\ turn' = [turn EXCEPT ![s] = Tail(turn[s])]
    BY <1>7 DEF HandleHello, Dispatched
  <2>3. p \notin Carried(k)
    <3>1. ask[n] = "hello" /\ p.what.name = n /\ p.kind = "push"
      BY <1>7, HandlingHello DEF Calm
    <3> QED BY <3>1 DEF Calm, Branching, PushesRight, Pushes
  <2>4. CASE k = s
    <3>1. k \notin Names(s)'
      <4>1. layout' = layout
        BY LayoutStays DEF Calm
      <4>2. NoSelf'
        BY <4>1, NextIInv DEF Calm, IInv, Core, Undisturbed
      <4> QED BY <2>4, <4>2 DEF NoSelf, Names, NamesIn, Entries
    <3>2. queue'[k] = queue[k] /\ turn'[k] = Tail(turn[k])
      BY <1>1, <2>1, <2>2, <2>4, <3>1
    <3> QED BY <2>2, <2>4, <3>2, ConnIs DEF Answered
  <2>5. CASE k # s
    <3>1. turn'[k] = turn[k]
      BY <1>1, <2>2, <2>5
    <3>2. queue'[k] = queue[k] => Rests(k)
      BY <2>2, <3>1 DEF Rests
    <3> HIDE DEF p
    <3>3. queue'[k] = Append(queue[k], p) => Comes(k, p)
      BY <2>1, <2>2, <2>3, <3>1 DEF Comes
    <3> QED BY <2>1, <3>2, <3>3
  <2> QED BY <2>4, <2>5
<1>8. ASSUME NEW s \in Nodes, NEW x \in Conn, Dispatched(s, x), Dropped(s, x), queue' = queue,
             x.kind = "push" => x.what.name \in Names(s)'
      PROVE  Rests(k) \/ Served(k, x)
  <2>1. /\ held' = [held EXCEPT ![s] = RemoveFirst(held[s], x)]
        /\ turn[s] # <<>> /\ Head(turn[s]) = x
        /\ turn' = [turn EXCEPT ![s] = Tail(turn[s])]
    BY <1>8 DEF Dispatched, Dropped
  <2>2. CASE k = s
    <3>1. held'[k] = RemoveFirst(held[k], x) /\ turn'[k] = Tail(turn[k])
      BY <1>1, <2>1, <2>2
    <3> QED BY <1>8, <2>1, <2>2, <3>1 DEF Served
  <2>3. CASE k # s
    <3>1. held'[k] = held[k] /\ turn'[k] = turn[k]
      BY <1>1, <2>1, <2>3
    <3> QED BY <1>8, <3>1 DEF Rests
  <2> QED BY <2>2, <2>3
<1>9. ASSUME NEW s \in Nodes, NEW n \in Nodes, HandleGetNodeList(s, n)
      PROVE  Rests(k) \/ Served(k, JoinOf(n))
  <2>1. Dispatched(s, JoinOf(n)) /\ Dropped(s, JoinOf(n)) /\ queue' = queue
    BY <1>9 DEF HandleGetNodeList
  <2> QED BY <1>8, <2>1, ConnIs
<1>10. ASSUME NEW s \in Nodes, NEW c \in ToSet(turn[s]), HandlePush(s, c)
       PROVE  Rests(k) \/ Served(k, c)
  <2>1. Dispatched(s, c) /\ Dropped(s, c) /\ queue' = queue
    BY <1>10 DEF HandlePush
  <2>2. /\ c \in Conn /\ c.what \in Entry
        /\ known'[s] = Learned(known[s], c.what.name, c.what.addr)
    BY <1>10, HandlePushIs DEF Calm
  <2>3. known[s] \in Table /\ c.what.name \in Nodes /\ c.what.addr \in Addrs
    BY <2>2 DEF Calm, Core, TypeOK, Entry
  <2>4. c.what.name \in NamesIn(known'[s])
    BY <2>2, <2>3, LearnedIs
  <2>5. c.what.name \in Names(s)'
    BY <2>4 DEF Names, NamesIn, Entries
  <2> QED BY <1>8, <2>1, <2>2, <2>5
<1> QED BY <1>2, <1>3, <1>4, <1>5, <1>6, <1>7, <1>9, <1>10, CalmStep DEF Calm

(* What is held and served when the first connection of a turn has been. *)
LEMMA TurnsTail ==
    ASSUME Calm, NEW k \in Nodes, turn[k] # <<>>
    PROVE  /\ ToSet(Tail(turn[k])) \subseteq ToSet(turn[k])
           /\ \A d : Once(turn[k], d) => Once(Tail(turn[k]), d)
           /\ \A d : Once(turn[k], d) /\ d \in ToSet(Tail(turn[k])) => d # Head(turn[k])
           /\ \A b, d : Ahead(turn[k], b, d) /\ b # Head(turn[k]) => Ahead(Tail(turn[k]), b, d)
<1>1. turn[k] \in Seq(Conn \cup {TheAccept})
  BY DEF Calm, Core, TypeOK
<1>2. \A b, d : Ahead(turn[k], b, d) /\ b # Head(turn[k]) => Ahead(Tail(turn[k]), b, d)
  BY <1>1, AheadInTail
<1>3. /\ ToSet(turn[k]) = ToSet(Tail(turn[k])) \cup {Head(turn[k])}
      /\ \A d : Once(turn[k], d) => Once(Tail(turn[k]), d)
      /\ Once(turn[k], Head(turn[k])) => Head(turn[k]) \notin ToSet(Tail(turn[k]))
  BY <1>1, TailOf
<1> QED BY <1>2, <1>3

(* A push goes from the queue to those held, and is gone when it has been served. *)
LEMMA PushesOnceKept == ASSUME Calm, Next, Truth' PROVE PushesOnce'
<1> SUFFICES ASSUME NEW k \in Nodes, NEW c \in Conn, c.kind = "push"
             PROVE  /\ Once(queue'[k], c) /\ Once(held'[k], c) /\ Once(turn'[k], c)
                    /\ c \notin ToSet(queue'[k]) \cap ToSet(held'[k])
                    /\ c \in ToSet(turn'[k]) => c \in ToSet(held'[k])
  BY DEF PushesOnce
<1>1. /\ queue[k] \in Seq(Conn) /\ held[k] \in Seq(Conn)
      /\ turn[k] \in Seq(Conn \cup {TheAccept})
  BY DEF Calm, Core, TypeOK
<1>2. /\ Once(queue[k], c) /\ Once(held[k], c) /\ Once(turn[k], c)
      /\ c \notin ToSet(queue[k]) \cap ToSet(held[k])
      /\ c \in ToSet(turn[k]) => c \in ToSet(held[k])
  BY DEF Calm, Branching, PushesOnce
<1>3. c # TheAccept
  BY ConnIs
<1>4. CASE Rests(k)
  BY <1>2, <1>4 DEF Rests
<1>5. CASE Reported(k)
  <2>1. PICK A \in Seq(Conn \cup {TheAccept}) :
           ToSet(A) \subseteq {TheAccept} /\ turn'[k] = A \o Ready(k)
    BY <1>5 DEF Reported
  <2>2. Ready(k) \in Seq(Conn) /\ ToSet(Ready(k)) \subseteq ToSet(held[k]) /\ Once(Ready(k), c)
    BY <1>1, <1>2, ReadyIs
  <2>3. Ready(k) \in Seq(Conn \cup {TheAccept}) /\ c \notin ToSet(A)
    BY <1>3, <2>1, <2>2
  <2>4. Once(A \o Ready(k), c) /\ ToSet(A \o Ready(k)) = ToSet(A) \cup ToSet(Ready(k))
    BY <2>2, <2>3, Concatenated
  <2> QED BY <1>2, <1>5, <2>1, <2>2, <2>3, <2>4 DEF Reported
<1>6. CASE Accepted(k)
  <2> DEFINE h == Head(queue[k])
  <2>1. /\ h \in Conn /\ ToSet(queue[k]) = ToSet(Tail(queue[k])) \cup {h}
        /\ Once(Tail(queue[k]), c)
        /\ Once(queue[k], h) => h \notin ToSet(Tail(queue[k]))
    BY <1>1, <1>2, <1>6, TailOf DEF Accepted
  <2> HIDE DEF h
  <2>2. c = h => c \notin ToSet(held[k]) /\ c \notin ToSet(Tail(queue[k]))
    BY <1>2, <2>1
  <2>3. /\ ToSet(Append(held[k], h)) = ToSet(held[k]) \cup {h}
        /\ Once(Append(held[k], h), c)
    BY <1>1, <1>2, <2>1, <2>2, Appended
  <2>4. /\ queue'[k] = Tail(queue[k]) /\ held'[k] = Append(held[k], h)
        /\ turn'[k] = Tail(turn[k]) /\ turn[k] # <<>>
    BY <1>6 DEF Accepted, h
  <2>5. ToSet(turn'[k]) \subseteq ToSet(turn[k]) /\ Once(turn'[k], c)
    BY <1>2, <2>4, TurnsTail
  <2> QED BY <1>2, <2>1, <2>2, <2>3, <2>4, <2>5
<1>7. CASE Answered(k)
  <2>1. ToSet(turn'[k]) \subseteq ToSet(turn[k]) /\ Once(turn'[k], c)
    BY <1>2, <1>7, TurnsTail DEF Answered
  <2> QED BY <1>2, <1>7, <2>1 DEF Answered
<1>8. CASE Lost(k)
  BY <1>8, EmptyIs DEF Lost
<1>9. ASSUME NEW x, Comes(k, x)
      PROVE  /\ Once(queue'[k], c) /\ Once(held'[k], c) /\ Once(turn'[k], c)
             /\ c \notin ToSet(queue'[k]) \cap ToSet(held'[k])
             /\ c \in ToSet(turn'[k]) => c \in ToSet(held'[k])
  <2>1. c = x => c \notin ToSet(queue[k]) /\ c \notin ToSet(held[k])
    BY <1>9 DEF Comes, Carried
  <2>2. ToSet(queue'[k]) = ToSet(queue[k]) \cup {x} /\ Once(queue'[k], c)
    BY <1>1, <1>2, <1>9, <2>1, Appended DEF Comes
  <2>3. held'[k] = held[k] /\ turn'[k] = turn[k]
    BY <1>9 DEF Comes
  <2> QED BY <1>2, <2>1, <2>2, <2>3
<1>10. ASSUME NEW x, Served(k, x)
       PROVE  /\ Once(queue'[k], c) /\ Once(held'[k], c) /\ Once(turn'[k], c)
              /\ c \notin ToSet(queue'[k]) \cap ToSet(held'[k])
              /\ c \in ToSet(turn'[k]) => c \in ToSet(held'[k])
  <2>1. /\ queue'[k] = queue[k] /\ held'[k] = RemoveFirst(held[k], x)
        /\ turn[k] # <<>> /\ Head(turn[k]) = x /\ turn'[k] = Tail(turn[k])
    BY <1>10 DEF Served
  <2>2. /\ ToSet(held'[k]) \subseteq ToSet(held[k]) /\ Once(held'[k], c)
        /\ \A d \in ToSet(held[k]) : d # x => d \in ToSet(held'[k])
    <3> DEFINE r == RemoveFirst(held[k], x)
    <3>1. /\ ToSet(r) \subseteq ToSet(held[k])
          /\ Once(held[k], c) => Once(r, c)
          /\ \A d \in ToSet(held[k]) : d # x => d \in ToSet(r)
      BY <1>1, FirstRemoved, Zenon
    <3>2. held'[k] = r
      BY <2>1
    <3> HIDE DEF r
    <3> QED BY <1>2, <3>1, <3>2
  <2>3. /\ ToSet(turn'[k]) \subseteq ToSet(turn[k]) /\ Once(turn'[k], c)
        /\ c \in ToSet(turn'[k]) => c # x
    BY <1>2, <2>1, TurnsTail
  <2> QED BY <1>2, <2>1, <2>2, <2>3
<1> QED BY <1>4, <1>5, <1>6, <1>7, <1>8, <1>9, <1>10, LineSteps

(* News waits until it has been taken, and what comes first stays so. *)
LEMMA NewsWaits ==
    ASSUME Calm, Next, Truth', NEW k \in Nodes, mode'[k] = "up",
           NEW d \in Waiting(k), d.kind = "push", d.what.name \notin Names(k)'
    PROVE  /\ d \in Waiting(k)'
           /\ \A c \in Waiting(k) : c.kind = "push" /\ ComesFirst(k, d, c) => ComesFirst(k, d, c)'
<1>1. queue[k] \in Seq(Conn) /\ held[k] \in Seq(Conn)
  BY DEF Calm, Core, TypeOK
<1> DEFINE Stays == /\ d \in ToSet(held'[k]) \cup ToSet(queue'[k])
                    /\ \A c \in Waiting(k) : c.kind = "push" /\ ComesFirst(k, d, c) =>
                          /\ Ahead(held'[k], d, c)
                          /\ d \in ToSet(held'[k]) \/ Ahead(queue'[k], d, c)
<1> SUFFICES Stays
  BY DEF Waiting, ComesFirst
<1>2. CASE queue'[k] = queue[k] /\ held'[k] = held[k]
  BY <1>2 DEF Waiting, ComesFirst
<1>3. CASE Accepted(k)
  <2> DEFINE h == Head(queue[k])
  <2>1. /\ h \in Conn /\ ToSet(queue[k]) = ToSet(Tail(queue[k])) \cup {h}
        /\ queue[k] # <<>>
    BY <1>1, <1>3, TailOf DEF Accepted
  <2> HIDE DEF h
  <2>2. queue'[k] = Tail(queue[k]) /\ held'[k] = Append(held[k], h)
    BY <1>3 DEF Accepted, h
  <2>3. ToSet(held'[k]) = ToSet(held[k]) \cup {h}
    BY <1>1, <2>1, <2>2, Appended
  <2>4. ASSUME NEW c \in Waiting(k), ComesFirst(k, d, c)
        PROVE  /\ Ahead(held'[k], d, c)
               /\ d \in ToSet(held'[k]) \/ Ahead(queue'[k], d, c)
    <3>1. Ahead(held[k], d, c) /\ (d \in ToSet(held[k]) \/ Ahead(queue[k], d, c))
      BY <2>4 DEF ComesFirst
    <3>2. h = c => d \in ToSet(held[k])
      BY <1>1, <2>1, <3>1, AheadIs DEF h
    <3>3. Ahead(held'[k], d, c)
      BY <1>1, <2>1, <2>2, <3>1, <3>2, AheadAppended
    <3>4. Ahead(queue[k], d, c) /\ d # h => Ahead(queue'[k], d, c)
      BY <1>1, <2>1, <2>2, AheadInTail DEF h
    <3> QED BY <2>3, <3>1, <3>3, <3>4
  <2> QED BY <2>1, <2>2, <2>3, <2>4 DEF Waiting
<1>4. ~Lost(k)
  BY DEF Lost
<1>5. ASSUME NEW x, Comes(k, x)
      PROVE  Stays
  <2>1. x \in Conn /\ queue'[k] = Append(queue[k], x) /\ held'[k] = held[k]
    BY <1>5 DEF Comes
  <2>2. ToSet(queue'[k]) = ToSet(queue[k]) \cup {x}
    BY <1>1, <2>1, Appended
  <2>3. ASSUME NEW c \in Waiting(k), c.kind = "push", ComesFirst(k, d, c)
        PROVE  /\ Ahead(held'[k], d, c)
               /\ d \in ToSet(held'[k]) \/ Ahead(queue'[k], d, c)
    <3>1. Ahead(held[k], d, c) /\ (d \in ToSet(held[k]) \/ Ahead(queue[k], d, c))
      BY <2>3 DEF ComesFirst
    <3>2. x # c
      BY <1>5, <2>3 DEF Comes, Carried, Waiting
    <3>3. Ahead(queue[k], d, c) => Ahead(queue'[k], d, c)
      BY <1>1, <2>1, <3>2, AheadAppended
    <3> QED BY <2>1, <3>1, <3>3
  <2> QED BY <2>1, <2>2, <2>3 DEF Waiting
<1>6. ASSUME NEW x, Served(k, x)
      PROVE  Stays
  <2>1. queue'[k] = queue[k] /\ held'[k] = RemoveFirst(held[k], x) /\ d # x
    BY <1>6 DEF Served
  <2>2. d \in ToSet(held[k]) => d \in ToSet(held'[k])
    BY <1>1, <2>1, FirstRemoved
  <2>3. ASSUME NEW c \in Waiting(k), ComesFirst(k, d, c)
        PROVE  /\ Ahead(held'[k], d, c)
               /\ d \in ToSet(held'[k]) \/ Ahead(queue'[k], d, c)
    <3>1. Ahead(held[k], d, c) /\ (d \in ToSet(held[k]) \/ Ahead(queue[k], d, c))
      BY <2>3 DEF ComesFirst
    <3>2. Ahead(held'[k], d, c)
      BY <1>1, <2>1, <3>1, FirstRemoved
    <3> QED BY <2>1, <2>2, <3>1, <3>2
  <2> QED BY <2>1, <2>2, <2>3 DEF Waiting
<1> QED BY <1>2, <1>3, <1>4, <1>5, <1>6, LineSteps DEF Rests, Reported, Answered

(* The seed tells those above the newcomer, or has told them. *)
LEMMA AnnouncedKept == ASSUME Calm, Next, Truth' PROVE Announced'
<1>1. layout' = layout
  BY LayoutStays DEF Calm
<1>2. \A m, n : Over(m, n)' <=> Over(m, n)
  BY <1>1, RelativesStay
<1> SUFFICES ASSUME NEW m \in Nodes, NEW k \in Nodes, NEW s \in Nodes, s = SeedOf[m],
                    Over(k, m), k \in Names(s)', m \in Names(s)', mode'[k] = "up", m \notin Names(k)'
             PROVE  \E c \in Waiting(k)' : IsNews(c, m)
  <2>1. \A m, k \in Nodes : Over(k, m) => SeedOf[m] \in Nodes
    BY AboveIs DEF Calm
  <2> QED BY <1>1, <1>2, <2>1 DEF Announced, SeedOf, Names, NamesIn, Entries, Waiting, IsNews
<1>3. m \notin Names(k)
  BY NamesGrow
<1>4. m \notin Names(s) => HandleHello(s, m)
  BY OnlyHello
<1>5. HandleHello(s, m) => mode[m] = "hello" /\ Newcomer(s, m).name = m
  BY HandlingHello DEF Calm
<1>6. Started(m)
  BY <1>4, <1>5 DEF Calm, Branching, NamesStart, Started
<1>7. mode[k] = "up"
  <2>1. mode[k] \in {"up", "dead"}
    BY <1>6, Elder DEF Calm, Branching
  <2> QED BY <2>1, StartedStays
<1>8. CASE m \notin Names(s)
  <2> DEFINE p == [kind |-> "push", from |-> s, what |-> Newcomer(s, m)]
  <2>1. HandleHello(s, m) /\ IsNews(p, m)
    BY <1>4, <1>5, <1>8 DEF IsNews
  <2>2. p \in Conn /\ queue'[k] = Append(queue[k], p)
    BY <1>7, <2>1, NewsPushed
  <2> HIDE DEF p
  <2>3. queue[k] \in Seq(Conn)
    BY DEF Calm, Core, TypeOK
  <2>4. p \in ToSet(queue'[k])
    BY <2>2, <2>3, Appended
  <2> QED BY <2>1, <2>4 DEF Waiting
<1>9. CASE m \in Names(s)
  <2>1. k # s
    BY <1>3, <1>9
  <2>2. Over(k, s)
    BY <2>1, AboveIs DEF Calm
  <2>3. mode[s] \in {"up", "dead"}
    BY <1>6, MeshConstants DEF Calm, Branching, SeedsStart
  <2>4. k \in Names(s)
    BY <2>2, <2>3, NoLateNews
  <2>5. PICK c \in Waiting(k) : IsNews(c, m)
    BY <1>3, <1>7, <1>9, <2>4 DEF Calm, Branching, Announced
  <2>6. c \in Waiting(k)'
    BY <2>5, NewsWaits DEF IsNews
  <2> QED BY <2>5, <2>6
<1> QED BY <1>8, <1>9

(* A node has been told of a newcomer before the newcomer can send it anything. *)
LEMMA NewsFirstKept == ASSUME Calm, Next, Truth' PROVE NewsFirst'
<1>1. layout' = layout
  BY LayoutStays DEF Calm
<1>2. \A m, n : Over(m, n)' <=> Over(m, n)
  BY <1>1, RelativesStay
<1> SUFFICES ASSUME NEW k \in Nodes, NEW c \in Pushes(k)', Over(k, c.from), c.from \notin Names(k)'
             PROVE  \E d \in Waiting(k)' : IsNews(d, c.from) /\ ComesFirst(k, d, c)'
  BY <1>2 DEF NewsFirst, Names, NamesIn, Entries, IsNews
<1>3. Core' /\ c.kind = "push" /\ c \in Carried(k)'
  BY NextIInv DEF Calm, IInv, Pushes, Carried
<1>4. mode'[k] = "up"
  BY <1>3, EmptyIs DEF Core, Quiet, Carried
<1>5. c.from \notin Names(k)
  BY NamesGrow
<1>6. CASE c \in Pushes(k)
  <2>1. PICK d \in Waiting(k) : IsNews(d, c.from) /\ ComesFirst(k, d, c)
    BY <1>5, <1>6 DEF Calm, Branching, NewsFirst
  <2>2. c \in Waiting(k)
    <3>1. c \in Conn
      BY <1>6, NodeTypes, ConnIs DEF Calm, Core, Pushes, Carried
    <3> QED BY <1>6, <3>1 DEF Calm, Branching, PushesOnce, Pushes, Carried, Waiting
  <2>3. d.kind = "push" /\ d.what.name \notin Names(k)'
    BY <2>1 DEF IsNews
  <2>4. /\ d \in Waiting(k)'
        /\ c.kind = "push" /\ ComesFirst(k, d, c) => ComesFirst(k, d, c)'
    BY <1>4, <2>2, <2>3, NewsWaits
  <2> QED BY <1>3, <2>1, <2>4
<1>7. CASE c \notin Pushes(k)
  <2>1. PICK s \in Nodes, n \in Nodes :
           /\ HandleHello(s, n) /\ mode[s] = "up" /\ mode[k] = "up"
           /\ c = [kind |-> "push", from |-> s, what |-> Newcomer(s, n)]
           /\ queue'[k] = Append(queue[k], c) /\ k \in Names(s)'
    BY <1>7, NewPush
  <2>2. c.from = s /\ held'[k] = held[k] /\ c \in Conn
    <3>1. held' = held
      BY <2>1 DEF HandleHello
    <3>2. c \in Conn
      BY <2>1, NewsPushed
    <3> QED BY <2>1, <3>1, <3>2
  <2>3. k \in Names(s)
    BY <2>1, <2>2, NoLateNews
  <2> DEFINE t == SeedOf[s]
  <2>4. t \in Nodes /\ t # Nobody
    BY <2>2, AboveIs, MeshConstants DEF Calm
  <2>5. s \in Names(t)
    BY <2>1, <2>4 DEF Calm, AllMet, Met, Names
  <2>6. k \in Names(t)
    BY <1>5, <2>2, <2>3, <2>5 DEF Calm, Branching, Inherited
  <2>7. PICK d \in Waiting(k) : IsNews(d, s)
    BY <1>5, <2>1, <2>2, <2>5, <2>6 DEF Calm, Branching, Announced
  <2>8. d \in Waiting(k)'
    BY <1>4, <2>2, <2>7, NewsWaits DEF IsNews
  <2>9. queue[k] \in Seq(Conn) /\ held[k] \in Seq(Conn)
    BY DEF Calm, Core, TypeOK
  <2>10. c \notin ToSet(queue[k]) /\ c \notin ToSet(held[k])
    BY <1>3, <1>7 DEF Pushes, Carried
  <2>11. Ahead(held'[k], d, c)
    BY <2>2, <2>9, <2>10, AheadIs
  <2>12. d \in ToSet(queue[k]) => Ahead(queue'[k], d, c)
    BY <2>1, <2>2, <2>9, <2>10, AheadIs, AheadAppended
  <2>13. d \in ToSet(held'[k]) \/ Ahead(queue'[k], d, c)
    BY <2>2, <2>7, <2>12 DEF Waiting
  <2> QED BY <2>2, <2>7, <2>8, <2>11, <2>13 DEF ComesFirst
<1> QED BY <1>6, <1>7

(* A turn keeps the order in which the connections are held. *)
LEMMA TurnInOrderKept == ASSUME Calm, Next, Truth' PROVE TurnInOrder'
<1> SUFFICES ASSUME NEW k \in Nodes, NEW c \in ToSet(turn'[k]), NEW d \in Conn,
                    c.kind = "push", d.kind = "push", Ahead(held'[k], d, c)
             PROVE  Ahead(turn'[k], d, c)
  BY DEF TurnInOrder, Ahead
<1>1. held[k] \in Seq(Conn) /\ turn[k] \in Seq(Conn \cup {TheAccept})
  BY DEF Calm, Core, TypeOK
<1>2. c \in Conn /\ c # TheAccept /\ d # TheAccept
  <2>1. c \in Conn \cup {TheAccept}
    <3>1. turn'[k] \in Seq(Conn \cup {TheAccept})
      BY NextIInv DEF Calm, IInv, Core, TypeOK
    <3> QED BY <3>1, ToSetIs
  <2> QED BY <2>1, ConnIs
<1>3. c \in ToSet(turn[k]) /\ Ahead(held[k], d, c) => Ahead(turn[k], d, c)
  BY DEF Calm, Branching, TurnInOrder
<1>4. CASE Rests(k)
  BY <1>3, <1>4 DEF Rests
<1>5. CASE Reported(k)
  <2>1. PICK A \in Seq(Conn \cup {TheAccept}) :
           ToSet(A) \subseteq {TheAccept} /\ turn'[k] = A \o Ready(k)
    BY <1>5 DEF Reported
  <2>2. Ahead(held[k], d, c)
    BY <1>5 DEF Reported
  <2>3. Ready(k) \in Seq(Conn)
    BY <1>1, ReadyIs
  <2>4. Ready(k) \in Seq(Conn \cup {TheAccept})
    BY <2>3
  <2>5. Ahead(Ready(k), d, c)
    <3>1. Readable(d)
      BY DEF Readable
    <3> QED BY <1>1, <2>2, <3>1, ReadyInOrder
  <2>6. c \notin ToSet(A)
    BY <1>2, <2>1
  <2> QED BY <2>1, <2>4, <2>5, <2>6, AheadBehind
<1>6. ASSUME turn[k] # <<>>, turn'[k] = Tail(turn[k]), Ahead(held[k], d, c), d # Head(turn[k])
      PROVE  Ahead(turn'[k], d, c)
  BY <1>3, <1>6, TurnsTail
<1>7. CASE Accepted(k)
  <2>1. held'[k] = Append(held[k], Head(queue[k])) /\ Head(queue[k]) \in Conn
    <3>1. queue[k] \in Seq(Conn) /\ queue[k] # <<>>
      BY <1>7 DEF Calm, Core, TypeOK, Accepted
    <3> QED BY <1>7, <3>1 DEF Accepted
  <2>2. Ahead(held[k], d, c)
    BY <1>1, <2>1, AheadAppended
  <2> QED BY <1>2, <1>6, <1>7, <2>2 DEF Accepted
<1>8. CASE Answered(k)
  <2>1. d # Head(turn[k])
    BY <1>8 DEF Answered
  <2> QED BY <1>6, <1>8, <2>1 DEF Answered
<1>9. CASE Lost(k)
  BY <1>9, EmptyIs DEF Lost
<1>10. ASSUME NEW x, Comes(k, x)
       PROVE  Ahead(turn'[k], d, c)
  BY <1>3, <1>10 DEF Comes
<1>11. ASSUME NEW x, Served(k, x)
       PROVE  Ahead(turn'[k], d, c)
  <2>1. /\ held'[k] = RemoveFirst(held[k], x)
        /\ turn[k] # <<>> /\ Head(turn[k]) = x /\ turn'[k] = Tail(turn[k])
    BY <1>11 DEF Served
  <2>2. /\ Once(held[k], d) /\ Once(turn[k], c)
        /\ c \in ToSet(turn[k]) => c \in ToSet(held[k])
    BY <1>2 DEF Calm, Branching, PushesOnce
  <2>3. c \in ToSet(turn[k]) /\ c # x
    BY <2>1, <2>2, TurnsTail
  <2> DEFINE r == RemoveFirst(held[k], x)
  <2>4. /\ r \in Seq(Conn)
        /\ \A b \in ToSet(held[k]) : b # x => b \in ToSet(r)
        /\ Once(held[k], x) => x \notin ToSet(r)
        /\ c # x /\ Ahead(r, d, c) => Ahead(held[k], d, c)
    BY <1>1, FirstRemoved, Zenon
  <2>5. held'[k] = r
    BY <2>1
  <2> HIDE DEF r
  <2>6. Ahead(held[k], d, c)
    BY <2>3, <2>4, <2>5
  <2>7. c \in ToSet(r)
    BY <2>2, <2>3, <2>4
  <2>8. d \in ToSet(r)
    BY <2>4, <2>5, <2>7, AheadIs
  <2>9. d # x
    BY <2>2, <2>4, <2>8
  <2> QED BY <1>6, <2>1, <2>6, <2>9
<1> QED BY <1>4, <1>5, <1>7, <1>8, <1>9, <1>10, <1>11, LineSteps

(* Who ends a node by a push is on another branch, unless the node's own seed has ended. *)
LEMMA PushFromAside ==
    ASSUME Calm, ~SingleHost => BufferTrue, NEW n \in Nodes, NEW c, PushKills(n, c)
    PROVE  EndedFromAside(n)
<1>1. /\ c.kind = "push" /\ mode[n] = "up"
      /\ turn[n] # <<>> /\ Head(turn[n]) = c
      /\ ~LookedUp(known[n], Sender(n, c))
  BY DEF PushKills
<1>2. turn[n] \in Seq(Conn \cup {TheAccept})
  BY DEF Calm, Core, TypeOK
<1>3. c \in ToSet(turn[n]) /\ c \in Conn /\ c \in Pushes(n)
  <2>1. c \in ToSet(turn[n])
    BY <1>1, <1>2, TailOf
  <2>2. c \in Conn
    BY <1>1, <1>2, <2>1, ToSetIs, ConnIs
  <2> QED BY <1>1, <2>1, <2>2 DEF Pushes, Carried
<1> DEFINE s == c.from
<1>4. s \in Nodes /\ c.what.name \in Nodes
  BY <1>1, <1>3, ConnIs DEF Entry
<1>5. SeedOf[c.what.name] = s /\ n \in Names(s)
  BY <1>3 DEF Calm, Branching, PushesRight
<1>6. c \in ToSet(held[n])
  BY <1>1, <1>3 DEF Calm, Branching, PushesOnce
<1>7. ntoa[n] = Host[s]
  <2>1. CASE SingleHost
    <3>1. Noted(n)
      BY <1>3, ConnIs DEF Calm, Core, NotedInv
    <3> QED BY <1>4, <2>1, <3>1 DEF SingleHost, Noted
  <2>2. CASE ~SingleHost
    BY <1>1, <1>6, <2>2 DEF BufferTrue, Unhandled
  <2> QED BY <2>1, <2>2
<1> HIDE DEF s
<1>8. s \notin Names(n)
  <2>1. SUFFICES ASSUME NEW e \in Entries(known[n]), e.name = s
                 PROVE  FALSE
    BY DEF Names, NamesIn
  <2>2. e.addr = [host |-> Host[s], port |-> Port[s]]
    BY <2>1 DEF Calm, Truth, IsTrue, AddrOf
  <2>3. Sender(n, c) = [host |-> ntoa[n], port |-> Port[s]]
    BY DEF Sender, s
  <2> QED BY <1>1, <1>7, <2>2, <2>3 DEF LookedUp
<1>9. s # n
  BY <1>4, <1>5 DEF Calm, Undisturbed, Core, NoSelf, Names
<1>10. ~Over(n, s)
  <2>1. SUFFICES ASSUME Over(n, s) PROVE FALSE
    OBVIOUS
  <2>2. PICK d \in Waiting(n) : IsNews(d, s) /\ ComesFirst(n, d, c)
    BY <1>3, <1>8, <2>1 DEF Calm, Branching, NewsFirst, s
  <2>3. d \in Conn /\ d.kind = "push"
    BY <2>2, NodeTypes DEF Calm, Core, Waiting, IsNews
  <2>4. Ahead(turn[n], d, c)
    BY <1>1, <1>3, <2>2, <2>3 DEF Calm, Branching, TurnInOrder, ComesFirst
  <2> QED BY <1>1, <1>2, <1>3, <2>4, AheadIs
<1>11. CASE Over(s, n)
  <2> DEFINE t == SeedOf[n]
  <2>1. t \in Nodes /\ t # Nobody
    BY <1>4, <1>11, AboveIs, MeshConstants DEF Calm
  <2>2. mode[t] \in {"up", "dead"} /\ t \in Names(n)
    BY <1>1, <2>1 DEF Calm, AllMet, Met, Names
  <2>3. s # t
    BY <1>8, <2>2
  <2>4. s \in Names(t)
    BY <1>4, <1>5, <1>11, <2>3 DEF Calm, Branching, Returned
  <2>5. mode[t] # "up"
    BY <1>1, <1>4, <1>8, <1>11, <2>3, <2>4 DEF Calm, Branching, Handed
  <2> QED BY <2>1, <2>2, <2>5 DEF EndedFromAside
<1>12. CASE ~Over(s, n)
  BY <1>1, <1>9, <1>10, <1>12 DEF Over, EndedFromAside, s
<1> QED BY <1>11, <1>12

(***************************************************************************)
(* A push that ends a node comes from a node that it did not join through, *)
(* and that did not join through it, directly or not, unless the node's    *)
(* seed has ended; as long as nothing disturbs the network and no two      *)
(* accepts overlap.  Between a node and those above it, the one has the    *)
(* other from its list, or has the news of it before anything it sends.    *)
(***************************************************************************)
THEOREM EndsTillOverlap == OverlapSpec => EndsUntilOverlap
<1> DEFINE TInv == IInv /\ OverlapInv /\ MeetInv /\ BranchInv
           Due == Undisturbed /\ ~overlap =>
                    \A s \in Nodes : mode[s] = "up" /\ mode'[s] = "dead" => EndedFromAside(s)
<1>1. OverlapInit => TInv
  <2> SUFFICES ASSUME OverlapInit PROVE TInv
    OBVIOUS
  <2>1. Init
    BY DEF OverlapInit
  <2>2. /\ \A n \in Nodes : ~Started(n) /\ mode[n] # "dead" /\ ans[n].kind = "none"
        /\ \A n \in Nodes : Names(n) = {} /\ Pushes(n) = {}
        /\ \A n \in Nodes : queue[n] = <<>> /\ held[n] = <<>> /\ turn[n] = <<>>
    BY <2>1, EmptyIs, AnswerIs DEF Init, Started, Names, NamesIn, Entries, NoTable, Pushes, Carried
  <2>3. SeedsStart /\ NamesStart /\ PushesRight
    BY <2>2 DEF SeedsStart, NamesStart, PushesRight
  <2>4. PushesOnce /\ TurnInOrder
    BY <2>2, EmptyIs DEF PushesOnce, TurnInOrder
  <2>5. Inherited /\ Returned /\ NewsFirst
    BY <2>2 DEF Inherited, Returned, NewsFirst
  <2>6. Announced /\ Handed
    <3>1. \A k \in Nodes : mode[k] # "up"
      BY <2>2 DEF Started
    <3>2. Handed
      BY <2>2, <3>1 DEF Handed
    <3> QED BY <3>1, <3>2 DEF Announced
  <2>7. BranchInv
    BY <2>3, <2>4, <2>5, <2>6 DEF BranchInv, Branching
  <2> QED BY <2>1, <2>7, InitIInv, InitOverlap, InitMeet
<1>2. TInv /\ [OverlapNext]_<<vars, overlap>> => TInv'
  <2> SUFFICES ASSUME TInv, [OverlapNext]_<<vars, overlap>> PROVE TInv'
    OBVIOUS
  <2>1. [Next]_vars
    BY DEF OverlapNext
  <2>2. IInv' /\ OverlapInv' /\ MeetInv'
    BY <2>1, NextIInv, OverlapKept, MeetInvKept
  <2>3. CASE OverlapNext
    <3>1. Next
      BY <2>3 DEF OverlapNext
    <3>2. layout' = layout
      BY <3>1, LayoutStays
    <3> SUFFICES ASSUME Undisturbed', ~overlap'
                 PROVE  Branching'
      BY <2>2 DEF BranchInv
    <3>3. Undisturbed /\ ~overlap /\ layout.clean
      BY <2>3, <3>2 DEF OverlapNext, Undisturbed
    <3>4. Truth' /\ Truth /\ (~SingleHost => BufferTrue)
      BY <2>2, <3>2, <3>3 DEF OverlapInv
    <3>5. Calm
      BY <3>3, <3>4 DEF IInv, MeetInv, BranchInv, Calm
    <3>6. SeedsStart' /\ NamesStart' /\ PushesRight' /\ PushesOnce'
      BY <3>1, <3>4, <3>5, SeedsStartKept, NamesStartKept, PushesRightKept, PushesOnceKept
    <3>7. Inherited' /\ Announced' /\ Returned' /\ Handed'
      BY <3>1, <3>4, <3>5, InheritedKept, AnnouncedKept, ReturnedKept, HandedKept
    <3>8. NewsFirst' /\ TurnInOrder'
      BY <3>1, <3>4, <3>5, NewsFirstKept, TurnInOrderKept
    <3> QED BY <3>6, <3>7, <3>8 DEF Branching
  <2>4. CASE UNCHANGED <<vars, overlap>>
    <3>1. BranchInv' <=> BranchInv
      BY <2>4 DEF vars, BranchInv, Undisturbed, Branching, SeedsStart, NamesStart, PushesRight,
           PushesOnce, Inherited, Announced, Returned, Handed, NewsFirst, TurnInOrder,
           Started, Names, NamesIn, Entries, Over, Above, SeedOf, Waiting,
           ComesFirst, IsNews, Pushes, Carried
    <3> QED BY <2>2, <3>1
  <2> QED BY <2>3, <2>4
<1>3. TInv /\ [OverlapNext]_<<vars, overlap>> => [Due]_<<vars, overlap>>
  <2> SUFFICES ASSUME IInv, OverlapInv, MeetInv, BranchInv, OverlapNext, Undisturbed, ~overlap,
                      NEW n \in Nodes, mode[n] = "up", mode'[n] = "dead"
               PROVE  EndedFromAside(n)
    OBVIOUS
  <2>1. Next
    BY DEF OverlapNext
  <2>2. Truth /\ (~SingleHost => BufferTrue)
    BY DEF OverlapInv, Undisturbed
  <2>3. Calm
    BY <2>2 DEF IInv, MeetInv, BranchInv, Calm
  <2>4. /\ ~StartAlone(n) /\ ~StartByGarbage(n) /\ ~StartUnreachable(n) /\ ~StartJoin(n)
        /\ ~HelloAnswered(n) /\ ~ListAnswered(n) /\ ~JoinBroken(n) /\ ~Restart(n)
    BY DEF StartAlone, StartByGarbage, StartUnreachable, StartJoin, HelloAnswered,
           ListAnswered, JoinBroken, Restart
  <2>5. Ending(n)
    BY <2>1, <2>3, <2>4, ModeOf DEF Calm
  <2>6. ~Crash(n)
    BY <2>3 DEF Crash, Calm, Core, TypeOK, Undisturbed
  <2>7. PushKills(n, Head(turn[n]))
    BY <2>5, <2>6 DEF Ending
  <2> QED BY <2>2, <2>3, <2>7, PushFromAside
<1> HIDE DEF TInv
<1> QED BY <1>1, <1>2, <1>3, PTL DEF OverlapSpec, EndsUntilOverlap
=============================================================================
