-------------------------- MODULE TcpServer_proofs --------------------------
(* Proofs about TcpServer, for any number of clients and questions, any    *)
(* backlog, and structs that arrive whole or in pieces.                    *)
EXTENDS TcpServer, ProofLemmas

(***************************************************************************)
(* The inductive invariant.  However a stream is cut, its numbers do not   *)
(* go down, and neither do they from what a client has printed to what it  *)
(* can still read and on to the questions that are yet to be answered.     *)
(***************************************************************************)
Sorted(s) == \A i, j \in 1 .. Len(s) : i < j => s[i].no <= s[j].no

\* u is yet to be answered, d yet to be read, r was printed last, of a questions.
InOrder(u, d, r, a) ==
    /\ Sorted(u) /\ Sorted(d)
    /\ \A j \in 1 .. Len(u) :
          /\ u[j].no <= a /\ r.no <= u[j].no
          /\ \A i \in 1 .. Len(d) : d[i].no <= u[j].no
    /\ \A i \in 1 .. Len(d) : d[i].no <= a /\ r.no <= d[i].no
    /\ r.no <= a

Ordered(c) == InOrder(up[c], down[c], result[c], asked[c])

(***************************************************************************)
(* Where structs arrive whole, the two streams of a client that waits hold *)
(* its latest question or the answer to it.                                *)
(***************************************************************************)
InTurn(c) ==
    /\ pc[c] \in {"start", "enter"} =>
          /\ up[c] = <<>> /\ down[c] = <<>>
          /\ result[c] = [no |-> asked[c], part |-> 1]
    /\ pc[c] = "wait" =>
          \/ up[c] = Struct(asked[c]) /\ down[c] = <<>>
          \/ up[c] = <<>> /\ down[c] = Struct(asked[c])

\* A client that had gone when it was answered has left nothing more to answer.
Spent(c) == pc[c] = "gone" /\ up[c] = <<>>

IInv ==
    /\ TypeOK
    /\ \A c \in Clients : Ordered(c)
    /\ running /\ ~segmented => \A c \in Clients \ closed : InTurn(c)
    /\ ~segmented => \A c \in refused : Spent(c)

-----------------------------------------------------------------------------
(* The operators of the model *)

(* What is left of a stream after a recv is its end. *)
LEMMA AfterIsTheRest ==
    ASSUME NEW s \in Seq(Part), NEW n \in 1 .. Len(s)
    PROVE  /\ After(s, n) \in Seq(Part)
           /\ Len(s) \in Nat
           /\ Len(After(s, n)) = Len(s) - n
           /\ \A k \in 1 .. Len(After(s, n)) :
                 k + n \in 1 .. Len(s) /\ After(s, n)[k] = s[k + n]
           /\ n = Len(s) => After(s, n) = <<>>
<1>1. Len(s) \in Nat /\ n + 1 \in Int /\ Len(s) \in Int
  BY LenProperties
<1>2. \A k \in n + 1 .. Len(s) : s[k] \in Part
  BY ElementOfSeq
<1>3. /\ After(s, n) \in Seq(Part)
      /\ Len(After(s, n)) = IF n + 1 <= Len(s) THEN Len(s) - (n + 1) + 1 ELSE 0
      /\ \A k \in 1 .. Len(s) - (n + 1) + 1 : After(s, n)[k] = s[(n + 1) + k - 1]
  BY <1>1, <1>2, SubSeqProperties DEF After
<1>4. Len(After(s, n)) = Len(s) - n
  BY <1>1, <1>3
<1>5. ASSUME NEW k \in 1 .. Len(After(s, n))
      PROVE  k + n \in 1 .. Len(s) /\ After(s, n)[k] = s[k + n]
  <2>1. k \in 1 .. Len(s) - (n + 1) + 1 /\ (n + 1) + k - 1 = k + n /\ k + n \in 1 .. Len(s)
    BY <1>1, <1>4
  <2> QED BY <1>3, <2>1
<1>6. n = Len(s) => After(s, n) = <<>>
  BY <1>3, <1>4, EmptySeq
<1> QED BY <1>1, <1>3, <1>4, <1>5, <1>6

(* A struct is two parts, the first with the name. *)
LEMMA StructParts ==
    ASSUME NEW k \in 1 .. MaxQuestions
    PROVE  /\ Struct(k) \in Seq(Part) /\ Len(Struct(k)) = 2
           /\ Struct(k)[1] = [no |-> k, part |-> 1]
           /\ Struct(k)[2] = [no |-> k, part |-> 2]
           /\ Head(Struct(k)) = [no |-> k, part |-> 1]
BY DEF Struct, Part

(* A struct sent on a stream comes after what is there. *)
LEMMA SentAfter ==
    ASSUME NEW s \in Seq(Part), NEW k \in 1 .. MaxQuestions
    PROVE  /\ s \o Struct(k) \in Seq(Part)
           /\ Len(s) \in Nat /\ Len(s \o Struct(k)) = Len(s) + 2
           /\ \A j \in 1 .. Len(s) : (s \o Struct(k))[j] = s[j]
           /\ (s \o Struct(k))[Len(s) + 1] = [no |-> k, part |-> 1]
           /\ (s \o Struct(k))[Len(s) + 2] = [no |-> k, part |-> 2]
<1>1. /\ s \o Struct(k) \in Seq(Part)
      /\ Len(s \o Struct(k)) = Len(s) + Len(Struct(k))
      /\ \A i \in 1 .. Len(s) + Len(Struct(k)) :
            (s \o Struct(k))[i] = IF i <= Len(s) THEN s[i] ELSE Struct(k)[i - Len(s)]
  BY StructParts, ConcatProperties
<1>2. Len(s) \in Nat /\ Len(Struct(k)) = 2
  BY LenProperties, StructParts
<1>3. \A j \in 1 .. Len(s) : (s \o Struct(k))[j] = s[j]
  BY <1>1, <1>2
<1>4. /\ (s \o Struct(k))[Len(s) + 1] = Struct(k)[1]
      /\ (s \o Struct(k))[Len(s) + 2] = Struct(k)[2]
  <2>1. ASSUME NEW j \in {1, 2}
        PROVE  (s \o Struct(k))[Len(s) + j] = Struct(k)[j]
    <3>1. /\ Len(s) + j \in 1 .. Len(s) + Len(Struct(k)) /\ ~(Len(s) + j <= Len(s))
          /\ Len(s) + j - Len(s) = j
      BY <1>2
    <3> QED BY <1>1, <3>1
  <2> QED BY <2>1
<1> QED BY <1>1, <1>2, <1>3, <1>4, StructParts

(* Parts read off the front leave a sorted stream sorted; so does a later struct at its end. *)
LEMMA SortedAfter ==
    ASSUME NEW s \in Seq(Part), NEW n \in 1 .. Len(s), Sorted(s)
    PROVE  Sorted(After(s, n)) /\ \A k \in 1 .. Len(After(s, n)) : s[1].no <= After(s, n)[k].no
<1>1. /\ Len(s) \in Nat
      /\ \A k \in 1 .. Len(After(s, n)) :
            k + n \in 1 .. Len(s) /\ After(s, n)[k] = s[k + n] /\ 1 < k + n
      /\ 1 \in 1 .. Len(s)
  BY AfterIsTheRest
<1>2. \A i, j \in 1 .. Len(After(s, n)) : i < j => i + n < j + n
  OBVIOUS
<1> QED BY <1>1, <1>2 DEF Sorted

(* A stream stays sorted when a number that is no lower is sent down it. *)
LEMMA SortedSent ==
    ASSUME NEW s \in Seq(Part), NEW k \in 1 .. MaxQuestions, Sorted(s),
           \A j \in 1 .. Len(s) : s[j].no <= k
    PROVE  Sorted(s \o Struct(k))
<1> DEFINE t == s \o Struct(k)
<1>1. /\ Len(s) \in Nat /\ Len(t) = Len(s) + 2
      /\ \A j \in 1 .. Len(s) : t[j] = s[j]
      /\ t[Len(s) + 1] = [no |-> k, part |-> 1]
      /\ t[Len(s) + 2] = [no |-> k, part |-> 2]
  BY SentAfter
<1> HIDE DEF t
<1>2. SUFFICES ASSUME NEW i \in 1 .. Len(t), NEW j \in 1 .. Len(t), i < j
               PROVE  t[i].no <= t[j].no
  BY DEF Sorted, t
<1>3. \/ i \in 1 .. Len(s) /\ j \in 1 .. Len(s)
      \/ i \in 1 .. Len(s) /\ j \in {Len(s) + 1, Len(s) + 2}
      \/ i = Len(s) + 1 /\ j = Len(s) + 2
  BY <1>1, <1>2
<1>4. k <= k
  BY TcpConstants
<1> QED BY <1>1, <1>2, <1>3, <1>4 DEF Sorted

(* A recv takes at least one part, and all there are where structs arrive whole. *)
LEMMA ArrivedParts ==
    ASSUME NEW s \in Seq(Part), NEW n \in Arrived(s)
    PROVE  /\ n \in 1 .. Len(s) /\ Len(s) \in Nat
           /\ s # <<>> /\ Head(s) = s[1] /\ s[1] \in Part
           /\ ~segmented => n = Len(s)
<1>1. n \in 1 .. Len(s) /\ Len(s) \in Nat /\ (~segmented => n = Len(s))
  BY LenProperties DEF Arrived
<1>2. s # <<>> /\ 1 \in 1 .. Len(s)
  BY <1>1, EmptySeq
<1> QED BY <1>1, <1>2, ElementOfSeq, HeadTailProperties

(* A part is one of a question that was asked. *)
LEMMA PartTypes ==
    ASSUME NEW s \in Seq(Part)
    PROVE  /\ Len(s) \in Nat
           /\ \A j \in 1 .. Len(s) : s[j].no \in Nat /\ s[j].no \in 1 .. MaxQuestions
                                     /\ s[j].part \in {1, 2}
<1>1. \A p \in Part : p.no \in Nat /\ p.no \in 1 .. MaxQuestions /\ p.part \in {1, 2}
  BY TcpConstants DEF Part
<1> QED BY <1>1, ElementOfSeq, LenProperties

-----------------------------------------------------------------------------
(* What the steps do to the order of a client's streams *)

(* A question has a higher number than everything under way. *)
LEMMA AskedInOrder ==
    ASSUME NEW u \in Seq(Part), NEW d \in Seq(Part), NEW r \in [no : Nat, part : {1, 2}],
           NEW a \in Nat, a + 1 <= MaxQuestions, InOrder(u, d, r, a)
    PROVE  InOrder(u, d, r, a + 1) /\ InOrder(u \o Struct(a + 1), d, r, a + 1)
<1> DEFINE k == a + 1
           t == u \o Struct(k)
<1>1. k \in 1 .. MaxQuestions /\ r.no \in Nat /\ k \in Nat
  BY TcpConstants
<1>2. /\ Len(u) \in Nat /\ \A j \in 1 .. Len(u) : u[j].no \in Nat
      /\ Len(d) \in Nat /\ \A i \in 1 .. Len(d) : d[i].no \in Nat
  BY PartTypes
<1>3. /\ \A j \in 1 .. Len(u) : u[j].no <= k
      /\ \A i \in 1 .. Len(d) : d[i].no <= k
      /\ r.no <= k
  BY <1>1, <1>2 DEF InOrder
<1>4. InOrder(u, d, r, k)
  BY <1>3 DEF InOrder
<1>5. Sorted(t)
  BY <1>1, <1>3, SortedSent DEF InOrder
<1>6. /\ Len(t) = Len(u) + 2
      /\ \A j \in 1 .. Len(t) :
            \/ j \in 1 .. Len(u) /\ t[j] = u[j]
            \/ t[j].no = k
  <2>1. /\ Len(t) = Len(u) + 2
        /\ \A j \in 1 .. Len(u) : t[j] = u[j]
        /\ t[Len(u) + 1] = [no |-> k, part |-> 1]
        /\ t[Len(u) + 2] = [no |-> k, part |-> 2]
    BY <1>1, SentAfter
  <2>2. \A j \in 1 .. Len(u) + 2 : j \in 1 .. Len(u) \/ j = Len(u) + 1 \/ j = Len(u) + 2
    BY <1>2
  <2> QED BY <2>1, <2>2
<1> HIDE DEF t, k
<1>7. InOrder(t, d, r, k)
  <2>1. ASSUME NEW j \in 1 .. Len(t)
        PROVE  /\ t[j].no <= k /\ r.no <= t[j].no
               /\ \A i \in 1 .. Len(d) : d[i].no <= t[j].no
    <3>1. CASE j \in 1 .. Len(u) /\ t[j] = u[j]
      BY <1>4, <3>1 DEF InOrder
    <3>2. CASE t[j].no = k
      BY <1>1, <1>3, <3>2
    <3> QED BY <1>6, <3>1, <3>2
  <2> QED BY <1>4, <1>5, <2>1 DEF InOrder
<1> QED BY <1>4, <1>7 DEF k, t

(* An answer repeats the number that leads the stream of questions. *)
LEMMA AnsweredInOrder ==
    ASSUME NEW u \in Seq(Part), NEW d \in Seq(Part), NEW r \in [no : Nat, part : {1, 2}],
           NEW a \in Nat, InOrder(u, d, r, a), NEW n \in 1 .. Len(u)
    PROVE  /\ InOrder(After(u, n), d, r, a)
           /\ InOrder(After(u, n), d \o Struct(u[1].no), r, a)
<1> DEFINE k == u[1].no
           v == After(u, n)
           t == d \o Struct(k)
<1>1. /\ Len(u) \in Nat /\ \A j \in 1 .. Len(u) : u[j].no \in Nat
      /\ Len(d) \in Nat /\ \A i \in 1 .. Len(d) : d[i].no \in Nat
  BY PartTypes
<1>2. 1 \in 1 .. Len(u) /\ k \in 1 .. MaxQuestions /\ k \in Nat /\ r.no \in Nat
  <2>1. 1 \in 1 .. Len(u)
    BY <1>1
  <2> QED BY <2>1, PartTypes
<1>3. /\ r.no <= k /\ k <= a
      /\ \A i \in 1 .. Len(d) : d[i].no <= k
  BY <1>2 DEF InOrder
<1>4. /\ Sorted(v) /\ v \in Seq(Part)
      /\ \A j \in 1 .. Len(v) : u[1].no <= v[j].no /\ \E l \in 1 .. Len(u) : v[j] = u[l]
  BY AfterIsTheRest, SortedAfter DEF InOrder
<1> HIDE DEF v
<1>5. \A j \in 1 .. Len(v) : v[j].no \in Nat /\ k <= v[j].no
  BY <1>4, PartTypes
<1>6. InOrder(v, d, r, a)
  BY <1>4 DEF InOrder
<1>7. /\ Sorted(t) /\ t \in Seq(Part)
      /\ \A i \in 1 .. Len(t) :
            \/ i \in 1 .. Len(d) /\ t[i] = d[i]
            \/ t[i].no = k
  <2>1. /\ Len(t) = Len(d) + 2 /\ t \in Seq(Part)
        /\ \A j \in 1 .. Len(d) : t[j] = d[j]
        /\ t[Len(d) + 1] = [no |-> k, part |-> 1]
        /\ t[Len(d) + 2] = [no |-> k, part |-> 2]
    BY <1>2, SentAfter
  <2>2. \A j \in 1 .. Len(d) + 2 : j \in 1 .. Len(d) \/ j = Len(d) + 1 \/ j = Len(d) + 2
    BY <1>1
  <2>3. Sorted(t)
    BY <1>2, <1>3, SortedSent DEF InOrder
  <2> QED BY <2>1, <2>2, <2>3
<1> HIDE DEF t
<1>8. InOrder(v, t, r, a)
  <2>1. ASSUME NEW i \in 1 .. Len(t)
        PROVE  /\ t[i].no <= a /\ r.no <= t[i].no
               /\ \A j \in 1 .. Len(v) : t[i].no <= v[j].no
    <3>1. CASE i \in 1 .. Len(d) /\ t[i] = d[i]
      BY <1>6, <3>1 DEF InOrder
    <3>2. CASE t[i].no = k
      BY <1>3, <1>5, <3>2
    <3> QED BY <1>7, <3>1, <3>2
  <2> QED BY <1>6, <1>7, <2>1 DEF InOrder
<1> QED BY <1>6, <1>8 DEF v, t

(* What the client reads next is no older than what it read last. *)
LEMMA ReadInOrder ==
    ASSUME NEW u \in Seq(Part), NEW d \in Seq(Part), NEW r \in [no : Nat, part : {1, 2}],
           NEW a \in Nat, InOrder(u, d, r, a), NEW n \in 1 .. Len(d)
    PROVE  InOrder(u, After(d, n), d[1], a)
<1> DEFINE v == After(d, n)
<1>1. 1 \in 1 .. Len(d)
  BY PartTypes
<1>2. /\ Sorted(v)
      /\ \A j \in 1 .. Len(v) : d[1].no <= v[j].no /\ \E l \in 1 .. Len(d) : v[j] = d[l]
  BY AfterIsTheRest, SortedAfter DEF InOrder
<1> HIDE DEF v
<1>3. InOrder(u, v, d[1], a)
  BY <1>1, <1>2 DEF InOrder
<1> QED BY <1>3 DEF v

(* An emptied stream is in order. *)
LEMMA DroppedInOrder ==
    ASSUME NEW u, NEW d, NEW r, NEW a, InOrder(u, d, r, a)
    PROVE  InOrder(<<>>, d, r, a) /\ InOrder(u, <<>>, r, a)
<1>1. Len(<<>>) = 0 /\ Sorted(<<>>)
  BY DEF Sorted
<1> QED BY <1>1 DEF InOrder

-----------------------------------------------------------------------------
(* The invariant is inductive *)

(* Both streams of every client are empty. *)
LEMMA InitIInv == Init => IInv
<1> SUFFICES ASSUME Init PROVE IInv
  OBVIOUS
<1>1. Len(<<>>) = 0 /\ <<>> \in Seq(Part) /\ <<>> \in Seq(Clients) /\ 0 \in 0 .. MaxQuestions
  BY TcpConstants
<1>2. TypeOK
  BY <1>1, TcpConstants DEF Init, TypeOK
<1>3. ASSUME NEW c \in Clients
      PROVE  Ordered(c) /\ InTurn(c)
  <2>1. /\ up[c] = <<>> /\ down[c] = <<>> /\ pc[c] = "start" /\ asked[c] = 0
        /\ result[c] = [no |-> 0, part |-> 1]
    BY DEF Init
  <2>2. Sorted(<<>>)
    BY <1>1 DEF Sorted
  <2> QED BY <1>1, <2>1, <2>2 DEF Ordered, InOrder, InTurn
<1> QED BY <1>2, <1>3 DEF IInv, Init

(* What TypeOK and the order say of one client. *)
LEMMA ClientFacts ==
    ASSUME IInv, NEW c \in Clients
    PROVE  /\ up[c] \in Seq(Part) /\ down[c] \in Seq(Part)
           /\ asked[c] \in Nat /\ asked[c] <= MaxQuestions
           /\ result[c] \in [no : Nat, part : {1, 2}]
           /\ InOrder(up[c], down[c], result[c], asked[c])
<1>1. result[c] \in Part \cup {[no |-> 0, part |-> 1]}
  BY DEF IInv, TypeOK
<1>2. result[c] \in [no : Nat, part : {1, 2}]
  BY <1>1, TcpConstants DEF Part
<1> QED BY <1>2, TcpConstants DEF IInv, TypeOK, Ordered

(* A client whose streams and program a step leaves alone stays as it is. *)
LEMMA OthersStay ==
    ASSUME IInv, NEW c \in Clients,
           up'[c] = up[c], down'[c] = down[c], result'[c] = result[c], asked'[c] = asked[c]
    PROVE  /\ Ordered(c)'
           /\ pc'[c] = pc[c] /\ running /\ ~segmented /\ c \notin closed => InTurn(c)'
           /\ pc'[c] = pc[c] /\ ~segmented /\ c \in refused => Spent(c)'
<1>1. Ordered(c)'
  BY DEF IInv, Ordered
<1>2. pc'[c] = pc[c] /\ running /\ ~segmented /\ c \notin closed => InTurn(c)'
  BY DEF IInv, InTurn
<1>3. pc'[c] = pc[c] /\ ~segmented /\ c \in refused => Spent(c)'
  BY DEF IInv, Spent
<1> QED BY <1>1, <1>2, <1>3

(* The server reads a struct, or a part of it, and answers. *)
LEMMA AnswerIInv ==
    ASSUME IInv, NEW n, Answer(n)
    PROVE  IInv'
<1> DEFINE c == serving
           k == Head(up[c]).no
<1>1. /\ c \in Clients /\ n \in Arrived(up[c]) /\ running
      /\ up' = [up EXCEPT ![c] = After(@, n)]
      /\ down' = [down EXCEPT ![c] = IF pc[c] = "gone" THEN @ ELSE @ \o Struct(k)]
      /\ refused' = IF pc[c] = "gone" THEN refused \cup {c} ELSE refused
      /\ UNCHANGED <<segmented, running, serving, backlog, closed, pc, asked, result>>
  BY TcpConstants DEF Answer, Receives, IInv, TypeOK
<1> HIDE DEF c
<1>2. /\ up[c] \in Seq(Part) /\ down[c] \in Seq(Part)
      /\ asked[c] \in Nat /\ result[c] \in [no : Nat, part : {1, 2}]
      /\ InOrder(up[c], down[c], result[c], asked[c])
  BY <1>1, ClientFacts
<1>3. /\ n \in 1 .. Len(up[c]) /\ Len(up[c]) \in Nat /\ up[c] # <<>>
      /\ Head(up[c]) = up[c][1] /\ up[c][1] \in Part
      /\ ~segmented => n = Len(up[c])
  BY <1>1, <1>2, ArrivedParts
<1>4. k = up[c][1].no /\ k \in 1 .. MaxQuestions
  BY <1>1, <1>3 DEF Part
<1> HIDE DEF k
<1>5. /\ up'[c] = After(up[c], n) /\ After(up[c], n) \in Seq(Part)
      /\ down'[c] = down[c] \/ down'[c] = down[c] \o Struct(k)
      /\ pc[c] # "gone" => down'[c] = down[c] \o Struct(k)
      /\ down[c] \o Struct(k) \in Seq(Part)
      /\ DOMAIN up' = Clients /\ up' = [d \in Clients |-> up'[d]]
      /\ DOMAIN down' = Clients /\ down' = [d \in Clients |-> down'[d]]
      /\ \A d \in Clients \ {c} : up'[d] = up[d] /\ down'[d] = down[d]
  <2>1. up \in [Clients -> Seq(Part)] /\ down \in [Clients -> Seq(Part)]
    BY DEF IInv, TypeOK
  <2>2. After(up[c], n) \in Seq(Part) /\ down[c] \o Struct(k) \in Seq(Part)
    BY <1>2, <1>3, <1>4, AfterIsTheRest, SentAfter
  <2> QED BY <1>1, <2>1, <2>2
<1>6. TypeOK'
  <2>1. ASSUME NEW d \in Clients
        PROVE  up'[d] \in Seq(Part) /\ down'[d] \in Seq(Part)
    BY <1>2, <1>5, ClientFacts
  <2>2. up' \in [Clients -> Seq(Part)] /\ down' \in [Clients -> Seq(Part)]
    BY <1>5, <2>1
  <2> QED BY <1>1, <2>2 DEF IInv, TypeOK
<1>7. ASSUME NEW d \in Clients
      PROVE  Ordered(d)'
  <2>1. CASE d = c
    <3>1. /\ InOrder(After(up[c], n), down[c], result[c], asked[c])
          /\ InOrder(After(up[c], n), down[c] \o Struct(k), result[c], asked[c])
      BY <1>2, <1>3, <1>4, AnsweredInOrder
    <3> QED BY <1>1, <1>5, <2>1, <3>1 DEF Ordered
  <2>2. CASE d # c
    BY <1>1, <1>5, <2>2, OthersStay
  <2> QED BY <2>1, <2>2
<1>8. ASSUME running, ~segmented, NEW d \in Clients, d \notin closed
      PROVE  InTurn(d)'
  <2>1. CASE d = c
    <3>1. InTurn(c) /\ pc[c] \in {"start", "enter", "wait", "gone"}
      BY <1>1, <1>8, <2>1 DEF IInv, TypeOK
    <3>2. pc[c] \notin {"start", "enter"}
      BY <1>3, <3>1 DEF InTurn
    <3>3. CASE pc[c] = "wait"
      <4>1. up[c] = Struct(asked[c]) /\ down[c] = <<>>
        BY <1>3, <3>1, <3>3 DEF InTurn
      <4>2. After(up[c], n) = <<>>
        BY <1>2, <1>3, <1>8, AfterIsTheRest
      <4>3. k = asked[c]
        BY <1>3, <1>4, <4>1 DEF Struct
      <4>4. <<>> \o Struct(k) = Struct(k)
        BY <1>4, StructParts, ConcatEmptySeq
      <4> QED BY <1>1, <1>5, <2>1, <3>3, <4>1, <4>2, <4>3, <4>4 DEF InTurn
    <3>4. CASE pc[c] = "gone"
      BY <1>1, <2>1, <3>4 DEF InTurn
    <3> QED BY <3>1, <3>2, <3>3, <3>4
  <2>2. CASE d # c
    BY <1>1, <1>5, <1>8, <2>2, OthersStay
  <2> QED BY <2>1, <2>2
<1>9. ASSUME ~segmented, NEW d \in refused'
      PROVE  Spent(d)'
  <2>1. d \in Clients
    BY <1>6 DEF TypeOK
  <2>2. CASE d = c
    <3>1. pc[c] = "gone"
      BY <1>1, <1>9, <2>2 DEF IInv, Spent
    <3>2. up'[c] = <<>>
      BY <1>2, <1>3, <1>5, <1>9, AfterIsTheRest
    <3> QED BY <1>1, <2>2, <3>1, <3>2 DEF Spent
  <2>3. CASE d # c
    <3>1. d \in refused
      BY <1>1, <2>3
    <3> QED BY <1>1, <1>5, <1>9, <2>1, <2>3, <3>1, OthersStay
  <2> QED BY <2>2, <2>3
<1> QED BY <1>1, <1>6, <1>7, <1>8, <1>9 DEF IInv

(* A client asks, with the server there or not. *)
LEMMA AskIInv ==
    ASSUME IInv, NEW c \in Clients, Ask(c)
    PROVE  IInv'
<1> DEFINE k == asked[c] + 1
<1>1. /\ pc[c] = "enter" /\ asked[c] < MaxQuestions
      /\ asked' = [asked EXCEPT ![c] = @ + 1]
      /\ up' = [up EXCEPT ![c] = IF Lost(c) THEN @ ELSE @ \o Struct(k)]
      /\ pc' = [pc EXCEPT ![c] = "wait"]
      /\ UNCHANGED <<segmented, running, serving, backlog, closed, down, refused, result>>
  BY DEF Ask
<1>2. /\ up[c] \in Seq(Part) /\ down[c] \in Seq(Part)
      /\ asked[c] \in Nat /\ result[c] \in [no : Nat, part : {1, 2}]
      /\ InOrder(up[c], down[c], result[c], asked[c])
  BY ClientFacts
<1>3. k \in 1 .. MaxQuestions /\ k \in 0 .. MaxQuestions /\ k <= MaxQuestions /\ MaxQuestions \in Nat
  BY <1>1, <1>2, TcpConstants
<1>4. /\ up'[c] = up[c] \/ up'[c] = up[c] \o Struct(k)
      /\ running /\ c \notin closed => up'[c] = up[c] \o Struct(k)
      /\ asked'[c] = k /\ pc'[c] = "wait"
      /\ DOMAIN up' = Clients /\ up' = [d \in Clients |-> up'[d]]
      /\ \A d \in Clients \ {c} : up'[d] = up[d] /\ asked'[d] = asked[d] /\ pc'[d] = pc[d]
  BY <1>1 DEF IInv, TypeOK, Lost
<1>5. up[c] \o Struct(k) \in Seq(Part)
  BY <1>2, <1>3, SentAfter
<1> HIDE DEF k
<1>6. TypeOK'
  <2>1. ASSUME NEW d \in Clients
        PROVE  up'[d] \in Seq(Part)
    BY <1>2, <1>4, <1>5, ClientFacts
  <2>2. up' \in [Clients -> Seq(Part)]
    BY <1>4, <2>1
  <2>3. asked' \in [Clients -> 0 .. MaxQuestions]
    BY <1>1, <1>3 DEF IInv, TypeOK, k
  <2>4. pc' \in [Clients -> {"start", "enter", "wait", "gone"}]
    BY <1>1 DEF IInv, TypeOK
  <2> QED BY <1>1, <2>2, <2>3, <2>4 DEF IInv, TypeOK
<1>7. ASSUME NEW d \in Clients
      PROVE  Ordered(d)'
  <2>1. CASE d = c
    <3>1. InOrder(up[c], down[c], result[c], k) /\ InOrder(up[c] \o Struct(k), down[c], result[c], k)
      BY <1>2, <1>3, AskedInOrder DEF k
    <3> QED BY <1>1, <1>4, <2>1, <3>1 DEF Ordered
  <2>2. CASE d # c
    BY <1>1, <1>4, <2>2, OthersStay
  <2> QED BY <2>1, <2>2
<1>8. ASSUME running, ~segmented, NEW d \in Clients, d \notin closed
      PROVE  InTurn(d)'
  <2>1. CASE d = c
    <3>1. up[c] = <<>> /\ down[c] = <<>>
      BY <1>1, <1>8, <2>1 DEF IInv, InTurn
    <3>2. <<>> \o Struct(k) = Struct(k)
      BY <1>3, StructParts, ConcatEmptySeq
    <3> QED BY <1>1, <1>4, <1>8, <2>1, <3>1, <3>2 DEF InTurn
  <2>2. CASE d # c
    BY <1>1, <1>4, <1>8, <2>2, OthersStay
  <2> QED BY <2>1, <2>2
<1>9. ASSUME ~segmented, NEW d \in refused'
      PROVE  Spent(d)'
  <2>1. d \in Clients /\ d \in refused /\ d # c
    BY <1>1, <1>9 DEF IInv, TypeOK, Spent
  <2> QED BY <1>1, <1>4, <1>9, <2>1, OthersStay
<1> QED BY <1>1, <1>6, <1>7, <1>8, <1>9 DEF IInv

(* A client reads the answer, or a part of it. *)
LEMMA ReceiveIInv ==
    ASSUME IInv, NEW c \in Clients, NEW n, Receive(c, n)
    PROVE  IInv'
<1>1. /\ pc[c] = "wait" /\ n \in Arrived(down[c])
      /\ result' = [result EXCEPT ![c] = Head(down[c])]
      /\ down' = [down EXCEPT ![c] = After(@, n)]
      /\ pc' = [pc EXCEPT ![c] = "enter"]
      /\ UNCHANGED <<segmented, running, serving, backlog, closed, up, refused, asked>>
  BY DEF Receive
<1>2. /\ up[c] \in Seq(Part) /\ down[c] \in Seq(Part)
      /\ asked[c] \in Nat /\ result[c] \in [no : Nat, part : {1, 2}]
      /\ InOrder(up[c], down[c], result[c], asked[c])
  BY ClientFacts
<1>3. /\ n \in 1 .. Len(down[c]) /\ Len(down[c]) \in Nat /\ down[c] # <<>>
      /\ Head(down[c]) = down[c][1] /\ down[c][1] \in Part
      /\ ~segmented => n = Len(down[c])
  BY <1>1, <1>2, ArrivedParts
<1>4. /\ result'[c] = down[c][1] /\ down'[c] = After(down[c], n) /\ pc'[c] = "enter"
      /\ DOMAIN down' = Clients /\ down' = [d \in Clients |-> down'[d]]
      /\ \A d \in Clients \ {c} : result'[d] = result[d] /\ down'[d] = down[d] /\ pc'[d] = pc[d]
  BY <1>1, <1>3 DEF IInv, TypeOK
<1>5. After(down[c], n) \in Seq(Part) /\ (~segmented => After(down[c], n) = <<>>)
  BY <1>2, <1>3, AfterIsTheRest
<1>6. TypeOK'
  <2>1. ASSUME NEW d \in Clients
        PROVE  down'[d] \in Seq(Part)
    BY <1>4, <1>5, ClientFacts
  <2>2. down' \in [Clients -> Seq(Part)]
    BY <1>4, <2>1
  <2>3. result' \in [Clients -> Part \cup {[no |-> 0, part |-> 1]}]
    BY <1>1, <1>3 DEF IInv, TypeOK
  <2>4. pc' \in [Clients -> {"start", "enter", "wait", "gone"}]
    BY <1>1 DEF IInv, TypeOK
  <2> QED BY <1>1, <2>2, <2>3, <2>4 DEF IInv, TypeOK
<1>7. ASSUME NEW d \in Clients
      PROVE  Ordered(d)'
  <2>1. CASE d = c
    <3>1. InOrder(up[c], After(down[c], n), down[c][1], asked[c])
      BY <1>2, <1>3, ReadInOrder
    <3> QED BY <1>1, <1>4, <2>1, <3>1 DEF Ordered
  <2>2. CASE d # c
    BY <1>1, <1>4, <2>2, OthersStay
  <2> QED BY <2>1, <2>2
<1>8. ASSUME running, ~segmented, NEW d \in Clients, d \notin closed
      PROVE  InTurn(d)'
  <2>1. CASE d = c
    <3>1. up[c] = <<>> /\ down[c] = Struct(asked[c])
      BY <1>1, <1>3, <1>8, <2>1 DEF IInv, InTurn
    <3>2. down[c][1] = [no |-> asked[c], part |-> 1]
      BY <3>1 DEF Struct
    <3> QED BY <1>1, <1>4, <1>5, <1>8, <2>1, <3>1, <3>2 DEF InTurn
  <2>2. CASE d # c
    BY <1>1, <1>4, <1>8, <2>2, OthersStay
  <2> QED BY <2>1, <2>2
<1>9. ASSUME ~segmented, NEW d \in refused'
      PROVE  Spent(d)'
  <2>1. d \in Clients /\ d \in refused /\ d # c
    BY <1>1, <1>9 DEF IInv, TypeOK, Spent
  <2> QED BY <1>1, <1>4, <1>9, <2>1, OthersStay
<1> QED BY <1>1, <1>6, <1>7, <1>8, <1>9 DEF IInv

(* Every step of the server, the clients and the streams keeps the order. *)
LEMMA NextIInv == IInv /\ [Next]_vars => IInv'
<1> SUFFICES ASSUME IInv, [Next]_vars PROVE IInv'
  OBVIOUS
<1> DEFINE Kept(c) == /\ Ordered(c)'
                      /\ running' /\ ~segmented' /\ c \notin closed' => InTurn(c)'
                      /\ ~segmented' /\ c \in refused' => Spent(c)'
<1>0. TypeOK' /\ (\A c \in Clients : Kept(c)) => IInv'
  BY DEF IInv, TypeOK
<1>1. CASE Accept
  <2>1. /\ backlog \in Seq(Clients) /\ backlog # <<>> /\ Len(backlog) <= Backlog
        /\ Head(backlog) \in Clients /\ Tail(backlog) \in Seq(Clients)
        /\ Len(Tail(backlog)) <= Backlog
    <3>1. backlog \in Seq(Clients) /\ backlog # <<>> /\ Len(backlog) <= Backlog
      BY <1>1 DEF Accept, IInv, TypeOK
    <3>2. Head(backlog) \in Clients /\ Tail(backlog) \in Seq(Clients)
      BY <3>1, HeadTailProperties
    <3>3. Len(Tail(backlog)) = Len(backlog) - 1 /\ Len(backlog) \in Nat
      BY <3>1, HeadTailProperties, LenProperties
    <3> QED BY <3>1, <3>2, <3>3, TcpConstants
  <2>2. TypeOK'
    BY <1>1, <2>1 DEF Accept, IInv, TypeOK
  <2>3. ASSUME NEW c \in Clients
        PROVE  Kept(c)
    BY <1>1, OthersStay DEF Accept
  <2> QED BY <1>0, <2>2, <2>3
<1>2. CASE \E n \in 1 .. 10 : Answer(n)
  BY <1>2, AnswerIInv
<1>3. CASE SpecialMsg
  <2>1. /\ serving \in Clients /\ up' = [up EXCEPT ![serving] = <<>>]
        /\ serving' = None /\ closed' = closed \cup {serving}
        /\ UNCHANGED <<segmented, running, backlog, down, refused, pc, asked, result>>
    BY <1>3, TcpConstants DEF SpecialMsg, Receives, CloseClient, IInv, TypeOK
  <2>2. TypeOK'
    <3>1. <<>> \in Seq(Part)
      OBVIOUS
    <3> QED BY <2>1, <3>1 DEF IInv, TypeOK
  <2>3. ASSUME NEW c \in Clients
        PROVE  Kept(c)
    <3>1. CASE c = serving
      <4>1. InOrder(<<>>, down[c], result[c], asked[c])
        BY ClientFacts, DroppedInOrder
      <4>2. up'[c] = <<>>
        BY <2>1, <3>1 DEF IInv, TypeOK
      <4> QED BY <2>1, <3>1, <4>1, <4>2 DEF Ordered, Spent, IInv
    <3>2. CASE c # serving
      <4>1. up'[c] = up[c]
        BY <2>1, <3>2 DEF IInv, TypeOK
      <4> QED BY <2>1, <4>1, OthersStay
    <3> QED BY <3>1, <3>2
  <2> QED BY <1>0, <2>2, <2>3
<1>4. CASE EmptyMsg
  <2>1. /\ serving \in Clients /\ serving' = None /\ closed' = closed \cup {serving}
        /\ UNCHANGED <<segmented, running, backlog, up, down, refused, pc, asked, result>>
    BY <1>4, TcpConstants DEF EmptyMsg, CloseClient, IInv, TypeOK
  <2>2. TypeOK'
    BY <2>1 DEF IInv, TypeOK
  <2>3. ASSUME NEW c \in Clients
        PROVE  Kept(c)
    BY <2>1, OthersStay
  <2> QED BY <1>0, <2>2, <2>3
<1>5. ASSUME NEW c \in Clients, Connect(c)
      PROVE  IInv'
  <2>1. /\ pc[c] = "start" /\ Len(backlog) < Backlog /\ backlog' = Append(backlog, c)
        /\ pc' = [pc EXCEPT ![c] = "enter"]
        /\ UNCHANGED <<segmented, running, serving, closed, up, down, refused, asked, result>>
    BY <1>5 DEF Connect
  <2>2. backlog' \in Seq(Clients) /\ Len(backlog') <= Backlog
    <3>1. backlog \in Seq(Clients)
      BY DEF IInv, TypeOK
    <3>2. Append(backlog, c) \in Seq(Clients) /\ Len(Append(backlog, c)) = Len(backlog) + 1
      BY <3>1, AppendProperties
    <3>3. Len(backlog) \in Nat
      BY <3>1, LenProperties
    <3> QED BY <2>1, <3>2, <3>3, TcpConstants
  <2>3. TypeOK'
    BY <2>1, <2>2 DEF IInv, TypeOK
  <2>4. ASSUME NEW d \in Clients
        PROVE  Kept(d)
    <3>1. CASE d = c
      <4>1. Ordered(c)'
        BY <2>1, OthersStay
      <4>2. running /\ ~segmented /\ c \notin closed => InTurn(c)'
        BY <2>1 DEF IInv, TypeOK, InTurn
      <4>3. ~segmented => c \notin refused
        BY <2>1 DEF IInv, Spent
      <4> QED BY <2>1, <3>1, <4>1, <4>2, <4>3
    <3>2. CASE d # c
      <4>1. pc'[d] = pc[d]
        BY <2>1, <3>2 DEF IInv, TypeOK
      <4> QED BY <2>1, <4>1, OthersStay
    <3> QED BY <3>1, <3>2
  <2> QED BY <1>0, <2>3, <2>4
<1>6. ASSUME NEW c \in Clients, Ask(c)
      PROVE  IInv'
  BY <1>6, AskIInv
<1>7. ASSUME NEW c \in Clients, ReceiveNothing(c)
      PROVE  IInv'
  <2>1. /\ pc[c] = "wait" /\ (c \in closed \/ ~running)
        /\ pc' = [pc EXCEPT ![c] = "enter"]
        /\ UNCHANGED <<segmented, running, serving, backlog, closed, up, down, refused,
                       asked, result>>
    BY <1>7 DEF ReceiveNothing, Lost
  <2>2. TypeOK'
    BY <2>1 DEF IInv, TypeOK
  <2>3. ASSUME NEW d \in Clients
        PROVE  Kept(d)
    <3>1. CASE d = c
      <4>1. ~segmented => c \notin refused
        BY <1>7 DEF ReceiveNothing, IInv, Spent
      <4> QED BY <2>1, <3>1, <4>1, OthersStay
    <3>2. CASE d # c
      <4>1. pc'[d] = pc[d]
        BY <2>1, <3>2 DEF IInv, TypeOK
      <4> QED BY <2>1, <4>1, OthersStay
    <3> QED BY <3>1, <3>2
  <2> QED BY <1>0, <2>2, <2>3
<1>8. ASSUME NEW c \in Clients, Quit(c)
      PROVE  IInv'
  <2>1. /\ pc[c] # "gone" /\ pc' = [pc EXCEPT ![c] = "gone"] /\ down' = [down EXCEPT ![c] = <<>>]
        /\ UNCHANGED <<segmented, running, serving, backlog, closed, up, refused, asked, result>>
    BY <1>8 DEF Quit
  <2>2. TypeOK'
    <3>1. <<>> \in Seq(Part)
      OBVIOUS
    <3> QED BY <2>1, <3>1 DEF IInv, TypeOK
  <2>3. ASSUME NEW d \in Clients
        PROVE  Kept(d)
    <3>1. CASE d = c
      <4>1. InOrder(up[c], <<>>, result[c], asked[c])
        BY ClientFacts, DroppedInOrder
      <4>2. down'[c] = <<>> /\ pc'[c] = "gone"
        BY <2>1 DEF IInv, TypeOK
      <4>3. ~segmented => c \notin refused
        BY <2>1 DEF IInv, Spent
      <4> QED BY <2>1, <3>1, <4>1, <4>2, <4>3 DEF Ordered, InTurn
    <3>2. CASE d # c
      <4>1. down'[d] = down[d] /\ pc'[d] = pc[d]
        BY <2>1, <3>2 DEF IInv, TypeOK
      <4> QED BY <2>1, <4>1, OthersStay
    <3> QED BY <3>1, <3>2
  <2> QED BY <1>0, <2>2, <2>3
<1>9. ASSUME NEW c \in Clients, NEW n \in {1, 2}, Receive(c, n)
      PROVE  IInv'
  BY <1>9, ReceiveIInv
<1>10. ASSUME NEW c \in Clients, ConnectRefused(c)
       PROVE  IInv'
  <2>1. /\ pc[c] = "start" /\ ~running /\ pc' = [pc EXCEPT ![c] = "gone"]
        /\ UNCHANGED <<segmented, running, serving, backlog, closed, up, down, refused,
                       asked, result>>
    BY <1>10 DEF ConnectRefused
  <2>2. TypeOK'
    BY <2>1 DEF IInv, TypeOK
  <2>3. ASSUME NEW d \in Clients
        PROVE  Kept(d)
    <3>1. CASE d = c
      <4>1. ~segmented => c \notin refused
        BY <2>1 DEF IInv, Spent
      <4> QED BY <2>1, <3>1, <4>1, OthersStay
    <3>2. CASE d # c
      <4>1. pc'[d] = pc[d]
        BY <2>1, <3>2 DEF IInv, TypeOK
      <4> QED BY <2>1, <4>1, OthersStay
    <3> QED BY <3>1, <3>2
  <2> QED BY <1>0, <2>2, <2>3
<1>11. ASSUME running' = FALSE, backlog' = <<>>, serving' = serving \/ serving' = None,
              UNCHANGED <<segmented, closed, up, down, refused, pc, asked, result>>
       PROVE  IInv'
  <2>1. /\ backlog' \in Seq(Clients) /\ Len(backlog') <= Backlog
        /\ serving' \in Clients \cup {None}
    <3>1. Len(<<>>) = 0 /\ <<>> \in Seq(Clients) /\ 0 <= Backlog
      BY TcpConstants
    <3> QED BY <1>11, <3>1 DEF IInv, TypeOK
  <2>2. TypeOK'
    BY <1>11, <2>1 DEF IInv, TypeOK
  <2>3. ASSUME NEW d \in Clients
        PROVE  Kept(d)
    BY <1>11, OthersStay
  <2> QED BY <1>0, <2>2, <2>3
<1>12. CASE AcceptFails
  BY <1>11, <1>12 DEF AcceptFails
<1>13. CASE \E n \in 1 .. 10 : AnswerKills(n)
  BY <1>11, <1>13 DEF AnswerKills
<1>14. CASE UNCHANGED vars
  BY <1>14 DEF vars, IInv, TypeOK, Ordered, InTurn, Spent
<1> QED BY <1>1, <1>2, <1>3, <1>4, <1>5, <1>6, <1>7, <1>8, <1>9, <1>10, <1>12, <1>13, <1>14
        DEF Next, Serve

-----------------------------------------------------------------------------

(* The order of every stream, and whose turn it is, never fail. *)
THEOREM InductiveInvariant == Spec => []IInv
BY InitIInv, NextIInv, PTL DEF Spec

(* TypeOK, for any number of clients and of questions. *)
THEOREM TypeCorrect == Spec => []TypeOK
<1>1. IInv => TypeOK
  BY DEF IInv
<1> QED BY <1>1, InductiveInvariant, PTL

(* The invariant is enough for both halves of AnswersInOrder. *)
LEMMA InvariantImpliesOrder == IInv => AnswersInOrder
<1> SUFFICES ASSUME IInv PROVE AnswersInOrder
  OBVIOUS
<1>1. Alternates
  BY DEF Alternates, IInv, InTurn
<1>2. Ascending
  <2>1. SUFFICES ASSUME NEW c \in Clients, NEW j \in 1 .. Len(down[c])
                 PROVE  /\ down[c][j].no <= asked[c]
                        /\ result[c].no <= down[c][j].no
                        /\ \A i \in 1 .. j - 1 : down[c][i].no <= down[c][j].no
    BY DEF Ascending
  <2>2. down[c] \in Seq(Part) /\ InOrder(up[c], down[c], result[c], asked[c])
    BY ClientFacts
  <2>3. Len(down[c]) \in Nat
    BY <2>2, PartTypes
  <2>4. down[c][j].no <= asked[c] /\ result[c].no <= down[c][j].no
    BY <2>2 DEF InOrder
  <2>5. ASSUME NEW i \in 1 .. j - 1
        PROVE  down[c][i].no <= down[c][j].no
    <3>1. i \in 1 .. Len(down[c]) /\ i < j
      BY <2>3
    <3> QED BY <2>2, <3>1 DEF InOrder, Sorted
  <2> QED BY <2>4, <2>5
<1> QED BY <1>1, <1>2 DEF AnswersInOrder

(***************************************************************************)
(* AnswersInOrder, for any number of clients: no client reads an older     *)
(* answer after a newer one, even where a cut question is answered twice,  *)
(* and where structs arrive whole each answer is the one to the latest     *)
(* question.                                                               *)
(***************************************************************************)
THEOREM EveryAnswerInOrder == Spec => []AnswersInOrder
BY InvariantImpliesOrder, InductiveInvariant, PTL

(* Where structs arrive whole, a client that has gone has no second answer coming. *)
LEMMA NoSecondAnswer ==
    ASSUME IInv, [Next]_vars, running, ~segmented, serving # None
    PROVE  running'
<1>1. ASSUME NEW n, AnswerKills(n)
      PROVE  FALSE
  <2>1. n \in Arrived(up[serving]) /\ up[serving] = <<>>
    BY <1>1 DEF AnswerKills, Receives, IInv, Spent
  <2>2. n \in 1 .. Len(<<>>) /\ Len(<<>>) = 0
    BY <2>1 DEF Arrived
  <2> QED BY <2>2
<1>2. CASE UNCHANGED vars
  BY <1>2 DEF vars
<1>3. CASE Serve
  BY <1>1, <1>3 DEF Serve, Accept, Answer, SpecialMsg, EmptyMsg
<1>4. CASE \E c \in Clients : Connect(c) \/ ConnectRefused(c) \/ Ask(c) \/ ReceiveNothing(c) \/ Quit(c)
  BY <1>4 DEF Connect, ConnectRefused, Ask, ReceiveNothing, Quit
<1>5. CASE \E c \in Clients, n \in {1, 2} : Receive(c, n)
  BY <1>5 DEF Receive
<1> QED BY <1>2, <1>3, <1>4, <1>5 DEF Next, AcceptFails

(***************************************************************************)
(* SurvivesItsClients, for any number of clients: where structs arrive     *)
(* whole, only an accept that fails ends the server.                       *)
(***************************************************************************)
THEOREM NoClientEndsTheServer == Spec => SurvivesItsClients
<1>1. IInv /\ [Next]_vars => [running /\ ~segmented /\ serving # None => running']_vars
  BY NoSecondAnswer
<1> QED BY <1>1, InductiveInvariant, PTL DEF Spec, SurvivesItsClients
=============================================================================
