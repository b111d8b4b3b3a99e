------------------------- MODULE UdpWorkers_proofs -------------------------
(* Proofs about UdpWorkers, for any number of clients, workers and         *)
(* questions and any network.                                              *)
EXTENDS UdpWorkers, ProofLemmas

(***************************************************************************)
(* The invariant of every network: a worker past recvfrom has a question,  *)
(* and a greeting goes to the client whose question it repeats.            *)
(***************************************************************************)
WorkersHaveQuestions == \A w \in Workers : thread[w] # "recv" => context[w] \in Question

GreetingsAreOnesOwn == \A g \in back : g.text.from = g.to

AskedInBounds == \A c \in Clients : asked[c] <= network.asks[c]

FinitelyMany == IsFiniteSet(net) /\ IsFiniteSet(back)

Inv ==
    /\ TypeOK
    /\ WorkersHaveQuestions
    /\ GreetingsAreOnesOwn
    /\ AskedInBounds
    /\ FinitelyMany

(***************************************************************************)
(* The invariant of a reliable network: the latest question of a client    *)
(* goes through the four places one by one, and is in none of the others   *)
(* meanwhile.  Once the server is dead, it may also get lost.              *)
(***************************************************************************)
Nowhere(c) == Sent(c) = {} /\ Buffered(c) = {} /\ InWork(c) = {} /\ Answers(c) = {}

AtNet(c) ==
    /\ \E q \in net : Sent(c) = {q} /\ q.no = asked[c]
    /\ Buffered(c) = {} /\ InWork(c) = {} /\ Answers(c) = {}

AtQueue(c) ==
    /\ \E k \in 1 .. Len(queue) : Buffered(c) = {k} /\ queue[k].no = asked[c]
    /\ Sent(c) = {} /\ InWork(c) = {} /\ Answers(c) = {}

AtWorker(c) ==
    /\ \E w \in Workers : InWork(c) = {w} /\ context[w].no = asked[c]
    /\ Sent(c) = {} /\ Buffered(c) = {} /\ Answers(c) = {}

AtBack(c) ==
    /\ \E g \in back : Answers(c) = {g} /\ g.text.no = asked[c]
    /\ Sent(c) = {} /\ Buffered(c) = {} /\ InWork(c) = {}

InStep(c) ==
    \/ pc[c] = "enter" /\ Nowhere(c) /\ result[c] = asked[c]
    \/ /\ pc[c] = "wait"
       /\ AtNet(c) \/ AtQueue(c) \/ AtWorker(c) \/ AtBack(c) \/ (~alive /\ Nowhere(c))

IInv == Inv /\ (Reliable => \A c \in Clients : InStep(c))

-----------------------------------------------------------------------------

(* Nothing is under way. *)
LEMMA InitInv == Init => Inv
<1> SUFFICES ASSUME Init PROVE Inv
  OBVIOUS
<1>1. network \in Networks /\ network \in Network
  BY UdpConstants DEF Init
<1>2. network.size \in Nat \ {0} /\ network.asks \in [Clients -> 0 .. MaxQuestions]
  BY <1>1 DEF Network
<1>3. TypeOK
  BY <1>1, <1>2, UdpConstants DEF Init, TypeOK
<1>4. IsFiniteSet(net) /\ IsFiniteSet(back)
  BY FS_EmptySet DEF Init
<1>5. AskedInBounds
  BY <1>2, UdpConstants DEF Init, AskedInBounds
<1> QED BY <1>3, <1>4, <1>5
        DEF Init, Inv, WorkersHaveQuestions, GreetingsAreOnesOwn, FinitelyMany

(* The network is one of those assumed. *)
LEMMA NetworkTypes ==
    ASSUME TypeOK
    PROVE  /\ network.size \in Nat /\ network.lossy \in BOOLEAN
           /\ \A c \in Clients : network.asks[c] \in 0 .. MaxQuestions
BY UdpConstants DEF TypeOK, Network

(* Every step keeps a greeting with the client that asked. *)
LEMMA NextInv == Inv /\ [Next]_vars => Inv'
<1> SUFFICES ASSUME Inv, [Next]_vars
             PROVE  Inv'
  OBVIOUS
<1>a. TypeOK
  BY DEF Inv
<1>1. ASSUME NEW w \in Workers, Recv(w)
      PROVE  Inv'
  <2>1. Head(queue) \in Question /\ Tail(queue) \in Seq(Question) /\ Len(Tail(queue)) = Len(queue) - 1
    BY <1>1, <1>a, HeadTailProperties DEF Recv, TypeOK
  <2>2. Len(queue) \in Nat /\ network.size \in Nat
    BY <1>a, NetworkTypes, LenProperties DEF TypeOK
  <2>3. TypeOK'
    BY <1>1, <1>a, <2>1, <2>2 DEF Recv, TypeOK
  <2> QED BY <1>1, <2>1, <2>3
          DEF Recv, Inv, TypeOK, WorkersHaveQuestions, GreetingsAreOnesOwn, AskedInBounds,
              FinitelyMany
<1>2. ASSUME NEW w \in Workers, Wake(w)
      PROVE  Inv'
  BY <1>2 DEF Wake, Inv, TypeOK, WorkersHaveQuestions, GreetingsAreOnesOwn, AskedInBounds,
              FinitelyMany
<1>3. ASSUME NEW w \in Workers, SendTo(w)
      PROVE  Inv'
  <2> DEFINE g == [to |-> context[w].from, text |-> context[w]]
  <2>1. context[w] \in Question
    BY <1>3 DEF SendTo, Inv, WorkersHaveQuestions
  <2>2. g \in Greeting /\ g.text.from = g.to
    BY <2>1 DEF Question, Greeting
  <2> HIDE DEF g
  <2>3. back' = back \cup {g} /\ thread' = [thread EXCEPT ![w] = "recv"]
    BY <1>3 DEF SendTo, g
  <2>4. IsFiniteSet(back')
    BY <2>3, FS_AddElement DEF Inv, FinitelyMany
  <2> QED BY <1>3, <2>2, <2>3, <2>4
          DEF SendTo, Inv, TypeOK, WorkersHaveQuestions, GreetingsAreOnesOwn, AskedInBounds,
              FinitelyMany
<1>4. ASSUME NEW w \in Workers, SendFails(w)
      PROVE  Inv'
  BY <1>4 DEF SendFails, Inv, TypeOK, WorkersHaveQuestions, GreetingsAreOnesOwn, AskedInBounds,
              FinitelyMany
<1>5. ASSUME NEW c \in Clients, Ask(c)
      PROVE  Inv'
  <2>1. /\ asked[c] \in Nat /\ asked[c] + 1 <= network.asks[c]
        /\ asked[c] + 1 \in 1 .. MaxQuestions
    BY <1>5, <1>a, NetworkTypes, UdpConstants DEF Ask, TypeOK
  <2>2. /\ asked' \in [Clients -> 0 .. MaxQuestions]
        /\ \A d \in Clients : asked'[d] <= network.asks[d]
    BY <1>5, <2>1 DEF Ask, Inv, TypeOK, AskedInBounds
  <2>3. [from |-> c, no |-> asked[c] + 1] \in Question
    BY <2>1 DEF Question
  <2>4. IsFiniteSet(net')
    BY <1>5, FS_AddElement DEF Ask, Inv, FinitelyMany
  <2> QED BY <1>5, <2>2, <2>3, <2>4
          DEF Ask, Inv, TypeOK, WorkersHaveQuestions, GreetingsAreOnesOwn, AskedInBounds,
              FinitelyMany
<1>6. ASSUME NEW c \in Clients, NEW g \in back, Receive(c, g)
      PROVE  Inv'
  <2>1. g.text.no \in 0 .. MaxQuestions
    BY <1>a, UdpConstants DEF TypeOK, Greeting, Question
  <2>2. IsFiniteSet(back')
    BY <1>6, FS_Subset DEF Receive, Inv, FinitelyMany
  <2> QED BY <1>6, <2>1, <2>2
          DEF Receive, Inv, TypeOK, WorkersHaveQuestions, GreetingsAreOnesOwn, AskedInBounds,
              FinitelyMany
<1>7. ASSUME NEW q \in net, Deliver(q)
      PROVE  Inv'
  <2>1. /\ queue' \in Seq(Question) /\ Len(queue') = Len(queue) + 1
        /\ Len(queue) \in Nat /\ network.size \in Nat
    BY <1>7, <1>a, NetworkTypes, AppendProperties, LenProperties DEF Deliver, TypeOK
  <2>2. net' \subseteq net /\ IsFiniteSet(net')
    BY <1>7, FS_Subset DEF Deliver, Inv, FinitelyMany
  <2> QED BY <1>7, <2>1, <2>2
          DEF Deliver, Inv, TypeOK, WorkersHaveQuestions, GreetingsAreOnesOwn, AskedInBounds,
              FinitelyMany
<1>8. ASSUME NEW q \in net, Drop(q)
      PROVE  Inv'
  <2>1. net' \subseteq net /\ IsFiniteSet(net')
    BY <1>8, FS_Subset DEF Drop, Inv, FinitelyMany
  <2> QED BY <1>8, <2>1
          DEF Drop, Inv, TypeOK, WorkersHaveQuestions, GreetingsAreOnesOwn, AskedInBounds,
              FinitelyMany
<1>9. ASSUME NEW g \in back, LoseGreeting(g)
      PROVE  Inv'
  <2>1. back' \subseteq back /\ IsFiniteSet(back')
    BY <1>9, FS_Subset DEF LoseGreeting, Inv, FinitelyMany
  <2> QED BY <1>9, <2>1
          DEF LoseGreeting, Inv, TypeOK, WorkersHaveQuestions, GreetingsAreOnesOwn, AskedInBounds,
              FinitelyMany
<1>10. CASE UNCHANGED vars
  BY <1>10 DEF vars, Inv, TypeOK, WorkersHaveQuestions, GreetingsAreOnesOwn, AskedInBounds,
               FinitelyMany
<1> QED BY <1>1, <1>2, <1>3, <1>4, <1>5, <1>6, <1>7, <1>8, <1>9, <1>10 DEF Next, Serve

(* No network and no overlap of the workers breaks Inv. *)
THEOREM Invariance == Spec => []Inv
BY InitInv, NextInv, PTL DEF Spec

(* Every reachable state is well typed: the socket never buffers more than it has room for. *)
THEOREM TypeCorrect == Spec => []TypeOK
<1>1. Inv => TypeOK
  BY DEF Inv
<1> QED BY <1>1, Invariance, PTL

-----------------------------------------------------------------------------
(* What InStep says of a place that is not empty. *)
LEMMA OnePlaceEach ==
    ASSUME Inv, NEW c \in Clients, InStep(c)
    PROVE  /\ Sent(c) # {} => pc[c] = "wait" /\ AtNet(c)
           /\ Buffered(c) # {} => pc[c] = "wait" /\ AtQueue(c)
           /\ InWork(c) # {} => pc[c] = "wait" /\ AtWorker(c)
           /\ Answers(c) # {} => pc[c] = "wait" /\ AtBack(c)
BY DEF InStep, Nowhere, AtNet, AtQueue, AtWorker, AtBack

(* A client that a step has nothing to do with stays in step. *)
LEMMA OthersStay ==
    ASSUME Inv, NEW c \in Clients, InStep(c),
           Sent(c)' = Sent(c),
           \/ /\ Buffered(c)' = Buffered(c)
              /\ \A k \in Buffered(c) : queue'[k] = queue[k] /\ k \in 1 .. Len(queue')
           \/ /\ queue # <<>> /\ queue' = Tail(queue)
              /\ 1 \notin Buffered(c),
           InWork(c)' = InWork(c),
           \A w \in InWork(c) : context'[w] = context[w],
           Answers(c)' = Answers(c),
           UNCHANGED <<asked[c], pc[c], result[c]>>,
           alive' => alive
    PROVE  InStep(c)'
<1>1. /\ Buffered(c) = {} => Buffered(c)' = {}
      /\ AtQueue(c) => \E k \in 1 .. Len(queue') : Buffered(c)' = {k} /\ queue'[k].no = asked[c]
  <2>1. CASE /\ Buffered(c)' = Buffered(c)
             /\ \A k \in Buffered(c) : queue'[k] = queue[k] /\ k \in 1 .. Len(queue')
    BY <2>1 DEF AtQueue
  <2>2. CASE /\ queue # <<>> /\ queue' = Tail(queue)
             /\ 1 \notin Buffered(c)
    <3>1. /\ Len(queue) \in Nat /\ Len(queue') = Len(queue) - 1
          /\ \A k \in 1 .. Len(queue') : queue'[k] = queue[k + 1]
      BY <2>2, HeadTailProperties, LenProperties DEF Inv, TypeOK
    <3>2. \A k \in 1 .. Len(queue') : k \in Buffered(c)' <=> k + 1 \in Buffered(c)
      BY <3>1 DEF Buffered
    <3>3. Buffered(c)' \subseteq 1 .. Len(queue')
      BY DEF Buffered
    <3>4. Buffered(c) = {} => Buffered(c)' = {}
      BY <3>2, <3>3
    <3>5. ASSUME NEW k \in 1 .. Len(queue), Buffered(c) = {k}, queue[k].no = asked[c]
          PROVE  \E l \in 1 .. Len(queue') : Buffered(c)' = {l} /\ queue'[l].no = asked[c]
      <4>1. k # 1 /\ k - 1 \in 1 .. Len(queue') /\ (k - 1) + 1 = k
        BY <2>2, <3>1, <3>5
      <4>2. queue'[k - 1].no = asked[c] /\ k - 1 \in Buffered(c)'
        BY <3>1, <3>2, <3>5, <4>1
      <4>3. ASSUME NEW l \in Buffered(c)'
            PROVE  l = k - 1
        <5>1. l \in 1 .. Len(queue') /\ l + 1 \in Buffered(c)
          BY <3>2, <3>3, <4>3
        <5>2. l + 1 = k
          BY <3>5, <5>1
        <5> QED BY <3>1, <5>1, <5>2
      <4> QED BY <4>1, <4>2, <4>3
    <3> QED BY <3>4, <3>5 DEF AtQueue
  <2> QED BY <2>1, <2>2
<1>2. Nowhere(c) => Nowhere(c)'
  BY <1>1 DEF Nowhere
<1>3. AtNet(c) => AtNet(c)'
  BY <1>1 DEF AtNet, Sent
<1>4. AtQueue(c) => AtQueue(c)'
  BY <1>1 DEF AtQueue
<1>5. AtWorker(c) => AtWorker(c)'
  BY <1>1 DEF AtWorker
<1>6. AtBack(c) => AtBack(c)'
  BY <1>1 DEF AtBack, Answers
<1> QED BY <1>2, <1>3, <1>4, <1>5, <1>6 DEF InStep

(* The socket of a reliable network has room for every question that is on its way. *)
LEMMA RoomForIt ==
    ASSUME Inv, Reliable, \A c \in Clients : InStep(c), NEW q \in net
    PROVE  Len(queue) < network.size
<1> DEFINE Asking == {c \in Clients : network.asks[c] > 0}
           n == Len(queue) + 1
           f == [k \in 1 .. n |-> IF k = n THEN q.from ELSE queue[k].from]
<1>1. /\ n \in Nat /\ Len(queue) \in Nat /\ network.size \in Nat
      /\ \A k \in 1 .. Len(queue) : queue[k] \in Question
      /\ q \in Question
  BY NetworkTypes, LenProperties, ElementOfSeq DEF Inv, TypeOK
<1>2. \A r \in Question : r.from \in Clients /\ r.no \in Nat /\ r.no > 0
  BY UdpConstants DEF Question
<1>3. /\ Sent(q.from) = {q} /\ Buffered(q.from) = {} /\ q.no = asked[q.from]
  <2>1. AtNet(q.from)
    BY <1>1, <1>2, OnePlaceEach DEF Sent
  <2> QED BY <2>1 DEF AtNet, Sent
<1>4. \A k \in 1 .. Len(queue) : Buffered(queue[k].from) = {k} /\ queue[k].no = asked[queue[k].from]
  <2> SUFFICES ASSUME NEW k \in 1 .. Len(queue)
               PROVE  Buffered(queue[k].from) = {k} /\ queue[k].no = asked[queue[k].from]
    OBVIOUS
  <2>1. queue[k].from \in Clients /\ k \in Buffered(queue[k].from)
    BY <1>1, <1>2 DEF Buffered
  <2>2. AtQueue(queue[k].from)
    BY <2>1, OnePlaceEach
  <2> QED BY <2>1, <2>2 DEF AtQueue
<1>5. \A c \in Clients : asked[c] <= network.asks[c] /\ asked[c] \in Nat /\ network.asks[c] \in Nat
  BY NetworkTypes, UdpConstants DEF Inv, AskedInBounds, TypeOK
<1>6. f \in [1 .. n -> Asking]
  <2> SUFFICES ASSUME NEW k \in 1 .. n
               PROVE  (IF k = n THEN q.from ELSE queue[k].from) \in Asking
    OBVIOUS
  <2>1. CASE k = n
    BY <1>1, <1>2, <1>3, <1>5, <2>1
  <2>2. CASE k # n
    <3>1. k \in 1 .. Len(queue)
      BY <1>1, <2>2
    <3> QED BY <1>1, <1>2, <1>4, <1>5, <2>2, <3>1
  <2> QED BY <2>1, <2>2
<1>7. \A j, k \in 1 .. n : f[j] = f[k] => j = k
  <2> SUFFICES ASSUME NEW j \in 1 .. n, NEW k \in 1 .. n, f[j] = f[k], j # k
               PROVE  FALSE
    OBVIOUS
  <2>1. CASE j # n /\ k # n
    <3>1. j \in 1 .. Len(queue) /\ k \in 1 .. Len(queue) /\ queue[j].from = queue[k].from
      BY <1>1, <2>1
    <3> QED BY <1>4, <3>1
  <2>2. CASE j = n
    <3>1. k \in 1 .. Len(queue) /\ queue[k].from = q.from
      BY <1>1, <2>2
    <3> QED BY <1>3, <1>4, <3>1
  <2>3. CASE k = n
    <3>1. j \in 1 .. Len(queue) /\ queue[j].from = q.from
      BY <1>1, <2>3
    <3> QED BY <1>3, <1>4, <3>1
  <2> QED BY <2>1, <2>2, <2>3
<1> HIDE DEF f
<1>8. f \in Injection(1 .. n, Asking)
  BY <1>6, <1>7 DEF Injection, IsInjective
<1>9. IsFiniteSet(Asking)
  BY UdpConstants, FS_Subset
<1>10. Cardinality(1 .. n) <= Cardinality(Asking) /\ Cardinality(1 .. n) = n
  BY <1>1, <1>8, <1>9, FS_Injection, UpTo
<1>11. Cardinality(Asking) \in Nat
  BY <1>9, FS_CardinalityType
<1> QED BY <1>1, <1>10, <1>11 DEF Reliable

(* No client has asked yet. *)
LEMMA InitInStep == Init => \A c \in Clients : InStep(c)
BY DEF Init, InStep, Nowhere, Sent, Buffered, InWork, Answers

(* Every step of a reliable network takes a question from one place to the next. *)
LEMMA NextInStep ==
    ASSUME Inv, Inv', Reliable, \A c \in Clients : InStep(c), Next
    PROVE  \A c \in Clients : InStep(c)'
<1> SUFFICES ASSUME NEW d \in Clients
             PROVE  InStep(d)'
  OBVIOUS
<1>a. TypeOK /\ InStep(d)
  BY DEF Inv
<1>1. ASSUME NEW w \in Workers, Recv(w)
      PROVE  InStep(d)'
  <2>1. /\ queue # <<>> /\ Head(queue) = queue[1] /\ 1 \in 1 .. Len(queue)
        /\ Len(queue) \in Nat /\ Len(queue') = Len(queue) - 1
        /\ \A k \in 1 .. Len(queue') : queue'[k] = queue[k + 1]
    BY <1>1, <1>a, EmptySeq, HeadTailProperties, LenProperties DEF Recv, TypeOK
  <2>2. /\ InWork(d)' = IF queue[1].from = d THEN InWork(d) \cup {w} ELSE InWork(d)
        /\ w \notin InWork(d) /\ context'[w] = queue[1]
        /\ Sent(d)' = Sent(d) /\ Answers(d)' = Answers(d)
    BY <1>1, <1>a, <2>1 DEF Recv, TypeOK, InWork, Sent, Answers
  <2>3. CASE queue[1].from = d
    <3>1. 1 \in Buffered(d)
      BY <2>1, <2>3 DEF Buffered
    <3>2. AtQueue(d) /\ pc[d] = "wait"
      BY <1>a, <3>1, OnePlaceEach
    <3>3. Buffered(d) = {1} /\ queue[1].no = asked[d]
      BY <3>1, <3>2 DEF AtQueue
    <3>4. Buffered(d)' = {}
      <4> SUFFICES ASSUME NEW k \in Buffered(d)'
                   PROVE  FALSE
        OBVIOUS
      <4>1. k \in 1 .. Len(queue') /\ queue'[k].from = d
        BY DEF Buffered
      <4>2. k + 1 \in Buffered(d)
        BY <2>1, <4>1 DEF Buffered
      <4> QED BY <3>3, <4>1, <4>2
    <3>5. AtWorker(d)'
      BY <1>1, <2>2, <2>3, <3>2, <3>3, <3>4 DEF Recv, AtQueue, AtWorker
    <3> QED BY <1>1, <3>2, <3>5 DEF Recv, InStep
  <2>4. CASE queue[1].from # d
    <3>1. 1 \notin Buffered(d)
      BY <2>4 DEF Buffered
    <3>2. \A v \in InWork(d) : context'[v] = context[v]
      BY <1>1, <1>a, <2>2 DEF Recv, TypeOK
    <3> QED BY <1>1, <1>a, <2>1, <2>2, <2>4, <3>1, <3>2, OthersStay DEF Recv
  <2> QED BY <2>3, <2>4
<1>2. ASSUME NEW w \in Workers, Wake(w)
      PROVE  InStep(d)'
  <2>1. InWork(d)' = InWork(d) /\ Sent(d)' = Sent(d) /\ Buffered(d)' = Buffered(d)
        /\ Answers(d)' = Answers(d)
    BY <1>2, <1>a DEF Wake, TypeOK, InWork, Sent, Buffered, Answers
  <2> QED BY <1>2, <1>a, <2>1, OthersStay DEF Wake, Buffered
<1>3. ASSUME NEW w \in Workers, SendTo(w)
      PROVE  InStep(d)'
  <2> DEFINE g == [to |-> context[w].from, text |-> context[w]]
  <2>1. /\ g.to = context[w].from /\ g.text = context[w]
        /\ back' = back \cup {g}
        /\ thread[w] # "recv" /\ thread' = [thread EXCEPT ![w] = "recv"]
    BY <1>3 DEF SendTo
  <2> HIDE DEF g
  <2>2. /\ InWork(d)' = InWork(d) \ {w}
        /\ w \in InWork(d) <=> context[w].from = d
        /\ Answers(d)' = IF context[w].from = d THEN Answers(d) \cup {g} ELSE Answers(d)
        /\ Sent(d)' = Sent(d) /\ Buffered(d)' = Buffered(d)
    BY <1>3, <1>a, <2>1 DEF SendTo, TypeOK, InWork, Sent, Buffered, Answers
  <2>3. CASE context[w].from = d
    <3>1. AtWorker(d) /\ pc[d] = "wait"
      BY <1>a, <2>2, <2>3, OnePlaceEach
    <3>2. InWork(d) = {w} /\ context[w].no = asked[d]
      BY <2>2, <2>3, <3>1 DEF AtWorker
    <3>3. AtBack(d)'
      BY <1>3, <2>1, <2>2, <2>3, <3>1, <3>2 DEF SendTo, AtWorker, AtBack
    <3> QED BY <1>3, <3>1, <3>3 DEF SendTo, InStep
  <2>4. CASE context[w].from # d
    BY <1>3, <1>a, <2>2, <2>4, OthersStay DEF SendTo, Buffered
  <2> QED BY <2>3, <2>4
<1>4. ASSUME NEW w \in Workers, SendFails(w)
      PROVE  InStep(d)'
  <2>1. InWork(d)' = InWork(d) /\ Sent(d)' = Sent(d) /\ Buffered(d)' = Buffered(d)
        /\ Answers(d)' = Answers(d)
    BY <1>4 DEF SendFails, InWork, Sent, Buffered, Answers
  <2> QED BY <1>4, <1>a, <2>1, OthersStay DEF SendFails, Buffered
<1>5. ASSUME NEW c \in Clients, Ask(c)
      PROVE  InStep(d)'
  <2> DEFINE q == [from |-> c, no |-> asked[c] + 1]
  <2>1. net' = net \cup {q} /\ q.from = c /\ q.no = asked'[c]
    BY <1>5, <1>a DEF Ask, TypeOK
  <2> HIDE DEF q
  <2>2. /\ InWork(d)' = InWork(d) /\ Buffered(d)' = Buffered(d) /\ Answers(d)' = Answers(d)
        /\ Sent(d)' = IF c = d THEN Sent(d) \cup {q} ELSE Sent(d)
    BY <1>5, <2>1 DEF Ask, InWork, Sent, Buffered, Answers
  <2>3. CASE c = d
    <3>1. Nowhere(d)
      BY <1>5, <1>a, <2>3 DEF Ask, InStep
    <3>2. AtNet(d)'
      BY <2>1, <2>2, <2>3, <3>1 DEF Nowhere, AtNet
    <3>3. pc'[d] = "wait"
      BY <1>5, <1>a, <2>3 DEF Ask, TypeOK
    <3> QED BY <3>2, <3>3 DEF InStep
  <2>4. CASE c # d
    <3>1. UNCHANGED <<asked[d], pc[d]>>
      BY <1>5, <1>a, <2>4 DEF Ask, TypeOK
    <3> QED BY <1>5, <1>a, <2>2, <2>4, <3>1, OthersStay DEF Ask, Buffered
  <2> QED BY <2>3, <2>4
<1>6. ASSUME NEW c \in Clients, NEW g \in back, Receive(c, g)
      PROVE  InStep(d)'
  <2>1. /\ InWork(d)' = InWork(d) /\ Buffered(d)' = Buffered(d) /\ Sent(d)' = Sent(d)
        /\ Answers(d)' = Answers(d) \ {g}
        /\ g \in Answers(d) <=> c = d
    BY <1>6 DEF Receive, InWork, Sent, Buffered, Answers
  <2>2. CASE c = d
    <3>1. AtBack(d)
      BY <1>a, <2>1, <2>2, OnePlaceEach
    <3>2. Answers(d) = {g} /\ g.text.no = asked[d]
      BY <2>1, <2>2, <3>1 DEF AtBack
    <3>3. Nowhere(d)'
      BY <2>1, <3>1, <3>2 DEF AtBack, Nowhere
    <3>4. pc'[d] = "enter" /\ result'[d] = asked'[d]
      BY <1>6, <1>a, <2>2, <3>2 DEF Receive, TypeOK
    <3> QED BY <3>3, <3>4 DEF InStep
  <2>3. CASE c # d
    <3>1. UNCHANGED <<result[d], pc[d]>>
      BY <1>6, <1>a, <2>3 DEF Receive, TypeOK
    <3> QED BY <1>6, <1>a, <2>1, <2>3, <3>1, OthersStay DEF Receive, Buffered
  <2> QED BY <2>2, <2>3
<1>7. ASSUME NEW q \in net, Deliver(q)
      PROVE  InStep(d)'
  <2> DEFINE n == Len(queue) + 1
  <2>1. /\ Len(queue) \in Nat /\ Len(queue') = n /\ queue'[n] = q
        /\ \A k \in 1 .. Len(queue) : queue'[k] = queue[k]
    BY <1>7, <1>a, AppendProperties, LenProperties DEF Deliver, TypeOK
  <2>2. net' = net \ {q}
    BY <1>7 DEF Deliver, Reliable
  <2>3. /\ InWork(d)' = InWork(d) /\ Answers(d)' = Answers(d)
        /\ Sent(d)' = Sent(d) \ {q}
        /\ q \in Sent(d) <=> q.from = d
    BY <1>7, <2>2 DEF Deliver, InWork, Sent, Answers
  <2>4. Buffered(d)' = IF q.from = d THEN Buffered(d) \cup {n} ELSE Buffered(d)
    <3>1. \A k \in 1 .. n : k = n \/ k \in 1 .. Len(queue)
      BY <2>1
    <3>2. Buffered(d)' = {k \in 1 .. n : queue'[k].from = d}
      BY <2>1 DEF Buffered
    <3> QED BY <2>1, <3>1, <3>2 DEF Buffered
  <2>5. CASE q.from = d
    <3>1. AtNet(d) /\ pc[d] = "wait"
      BY <1>a, <2>3, <2>5, OnePlaceEach
    <3>2. Sent(d) = {q} /\ q.no = asked[d]
      BY <2>3, <2>5, <3>1 DEF AtNet
    <3>3. AtQueue(d)'
      BY <1>7, <2>1, <2>3, <2>4, <2>5, <3>1, <3>2 DEF Deliver, AtNet, AtQueue
    <3> QED BY <1>7, <3>1, <3>3 DEF Deliver, InStep
  <2>6. CASE q.from # d
    <3>1. \A k \in Buffered(d) : queue'[k] = queue[k] /\ k \in 1 .. Len(queue')
      BY <2>1 DEF Buffered
    <3> QED BY <1>7, <1>a, <2>3, <2>4, <2>6, <3>1, OthersStay DEF Deliver
  <2> QED BY <2>5, <2>6
<1>8. ASSUME NEW q \in net, Drop(q)
      PROVE  InStep(d)'
  <2>1. ~alive
    <3>1. Len(queue) < network.size /\ Len(queue) \in Nat /\ network.size \in Nat
      BY <1>a, RoomForIt, NetworkTypes, LenProperties DEF TypeOK
    <3> QED BY <1>8, <3>1 DEF Drop, Reliable
  <2>2. /\ InWork(d)' = InWork(d) /\ Buffered(d)' = Buffered(d) /\ Answers(d)' = Answers(d)
        /\ Sent(d)' = Sent(d) \ {q}
        /\ q \in Sent(d) <=> q.from = d
    BY <1>8 DEF Drop, InWork, Sent, Buffered, Answers
  <2>3. CASE q.from = d
    <3>1. AtNet(d) /\ pc[d] = "wait"
      BY <1>a, <2>2, <2>3, OnePlaceEach
    <3>2. Nowhere(d)'
      BY <2>2, <2>3, <3>1 DEF AtNet, Nowhere
    <3> QED BY <1>8, <2>1, <3>1, <3>2 DEF Drop, InStep
  <2>4. CASE q.from # d
    BY <1>8, <1>a, <2>2, <2>4, OthersStay DEF Drop, Buffered
  <2> QED BY <2>3, <2>4
<1>9. ASSUME NEW g \in back, LoseGreeting(g)
      PROVE  InStep(d)'
  BY <1>9 DEF LoseGreeting, Reliable
<1> QED BY <1>1, <1>2, <1>3, <1>4, <1>5, <1>6, <1>7, <1>8, <1>9 DEF Next, Serve

(***************************************************************************)
(* Every question is where IInv says it is, for any number of clients and  *)
(* workers, any buffer, and a network that may lose and duplicate.         *)
(***************************************************************************)
THEOREM InductiveInvariant == Spec => []IInv
<1>1. Init => IInv
  BY InitInv, InitInStep DEF IInv
<1>2. IInv /\ [Next]_vars => IInv'
  <2> SUFFICES ASSUME IInv, [Next]_vars, Reliable'
               PROVE  Inv' /\ \A c \in Clients : InStep(c)'
    BY NextInv DEF IInv
  <2>1. Inv'
    BY NextInv DEF IInv
  <2>2. network' = network
    BY DEF Next, Serve, Recv, Wake, SendTo, SendFails, Ask, Receive, Deliver, Drop, LoseGreeting,
           vars
  <2>3. Reliable
    BY <2>2 DEF Reliable
  <2>4. CASE Next
    BY <2>1, <2>3, <2>4, NextInStep DEF IInv
  <2>5. CASE UNCHANGED vars
    BY <2>1, <2>3, <2>5 DEF IInv, vars, InStep, Nowhere, AtNet, AtQueue, AtWorker, AtBack,
                            Sent, Buffered, InWork, Answers
  <2> QED BY <2>1, <2>4, <2>5
<1> QED BY <1>1, <1>2, PTL DEF Spec

(* A question is in as many places as InStep says. *)
LEMMA CopiesInStep ==
    ASSUME NEW c \in Clients
    PROVE  /\ Nowhere(c) => Copies(c) = 0
           /\ AtNet(c) \/ AtQueue(c) \/ AtWorker(c) \/ AtBack(c) => Copies(c) = 1
<1>1. \A x : Cardinality({x}) = 1
  BY FS_Singleton
<1>2. Cardinality({}) = 0
  BY FS_EmptySet
<1>3. ASSUME Nowhere(c) PROVE Copies(c) = 0
  BY <1>2, <1>3 DEF Copies, Nowhere
<1>4. ASSUME AtNet(c) PROVE Copies(c) = 1
  <2>1. Cardinality(Sent(c)) = 1
    BY <1>1, <1>4 DEF AtNet
  <2> QED BY <1>2, <1>4, <2>1 DEF Copies, AtNet
<1>5. ASSUME AtQueue(c) PROVE Copies(c) = 1
  <2>1. Cardinality(Buffered(c)) = 1
    BY <1>1, <1>5 DEF AtQueue
  <2> QED BY <1>2, <1>5, <2>1 DEF Copies, AtQueue
<1>6. ASSUME AtWorker(c) PROVE Copies(c) = 1
  <2>1. Cardinality(InWork(c)) = 1
    BY <1>1, <1>6 DEF AtWorker
  <2> QED BY <1>2, <1>6, <2>1 DEF Copies, AtWorker
<1>7. ASSUME AtBack(c) PROVE Copies(c) = 1
  <2>1. Cardinality(Answers(c)) = 1
    BY <1>1, <1>7 DEF AtBack
  <2> QED BY <1>2, <1>7, <2>1 DEF Copies, AtBack
<1> QED BY <1>3, <1>4, <1>5, <1>6, <1>7

(***************************************************************************)
(* On a network that keeps its datagrams, with room in the socket for one  *)
(* of each client, a question is in exactly one place while its client     *)
(* waits, in none otherwise, and a client that does not wait has printed   *)
(* the greeting for its latest question.                                   *)
(***************************************************************************)
THEOREM InStepWithClients == Spec => []OneCopyInStep
<1>1. IInv => OneCopyInStep
  <2> SUFFICES ASSUME IInv, Reliable, NEW c \in Clients
               PROVE  /\ alive => Copies(c) = IF pc[c] = "wait" THEN 1 ELSE 0
                      /\ pc[c] = "enter" => result[c] = asked[c]
    BY DEF OneCopyInStep
  <2>1. InStep(c) /\ pc[c] \in {"enter", "wait"}
    BY DEF IInv, Inv, TypeOK
  <2>2. CASE pc[c] = "enter"
    BY <2>1, <2>2, CopiesInStep DEF InStep
  <2>3. CASE pc[c] = "wait"
    BY <2>1, <2>3, CopiesInStep DEF InStep
  <2> QED BY <2>1, <2>2, <2>3
<1> QED BY <1>1, InductiveInvariant, PTL

(* Where there are no copies, there is nothing. *)
LEMMA NoCopies ==
    ASSUME Inv, NEW c \in Clients
    PROVE  Copies(c) = 0 <=> Nowhere(c)
<1>1. /\ IsFiniteSet(Sent(c)) /\ IsFiniteSet(Answers(c)) /\ IsFiniteSet(InWork(c))
  BY FS_Subset, UdpConstants DEF Inv, FinitelyMany, Sent, Answers, InWork
<1>2. IsFiniteSet(Buffered(c))
  <2>1. IsFiniteSet(1 .. Len(queue))
    BY LenProperties, UpTo DEF Inv, TypeOK
  <2> QED BY <2>1, FS_Subset DEF Buffered
<1>3. /\ Cardinality(Sent(c)) \in Nat /\ Cardinality(Buffered(c)) \in Nat
      /\ Cardinality(InWork(c)) \in Nat /\ Cardinality(Answers(c)) \in Nat
  BY <1>1, <1>2, FS_CardinalityType
<1>4. ASSUME Copies(c) = 0
      PROVE  Nowhere(c)
  <2>1. /\ Cardinality(Sent(c)) = 0 /\ Cardinality(Buffered(c)) = 0
        /\ Cardinality(InWork(c)) = 0 /\ Cardinality(Answers(c)) = 0
    <3>1. \A i, j, k, l \in Nat : i + j + k + l = 0 => i = 0 /\ j = 0 /\ k = 0 /\ l = 0
      OBVIOUS
    <3> QED BY <1>3, <1>4, <3>1 DEF Copies
  <2> QED BY <1>1, <1>2, <2>1, FS_EmptySet DEF Nowhere
<1> QED BY <1>4, CopiesInStep

(* A client whose question or greeting is lost waits for good, on any network. *)
THEOREM LostStaysLost == Spec => LostForGood
<1>1. Inv /\ Inv' /\ [Next]_vars =>
         [\A c \in Clients : pc[c] = "wait" /\ Copies(c) = 0
                               => pc'[c] = "wait" /\ Copies(c)' = 0]_vars
  <2> SUFFICES ASSUME Inv, Inv', Next, NEW c \in Clients, pc[c] = "wait", Nowhere(c)
               PROVE  pc'[c] = "wait" /\ Nowhere(c)'
    <3>1. Cardinality({}) = 0
      BY FS_EmptySet
    <3>2. \A c \in Clients : Nowhere(c)' => Copies(c)' = 0
      BY <3>1 DEF Copies, Nowhere
    <3> QED BY <3>2, NoCopies
  <2>1. \A q \in net : q.from # c
    BY DEF Nowhere, Sent
  <2>2. \A k \in 1 .. Len(queue) : queue[k].from # c
    BY DEF Nowhere, Buffered
  <2>3. \A w \in Workers : thread[w] # "recv" => context[w].from # c
    BY DEF Nowhere, InWork
  <2>4. \A g \in back : g.to # c
    BY DEF Nowhere, Answers
  <2>5. ASSUME NEW w \in Workers, Recv(w)
        PROVE  pc'[c] = "wait" /\ Nowhere(c)'
    <3>1. /\ Head(queue) = queue[1] /\ 1 \in 1 .. Len(queue) /\ Len(queue) \in Nat
          /\ Len(queue') = Len(queue) - 1
          /\ \A k \in 1 .. Len(queue') : queue'[k] = queue[k + 1]
      BY <2>5, EmptySeq, HeadTailProperties, LenProperties DEF Recv, Inv, TypeOK
    <3>2. \A k \in 1 .. Len(queue') : k + 1 \in 1 .. Len(queue)
      BY <3>1
    <3>3. Buffered(c)' = {}
      BY <2>2, <3>1, <3>2 DEF Buffered
    <3>4. InWork(c)' = {}
      BY <2>2, <2>3, <2>5, <3>1 DEF Recv, InWork, Inv, TypeOK
    <3> QED BY <2>5, <3>3, <3>4 DEF Recv, Nowhere, Sent, Answers
  <2>6. ASSUME NEW w \in Workers, Wake(w) \/ SendTo(w) \/ SendFails(w)
        PROVE  pc'[c] = "wait" /\ Nowhere(c)'
    <3>1. Sent(c)' = {} /\ Buffered(c)' = {}
      BY <2>1, <2>2, <2>6 DEF Wake, SendTo, SendFails, Sent, Buffered
    <3>2. InWork(c)' = {}
      BY <2>3, <2>6 DEF Wake, SendTo, SendFails, InWork, Inv, TypeOK
    <3>3. Answers(c)' = {}
      BY <2>3, <2>4, <2>6 DEF Wake, SendTo, SendFails, Answers
    <3> QED BY <2>6, <3>1, <3>2, <3>3 DEF Wake, SendTo, SendFails, Nowhere
  <2>7. ASSUME NEW d \in Clients, Ask(d)
        PROVE  pc'[c] = "wait" /\ Nowhere(c)'
    <3>1. d # c /\ pc'[c] = "wait"
      BY <2>7 DEF Ask, Inv, TypeOK
    <3> QED BY <2>1, <2>2, <2>3, <2>4, <2>7, <3>1
            DEF Ask, Nowhere, Sent, Buffered, InWork, Answers
  <2>8. ASSUME NEW d \in Clients, NEW g \in back, Receive(d, g)
        PROVE  pc'[c] = "wait" /\ Nowhere(c)'
    <3>1. d # c /\ pc'[c] = "wait"
      BY <2>4, <2>8 DEF Receive, Inv, TypeOK
    <3> QED BY <2>1, <2>2, <2>3, <2>4, <2>8, <3>1
            DEF Receive, Nowhere, Sent, Buffered, InWork, Answers
  <2>9. ASSUME NEW q \in net, Deliver(q)
        PROVE  pc'[c] = "wait" /\ Nowhere(c)'
    <3>1. /\ Len(queue') = Len(queue) + 1 /\ Len(queue) \in Nat /\ queue'[Len(queue) + 1] = q
          /\ \A k \in 1 .. Len(queue) : queue'[k] = queue[k]
      BY <2>9, AppendProperties, LenProperties DEF Deliver, Inv, TypeOK
    <3>2. Buffered(c)' = {}
      BY <2>1, <2>2, <3>1 DEF Buffered
    <3> QED BY <2>1, <2>3, <2>4, <2>9, <3>2 DEF Deliver, Nowhere, Sent, InWork, Answers
  <2>10. ASSUME NEW q \in net, Drop(q)
         PROVE  pc'[c] = "wait" /\ Nowhere(c)'
    BY <2>1, <2>2, <2>3, <2>4, <2>10 DEF Drop, Nowhere, Sent, Buffered, InWork, Answers
  <2>11. ASSUME NEW g \in back, LoseGreeting(g)
         PROVE  pc'[c] = "wait" /\ Nowhere(c)'
    BY <2>1, <2>2, <2>3, <2>4, <2>11 DEF LoseGreeting, Nowhere, Sent, Buffered, InWork, Answers
  <2> QED BY <2>5, <2>6, <2>7, <2>8, <2>9, <2>10, <2>11 DEF Next, Serve
<1> QED BY <1>1, Invariance, NextInv, PTL DEF Spec, LostForGood
=============================================================================
