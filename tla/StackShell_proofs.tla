------------------------- MODULE StackShell_proofs -------------------------
(* Proofs about StackShell, for stacks and pipes of any size and input of  *)
(* any length.                                                             *)
EXTENDS StackShell, ProofLemmas

-----------------------------------------------------------------------------
(* What Runs computes.  It is a recursive function: g is one for commands  *)
(* c on a range when it satisfies the equation that defines it.            *)

AreRuns(g, c, a, b) ==
    g = [j \in a .. b |-> IF j = a THEN <<>> ELSE Run(g[j - 1], c[j].op, c[j].arg)]

(* The equation has one solution at most, and commands that agree have the same one. *)
LEMMA RunsSame ==
    ASSUME NEW a \in Int, NEW b \in Int, NEW c, NEW e, NEW g, NEW h,
           AreRuns(g, c, a, b), AreRuns(h, e, a, b),
           \A j \in a + 1 .. b : c[j] = e[j]
    PROVE  g = h
<1> DEFINE Differ == {n \in Nat : a + n <= b /\ g[a + n] # h[a + n]}
<1>1. /\ DOMAIN g = a .. b /\ DOMAIN h = a .. b
      /\ \A j \in a .. b : g[j] = IF j = a THEN <<>> ELSE Run(g[j - 1], c[j].op, c[j].arg)
      /\ \A j \in a .. b : h[j] = IF j = a THEN <<>> ELSE Run(h[j - 1], e[j].op, e[j].arg)
      /\ g = [j \in a .. b |-> g[j]] /\ h = [j \in a .. b |-> h[j]]
  BY DEF AreRuns
<1>2. Differ = {}
  <2>1. SUFFICES ASSUME Differ # {} PROVE FALSE
    OBVIOUS
  <2>2. PICK m \in Differ : \A n \in Differ : m <= n
    BY <2>1, LeastNumber
  <2>3. m \in Nat /\ a + m \in a .. b /\ g[a + m] # h[a + m]
    OBVIOUS
  <2>4. m # 0
    <3>1. SUFFICES ASSUME m = 0 PROVE FALSE
      OBVIOUS
    <3>2. a + m = a /\ a \in a .. b
      BY <2>3, <3>1
    <3>3. g[a] = <<>> /\ h[a] = <<>>
      BY <1>1, <3>2
    <3> QED BY <2>3, <3>2, <3>3
  <2>5. m - 1 \in Nat /\ m - 1 \notin Differ /\ a + (m - 1) = (a + m) - 1
        /\ a + m \in a + 1 .. b /\ a + m # a
    BY <2>2, <2>3, <2>4
  <2>6. g[(a + m) - 1] = h[(a + m) - 1]
    BY <2>3, <2>5
  <2>7. c[a + m] = e[a + m]
    BY <2>5
  <2> QED BY <1>1, <2>3, <2>5, <2>6, <2>7
<1>3. \A j \in a .. b : g[j] = h[j]
  <2>1. SUFFICES ASSUME NEW j \in a .. b PROVE g[j] = h[j]
    OBVIOUS
  <2>2. j - a \in Nat /\ a + (j - a) = j /\ j <= b
    OBVIOUS
  <2>3. j - a \notin Differ
    BY <1>2
  <2> QED BY <2>2, <2>3
<1> QED BY <1>1, <1>3

(* Every non-empty range has a solution. *)
LEMMA RunsExist ==
    ASSUME NEW a \in Int, NEW c, NEW k \in Nat
    PROVE  \E g : AreRuns(g, c, a, a + k)
<1> DEFINE Without == {n \in Nat : ~ \E g : AreRuns(g, c, a, a + n)}
<1>1. SUFFICES Without = {}
  OBVIOUS
<1>2. SUFFICES ASSUME Without # {} PROVE FALSE
  OBVIOUS
<1>3. PICK m \in Without : \A n \in Without : m <= n
  BY <1>2, LeastNumber
<1>4. m \in Nat /\ ~ \E g : AreRuns(g, c, a, a + m)
  OBVIOUS
<1>5. m # 0
  <2>1. AreRuns([j \in a .. a + 0 |-> <<>>], c, a, a + 0)
    <3>1. \A j \in a .. a + 0 : j = a
      OBVIOUS
    <3> QED BY <3>1 DEF AreRuns
  <2> QED BY <1>4, <2>1
<1>6. m - 1 \in Nat /\ m - 1 \notin Without
  BY <1>3, <1>4, <1>5
<1>7. PICK g : AreRuns(g, c, a, a + (m - 1))
  BY <1>6
<1> DEFINE h == [j \in a .. a + m |->
                    IF j = a + m THEN Run(g[(a + m) - 1], c[j].op, c[j].arg) ELSE g[j]]
<1>8. ASSUME NEW j \in a .. a + m
      PROVE  h[j] = IF j = a THEN <<>> ELSE Run(h[j - 1], c[j].op, c[j].arg)
  <2>1. CASE j = a + m
    <3>1. j # a /\ j - 1 \in a .. a + m /\ j - 1 # a + m
      BY <1>4, <1>5, <2>1
    <3>2. h[j - 1] = g[j - 1] /\ h[j] = Run(g[j - 1], c[j].op, c[j].arg)
      BY <2>1, <3>1
    <3> QED BY <3>1, <3>2
  <2>2. CASE j # a + m
    <3>1. j \in a .. a + (m - 1) /\ h[j] = g[j]
      BY <1>4, <2>2
    <3>2. g[j] = IF j = a THEN <<>> ELSE Run(g[j - 1], c[j].op, c[j].arg)
      BY <1>7, <3>1 DEF AreRuns
    <3>3. j # a => j - 1 \in a .. a + m /\ j - 1 # a + m
      BY <1>4, <2>2
    <3>4. j # a => h[j - 1] = g[j - 1]
      BY <3>3
    <3> QED BY <3>1, <3>2, <3>4
  <2> QED BY <2>1, <2>2
<1>9. AreRuns(h, c, a, a + m)
  <2>1. h = [j \in a .. a + m |-> h[j]]
    OBVIOUS
  <2> HIDE DEF h
  <2> QED BY <1>8, <2>1 DEF AreRuns
<1> QED BY <1>4, <1>9

(* A run over any range is the value of the one function that satisfies the recursion. *)
LEMMA RunsDefined ==
    ASSUME NEW a \in Int, NEW b \in Int, a <= b, NEW c
    PROVE  \E g : AreRuns(g, c, a, b) /\ Runs(c, a, b) = g[b]
<1>1. PICK g : AreRuns(g, c, a, b)
  <2>1. b - a \in Nat /\ a + (b - a) = b
    OBVIOUS
  <2>2. \E g : AreRuns(g, c, a, a + (b - a))
    BY <2>1, RunsExist
  <2> QED BY <2>1, <2>2
<1>2. \A h : AreRuns(h, c, a, b) => h = g
  BY <1>1, RunsSame
<1>3. Runs(c, a, b) = g[b]
  BY <1>1, <1>2 DEF Runs, AreRuns
<1> QED BY <1>1, <1>3

(* One command more is one Run more. *)
LEMMA RunsStep ==
    ASSUME NEW a \in Int, NEW b \in Int, a < b, NEW c
    PROVE  Runs(c, a, b) = Run(Runs(c, a, b - 1), c[b].op, c[b].arg)
<1>1. PICK g : AreRuns(g, c, a, b) /\ Runs(c, a, b) = g[b]
  BY RunsDefined
<1>2. b - 1 \in Int /\ a <= b - 1
  OBVIOUS
<1>3. PICK h : AreRuns(h, c, a, b - 1) /\ Runs(c, a, b - 1) = h[b - 1]
  BY <1>2, RunsDefined
<1> DEFINE f == [j \in a .. b - 1 |-> g[j]]
<1>4. AreRuns(f, c, a, b - 1)
  <2>1. ASSUME NEW j \in a .. b - 1
        PROVE  f[j] = IF j = a THEN <<>> ELSE Run(f[j - 1], c[j].op, c[j].arg)
    <3>1. j \in a .. b /\ (j # a => j - 1 \in a .. b - 1)
      OBVIOUS
    <3>2. f[j] = g[j] /\ (j # a => f[j - 1] = g[j - 1])
      BY <3>1
    <3>3. g[j] = IF j = a THEN <<>> ELSE Run(g[j - 1], c[j].op, c[j].arg)
      BY <1>1, <3>1 DEF AreRuns
    <3> QED BY <3>2, <3>3
  <2>2. f = [j \in a .. b - 1 |-> f[j]]
    OBVIOUS
  <2> HIDE DEF f
  <2> QED BY <2>1, <2>2 DEF AreRuns
<1>5. f = h
  <2> HIDE DEF f
  <2> QED BY <1>2, <1>3, <1>4, RunsSame
<1>6. b \in a .. b /\ b # a /\ b - 1 \in a .. b - 1
  OBVIOUS
<1>7. g[b] = Run(g[b - 1], c[b].op, c[b].arg)
  BY <1>1, <1>6 DEF AreRuns
<1> QED BY <1>1, <1>3, <1>5, <1>6, <1>7

(* No command leaves the stack empty. *)
LEMMA RunsNone ==
    ASSUME NEW a \in Int, NEW c
    PROVE  Runs(c, a, a) = <<>>
<1>1. PICK g : AreRuns(g, c, a, a) /\ Runs(c, a, a) = g[a]
  BY RunsDefined
<1>2. a \in a .. a
  OBVIOUS
<1> QED BY <1>1, <1>2 DEF AreRuns

(* Runs depends on the commands of its range only. *)
LEMMA RunsAgree ==
    ASSUME NEW a \in Int, NEW b \in Int, a <= b, NEW c, NEW e,
           \A j \in a + 1 .. b : c[j] = e[j]
    PROVE  Runs(c, a, b) = Runs(e, a, b)
<1>1. PICK g : AreRuns(g, c, a, b) /\ Runs(c, a, b) = g[b]
  BY RunsDefined
<1>2. PICK h : AreRuns(h, e, a, b) /\ Runs(e, a, b) = h[b]
  BY RunsDefined
<1> QED BY <1>1, <1>2, RunsSame

-----------------------------------------------------------------------------
(* The replay of the lines *)

(* The greatest of some numbers up to a bound, which Max finds. *)
LEMMA MaxIsGreatest ==
    ASSUME NEW k \in Nat, NEW T \in SUBSET (1 .. k), T # {}
    PROVE  Max(T) \in T /\ \A j \in T : j <= Max(T)
<1> DEFINE Below == {k - j : j \in T}
<1>1. PICK m \in Below : \A n \in Below : m <= n
  <2>1. \A j \in T : k - j \in Nat
    OBVIOUS
  <2>2. Below \in SUBSET Nat /\ Below # {}
    BY <2>1
  <2> QED BY <2>2, LeastNumber
<1>2. PICK g \in T : m = k - g
  OBVIOUS
<1>3. \A j \in T : g >= j
  <2>1. SUFFICES ASSUME NEW j \in T PROVE g >= j
    OBVIOUS
  <2>2. k - g <= k - j
    BY <1>1, <1>2
  <2> QED BY <2>2
<1>4. Max(T) \in T /\ \A j \in T : Max(T) >= j
  <2>1. \E g0 \in T : \A j \in T : g0 >= j
    BY <1>3
  <2> QED BY <2>1 DEF Max
<1> QED BY <1>4

(* The smaller of two. *)
LEMMA MinOfTwo ==
    ASSUME NEW j \in Int, NEW k \in Int
    PROVE  Min({j, k}) = IF j <= k THEN j ELSE k
<1>1. \A m \in {j, k} : (\A n \in {j, k} : m <= n) <=> m = IF j <= k THEN j ELSE k
  OBVIOUS
<1>2. (IF j <= k THEN j ELSE k) \in {j, k}
  OBVIOUS
<1> QED BY <1>1, <1>2 DEF Min

Created(k) == \E j \in 1 .. k : input[j].op = "create"

(* The create that a replay starts from is the latest of them. *)
LEMMA LastCreateIs ==
    ASSUME NEW k \in Nat, Created(k)
    PROVE  /\ LastCreate(k) \in 1 .. k /\ input[LastCreate(k)].op = "create"
           /\ \A j \in 1 .. k : input[j].op = "create" => j <= LastCreate(k)
<1> DEFINE T == {j \in 1 .. k : input[j].op = "create"}
<1>1. T \in SUBSET (1 .. k) /\ T # {}
  BY DEF Created
<1>2. Max(T) \in T /\ \A j \in T : j <= Max(T)
  BY <1>1, MaxIsGreatest
<1> QED BY <1>2 DEF LastCreate

(* The commands of a replay: the lines, and then the last one again and again. *)
LEMMA RepeatedIs ==
    ASSUME NEW k \in Nat, NEW n \in Nat
    PROVE  /\ \A j \in 1 .. k : Repeated(k, n)[j] = [op |-> input[j].op, arg |-> ArgumentOf(j)]
           /\ \A j \in k .. k + n : j >= 1 =>
                 Repeated(k, n)[j] = [op |-> input[k].op, arg |-> ArgumentOf(k)]
<1>1. ASSUME NEW j \in 1 .. k + n
      PROVE  Repeated(k, n)[j] = IF j <= k THEN [op |-> input[j].op, arg |-> ArgumentOf(j)]
                                 ELSE [op |-> input[k].op, arg |-> ArgumentOf(k)]
  BY MinOfTwo DEF Repeated
<1>2. ASSUME NEW j \in 1 .. k
      PROVE  Repeated(k, n)[j] = [op |-> input[j].op, arg |-> ArgumentOf(j)]
  BY <1>1
<1>3. ASSUME NEW j \in k .. k + n, j >= 1
      PROVE  Repeated(k, n)[j] = [op |-> input[k].op, arg |-> ArgumentOf(k)]
  <2>1. j \in 1 .. k + n /\ (j <= k => j = k)
    BY <1>3
  <2> QED BY <1>1, <2>1
<1> QED BY <1>2, <1>3

(* A create starts the replay anew. *)
LEMMA ReplayCreate ==
    ASSUME NEW k \in Nat \ {0}, input[k].op = "create"
    PROVE  Replay(k, 0) = <<>>
<1>1. Created(k) /\ k \in 1 .. k
  BY DEF Created
<1>2. LastCreate(k) = k
  <2>1. LastCreate(k) \in 1 .. k /\ k <= LastCreate(k)
    BY <1>1, LastCreateIs
  <2> QED BY <2>1
<1>3. Runs(Repeated(k, 0), k, k) = <<>>
  BY RunsNone
<1>4. k + 0 = k
  OBVIOUS
<1> QED BY <1>2, <1>3, <1>4 DEF Replay

(* Every other line is one Run more. *)
LEMMA ReplayNext ==
    ASSUME NEW k \in Nat, Created(k), input[k + 1].op # "create"
    PROVE  Replay(k + 1, 0) = Run(Replay(k, 0), input[k + 1].op, ArgumentOf(k + 1))
<1> DEFINE L == LastCreate(k)
<1>1. L \in 1 .. k /\ L \in Int /\ k \in Int /\ L <= k /\ k + 1 \in Int /\ L < k + 1
      /\ (k + 1) - 1 = k /\ k + 0 = k /\ (k + 1) + 0 = k + 1 /\ k + 1 \in 1 .. k + 1 /\ 0 \in Nat
  BY LastCreateIs
<1>2. LastCreate(k + 1) = L
  <2>1. {j \in 1 .. k + 1 : input[j].op = "create"} = {j \in 1 .. k : input[j].op = "create"}
    OBVIOUS
  <2> QED BY <2>1 DEF LastCreate
<1> HIDE DEF L
<1> DEFINE c == Repeated(k + 1, 0)
<1>3. c[k + 1] = [op |-> input[k + 1].op, arg |-> ArgumentOf(k + 1)]
  BY <1>1, RepeatedIs
<1>4. Runs(c, L, k) = Runs(Repeated(k, 0), L, k)
  <2>1. \A j \in 1 .. k + 1 : c[j] = [op |-> input[j].op, arg |-> ArgumentOf(j)]
    <3>1. k + 1 \in Nat /\ 0 \in Nat
      OBVIOUS
    <3> QED BY <3>1, RepeatedIs, Zenon
  <2>2. \A j \in 1 .. k : Repeated(k, 0)[j] = [op |-> input[j].op, arg |-> ArgumentOf(j)]
    BY <1>1, RepeatedIs
  <2> HIDE DEF c
  <2>3. \A j \in L + 1 .. k : j \in 1 .. k /\ j \in 1 .. k + 1
    BY <1>1
  <2>4. \A j \in L + 1 .. k : c[j] = Repeated(k, 0)[j]
    BY <2>1, <2>2, <2>3
  <2>5. L \in Int /\ k \in Int /\ L <= k
    BY <1>1
  <2> QED BY <2>4, <2>5, RunsAgree, Zenon
<1>5. Runs(c, L, k + 1) = Run(Runs(c, L, (k + 1) - 1), c[k + 1].op, c[k + 1].arg)
  <2> HIDE DEF c
  <2> QED BY <1>1, RunsStep
<1>6. Replay(k + 1, 0) = Runs(c, L, k + 1) /\ Replay(k, 0) = Runs(Repeated(k, 0), L, k)
  BY <1>1, <1>2 DEF Replay, L
<1> HIDE DEF c
<1> QED BY <1>1, <1>3, <1>4, <1>5, <1>6

(* So is the last line run once more. *)
LEMMA ReplayAgain ==
    ASSUME NEW k \in Nat, NEW n \in Nat, Created(k)
    PROVE  Replay(k, n + 1) = Run(Replay(k, n), input[k].op, ArgumentOf(k))
<1> DEFINE L == LastCreate(k)
           m == k + n
           c == Repeated(k, n + 1)
<1>1. L \in 1 .. k /\ L \in Int /\ m \in Int /\ L <= m /\ m + 1 \in Int /\ L < m + 1
      /\ (m + 1) - 1 = m /\ k + (n + 1) = m + 1 /\ n + 1 \in Nat
      /\ m + 1 \in k .. k + (n + 1) /\ m + 1 >= 1
  BY LastCreateIs
<1>2. c[m + 1] = [op |-> input[k].op, arg |-> ArgumentOf(k)]
  BY <1>1, RepeatedIs
<1>3. \A j \in 1 .. m : c[j] = Repeated(k, n)[j]
  <2>1. SUFFICES ASSUME NEW j \in 1 .. m PROVE c[j] = Repeated(k, n)[j]
    OBVIOUS
  <2>2. CASE j <= k
    <3>1. j \in 1 .. k
      BY <2>2
    <3>2. c[j] = [op |-> input[j].op, arg |-> ArgumentOf(j)]
      BY <1>1, <3>1, RepeatedIs
    <3>3. Repeated(k, n)[j] = [op |-> input[j].op, arg |-> ArgumentOf(j)]
      BY <3>1, RepeatedIs
    <3> QED BY <3>2, <3>3
  <2>3. CASE ~(j <= k)
    <3>1. j \in k .. k + n /\ j \in k .. k + (n + 1) /\ j >= 1
      BY <2>3
    <3>2. c[j] = [op |-> input[k].op, arg |-> ArgumentOf(k)]
      BY <1>1, <3>1, RepeatedIs
    <3>3. Repeated(k, n)[j] = [op |-> input[k].op, arg |-> ArgumentOf(k)]
      BY <3>1, RepeatedIs
    <3> QED BY <3>2, <3>3
  <2> QED BY <2>2, <2>3
<1> HIDE DEF c, L, m
<1>4. Runs(c, L, m) = Runs(Repeated(k, n), L, m)
  <2>1. \A j \in L + 1 .. m : j \in 1 .. m
    BY <1>1
  <2> QED BY <1>1, <1>3, <2>1, RunsAgree
<1>5. Runs(c, L, m + 1) = Run(Runs(c, L, (m + 1) - 1), c[m + 1].op, c[m + 1].arg)
  BY <1>1, RunsStep
<1>6. Replay(k, n + 1) = Runs(c, L, m + 1) /\ Replay(k, n) = Runs(Repeated(k, n), L, m)
  BY <1>1 DEF Replay, L, m, c
<1> QED BY <1>1, <1>2, <1>4, <1>5, <1>6

(* A line more at the end of the input changes nothing that was replayed before. *)
LEMMA ReplayStays ==
    ASSUME NEW k \in Nat, NEW n \in Nat, \A j \in 1 .. k : input'[j] = input[j]
    PROVE  /\ Created(k)' <=> Created(k)
           /\ ArgumentOf(k)' = ArgumentOf(k)
           /\ Created(k) => Replay(k, n)' = Replay(k, n)
<1>1. Created(k)' <=> Created(k)
  BY DEF Created
<1>2. ASSUME NEW i \in 0 .. k
      PROVE  ArgumentOf(i)' = ArgumentOf(i)
  <2>1. {j \in 1 .. i : input'[j].arg # None} = {j \in 1 .. i : input[j].arg # None}
    OBVIOUS
  <2>2. ASSUME {j \in 1 .. i : input[j].arg # None} # {}
        PROVE  Max({j \in 1 .. i : input[j].arg # None}) \in 1 .. k
    <3>1. {j \in 1 .. i : input[j].arg # None} \in SUBSET (1 .. i) /\ i \in Nat
      OBVIOUS
    <3>2. Max({j \in 1 .. i : input[j].arg # None}) \in {j \in 1 .. i : input[j].arg # None}
      BY <2>2, <3>1, MaxIsGreatest
    <3> QED BY <3>2
  <2> QED BY <2>1, <2>2 DEF ArgumentOf
<1>3. ASSUME Created(k)
      PROVE  Replay(k, n)' = Replay(k, n)
  <2>1. LastCreate(k)' = LastCreate(k)
    <3>1. {j \in 1 .. k : input'[j].op = "create"} = {j \in 1 .. k : input[j].op = "create"}
      OBVIOUS
    <3> QED BY <3>1 DEF LastCreate
  <2>2. Repeated(k, n)' = Repeated(k, n)
    <3>1. ASSUME NEW j \in 1 .. k + n
          PROVE  Min({j, k}) \in 1 .. k /\ Min({j, k}) \in 0 .. k
      <4>1. k >= 1
        BY <1>3 DEF Created
      <4> QED BY <4>1, MinOfTwo
    <3> QED BY <1>2, <3>1 DEF Repeated
  <2> QED BY <2>1, <2>2 DEF Replay
<1>4. k \in 0 .. k
  OBVIOUS
<1> QED BY <1>1, <1>2, <1>3, <1>4

(* A step that reads no line replays over the same input. *)
LEMMA SameInput ==
    ASSUME input' = input
    PROVE  /\ Replay(done, repeats)' = Replay(done', repeats')
           /\ ArgumentOf(done)' = ArgumentOf(done')
           /\ Created(done)' <=> Created(done')
           /\ At(done)' = At(done')
<1>1. ASSUME NEW k PROVE ArgumentOf(k)' = ArgumentOf(k)
  BY DEF ArgumentOf
<1>2. ASSUME NEW k, NEW n PROVE Replay(k, n)' = Replay(k, n)
  BY <1>1 DEF Replay, Repeated, LastCreate
<1>3. ASSUME NEW k PROVE Created(k)' = Created(k)
  BY DEF Created
<1>4. ASSUME NEW k PROVE At(k)' = At(k)
  BY DEF At
<1> QED BY <1>1, <1>2, <1>3, <1>4

-----------------------------------------------------------------------------
(***************************************************************************)
(* The inductive invariant.  Along the records from the child to the       *)
(* parent each is the line after the one before, or the last line again    *)
(* at the end of the input; the last of them is the last line there is.    *)
(***************************************************************************)
Follows(a, b) == b = a + 1 \/ (eof /\ a = Len(input) /\ b = Len(input))

Back == IF pipe = <<>> THEN done ELSE pipe[Len(pipe)]

Channel ==
    /\ command = Len(input)
    /\ pipe # <<>> => Follows(done, pipe[1])
    /\ \A i \in 1 .. Len(pipe) - 1 : Follows(pipe[i], pipe[i + 1])
    /\ parent = "write" => Follows(Back, command)
    /\ parent = "fgets" => Back = Len(input)

RepeatsTheLast == repeats > 0 => eof /\ done = Len(input)

Content == [i \in 1 .. next |-> arr[i - 1]]

(***************************************************************************)
(* repeats is counted up to StackMax only, which is enough because by then *)
(* one more push or pop changes nothing: the stack is full, or empty.      *)
(***************************************************************************)
StackInv ==
    child = "run" /\ Created(done) =>
        /\ made
        /\ Content = Replay(done, repeats)
        /\ At(done).op \in Looks => shown = <<Answer(At(done).op)>>
        /\ At(done).op = "create" => next = 0
        /\ At(done).op = "push" => next = StackMax \/ next > repeats
        /\ At(done).op = "pop" => next = 0 \/ next + repeats < StackMax

IInv ==
    /\ TypeOK
    /\ Channel
    /\ RepeatsTheLast
    /\ argument = ArgumentOf(done)
    /\ StackInv

-----------------------------------------------------------------------------
(* The array and its index, as a stack *)

Store == [0 .. StackMax - 1 -> Values \cup {0, Junk}]

(* Writing at the index and counting it up appends to the stack that the array holds. *)
LEMMA ContentPushed ==
    ASSUME NEW a \in Store, NEW n \in 0 .. StackMax - 1, NEW v \in Values \cup {0}
    PROVE  /\ [a EXCEPT ![n] = v] \in Store /\ n + 1 \in 0 .. StackMax
           /\ [i \in 1 .. n + 1 |-> [a EXCEPT ![n] = v][i - 1]]
                 = Append([i \in 1 .. n |-> a[i - 1]], v)
<1> DEFINE s == [i \in 1 .. n |-> a[i - 1]]
           u == [i \in 1 .. n + 1 |-> [a EXCEPT ![n] = v][i - 1]]
           S == Values \cup {0, Junk}
<1>1. n \in Nat /\ n + 1 \in 0 .. StackMax
  BY StackConstants
<1>2. \A i \in 1 .. n : i - 1 \in 0 .. StackMax - 1 /\ a[i - 1] \in S
  BY StackConstants DEF Store
<1>3. s \in Seq(S) /\ Len(s) = n
  BY <1>1, <1>2
<1>4. /\ Append(s, v) \in Seq(S) /\ Len(Append(s, v)) = n + 1
      /\ \A i \in 1 .. n : Append(s, v)[i] = s[i]
      /\ Append(s, v)[n + 1] = v
  <2> HIDE DEF s
  <2>1. v \in S
    OBVIOUS
  <2> HIDE DEF S
  <2> QED BY <1>3, <2>1, AppendProperties
<1>5. [a EXCEPT ![n] = v] \in Store
  BY DEF Store
<1>6. \A i \in 1 .. n + 1 : u[i] = IF i = n + 1 THEN v ELSE a[i - 1]
  <2>1. \A i \in 1 .. n + 1 : i - 1 \in 0 .. StackMax - 1 /\ (i - 1 = n <=> i = n + 1)
    BY <1>1, StackConstants
  <2> QED BY <2>1 DEF Store
<1>7. \A i \in 1 .. n + 1 : u[i] \in S
  <2>1. \A i \in 1 .. n + 1 : i # n + 1 => i \in 1 .. n
    OBVIOUS
  <2> QED BY <1>2, <1>6, <2>1
<1>8. u \in Seq(S) /\ Len(u) = n + 1
  <2>1. DOMAIN u = 1 .. n + 1 /\ u = [i \in 1 .. n + 1 |-> u[i]] /\ n + 1 \in Nat
    BY <1>1
  <2> HIDE DEF u
  <2> QED BY <1>7, <2>1
<1>9. \A i \in 1 .. n + 1 : u[i] = Append(s, v)[i]
  <2>1. \A i \in 1 .. n : s[i] = a[i - 1]
    OBVIOUS
  <2>2. \A i \in 1 .. n + 1 : i = n + 1 \/ i \in 1 .. n
    OBVIOUS
  <2> QED BY <1>4, <1>6, <2>1, <2>2
<1>10. u = Append(s, v)
  <2> HIDE DEF u, s, S
  <2> QED BY <1>4, <1>8, <1>9, SeqEqual
<1> QED BY <1>1, <1>5, <1>10

(* Counting the index down takes off the last value. *)
LEMMA ContentPopped ==
    ASSUME NEW a \in Store, NEW n \in 1 .. StackMax
    PROVE  [i \in 1 .. n - 1 |-> a[i - 1]]
             = SubSeq([i \in 1 .. n |-> a[i - 1]], 1, n - 1)
<1> DEFINE s == [i \in 1 .. n |-> a[i - 1]]
           u == [i \in 1 .. n - 1 |-> a[i - 1]]
           S == Values \cup {0, Junk}
<1>1. /\ n \in Nat /\ n - 1 \in Nat /\ n - 1 \in Int
      /\ \A i \in 1 .. n - 1 : i \in 1 .. n
      /\ \A i \in 1 .. n : i - 1 \in 0 .. StackMax - 1
  BY StackConstants
<1>2. \A i \in 1 .. n : s[i] = a[i - 1] /\ s[i] \in S
  BY <1>1 DEF Store
<1>3. \A i \in 1 .. n - 1 : s[i] \in S /\ u[i] = s[i]
  BY <1>1, <1>2
<1>4. u \in Seq(S) /\ Len(u) = n - 1
  <2>1. u = [i \in 1 .. n - 1 |-> u[i]] /\ DOMAIN u = 1 .. n - 1
    OBVIOUS
  <2>2. n - 1 \in Nat /\ \A i \in 1 .. n - 1 : u[i] \in S
    BY <1>1, <1>3
  <2> HIDE DEF u, s, S
  <2> QED BY <2>1, <2>2
<1> HIDE DEF u, s, S
<1>5. /\ SubSeq(s, 1, n - 1) \in Seq(S)
      /\ Len(SubSeq(s, 1, n - 1)) = IF 1 <= n - 1 THEN n - 1 - 1 + 1 ELSE 0
      /\ \A i \in 1 .. n - 1 - 1 + 1 : SubSeq(s, 1, n - 1)[i] = s[1 + i - 1]
  BY <1>1, <1>3, SubSeqProperties
<1>6. Len(SubSeq(s, 1, n - 1)) = n - 1
  BY <1>1, <1>5
<1>7. \A i \in 1 .. n - 1 : u[i] = SubSeq(s, 1, n - 1)[i]
  <2>1. \A i \in 1 .. n - 1 : i \in 1 .. n - 1 - 1 + 1 /\ 1 + i - 1 = i
    BY <1>1
  <2> QED BY <1>3, <1>5, <2>1
<1>8. u = SubSeq(s, 1, n - 1)
  BY <1>4, <1>5, <1>6, <1>7, SeqEqual
<1> QED BY <1>8 DEF u, s

-----------------------------------------------------------------------------
(* The invariant is inductive *)

(* Nothing is read, written or replayed yet. *)
LEMMA InitIInv == Init => IInv
<1> SUFFICES ASSUME Init PROVE IInv
  OBVIOUS
<1>1. /\ Len(<<>>) = 0 /\ <<>> \in Seq(Lines) /\ <<>> \in Seq(0 .. 0) /\ 0 \in 0 .. 0
      /\ 0 \in 0 .. StackMax
  BY StackConstants
<1>2. TypeOK
  <2>1. /\ input \in Seq(Lines) /\ Len(input) = 0 /\ 0 <= MaxInput
        /\ pipe \in Seq(0 .. 0) /\ Len(pipe) = 0 /\ 0 <= PipeCap
    BY <1>1, StackConstants DEF Init
  <2>2. arr \in [0 .. StackMax - 1 -> Values \cup {0, Junk}]
    BY DEF Init
  <2> QED BY <1>1, <2>1, <2>2 DEF Init, TypeOK
<1>3. Channel /\ RepeatsTheLast
  BY <1>1 DEF Init, Channel, RepeatsTheLast, Back
<1>4. argument = ArgumentOf(done)
  <2>1. {j \in 1 .. 0 : input[j].arg # None} = {}
    OBVIOUS
  <2> QED BY <2>1 DEF Init, ArgumentOf
<1>5. StackInv
  <2>1. ~Created(done)
    BY DEF Init, Created
  <2> QED BY <2>1 DEF StackInv
<1> QED BY <1>2, <1>3, <1>4, <1>5 DEF IInv

(* The parent's steps leave the child, and with it all that it has run, alone. *)
LEMMA ChildStays ==
    ASSUME IInv, UNCHANGED childVars, \A j \in 1 .. Len(input) : input'[j] = input[j]
    PROVE  (argument = ArgumentOf(done))' /\ StackInv'
<1>1. done \in 0 .. Len(input) /\ Len(input) \in Nat /\ repeats \in Nat
  <2>1. input \in Seq(Lines) /\ done \in 0 .. Len(input) /\ repeats \in 0 .. StackMax
    BY DEF IInv, TypeOK
  <2> QED BY <2>1, LenProperties, StackConstants
<1>2. PICK k \in Nat : k = done
  BY <1>1
<1>3. PICK n \in Nat : n = repeats
  BY <1>1
<1>4. \A j \in 1 .. k : input'[j] = input[j]
  BY <1>1, <1>2
<1>5. /\ Created(k)' <=> Created(k)
      /\ ArgumentOf(k)' = ArgumentOf(k)
      /\ Created(k) => Replay(k, n)' = Replay(k, n)
  BY <1>4, ReplayStays
<1>6. done' = k /\ repeats' = n /\ UNCHANGED <<child, argument, made, arr, next, shown>>
  BY <1>2, <1>3 DEF childVars, stack
<1>7. At(done)' = At(done)
  BY <1>2, <1>4, <1>6 DEF At
<1>8. (argument = ArgumentOf(done))'
  BY <1>2, <1>5, <1>6 DEF IInv
<1>9. StackInv'
  <2>1. Created(done)' <=> Created(done)
    BY <1>2, <1>5, <1>6
  <2>2. Created(done) => Replay(done, repeats)' = Replay(done, repeats)
    BY <1>2, <1>3, <1>5, <1>6
  <2>3. Content' = Content /\ Answer(At(done).op)' = Answer(At(done).op)
    BY <1>6, <1>7 DEF Content, Answer
  <2>4. SUFFICES ASSUME child = "run", Created(done) PROVE StackInv'
    BY <1>6, <2>1 DEF StackInv
  <2>5. /\ made /\ Content = Replay(done, repeats)
        /\ At(done).op \in Looks => shown = <<Answer(At(done).op)>>
        /\ At(done).op = "create" => next = 0
        /\ At(done).op = "push" => next = StackMax \/ next > repeats
        /\ At(done).op = "pop" => next = 0 \/ next + repeats < StackMax
    BY <2>4 DEF IInv, StackInv
  <2> QED BY <1>3, <1>6, <1>7, <2>2, <2>3, <2>4, <2>5 DEF StackInv
<1> QED BY <1>8, <1>9

(* The numbers in the invariant. *)
LEMMA Numbers ==
    ASSUME TypeOK
    PROVE  /\ Len(input) \in Nat /\ done \in Nat /\ done <= Len(input) /\ command \in Nat
           /\ repeats \in Nat /\ repeats <= StackMax /\ StackMax \in Nat \ {0}
           /\ pipe \in Seq(0 .. Len(input)) /\ Len(pipe) \in Nat
           /\ \A i \in 1 .. Len(pipe) : pipe[i] \in 0 .. Len(input)
           /\ pipe # <<>> <=> Len(pipe) > 0
<1>1. input \in Seq(Lines) /\ pipe \in Seq(0 .. Len(input))
      /\ done \in 0 .. Len(input) /\ command \in 0 .. Len(input) /\ repeats \in 0 .. StackMax
  BY DEF TypeOK
<1>2. Len(input) \in Nat /\ Len(pipe) \in Nat
  BY <1>1, LenProperties
<1>3. \A i \in 1 .. Len(pipe) : pipe[i] \in 0 .. Len(input)
  BY <1>1, ElementOfSeq
<1>4. pipe # <<>> <=> Len(pipe) > 0
  BY <1>1, <1>2, EmptySeq
<1> QED BY <1>1, <1>2, <1>3, <1>4, StackConstants

(* The parent reads a line: the record it will write is the newest. *)
LEMMA FgetsIInv ==
    ASSUME IInv, NEW line \in Lines, Fgets(line)
    PROVE  IInv'
<1>1. /\ parent = "fgets" /\ eof = FALSE /\ Len(input) < MaxInput
      /\ input' = Append(input, line) /\ command' = Len(input') /\ parent' = "write"
      /\ UNCHANGED <<eof, pipe, childVars>>
      /\ UNCHANGED <<child, done, repeats, argument, made, arr, next, shown>>
  BY DEF Fgets, IInv, TypeOK, childVars, stack
<1>2. /\ input' \in Seq(Lines) /\ Len(input') = Len(input) + 1 /\ Len(input) \in Nat
      /\ \A j \in 1 .. Len(input) : input'[j] = input[j]
  <2>1. input \in Seq(Lines)
    BY DEF IInv, TypeOK
  <2>2. /\ Append(input, line) \in Seq(Lines) /\ Len(Append(input, line)) = Len(input) + 1
        /\ \A j \in 1 .. Len(input) : Append(input, line)[j] = input[j]
    BY <2>1, AppendProperties
  <2> QED BY <1>1, <2>1, <2>2, LenProperties
<1>3. /\ done \in Nat /\ done <= Len(input) /\ Len(pipe) \in Nat
      /\ pipe \in Seq(0 .. Len(input))
      /\ \A i \in 1 .. Len(pipe) : pipe[i] \in 0 .. Len(input)
      /\ pipe # <<>> <=> Len(pipe) > 0
  BY Numbers DEF IInv
<1>4. TypeOK'
  <2>1. pipe' \in Seq(0 .. Len(input'))
    <3>1. 0 .. Len(input) \subseteq 0 .. Len(input')
      BY <1>2
    <3> QED BY <1>1, <1>3, <3>1, SeqMonotonic
  <2>2. done' \in 0 .. Len(input') /\ command' \in 0 .. Len(input') /\ Len(input') <= MaxInput
    BY <1>1, <1>2, <1>3, StackConstants
  <2> QED BY <1>1, <1>2, <2>1, <2>2 DEF IInv, TypeOK
<1>5. Channel'
  <2>1. Back' = Back /\ Back = Len(input)
    BY <1>1 DEF IInv, Channel, Back
  <2>2. \A a, b : Follows(a, b) => b = a + 1
    BY <1>1 DEF Follows
  <2>3. \A a, b : b = a + 1 => Follows(a, b)'
    BY DEF Follows
  <2>4. pipe' # <<>> => Follows(done, pipe[1])'
    BY <1>1, <2>2 DEF IInv, Channel, Follows
  <2>5. \A i \in 1 .. Len(pipe) - 1 : Follows(pipe[i], pipe[i + 1])'
    BY <1>1, <2>2 DEF IInv, Channel, Follows
  <2>6. Follows(Back, command)'
    BY <1>1, <1>2, <2>1 DEF Follows
  <2> QED BY <1>1, <2>4, <2>5, <2>6 DEF Channel
<1>6. RepeatsTheLast'
  BY <1>1 DEF IInv, RepeatsTheLast
<1>7. (argument = ArgumentOf(done))' /\ StackInv'
  BY <1>1, <1>2, ChildStays
<1> QED BY <1>4, <1>5, <1>6, <1>7 DEF IInv

(* The input ends: the parent writes the last record again. *)
LEMMA FgetsEofIInv ==
    ASSUME IInv, FgetsEof
    PROVE  IInv'
<1>1. /\ parent = "fgets" /\ eof' = TRUE /\ parent' = "write"
      /\ UNCHANGED <<input, command, pipe, childVars>>
      /\ UNCHANGED <<child, done, repeats, argument, made, arr, next, shown>>
  BY DEF FgetsEof, childVars, stack
<1>2. TypeOK'
  BY <1>1 DEF IInv, TypeOK
<1>3. Channel'
  <2>1. \A a, b : Follows(a, b) => Follows(a, b)'
    BY <1>1 DEF Follows
  <2>2. Back' = Back /\ Back = Len(input) /\ command = Len(input)
    BY <1>1 DEF IInv, Channel, Back
  <2>3. pipe' # <<>> => Follows(done, pipe[1])'
    BY <1>1 DEF IInv, Channel, Follows
  <2>4. \A i \in 1 .. Len(pipe) - 1 : Follows(pipe[i], pipe[i + 1])'
    BY <1>1 DEF IInv, Channel, Follows
  <2>5. Follows(Back, command)'
    BY <1>1, <2>2 DEF Follows
  <2> QED BY <1>1, <2>2, <2>3, <2>4, <2>5 DEF Channel
<1>4. RepeatsTheLast'
  BY <1>1 DEF IInv, RepeatsTheLast
<1>5. (argument = ArgumentOf(done))' /\ StackInv'
  BY <1>1, ChildStays
<1> QED BY <1>2, <1>3, <1>4, <1>5 DEF IInv

(* The record joins the end of the pipe. *)
LEMMA WriteIInv ==
    ASSUME IInv, Write
    PROVE  IInv'
<1>1. /\ parent = "write" /\ Len(pipe) < PipeCap
      /\ pipe' = Append(pipe, command) /\ parent' = "fgets"
      /\ UNCHANGED <<input, eof, command, childVars>>
      /\ UNCHANGED <<child, done, repeats, argument, made, arr, next, shown>>
  BY DEF Write, childVars, stack
<1>2. /\ pipe' \in Seq(0 .. Len(input)) /\ Len(pipe') = Len(pipe) + 1 /\ Len(pipe) \in Nat
      /\ \A i \in 1 .. Len(pipe) : pipe'[i] = pipe[i]
      /\ pipe'[Len(pipe) + 1] = command
      /\ pipe' # <<>>
  <2>1. pipe \in Seq(0 .. Len(input)) /\ command \in 0 .. Len(input)
    BY DEF IInv, TypeOK
  <2>2. /\ Append(pipe, command) \in Seq(0 .. Len(input))
        /\ Len(Append(pipe, command)) = Len(pipe) + 1
        /\ Append(pipe, command) # <<>>
        /\ \A i \in 1 .. Len(pipe) : Append(pipe, command)[i] = pipe[i]
        /\ Append(pipe, command)[Len(pipe) + 1] = command
    BY <2>1, AppendProperties
  <2> QED BY <1>1, <2>1, <2>2, LenProperties
<1>3. TypeOK'
  <2>1. Len(pipe') <= PipeCap
    BY <1>1, <1>2, StackConstants
  <2> QED BY <1>1, <1>2, <2>1 DEF IInv, TypeOK
<1>4. Channel'
  <2>1. /\ command = Len(input) /\ Follows(Back, command)
        /\ pipe # <<>> => Follows(done, pipe[1])
        /\ \A i \in 1 .. Len(pipe) - 1 : Follows(pipe[i], pipe[i + 1])
    BY <1>1 DEF IInv, Channel
  <2>2. Back' = command
    BY <1>1, <1>2 DEF Back
  <2>3. pipe # <<>> <=> Len(pipe) > 0
    BY Numbers DEF IInv
  <2>4. Follows(done, pipe'[1])
    <3>1. CASE pipe = <<>>
      BY <1>2, <2>1, <2>3, <3>1 DEF Back
    <3>2. CASE pipe # <<>>
      <4>1. 1 \in 1 .. Len(pipe)
        BY <1>2, <2>3, <3>2
      <4> QED BY <1>2, <2>1, <3>2, <4>1
    <3> QED BY <3>1, <3>2
  <2>5. ASSUME NEW i \in 1 .. Len(pipe)
        PROVE  Follows(pipe'[i], pipe'[i + 1])
    <3>1. CASE i = Len(pipe)
      BY <1>2, <2>1, <2>3, <3>1 DEF Back
    <3>2. CASE i # Len(pipe)
      <4>1. i \in 1 .. Len(pipe) - 1 /\ i + 1 \in 1 .. Len(pipe)
        BY <1>2, <3>2
      <4> QED BY <1>2, <2>1, <4>1
    <3> QED BY <3>1, <3>2
  <2>6. \A i \in 1 .. Len(pipe') - 1 : Follows(pipe'[i], pipe'[i + 1])
    BY <1>2, <2>5
  <2> QED BY <1>1, <2>1, <2>2, <2>4, <2>6 DEF Channel, Follows
<1>5. RepeatsTheLast'
  BY <1>1 DEF IInv, RepeatsTheLast
<1>6. (argument = ArgumentOf(done))' /\ StackInv'
  BY <1>1, ChildStays
<1> QED BY <1>3, <1>4, <1>5, <1>6 DEF IInv

(* The last argument is that of the line, if it has one, or that of the lines before. *)
LEMMA ArgumentNext ==
    ASSUME NEW k \in Nat \ {0}
    PROVE  ArgumentOf(k) = IF input[k].arg = None THEN ArgumentOf(k - 1) ELSE input[k].arg
<1> DEFINE given(i) == {j \in 1 .. i : input[j].arg # None}
<1>1. CASE input[k].arg = None
  <2>1. given(k) = given(k - 1)
    BY <1>1
  <2> QED BY <1>1, <2>1 DEF ArgumentOf
<1>2. CASE input[k].arg # None
  <2>1. k \in given(k) /\ given(k) \in SUBSET (1 .. k) /\ given(k) # {}
    BY <1>2
  <2>2. Max(given(k)) \in given(k) /\ \A j \in given(k) : j <= Max(given(k))
    <3> HIDE DEF given
    <3> QED BY <2>1, MaxIsGreatest
  <2>3. Max(given(k)) = k
    BY <2>1, <2>2
  <2> QED BY <1>2, <2>1, <2>3 DEF ArgumentOf
<1> QED BY <1>1, <1>2

(* What every command has in common: the child takes the record at the front of the pipe. *)
LEMMA ReadTakesTheNext ==
    ASSUME IInv, NEW ops, Read(ops)
    PROVE  /\ child = "run" /\ UNCHANGED <<input, eof, parent, command>>
           /\ pipe' \in Seq(0 .. Len(input)) /\ Len(pipe') <= PipeCap
           /\ done' \in 0 .. Len(input) /\ done' = Head(pipe) /\ At(done').op \in ops
           /\ repeats' \in 0 .. StackMax
           /\ \/ done' = done + 1 /\ repeats = 0 /\ repeats' = 0
              \/ done' = done /\ repeats' = IF repeats < StackMax THEN repeats + 1 ELSE StackMax
           /\ Channel' /\ RepeatsTheLast'
<1>1. /\ child = "run" /\ pipe # <<>> /\ At(Head(pipe)).op \in ops
      /\ pipe' = Tail(pipe) /\ done' = Head(pipe)
      /\ repeats' = IF done' = done THEN Min({repeats + 1, StackMax}) ELSE 0
      /\ UNCHANGED <<input, eof, parent, command>>
  BY DEF Read
<1>2. /\ Len(input) \in Nat /\ done \in Nat /\ done <= Len(input)
      /\ repeats \in Nat /\ repeats <= StackMax /\ StackMax \in Nat \ {0}
      /\ pipe \in Seq(0 .. Len(input)) /\ Len(pipe) \in Nat /\ Len(pipe) > 0
      /\ \A i \in 1 .. Len(pipe) : pipe[i] \in 0 .. Len(input)
  BY <1>1, Numbers DEF IInv
<1>3. /\ pipe' \in Seq(0 .. Len(input)) /\ Len(pipe') = Len(pipe) - 1
      /\ \A i \in 1 .. Len(pipe) - 1 : pipe'[i] = pipe[i + 1]
      /\ done' = pipe[1] /\ done' \in 0 .. Len(input)
  <2>1. /\ Head(pipe) \in 0 .. Len(input) /\ Tail(pipe) \in Seq(0 .. Len(input))
        /\ Len(Tail(pipe)) = Len(pipe) - 1
        /\ \A i \in 1 .. Len(Tail(pipe)) : Tail(pipe)[i] = pipe[i + 1]
    BY <1>1, <1>2, HeadTailProperties
  <2>2. Head(pipe) = pipe[1]
    BY <1>2
  <2> QED BY <1>1, <2>1, <2>2
<1>4. Len(pipe') <= PipeCap
  <2>1. Len(pipe) <= PipeCap
    BY DEF IInv, TypeOK
  <2> QED BY <1>2, <1>3, <2>1, StackConstants
<1>5. /\ Follows(done, done')
      /\ \A i \in 1 .. Len(pipe) - 1 : Follows(pipe[i], pipe[i + 1])
      /\ repeats > 0 => eof /\ done = Len(input)
  BY <1>1, <1>3 DEF IInv, Channel, RepeatsTheLast
<1>6. \/ done' = done + 1 /\ repeats = 0 /\ repeats' = 0
      \/ /\ done' = done /\ eof /\ done = Len(input)
         /\ repeats' = IF repeats < StackMax THEN repeats + 1 ELSE StackMax
  <2>1. CASE done' = done + 1
    <3>1. done' # done /\ repeats = 0
      BY <1>2, <1>3, <1>5, <2>1
    <3> QED BY <1>1, <2>1, <3>1
  <2>2. CASE done' # done + 1
    <3>1. eof /\ done = Len(input) /\ done' = done
      BY <1>5, <2>2 DEF Follows
    <3>2. Min({repeats + 1, StackMax}) = IF repeats + 1 <= StackMax THEN repeats + 1 ELSE StackMax
      <4>1. repeats + 1 \in Int /\ StackMax \in Int
        BY <1>2
      <4> QED BY <4>1, MinOfTwo, Zenon
    <3> QED BY <1>1, <1>2, <3>1, <3>2
  <2> QED BY <2>1, <2>2
<1>7. repeats' \in 0 .. StackMax
  BY <1>2, <1>6
<1>8. RepeatsTheLast'
  BY <1>1, <1>6 DEF RepeatsTheLast
<1>9. Channel'
  <2>1. pipe' # <<>> <=> Len(pipe') > 0
    BY <1>3, EmptySeq
  <2>2. Back' = Back
    <3>1. CASE Len(pipe) = 1
      BY <1>1, <1>2, <1>3, <2>1, <3>1 DEF Back
    <3>2. CASE Len(pipe) # 1
      <4>1. Len(pipe) - 1 \in 1 .. Len(pipe) - 1 /\ (Len(pipe) - 1) + 1 = Len(pipe)
        <5>1. \A n \in Nat : n > 0 /\ n # 1 => n - 1 \in 1 .. n - 1 /\ (n - 1) + 1 = n
          OBVIOUS
        <5>2. Len(pipe) \in Nat /\ Len(pipe) > 0 /\ Len(pipe) # 1
          BY <1>2, <3>2
        <5> QED BY <5>1, <5>2, Zenon
      <4>2. pipe'[Len(pipe')] = pipe[Len(pipe)] /\ pipe' # <<>>
        BY <1>3, <2>1, <4>1
      <4> QED BY <1>1, <4>2 DEF Back
    <3> QED BY <3>1, <3>2
  <2>3. pipe' # <<>> => Follows(done', pipe'[1])
    <3>1. SUFFICES ASSUME pipe' # <<>> PROVE Follows(done', pipe'[1])
      OBVIOUS
    <3>2. 1 \in 1 .. Len(pipe) - 1
      BY <1>2, <1>3, <2>1, <3>1
    <3>3. Follows(pipe[1], pipe[1 + 1]) /\ pipe'[1] = pipe[1 + 1]
      BY <1>3, <1>5, <3>2
    <3> QED BY <1>3, <3>3
  <2>4. ASSUME NEW i \in 1 .. Len(pipe') - 1
        PROVE  Follows(pipe'[i], pipe'[i + 1])
    <3>1. i \in 1 .. Len(pipe) - 1 /\ i + 1 \in 1 .. Len(pipe) - 1
      BY <1>2, <1>3
    <3> QED BY <1>3, <1>5, <3>1
  <2> QED BY <1>1, <2>2, <2>3, <2>4 DEF IInv, Channel, Follows
<1> QED BY <1>1, <1>3, <1>4, <1>6, <1>7, <1>8, <1>9

(* The argument a command runs with is the last one given. *)
LEMMA ReadArgument ==
    ASSUME IInv, NEW ops, Read(ops)
    PROVE  argument' \in Values \cup {0} /\ argument' = ArgumentOf(done')
<1>1. /\ done' \in 0 .. Len(input) /\ done' = Head(pipe) /\ done \in Nat
      /\ (done' = done + 1 \/ done' = done)
  BY ReadTakesTheNext, Numbers DEF IInv
<1>2. argument' = IF At(done').arg = None THEN argument ELSE At(done').arg
  BY <1>1 DEF Read, Split
<1>3. argument = ArgumentOf(done) /\ argument \in Values \cup {0}
  BY DEF IInv, TypeOK
<1>4. CASE done' = 0
  <2>1. done = 0 /\ At(done').arg = None
    BY <1>1, <1>4 DEF At, Blank
  <2> QED BY <1>2, <1>3, <1>4, <2>1
<1>5. CASE done' # 0
  <2>1. done' \in Nat \ {0} /\ done' \in 1 .. Len(input) /\ At(done') = input[done']
    BY <1>1, <1>5 DEF At
  <2>2. input[done'].arg \in Values \cup {None}
    <3>1. input \in Seq(Lines)
      BY DEF IInv, TypeOK
    <3>2. input[done'] \in Line
      BY <2>1, <3>1, ElementOfSeq, StackConstants
    <3> QED BY <3>2 DEF Line
  <2>3. argument' \in Values \cup {0}
    BY <1>2, <1>3, <2>1, <2>2
  <2>4. ArgumentOf(done') = IF input[done'].arg = None THEN ArgumentOf(done' - 1)
                            ELSE input[done'].arg
    BY <2>1, ArgumentNext
  <2>5. CASE done' = done + 1
    <3>1. done' - 1 = done
      BY <1>1, <2>5
    <3> QED BY <1>2, <1>3, <2>1, <2>3, <2>4, <3>1
  <2>6. CASE done' = done
    BY <1>2, <1>3, <2>1, <2>3, <2>4, <2>6
  <2> QED BY <1>1, <2>3, <2>5, <2>6
<1> QED BY <1>4, <1>5

(* What a command does to a stack. *)
LEMMA RunCases ==
    ASSUME NEW s, NEW v
    PROVE  /\ \A op \in Looks \cup {"create", "other"} : Run(s, op, v) = s
           /\ Run(s, "push", v) = IF Len(s) < StackMax THEN Append(s, v) ELSE s
           /\ Run(s, "pop", v) = IF s # <<>> THEN SubSeq(s, 1, Len(s) - 1) ELSE s
BY DEF Run, Looks

(* The replay moves on with the child: by one Run, but for a create and at the end of the count. *)
LEMMA ReadReplay ==
    ASSUME IInv, NEW ops, Read(ops), Created(done)'
    PROVE  /\ At(done)' = At(done') /\ At(done)'.op \in ops
           /\ done' = done => At(done)' = At(done)
           /\ done' # done /\ At(done').op = "create" => Replay(done, repeats)' = <<>>
           /\ done' = done \/ At(done').op # "create" =>
                 /\ Created(done)
                 /\ \/ Replay(done, repeats)' = Run(Replay(done, repeats), At(done').op, argument')
                    \/ /\ done' = done /\ repeats = StackMax /\ repeats' = StackMax
                       /\ Replay(done, repeats)' = Replay(done, repeats)
<1>1. /\ done' \in 0 .. Len(input) /\ UNCHANGED input
      /\ \/ done' = done + 1 /\ repeats = 0 /\ repeats' = 0
         \/ done' = done /\ repeats' = IF repeats < StackMax THEN repeats + 1 ELSE StackMax
      /\ At(done').op \in ops
      /\ argument' = ArgumentOf(done')
  BY ReadTakesTheNext, ReadArgument
<1>2. /\ done \in Nat /\ repeats \in Nat /\ repeats <= StackMax /\ StackMax \in Nat \ {0}
      /\ Len(input) \in Nat
  BY Numbers DEF IInv
<1>3. /\ Replay(done, repeats)' = Replay(done', repeats') /\ Created(done')
      /\ At(done)' = At(done')
  BY <1>1, SameInput
<1>4. done' \in Nat \ {0} /\ At(done') = input[done']
  BY <1>1, <1>2, <1>3 DEF Created, At
<1>5. CASE done' = done + 1
  <2>1. done' # done /\ repeats = 0 /\ repeats' = 0
    BY <1>1, <1>2, <1>5
  <2>2. CASE input[done'].op = "create"
    <3>1. Replay(done', 0) = <<>>
      BY <1>4, <2>2, ReplayCreate
    <3> QED BY <1>1, <1>3, <1>4, <2>1, <2>2, <3>1
  <2>3. CASE input[done'].op # "create"
    <3>1. Created(done)
      <4>1. \A j \in 1 .. done + 1 : j # done + 1 => j \in 1 .. done
        BY <1>2
      <4> QED BY <1>3, <1>5, <2>3, <4>1 DEF Created
    <3>2. Replay(done + 1, 0) = Run(Replay(done, 0), input[done + 1].op, ArgumentOf(done + 1))
      BY <1>2, <1>5, <2>3, <3>1, ReplayNext
    <3> QED BY <1>1, <1>3, <1>4, <1>5, <2>1, <2>3, <3>1, <3>2
  <2> QED BY <2>2, <2>3
<1>6. CASE done' = done
  <2>1. done' # done + 1 /\ Created(done) /\ At(done)' = At(done)
    BY <1>2, <1>3, <1>6
  <2>2. CASE repeats < StackMax
    <3>1. repeats' = repeats + 1
      BY <1>1, <2>1, <2>2
    <3>2. Replay(done, repeats + 1) = Run(Replay(done, repeats), input[done].op, ArgumentOf(done))
      BY <1>2, <2>1, ReplayAgain
    <3> QED BY <1>1, <1>3, <1>4, <1>6, <2>1, <3>1, <3>2
  <2>3. CASE ~(repeats < StackMax)
    <3>1. repeats = StackMax /\ repeats' = StackMax
      BY <1>1, <1>2, <2>1, <2>3
    <3> QED BY <1>1, <1>3, <1>6, <2>1, <3>1
  <2> QED BY <2>2, <2>3
<1> QED BY <1>1, <1>5, <1>6

(* What is left to show of a command that reads a record. *)
LEMMA ReadIInv ==
    ASSUME IInv, NEW ops, Read(ops), child' \in {"run", "dead", "lost"},
           made' \in BOOLEAN, arr' \in Store, next' \in 0 .. StackMax,
           child' = "run" /\ Created(done)' => StackInv'
    PROVE  IInv'
<1>1. /\ UNCHANGED <<input, eof, parent, command>>
      /\ pipe' \in Seq(0 .. Len(input)) /\ Len(pipe') <= PipeCap
      /\ done' \in 0 .. Len(input) /\ repeats' \in 0 .. StackMax
      /\ Channel' /\ RepeatsTheLast'
  BY ReadTakesTheNext
<1>2. argument' \in Values \cup {0} /\ (argument = ArgumentOf(done))'
  BY <1>1, ReadArgument, SameInput
<1>3. TypeOK'
  BY <1>1, <1>2 DEF IInv, TypeOK, Store
<1>4. StackInv'
  BY DEF StackInv
<1> QED BY <1>1, <1>2, <1>3, <1>4 DEF IInv

(* A new stack is empty, and the replay starts over. *)
LEMMA CreateIInv ==
    ASSUME IInv, Create \/ CreateFails
    PROVE  IInv'
<1>1. CASE Create
  <2>1. /\ Read({"create"}) /\ made' = TRUE /\ arr' = [i \in 0 .. StackMax - 1 |-> Junk]
        /\ next' = 0 /\ child' = child
    BY <1>1 DEF Create
  <2>2. arr' \in Store /\ next' \in 0 .. StackMax
    BY <2>1, StackConstants DEF Store
  <2>3. ASSUME Created(done)'
        PROVE  StackInv'
    <3>1. Replay(done, repeats)' = <<>>
      <4>1. CASE done' # done
        BY <2>1, <2>3, <4>1, ReadReplay
      <4>2. CASE done' = done
        <5>1. /\ Created(done) /\ At(done).op = "create" /\ At(done') = At(done)
              /\ \/ Replay(done, repeats)' = Run(Replay(done, repeats), At(done').op, argument')
                 \/ Replay(done, repeats)' = Replay(done, repeats)
          BY <2>1, <2>3, <4>2, ReadReplay
        <5>2. child = "run"
          BY <2>1 DEF Read
        <5>3. Replay(done, repeats) = <<>>
          <6>1. Content = Replay(done, repeats) /\ next = 0
            BY <5>1, <5>2 DEF IInv, StackInv
          <6> QED BY <6>1 DEF Content
        <5>4. Run(<<>>, "create", argument') = <<>>
          BY RunCases
        <5> QED BY <5>1, <5>3, <5>4
      <4> QED BY <4>1, <4>2
    <3>2. Content' = <<>>
      BY <2>1 DEF Content
    <3>3. At(done)'.op = "create" /\ At(done)'.op \notin Looks
      BY <2>1, <2>3, ReadReplay DEF Looks
    <3> QED BY <2>1, <3>1, <3>2, <3>3 DEF StackInv
  <2> QED BY <2>1, <2>2, <2>3, ReadIInv DEF IInv, TypeOK
<1>2. CASE CreateFails
  <2>1. Read({"create"}) /\ child' = "dead" /\ UNCHANGED <<made, arr, next>>
    BY <1>2 DEF CreateFails, stack
  <2> QED BY <2>1, ReadIInv DEF IInv, TypeOK, Store
<1> QED BY <1>1, <1>2

(* What a command finds on the stack: the replay of the lines before it. *)
LEMMA Before ==
    ASSUME IInv, NEW ops, Read(ops), Created(done)', At(done').op # "create"
    PROVE  /\ child = "run" /\ made /\ arr \in Store /\ next \in 0 .. StackMax
           /\ Len(Content) = next /\ (Content = <<>> <=> next = 0)
           /\ At(done)' = At(done') /\ At(done').op \in ops
           /\ \/ Replay(done, repeats)' = Run(Content, At(done').op, argument')
              \/ /\ At(done).op = At(done').op /\ repeats = StackMax /\ repeats' = StackMax
                 /\ Replay(done, repeats)' = Content
           /\ \/ repeats' = 0
              \/ At(done).op = At(done').op /\ repeats' <= repeats + 1
           /\ At(done).op = "push" => next = StackMax \/ next > repeats
           /\ At(done).op = "pop" => next = 0 \/ next + repeats < StackMax
<1>1. /\ Created(done) /\ At(done)' = At(done') /\ At(done').op \in ops
      /\ done' = done => At(done') = At(done)
      /\ \/ Replay(done, repeats)' = Run(Replay(done, repeats), At(done').op, argument')
         \/ /\ done' = done /\ repeats = StackMax /\ repeats' = StackMax
            /\ Replay(done, repeats)' = Replay(done, repeats)
  BY ReadReplay
<1>2. /\ child = "run"
      /\ \/ repeats' = 0
         \/ done' = done /\ repeats' = IF repeats < StackMax THEN repeats + 1 ELSE StackMax
  BY ReadTakesTheNext
<1>3. /\ made /\ Content = Replay(done, repeats)
      /\ At(done).op = "push" => next = StackMax \/ next > repeats
      /\ At(done).op = "pop" => next = 0 \/ next + repeats < StackMax
  BY <1>1, <1>2 DEF IInv, StackInv
<1>4. repeats \in Nat /\ repeats <= StackMax /\ StackMax \in Nat \ {0}
  BY Numbers DEF IInv
<1>5. arr \in Store /\ next \in 0 .. StackMax
  BY DEF IInv, TypeOK, Store
<1>6. Len(Content) = next /\ (Content = <<>> <=> next = 0)
  <2>1. next \in Nat
    BY <1>4, <1>5
  <2>2. Content \in Seq(Values \cup {0, Junk}) /\ Len(Content) = next
    <3>1. \A i \in 1 .. next : i - 1 \in 0 .. StackMax - 1 /\ arr[i - 1] \in Values \cup {0, Junk}
      BY <1>4, <1>5 DEF Store
    <3> QED BY <2>1, <3>1 DEF Content
  <2> QED BY <2>1, <2>2, EmptySeq
<1> QED BY <1>1, <1>2, <1>3, <1>4, <1>5, <1>6

(* The child pushes, or finds the stack full. *)
LEMMA PushIInv ==
    ASSUME IInv, Push
    PROVE  IInv'
<1>1. /\ Read({"push"}) /\ UNCHANGED <<child, made>>
      /\ IF next >= StackMax
         THEN arr' = arr /\ next' = next
         ELSE arr' = [arr EXCEPT ![next] = argument'] /\ next' = next + 1
  BY DEF Push
<1>2. /\ argument' \in Values \cup {0} /\ arr \in Store /\ next \in 0 .. StackMax
      /\ StackMax \in Nat \ {0} /\ repeats \in Nat /\ repeats <= StackMax
  BY <1>1, ReadArgument, Numbers DEF IInv, TypeOK, Store
<1>3. CASE next >= StackMax
  <2>1. next = StackMax /\ arr' = arr /\ next' = next /\ Content' = Content
    BY <1>1, <1>2, <1>3 DEF Content
  <2>2. ASSUME child' = "run", Created(done)'
        PROVE  StackInv'
    <3>1. At(done').op = "push"
      BY <1>1, ReadTakesTheNext
    <3>2. /\ made /\ Len(Content) = next /\ At(done)' = At(done')
          /\ \/ Replay(done, repeats)' = Run(Content, "push", argument')
             \/ Replay(done, repeats)' = Content
      BY <1>1, <2>2, <3>1, Before
    <3>3. Run(Content, "push", argument') = Content
      <4>1. ~(Len(Content) < StackMax)
        BY <1>2, <2>1, <3>2
      <4> QED BY <4>1, RunCases
    <3>4. At(done)'.op \notin Looks \cup {"create", "pop"}
      BY <3>1, <3>2 DEF Looks
    <3> QED BY <1>1, <1>2, <2>1, <3>2, <3>3, <3>4 DEF StackInv
  <2> QED BY <1>1, <1>2, <2>1, <2>2, ReadIInv DEF IInv, TypeOK
<1>4. CASE ~(next >= StackMax)
  <2>1. /\ next \in 0 .. StackMax - 1
        /\ arr' = [arr EXCEPT ![next] = argument'] /\ next' = next + 1
    BY <1>1, <1>2, <1>4
  <2>2. /\ arr' \in Store /\ next' \in 0 .. StackMax
        /\ Content' = Append(Content, argument')
    <3>1. /\ [arr EXCEPT ![next] = argument'] \in Store /\ next + 1 \in 0 .. StackMax
          /\ [i \in 1 .. next + 1 |-> [arr EXCEPT ![next] = argument'][i - 1]]
                 = Append([i \in 1 .. next |-> arr[i - 1]], argument')
      BY <1>2, <2>1, ContentPushed
    <3>2. Content' = [i \in 1 .. next' |-> arr'[i - 1]]
      BY DEF Content
    <3>3. Content' = [i \in 1 .. next + 1 |-> [arr EXCEPT ![next] = argument'][i - 1]]
      BY <2>1, <3>2
    <3> QED BY <2>1, <3>1, <3>3 DEF Content
  <2>3. ASSUME child' = "run", Created(done)'
        PROVE  StackInv'
    <3>1. At(done').op = "push"
      BY <1>1, ReadTakesTheNext
    <3>2. /\ made /\ Len(Content) = next /\ At(done)' = At(done')
          /\ \/ Replay(done, repeats)' = Run(Content, "push", argument')
             \/ At(done).op = "push" /\ repeats = StackMax
          /\ repeats' = 0 \/ (At(done).op = "push" /\ repeats' <= repeats + 1)
          /\ At(done).op = "push" => next = StackMax \/ next > repeats
      BY <1>1, <2>3, <3>1, Before
    <3>3. Replay(done, repeats)' = Run(Content, "push", argument')
      BY <1>2, <2>1, <3>2
    <3>4. Run(Content, "push", argument') = Append(Content, argument')
      <4>1. Len(Content) < StackMax
        BY <1>2, <2>1, <3>2
      <4> QED BY <4>1, RunCases
    <3>5. At(done)'.op \notin Looks \cup {"create", "pop"}
      BY <3>1, <3>2 DEF Looks
    <3>6. next' = StackMax \/ next' > repeats'
      <4>1. repeats' \in 0 .. StackMax
        BY <1>1, ReadTakesTheNext
      <4> QED BY <1>2, <2>1, <3>2, <4>1
    <3> QED BY <1>1, <2>2, <3>2, <3>3, <3>4, <3>5, <3>6 DEF StackInv
  <2> QED BY <1>1, <2>2, <2>3, ReadIInv DEF IInv, TypeOK
<1> QED BY <1>3, <1>4

(* The child pops, or finds the stack empty. *)
LEMMA PopIInv ==
    ASSUME IInv, Pop
    PROVE  IInv'
<1>1. /\ Read({"pop"}) /\ UNCHANGED <<child, made, arr>>
      /\ next' = IF next = 0 THEN 0 ELSE next - 1
  BY DEF Pop
<1>2. /\ arr \in Store /\ next \in 0 .. StackMax
      /\ StackMax \in Nat \ {0} /\ repeats \in Nat /\ repeats <= StackMax
  BY Numbers DEF IInv, TypeOK, Store
<1>3. next' \in 0 .. StackMax
  BY <1>1, <1>2
<1>4. ASSUME child' = "run", Created(done)'
      PROVE  StackInv'
  <2>1. At(done').op = "pop" /\ repeats' \in 0 .. StackMax
    BY <1>1, ReadTakesTheNext
  <2>2. /\ made /\ Len(Content) = next /\ (Content = <<>> <=> next = 0) /\ At(done)' = At(done')
        /\ \/ Replay(done, repeats)' = Run(Content, "pop", argument')
           \/ At(done).op = "pop" /\ repeats = StackMax /\ Replay(done, repeats)' = Content
        /\ repeats' = 0 \/ (At(done).op = "pop" /\ repeats' <= repeats + 1)
        /\ At(done).op = "pop" => next = 0 \/ next + repeats < StackMax
    BY <1>1, <1>4, <2>1, Before
  <2>3. Content' = Run(Content, "pop", argument')
    <3>1. CASE next = 0
      <4>1. Content' = Content /\ Content = <<>>
        BY <1>1, <2>2, <3>1 DEF Content
      <4> QED BY <4>1, RunCases
    <3>2. CASE next # 0
      <4>1. next \in 1 .. StackMax /\ next' = next - 1
        BY <1>1, <1>2, <3>2
      <4>2. Content' = SubSeq(Content, 1, next - 1)
        BY <1>1, <1>2, <4>1, ContentPopped DEF Content
      <4> QED BY <2>2, <3>2, <4>2, RunCases
    <3> QED BY <3>1, <3>2
  <2>4. Replay(done, repeats)' = Content'
    <3>1. CASE At(done).op = "pop" /\ repeats = StackMax /\ Replay(done, repeats)' = Content
      <4>1. next = 0 /\ next' = 0
        BY <1>1, <1>2, <2>2, <3>1
      <4> QED BY <1>1, <3>1, <4>1 DEF Content
    <3> QED BY <2>2, <2>3, <3>1
  <2>5. At(done)'.op \notin Looks \cup {"create", "push"}
    BY <2>1, <2>2 DEF Looks
  <2>6. next' = 0 \/ next' + repeats' < StackMax
    <3>1. CASE repeats' = 0
      BY <1>1, <1>2, <3>1
    <3>2. CASE At(done).op = "pop" /\ repeats' <= repeats + 1
      <4>1. next \in Nat /\ repeats \in Nat /\ repeats' \in Nat
        BY <1>2, <2>1
      <4>2. next = 0 \/ next + repeats < StackMax
        BY <2>2, <3>2
      <4>3. CASE next = 0
        BY <1>1, <4>3
      <4>4. CASE next # 0
        <5>1. next + repeats < StackMax /\ next' = next - 1 /\ repeats' <= repeats + 1
              /\ StackMax \in Nat
          BY <1>1, <1>2, <3>2, <4>2, <4>4
        <5>2. \A a, b, c, m \in Nat : a + b < m /\ c <= b + 1 => (a - 1) + c < m
          OBVIOUS
        <5> QED BY <4>1, <5>1, <5>2
      <4> QED BY <4>3, <4>4
    <3> QED BY <2>2, <3>1, <3>2
  <2> QED BY <1>1, <2>2, <2>4, <2>5, <2>6 DEF StackInv
<1> QED BY <1>1, <1>2, <1>3, <1>4, ReadIInv DEF IInv, TypeOK

(* The child looks at the stack and leaves it alone. *)
LEMMA LookIInv ==
    ASSUME IInv, Look \/ Wild \/ Other
    PROVE  IInv'
<1>1. CASE Look \/ Other
  <2>1. PICK ops \in {Looks, {"other"}} :
            /\ Read(ops) /\ UNCHANGED <<child, made, arr, next>>
            /\ ops = Looks => shown' = <<Answer(At(Head(pipe)).op)>>
    <3>1. {"other"} # Looks
      BY DEF Looks
    <3> QED BY <1>1, <3>1 DEF Look, Other, stack
  <2>2. ASSUME child' = "run", Created(done)'
        PROVE  StackInv'
    <3>1. At(done').op \in ops /\ done' = Head(pipe)
      BY <2>1, ReadTakesTheNext
    <3>2. At(done').op \in Looks \cup {"create", "other"} /\ At(done').op \notin {"create", "push", "pop"}
      BY <3>1 DEF Looks
    <3>3. /\ made /\ At(done)' = At(done')
          /\ \/ Replay(done, repeats)' = Run(Content, At(done').op, argument')
             \/ Replay(done, repeats)' = Content
      BY <2>1, <2>2, <3>2, Before
    <3>4. Run(Content, At(done').op, argument') = Content
      BY <3>2, RunCases
    <3>5. Content' = Content /\ Answer(At(done).op)' = Answer(At(done').op)
      BY <2>1, <3>3 DEF Content, Answer
    <3>6. At(done').op \in Looks => shown' = <<Answer(At(done').op)>>
      BY <2>1, <3>1 DEF Looks
    <3> QED BY <2>1, <3>2, <3>3, <3>4, <3>5, <3>6 DEF StackInv
  <2> QED BY <2>1, <2>2, ReadIInv DEF IInv, TypeOK, Store
<1>2. CASE Wild
  <2>1. /\ ~made /\ Read({"push", "pop"} \cup Looks)
        /\ child' \in {"run", "dead", "lost"} /\ UNCHANGED <<made, arr, next>>
    BY <1>2 DEF Wild, stack
  <2>2. ASSUME Created(done)'
        PROVE  FALSE
    <3>1. At(done').op # "create"
      BY <2>1, ReadTakesTheNext DEF Looks
    <3> QED BY <2>1, <2>2, <3>1, Before
  <2> QED BY <2>1, <2>2, ReadIInv DEF IInv, TypeOK, Store
<1> QED BY <1>1, <1>2

(* Every step of parent and child keeps the invariant. *)
LEMMA NextIInv == IInv /\ [Next]_vars => IInv'
<1> SUFFICES ASSUME IInv, [Next]_vars PROVE IInv'
  OBVIOUS
<1>1. CASE UNCHANGED vars
  <2>1. UNCHANGED childVars /\ UNCHANGED <<input, eof, parent, command, pipe>>
        /\ UNCHANGED <<child, done, repeats, argument, made, arr, next, shown>>
    BY <1>1 DEF vars, childVars, stack
  <2>2. (argument = ArgumentOf(done))' /\ StackInv'
    BY <2>1, ChildStays
  <2>3. TypeOK' /\ Channel' /\ RepeatsTheLast'
    BY <2>1 DEF IInv, TypeOK, Channel, Follows, Back, RepeatsTheLast
  <2> QED BY <2>2, <2>3 DEF IInv
<1> QED BY <1>1, FgetsIInv, FgetsEofIInv, WriteIInv, CreateIInv, PushIInv, PopIInv, LookIInv
        DEF Next, ChildStep

-----------------------------------------------------------------------------

(* The chain of records, and the stack as the replay of those the child has run, never fail. *)
THEOREM InductiveInvariant == Spec => []IInv
BY InitIInv, NextIInv, PTL DEF Spec

(* TypeOK, for stacks and pipes of any size and input of any length. *)
THEOREM TypeCorrect == Spec => []TypeOK
<1>1. IInv => TypeOK
  BY DEF IInv
<1> QED BY <1>1, InductiveInvariant, PTL

(* The elements of Sent: the child's record, the pipe's, and the parent's. *)
LEMMA SentIs ==
    ASSUME NEW d \in Nat, NEW p \in Seq(Nat), NEW x \in Seq(Nat)
    PROVE  /\ Len(p) \in Nat /\ Len(x) \in Nat
           /\ Len(<<d>> \o p \o x) = 1 + Len(p) + Len(x)
           /\ (<<d>> \o p \o x)[1] = d
           /\ \A i \in 1 .. Len(p) : (<<d>> \o p \o x)[i + 1] = p[i]
           /\ \A i \in 1 .. Len(x) : (<<d>> \o p \o x)[Len(p) + 1 + i] = x[i]
<1> DEFINE q == <<d>> \o p
<1>1. Len(p) \in Nat /\ Len(x) \in Nat
  BY LenProperties
<1>2. <<d>> \in Seq(Nat) /\ Len(<<d>>) = 1 /\ <<d>>[1] = d
  OBVIOUS
<1>3. /\ q \in Seq(Nat) /\ Len(q) = 1 + Len(p)
      /\ \A i \in 1 .. 1 + Len(p) : q[i] = IF i <= 1 THEN <<d>>[i] ELSE p[i - 1]
  <2>1. /\ q \in Seq(Nat) /\ Len(q) = Len(<<d>>) + Len(p)
        /\ \A i \in 1 .. Len(<<d>>) + Len(p) :
              q[i] = IF i <= Len(<<d>>) THEN <<d>>[i] ELSE p[i - Len(<<d>>)]
    BY <1>2, ConcatProperties
  <2> QED BY <1>2, <2>1
<1>4. q[1] = d /\ \A i \in 1 .. Len(p) : q[i + 1] = p[i]
  <2>1. 1 \in 1 .. 1 + Len(p)
    BY <1>1
  <2>2. \A i \in 1 .. Len(p) : i + 1 \in 1 .. 1 + Len(p) /\ ~(i + 1 <= 1) /\ (i + 1) - 1 = i
    BY <1>1
  <2> HIDE DEF q
  <2> QED BY <1>2, <1>3, <2>1, <2>2
<1> HIDE DEF q
<1>5. /\ Len(q \o x) = Len(q) + Len(x)
      /\ \A i \in 1 .. Len(q) + Len(x) : (q \o x)[i] = IF i <= Len(q) THEN q[i] ELSE x[i - Len(q)]
  BY <1>3, ConcatProperties
<1>6. \A i \in 1 .. 1 + Len(p) : (q \o x)[i] = q[i]
  BY <1>1, <1>3, <1>5
<1>7. \A i \in 1 .. Len(x) : (q \o x)[Len(p) + 1 + i] = x[i]
  <2>1. \A i \in 1 .. Len(x) : /\ Len(p) + 1 + i \in 1 .. Len(q) + Len(x)
                               /\ ~(Len(p) + 1 + i <= Len(q)) /\ Len(p) + 1 + i - Len(q) = i
    BY <1>1, <1>3
  <2>2. ASSUME NEW i \in 1 .. Len(x)
        PROVE  (q \o x)[Len(p) + 1 + i] = x[i]
    <3>1. PICK k \in 1 .. Len(q) + Len(x) : k = Len(p) + 1 + i /\ ~(k <= Len(q)) /\ k - Len(q) = i
      BY <2>1
    <3>2. (q \o x)[k] = IF k <= Len(q) THEN q[k] ELSE x[k - Len(q)]
      BY <1>5
    <3> QED BY <3>1, <3>2
  <2> QED BY <2>2
<1>8. (q \o x)[1] = d /\ \A i \in 1 .. Len(p) : (q \o x)[i + 1] = p[i]
  <2>1. 1 \in 1 .. 1 + Len(p) /\ \A i \in 1 .. Len(p) : i + 1 \in 1 .. 1 + Len(p)
    BY <1>1
  <2> QED BY <1>4, <1>6, <2>1
<1> QED BY <1>1, <1>3, <1>5, <1>7, <1>8 DEF q

(* A chain from the input to the child, without a gap, is what InOrder asks for. *)
LEMMA InvariantImpliesInOrder == IInv => InOrder
<1> SUFFICES ASSUME IInv PROVE InOrder
  OBVIOUS
<1> DEFINE x == IF parent = "write" THEN <<command>> ELSE <<>>
           m == Len(pipe)
<1>1. /\ m \in Nat /\ pipe \in Seq(Nat) /\ done \in Nat /\ x \in Seq(Nat)
      /\ pipe # <<>> <=> m > 0
      /\ Len(x) = IF parent = "write" THEN 1 ELSE 0
      /\ parent = "write" => x[1] = command
  <2>1. /\ pipe \in Seq(0 .. Len(input)) /\ m \in Nat /\ done \in Nat /\ command \in Nat
        /\ Len(input) \in Nat /\ (pipe # <<>> <=> m > 0)
    BY Numbers DEF IInv
  <2>2. 0 .. Len(input) \subseteq Nat
    BY <2>1
  <2>3. pipe \in Seq(Nat)
    BY <2>1, <2>2, SeqMonotonic
  <2> QED BY <2>1, <2>3
<1>2. /\ Len(Sent) = 1 + m + Len(x) /\ Sent[1] = done
      /\ \A i \in 1 .. m : Sent[i + 1] = pipe[i]
      /\ parent = "write" => Sent[m + 2] = command
  <2>1. /\ Len(Sent) = 1 + m + Len(x) /\ Sent[1] = done
        /\ \A i \in 1 .. m : Sent[i + 1] = pipe[i]
        /\ \A i \in 1 .. Len(x) : Sent[m + 1 + i] = x[i]
    <3> HIDE DEF x
    <3> QED BY <1>1, SentIs DEF Sent, x
  <2>2. parent = "write" => 1 \in 1 .. Len(x) /\ m + 1 + 1 = m + 2
    BY <1>1
  <2> QED BY <1>1, <2>1, <2>2
<1> HIDE DEF x
<1>3. /\ command = Len(input) /\ parent \in {"fgets", "write"}
      /\ pipe # <<>> => Follows(done, pipe[1])
      /\ \A i \in 1 .. m - 1 : Follows(pipe[i], pipe[i + 1])
      /\ parent = "write" => Follows(Back, command)
      /\ parent = "fgets" => Back = Len(input)
  BY DEF IInv, Channel, TypeOK
<1> HIDE DEF m
<1>4. Back = Sent[m + 1]
  <2>1. CASE pipe = <<>>
    BY <1>1, <1>2, <2>1 DEF Back
  <2>2. CASE pipe # <<>>
    <3>1. m \in 1 .. m
      BY <1>1, <2>2
    <3> QED BY <1>2, <2>2, <3>1 DEF Back, m
  <2> QED BY <2>1, <2>2
<1>5. Sent[Len(Sent)] = Len(input)
  <2>1. CASE parent = "write"
    <3>1. Len(Sent) = m + 2
      BY <1>1, <1>2, <2>1
    <3> QED BY <1>2, <1>3, <2>1, <3>1
  <2>2. CASE parent = "fgets"
    <3>1. Len(Sent) = m + 1
      BY <1>1, <1>2, <2>2
    <3> QED BY <1>3, <1>4, <2>2, <3>1
  <2> QED BY <1>3, <2>1, <2>2
<1>6. ASSUME NEW i \in 1 .. Len(Sent) - 1
      PROVE  Follows(Sent[i], Sent[i + 1])
  <2>1. \/ i \in 1 .. m
        \/ i = m + 1 /\ parent = "write"
    BY <1>1, <1>2, <1>3
  <2>2. CASE i = m + 1 /\ parent = "write"
    <3>1. i + 1 = m + 2
      BY <1>1, <2>2
    <3> QED BY <1>2, <1>3, <1>4, <2>2, <3>1
  <2>3. CASE i \in 1 .. m
    <3>1. Sent[i + 1] = pipe[i] /\ pipe # <<>>
      BY <1>1, <1>2, <2>3
    <3>2. CASE i = 1
      BY <1>2, <1>3, <3>1, <3>2
    <3>3. CASE i # 1
      <4>1. i - 1 \in 1 .. m - 1 /\ i - 1 \in 1 .. m /\ (i - 1) + 1 = i
        BY <1>1, <2>3, <3>3
      <4>2. Follows(pipe[i - 1], pipe[(i - 1) + 1]) /\ Sent[(i - 1) + 1] = pipe[i - 1]
        BY <1>2, <1>3, <4>1
      <4> QED BY <3>1, <4>1, <4>2
    <3> QED BY <3>2, <3>3
  <2> QED BY <2>1, <2>2, <2>3
<1> QED BY <1>5, <1>6 DEF InOrder, Follows

(***************************************************************************)
(* InOrder, for pipes of any size and input of any length: the child runs  *)
(* every line once and in order, and only the last one again, at the end   *)
(* of the input, as long as it has not written through the wild pointer.   *)
(***************************************************************************)
THEOREM NoLineIsLost == Spec => []InOrder
BY InvariantImpliesInOrder, InductiveInvariant, PTL

(* The array holds the replay, and a look shows what the replay has. *)
LEMMA InvariantImpliesReplay == IInv => StackIsReplay
<1> SUFFICES ASSUME IInv, child = "run", \E j \in 1 .. done : input[j].op = "create"
             PROVE  LET s == Replay(done, repeats)
                        top == Len(s)
                    IN  /\ [i \in 1 .. next |-> arr[i - 1]] = s
                        /\ At(done).op \in Looks =>
                              shown[1] = CASE At(done).op = "display" -> s
                                           [] At(done).op = "size"    -> top
                                           [] At(done).op = "empty"   -> IF s = <<>> THEN -1 ELSE 0
                                           [] At(done).op = "peek"    -> IF s = <<>> THEN -1 ELSE s[top]
  BY DEF StackIsReplay
<1> DEFINE op == At(done).op
<1>1. /\ Content = Replay(done, repeats)
      /\ op \in Looks => shown = <<Answer(op)>>
  BY DEF IInv, StackInv, Created
<1>2. /\ next \in Nat /\ Len(Content) = next /\ (Content = <<>> <=> next = 0)
      /\ next # 0 => Content[next] = arr[next - 1]
  <2>1. next \in Nat /\ \A i \in 1 .. next : arr[i - 1] \in Values \cup {0, Junk}
    BY StackConstants DEF IInv, TypeOK
  <2>2. Content \in Seq(Values \cup {0, Junk}) /\ Len(Content) = next
    BY <2>1 DEF Content
  <2>3. Content = <<>> <=> next = 0
    BY <2>1, <2>2, EmptySeq
  <2>4. next # 0 => next \in 1 .. next
    BY <2>1
  <2> QED BY <2>1, <2>2, <2>3, <2>4 DEF Content
<1>3. op \in Looks =>
        Answer(op) = CASE op = "display" -> Content
                       [] op = "size"    -> next
                       [] op = "empty"   -> IF next = 0 THEN -1 ELSE 0
                       [] op = "peek"    -> IF next = 0 THEN -1 ELSE arr[next - 1]
  BY DEF Answer, Content, Looks
<1> HIDE DEF op
<1>4. op \in Looks =>
        shown[1] = CASE op = "display" -> Content
                     [] op = "size"    -> Len(Content)
                     [] op = "empty"   -> IF Content = <<>> THEN -1 ELSE 0
                     [] op = "peek"    -> IF Content = <<>> THEN -1 ELSE Content[Len(Content)]
  BY <1>1, <1>2, <1>3 DEF Looks
<1> QED BY <1>1, <1>4 DEF op, Content

(***************************************************************************)
(* StackIsReplay, for stacks of any size and input of any length: from the *)
(* first create on, the child's array and index hold, and what it prints   *)
(* is, what its lines make of a stack, whatever was read before through    *)
(* the wild pointer and however often the last line is sent again.         *)
(***************************************************************************)
THEOREM StackIsTheReplay == Spec => []StackIsReplay
BY InvariantImpliesReplay, InductiveInvariant, PTL
=============================================================================
