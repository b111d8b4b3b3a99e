----------------------------- MODULE StackShell -----------------------------
(***************************************************************************)
(* The stack of week01 (ex1.c): the parent sends each line it reads, as a  *)
(* record of 1024 bytes, through a pipe to the child, which runs it on a   *)
(* stack.  The parent does not look at what fgets returns, so at the end   *)
(* of its input it goes on to send the last line it has read.              *)
(*                                                                         *)
(* A record stands for a position in the input, 0 for the blank buffer of  *)
(* a parent that never read a line.  Lines of more than 1023 characters or *)
(* with more than one space are left out, and so is a pipe(2) that fails.  *)
(***************************************************************************)
EXTENDS Integers, Sequences, FiniteSetsExt

CONSTANTS
    Lines,          \* what the user may type
    Values,         \* numbers that may be pushed
    StackMax,       \* STACK_MAX_SIZE
    PipeCap,        \* records the pipe holds
    MaxInput,       \* bound of the model: lines before the end of the input
    None, Junk      \* no argument, no output; memory as malloc returns it

Looks == {"display", "peek", "empty", "size"}
Line  == [op : {"create", "push", "pop", "other"} \cup Looks, arg : Values \cup {None}]

ASSUME StackConstants ==
    /\ Lines \subseteq Line
    /\ Values \subseteq Int
    /\ StackMax \in Nat \ {0} /\ PipeCap \in Nat \ {0} /\ MaxInput \in Nat

VARIABLES
    input, eof,     \* the lines typed so far; has the input ended?
    parent,         \* what the parent is about to do
    command,        \* the line in the parent's buffer
    pipe,           \* the records in the pipe
    child,          \* the child process; lost if it has written to memory not its stack's
    done, repeats,  \* the line it has run last, and how often again: history
    argument,       \* split_command[1]
    made,           \* does `stack' point to a stack?
    arr, next,      \* stack->arr and stack->next_element
    shown           \* what the last command printed

stack == <<made, arr, next>>
childVars == <<child, done, repeats, argument, stack, shown>>
vars == <<input, eof, parent, command, pipe, childVars>>

Blank == [op |-> "other", arg |-> None]
At(k) == IF k = 0 THEN Blank ELSE input[k]

TypeOK ==
    /\ input \in Seq(Lines) /\ Len(input) <= MaxInput
    /\ eof \in BOOLEAN
    /\ parent \in {"fgets", "write"}
    /\ command \in 0 .. Len(input)
    /\ pipe \in Seq(0 .. Len(input)) /\ Len(pipe) <= PipeCap
    /\ child \in {"run", "dead", "lost"}
    /\ done \in 0 .. Len(input) /\ repeats \in 0 .. StackMax
    /\ argument \in Values \cup {0}
    /\ made \in BOOLEAN
    /\ arr \in [0 .. StackMax - 1 -> Values \cup {0, Junk}]
    /\ next \in 0 .. StackMax

\* fork may fail; the parent then takes -1 for the child's number and goes on alone.
Init ==
    /\ input = <<>> /\ eof = FALSE
    /\ parent = "fgets" /\ command = 0
    /\ pipe = <<>>
    /\ child \in {"run", "dead"}
    /\ done = 0 /\ repeats = 0
    /\ argument = 0
    /\ made = FALSE /\ arr = [i \in 0 .. StackMax - 1 |-> Junk] /\ next = 0
    /\ shown = None

-----------------------------------------------------------------------------
(* parent *)

Fgets(line) ==
    /\ parent = "fgets" /\ ~eof
    /\ Len(input) < MaxInput
    /\ input' = Append(input, line)
    /\ command' = Len(input')
    /\ parent' = "write"
    /\ UNCHANGED <<eof, pipe, childVars>>

\* Mutant: the parent looks at what fgets returns.
FgetsEofStops ==
    /\ parent = "fgets"
    /\ eof' = TRUE
    /\ UNCHANGED <<input, parent, command, pipe, childVars>>

\* There is no more: the buffer stays as it is.
FgetsEof ==
    /\ parent = "fgets"
    /\ eof' = TRUE
    /\ parent' = "write"
    /\ UNCHANGED <<input, command, pipe, childVars>>

\* Mutant: a full pipe does not block the parent, and the record is lost.
WriteDrops ==
    /\ parent = "write"
    /\ pipe' = IF Len(pipe) < PipeCap THEN Append(pipe, command) ELSE pipe
    /\ parent' = "fgets"
    /\ UNCHANGED <<input, eof, command, childVars>>

(***************************************************************************)
(* Blocks while the pipe is full, for good if the child is dead: the       *)
(* parent has the reading end open itself, so no SIGPIPE ends it.          *)
(***************************************************************************)
Write ==
    /\ parent = "write"
    /\ Len(pipe) < PipeCap
    /\ pipe' = Append(pipe, command)
    /\ parent' = "fgets"
    /\ UNCHANGED <<input, eof, command, childVars>>

-----------------------------------------------------------------------------
(* child *)

\* Mutant: a line without an argument empties split_command[1].
SplitClears(line) == argument' = IF line.arg = None THEN 0 ELSE line.arg

\* split_command[1] is only written when there is an argument.
Split(line) == argument' = IF line.arg = None THEN argument ELSE line.arg

\* The child reads a record and splits it.
Read(ops) ==
    /\ child = "run" /\ pipe # <<>>
    /\ At(Head(pipe)).op \in ops
    /\ pipe' = Tail(pipe)
    /\ Split(At(Head(pipe)))
    /\ done' = Head(pipe)
    /\ repeats' = IF done' = done THEN Min({repeats + 1, StackMax}) ELSE 0
    /\ UNCHANGED <<input, eof, parent, command>>

Create ==
    /\ Read({"create"})
    /\ made' = TRUE /\ arr' = [i \in 0 .. StackMax - 1 |-> Junk] /\ next' = 0
    /\ shown' = None
    /\ UNCHANGED child

\* malloc fails, which is reported and not acted upon.
CreateFails ==
    /\ Read({"create"})
    /\ child' = "dead"
    /\ UNCHANGED <<stack, shown>>

\* Mutant: the limit is off by one.
PushBeyond ==
    /\ made /\ Read({"push"})
    /\ IF next > StackMax
       THEN UNCHANGED <<arr, next>>
       ELSE /\ arr' = [arr EXCEPT ![next] = argument']
            /\ next' = next + 1
    /\ shown' = None
    /\ UNCHANGED <<child, made>>

Push ==
    /\ made /\ Read({"push"})
    /\ IF next >= StackMax
       THEN UNCHANGED <<arr, next>>
       ELSE /\ arr' = [arr EXCEPT ![next] = argument']
            /\ next' = next + 1
    /\ shown' = None
    /\ UNCHANGED <<child, made>>

Pop ==
    /\ made /\ Read({"pop"})
    /\ next' = IF next = 0 THEN 0 ELSE next - 1
    /\ shown' = None
    /\ UNCHANGED <<child, made, arr>>

Answer(op) ==
    CASE op = "display" -> [i \in 1 .. next |-> arr[i - 1]]
      [] op = "peek"    -> IF next = 0 THEN -1 ELSE arr[next - 1]
      [] op = "empty"   -> IF next = 0 THEN -1 ELSE 0
      [] op = "size"    -> next

Look ==
    /\ made /\ Read(Looks)
    /\ shown' = <<Answer(At(Head(pipe)).op)>>
    /\ UNCHANGED <<child, stack>>

(***************************************************************************)
(* Before the first create the pointer is whatever the stack frame         *)
(* happened to hold: the child dies, or takes some other memory for a      *)
(* stack and prints what it finds.  A push or pop may write there: memory  *)
(* nobody uses, or anything, and then the child is lost to the model,      *)
(* which takes no further step of it.                                      *)
(***************************************************************************)
Wild ==
    /\ ~made /\ Read({"push", "pop"} \cup Looks)
    /\ child' \in {"run", "dead"} \cup (IF At(Head(pipe)).op \in Looks THEN {} ELSE {"lost"})
    /\ shown' = Junk
    /\ UNCHANGED stack

Other ==
    /\ Read({"other"})
    /\ shown' = None
    /\ UNCHANGED <<child, stack>>

ChildStep == Create \/ Push \/ Pop \/ Look \/ Wild \/ Other
ParentStep == Write \/ (eof /\ FgetsEof)

Next ==
    \/ \E line \in Lines : Fgets(line)
    \/ FgetsEof \/ Write
    \/ ChildStep \/ CreateFails

Spec == Init /\ [][Next]_vars

\* Both processes run on, and the user may stop typing at any time.
FairSpec == Spec /\ WF_vars(ParentStep) /\ WF_vars(ChildStep)

-----------------------------------------------------------------------------
(* Properties *)

\* What the child ran last, what is in the pipe, and what the parent has yet to send.
Sent == <<done>> \o pipe \o (IF parent = "write" THEN <<command>> ELSE <<>>)

(***************************************************************************)
(* However far the parent is ahead, no line is lost, run twice or run out  *)
(* of order, and only the last one is sent again, at the end of the input, *)
(* unless the child has written through the wild pointer.                  *)
(***************************************************************************)
InOrder ==
    child # "lost" =>
        /\ Sent[Len(Sent)] = Len(input)
        /\ \A i \in 1 .. Len(Sent) - 1 :
              \/ Sent[i + 1] = Sent[i] + 1
              \/ eof /\ Sent[i] = Len(input) /\ Sent[i + 1] = Len(input)

\* The argument that line k runs with: the last one given up to there, of any command.
ArgumentOf(k) ==
    LET given == {j \in 1 .. k : input[j].arg # None}
    IN  IF given = {} THEN 0 ELSE input[Max(given)].arg

\* A stack as a sequence that ignores a push when full and a pop when empty.
Run(s, op, v) ==
    CASE op = "push" /\ Len(s) < StackMax -> Append(s, v)
      [] op = "pop" /\ s # <<>>           -> SubSeq(s, 1, Len(s) - 1)
      [] OTHER                            -> s

\* The stack that the commands after the first one of a range make of an empty stack.
Runs(commands, first, last) ==
    LET f[j \in first .. last] ==
            IF j = first THEN <<>> ELSE Run(f[j - 1], commands[j].op, commands[j].arg)
    IN  f[last]

\* The first k lines with the last one n more times, each with its argument.
Repeated(k, n) ==
    [j \in 1 .. k + n |-> LET i == Min({j, k}) IN [op |-> input[i].op, arg |-> ArgumentOf(i)]]

LastCreate(k) == Max({j \in 1 .. k : input[j].op = "create"})

\* The stack that the lines from the last create to line k make, the last one n more times.
Replay(k, n) == Runs(Repeated(k, n), LastCreate(k), k + n)

(***************************************************************************)
(* From the first create on the array and its index hold, and a command    *)
(* prints, what a replay of the lines says, however the processes are      *)
(* scheduled and whatever was read through the wild pointer before; what   *)
(* was written through it may have left nothing to rely on.                *)
(***************************************************************************)
StackIsReplay ==
    child = "run" /\ (\E j \in 1 .. done : input[j].op = "create") =>
        LET s == Replay(done, repeats)
            top == Len(s)
        IN  /\ [i \in 1 .. next |-> arr[i - 1]] = s
            /\ At(done).op \in Looks =>
                  shown[1] = CASE At(done).op = "display" -> s
                               [] At(done).op = "size"    -> top
                               [] At(done).op = "empty"   -> IF s = <<>> THEN -1 ELSE 0
                               [] At(done).op = "peek"    -> IF s = <<>> THEN -1 ELSE s[top]

\* Repeating the last line for ever leaves a stack that is full after a push, and
\* empty after a pop or a create.
Saturated ==
    /\ done = Len(input)
    /\ made => /\ At(done).op = "push" => next = StackMax
               /\ At(done).op \in {"pop", "create"} => next = 0

(***************************************************************************)
(* Nothing ends with the input: the child has in the end run every line    *)
(* and repeats the last one for ever; if it has died, the parent blocks on *)
(* a full pipe for good.  Of a lost child nothing is said.                 *)
(***************************************************************************)
EndSaturates ==
    <>[](eof => CASE child = "run"  -> Saturated
                  [] child = "dead" -> parent = "write" /\ Len(pipe) = PipeCap
                  [] child = "lost" -> TRUE)
=============================================================================
