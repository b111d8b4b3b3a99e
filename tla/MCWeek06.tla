------------------------------ MODULE MCWeek06 ------------------------------
(***************************************************************************)
(* The parts of week06 that stand on their own: a vector, the reference    *)
(* counter, the JSON reader and the index of files.  They share no state,  *)
(* so one of them runs at a time, and the others rest.                     *)
(***************************************************************************)
EXTENDS Vector, RefCounter, JsonReader, JsonText, FileIndex

CONSTANTS o1, o2, o3

Three == {o1, o2, o3}

\* two of the objects in one bucket
OwnBucket == (o1 :> 0 @@ o2 :> 1 @@ o3 :> 1)

\* The name of every property is one letter.
T(type) == Token(type, IF type = "string" THEN <<97>> ELSE <<>>)

SomeTokens == {T(type) : type \in {"string", "null"} \cup Signs}

Elem == <<T("null"), T("comma")>>
Prop == <<T("string"), T("colon"), T("null"), T("comma")>>

\* Any message, and the ends of an array and of an object of three.
SomeOpenings ==
    (<<>> :> 7) @@ (<<T("left_bracket")>> \o Elem \o Elem \o Elem :> 3)
                @@ (<<T("left_brace")>> \o Prop \o Prop \o Prop :> 5)

\* Nothing, right brackets, or right brackets and commas in turn.
SomeLeftovers ==
    {<<>>,
     [k \in 1 .. 20 |-> T("right_bracket")],
     [k \in 1 .. 20 |-> T(IF k % 2 = 0 THEN "right_bracket" ELSE "comma")]}

\* Two nodes on a host, with names in one bucket.
TwoNodes == {[name |-> <<97>>, ip |-> <<49>>, port |-> 1], [name |-> <<100>>, ip |-> <<49>>, port |-> 20]}

\* ab,] and a\ and a\\ and a letter that is not ASCII
SomeFiles == {<<97, 98, 44, 93>>, <<97, 92>>, <<97, 92, 92>>, <<195, 169>>}

VARIABLE part

Init ==
    /\ part \in {"vector", "counter", "reader", "index"}
    /\ VectorInit /\ (part # "vector" => roomy)
    /\ RefInit
    /\ ReaderInit /\ (part # "reader" => opening = <<>> /\ array = <<>>)
    /\ IndexInit

Next ==
    /\ UNCHANGED part
    /\ \/ part = "vector"  /\ VectorNext /\ UNCHANGED <<refVars, readerVars, indexVars>>
       \/ part = "counter" /\ RefNext    /\ UNCHANGED <<vectorVars, readerVars, indexVars>>
       \/ part = "reader"  /\ ReaderNext /\ UNCHANGED <<vectorVars, refVars, indexVars>>
       \/ part = "index"   /\ IndexNext  /\ UNCHANGED <<vectorVars, refVars, readerVars>>

Spec == Init /\ [][Next]_<<part, vectorVars, refVars, readerVars, indexVars>>
=============================================================================
