---------------------------- MODULE MCStackShell ----------------------------
(* Lines for StackShell: every command, with and without an argument. *)
EXTENDS StackShell

Typed(op, args) == {[op |-> op, arg |-> v] : v \in args}

MCLines ==
    UNION {Typed("push", {1, 2, None}), Typed("create", {None}), Typed("pop", {None, 2}),
           Typed("peek", {None}), Typed("size", {1}), Typed("empty", {None}),
           Typed("display", {None}), Typed("other", {2})}
=============================================================================
