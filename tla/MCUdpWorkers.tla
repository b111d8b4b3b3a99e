---------------------------- MODULE MCUdpWorkers ----------------------------
(* Two networks for UdpWorkers. *)
EXTENDS UdpWorkers, TLC

CONSTANTS c1, c2, c3

Three == {c1, c2, c3}

\* Three clients that ask twice, and room for a question of each.
Calm == [asks |-> [c \in Three |-> 2], lossy |-> FALSE, size |-> 3]

\* Loss and duplication, and a buffer that one question fills.
Rough == [asks |-> (c1 :> 2 @@ c2 :> 1 @@ c3 :> 0), lossy |-> TRUE, size |-> 1]

Both == {Calm, Rough}
=============================================================================
