---------------------------- MODULE MCNodeTable ----------------------------
(* An instance of NodeTable in which two of the three names collide. *)
EXTENDS NodeTable, TLC

CONSTANTS n1, n2, n3, a1, a2

MCNames   == {n1, n2, n3}
MCAddrs   == {a1, a2}
MCBuckets == 0 .. 1
MCHash    == n1 :> 0 @@ n2 :> 0 @@ n3 :> 1
=============================================================================
