------------------------------- MODULE MCMesh -------------------------------
(* Instances of Mesh: four nodes in four layouts, or five in others. *)
EXTENDS MeshOverlap

CONSTANTS a, b, c, d, k, h1, h2, h3, h4, h5

Four  == {a, b, c, d}
Five  == Four \cup {k}
SomeHosts == {h1, h2, h3, h4, h5}
SomePorts == 2000 .. 2004

\* every node has a bucket of its own
OwnBuckets == 0 .. 4
OwnHash == [n \in Nodes |-> CASE n = a -> 0 [] n = b -> 1 [] n = c -> 2 [] n = d -> 3 [] n = k -> 4]

\* everyone joins through a
Star == [n \in Four |-> IF n = a THEN Nobody ELSE a]

\* b and c join through a, d through c
Tree == (a :> Nobody @@ b :> a @@ c :> a @@ d :> c)

\* each joins through the one before
Chain == (a :> Nobody @@ b :> a @@ c :> b @@ d :> c)

\* b and d join through a, c through b, k through d
Branches == (a :> Nobody @@ b :> a @@ c :> b @@ d :> a @@ k :> d)

\* b and c join through a; d and k are each other's seed, which at most one of them finds up
Circle == (a :> Nobody @@ b :> a @@ c :> a @@ d :> k @@ k :> d)

\* b and c join through a, d through c, and k starts alone
Tandem == Tree @@ (k :> Nobody)

\* all nodes on one host, on ports of their own
OneHost(seeds, clean, bound) ==
    [host |-> [n \in Nodes |-> h1], port |-> [n \in Nodes |-> 2000 + OwnHash[n]],
     seed |-> seeds, clean |-> clean, crashes |-> bound]

\* hosts of their own, the same port
OwnHosts(seeds, bound) ==
    [host |-> [n \in Nodes |-> CASE n = a -> h1 [] n = b -> h2 [] n = c -> h3 [] n = d -> h4 [] n = k -> h5],
     port |-> [n \in Nodes |-> 2000],
     seed |-> seeds, clean |-> TRUE, crashes |-> bound]

Calm   == {OneHost(Star, TRUE, 0), OneHost(Tree, TRUE, 0), OneHost(Chain, TRUE, 0),
           OwnHosts(Star, 0)}
Faulty == {OneHost(Circle, TRUE, 2), OwnHosts(Circle, 1), OneHost(Tandem, TRUE, 1),
           OneHost(Circle, FALSE, 0), OneHost(Branches, TRUE, 0), OwnHosts(Branches, 0)}
Early  == {OneHost(Star, FALSE, 0)}
=============================================================================
