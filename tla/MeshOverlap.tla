----------------------------- MODULE MeshOverlap -----------------------------
(***************************************************************************)
(* Mesh with a history variable: has any node accepted a connection while  *)
(* the HELLO or the push on another was still to be handled?  The IP       *)
(* address of the latter is then gone from the static buffer that its      *)
(* callback points to.  So is that of a request which is handled again     *)
(* when there was nothing to receive.  The history is kept only where the  *)
(* nodes have different addresses, so that it matters.                     *)
(***************************************************************************)
EXTENDS Mesh

VARIABLE overlap

Unhandled(s) ==
    {x \in ToSet(held[s]) :
        CASE x.kind = "push" -> TRUE
          [] x.kind = "join" -> ask[x.from] = "hello"
          [] x.kind = "gone" -> x.gives = "hello"}

\* Handlers run on a connection that only gave its end.
RunsAgain(s) ==
    /\ turn'[s] # turn[s] /\ turn[s] # <<>>
    /\ Head(turn[s]).kind = "gone" /\ Head(turn[s]).gives \in {"end", "reset"}

OverlapInit == Init /\ overlap = FALSE

OverlapNext ==
    /\ Next
    /\ overlap' = \/ overlap
                  \/ /\ ~SingleHost
                     /\ \E s \in Nodes :
                           \/ Len(held'[s]) > Len(held[s]) /\ Unhandled(s) # {}
                           \/ RunsAgain(s)

OverlapSpec == OverlapInit /\ [][OverlapNext]_<<vars, overlap>>

\* The fairness of FairSpec.
OverlapFairSpec ==
    /\ OverlapSpec
    /\ \A n \in Nodes : WF_vars(Joins(n)) /\ WF_vars(Serves(n))

(***************************************************************************)
(* Sharing the address buffer does no harm on a single host, and on        *)
(* several none until two accepts overlap: the tables have the true        *)
(* addresses,                                                              *)
(***************************************************************************)
TrueUntilOverlap == layout.clean /\ Tame /\ ~overlap => AddressesTrue

\* and a push ends a node only if it comes from another branch, or the node has lost its seed.
EndsUntilOverlap ==
    [][Undisturbed /\ ~overlap =>
          \A s \in Nodes : mode[s] = "up" /\ mode'[s] = "dead" => EndedFromAside(s)]_<<vars, overlap>>
=============================================================================
