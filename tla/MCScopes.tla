------------------------------- MODULE MCScopes -------------------------------
(* Scopes on a small instance: any order of operations, up to MaxDepth scopes. *)
EXTENDS Scopes

CONSTANT MaxDepth

\* The bound on nesting: deeper chains are not explored.
DepthBound == Len(scopes) <= MaxDepth
=============================================================================
