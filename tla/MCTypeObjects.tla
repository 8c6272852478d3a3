---------------------------- MODULE MCTypeObjects -----------------------------
(* The arena on a small instance. *)
EXTENDS TypeObjects

\* Products that fit, that overflow on the way to zero or beyond, and a length
\* that the cast made negative.
FewLengths == {3, -9}
=============================================================================
