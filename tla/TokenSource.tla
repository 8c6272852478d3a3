----------------------------- MODULE TokenSource -----------------------------
(***************************************************************************)
(* What the parser's advance promises: the kind of p->curr and the error   *)
(* reporter.  The scanner of Lexer.tla implements it, and it is all that   *)
(* Parser.tla assumes in its own advance, one step of which stands for any *)
(* number of complaints and the delivery after them.                       *)
(***************************************************************************)
EXTENDS Context, Tokens

VARIABLES curr, ctx

SourceInit == curr = "NONE" /\ ctx = CtxInit

\* A token of a kind the parser knows; none follows the end of the file.
Hand == curr # "EOF" /\ curr' \in TokenKinds /\ UNCHANGED ctx

\* Something was skipped and reported, before the end of the file only.
Complain == curr # "EOF" /\ ctx' = ctx_error(ctx) /\ UNCHANGED curr

SourceNext == Hand \/ Complain

SourceSpec == SourceInit /\ [][SourceNext]_<<curr, ctx>>
=============================================================================
