------------------------------- MODULE Context -------------------------------
(***************************************************************************)
(* The error reporter of src/src/context.c: one latch shared by the lexer, *)
(* the parser and the semantic analysis.                                   *)
(***************************************************************************)
EXTENDS Integers

\* had_error, panic_mode and the number of diagnostics written to stderr.
CtxInit == [had_error |-> FALSE, panic_mode |-> FALSE, printed |-> 0]

\* ctx_error: silent once panic_mode is set; nothing resets panic_mode.
ctx_error(c) ==
  IF c.panic_mode THEN c
  ELSE [had_error |-> TRUE, panic_mode |-> TRUE, printed |-> c.printed + 1]

ContextType == [had_error : BOOLEAN, panic_mode : BOOLEAN, printed : Nat]
=============================================================================
