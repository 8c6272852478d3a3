------------------------------ MODULE ScopedEnv ------------------------------
(***************************************************************************)
(* What a block-structured symbol table promises, with no chain of scopes  *)
(* to walk: every open scope has a total environment, the binding each     *)
(* name has in it.  Entering a scope inherits the environment around it,   *)
(* leaving one brings that environment back unchanged, and declaring a     *)
(* name changes the innermost environment at that name only, and only once.*)
(***************************************************************************)
EXTENDS Integers, Sequences, SequencesExt

CONSTANTS Names,    \* identifiers
          Symbols,  \* what a declaration can bind a name to
          Unbound   \* the binding of a name that is declared nowhere

VARIABLES envs,  \* per open scope, innermost last: [Names -> binding]
          own    \* per open scope: what it declares itself, Unbound elsewhere

vars == <<envs, own>>

Outside == [n \in Names |-> Unbound]
Current == IF envs = <<>> THEN Outside ELSE Last(envs)

Init == envs = <<>> /\ own = <<>>

Enter == /\ envs' = Append(envs, Current)
         /\ own' = Append(own, Outside)

Leave == /\ envs # <<>>
         /\ envs' = Front(envs)
         /\ own' = Front(own)

Declare(n, sym) ==
  /\ envs # <<>>
  /\ Last(own)[n] = Unbound
  /\ envs' = [envs EXCEPT ![Len(envs)] = [@ EXCEPT ![n] = sym]]
  /\ own' = [own EXCEPT ![Len(own)] = [@ EXCEPT ![n] = sym]]

Next == Enter \/ Leave \/ \E n \in Names, sym \in Symbols : Declare(n, sym)

Spec == Init /\ [][Next]_vars
=============================================================================
