--------------------------- MODULE MC_AccSymbols ---------------------------
(* Two identifiers, one of which the symbol lookup callback resolves (as  *)
(* dlsym resolves printf for the acc driver), parameter lists that reach  *)
(* the duplicate-parameter error, two local levels.                       *)
EXTENDS AccSymbols

CONSTANTS a, b

MC_Tok == {a, b}
MC_External == {b}
MC_ParamLists == {<< >>, << a >>, << a, a >>}
=============================================================================
