---------------------------- MODULE MC_AccScopes ----------------------------
(* Two identifiers, one resolved by the symbol lookup callback, parameter *)
(* lists that reach the duplicate-parameter error, two local levels, and  *)
(* a local arena of 16-byte chunks (CHUNK_SIZE scaled) in which two       *)
(* blocks fit, so that levels span chunks.                                *)
EXTENDS AccScopes

CONSTANTS a, b

MC_Tok == {a, b}
MC_External == {b}
MC_ParamLists == {<< >>, << a >>, << a, a >>}
=============================================================================
