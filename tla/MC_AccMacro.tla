----------------------------- MODULE MC_AccMacro -----------------------------
(* Three macro names and one plain token.  MC_Defs has no cycle through  *)
(* two macros, only self-reference; MC_CycleDefs defines A as B and B as *)
(* A.  Texts are up to four directives or tokens long.                    *)
EXTENDS AccMacro

CONSTANTS A, B, C, x

MC_Names == {A, B, C}
MC_Plain == {x}
MC_Defs == {[name |-> A, body |-> << B >>], [name |-> A, body |-> << x, A >>],
            [name |-> B, body |-> << C >>], [name |-> B, body |-> << >>],
            [name |-> C, body |-> << x >>], [name |-> C, body |-> << C >>]}
MC_Inputs == UNION {[1..n -> MC_Defs \cup {A, x}] : n \in 0..4}

MC_CycleDefs == {[name |-> A, body |-> << B >>], [name |-> B, body |-> << A >>]}
MC_CycleInputs == {<< [name |-> A, body |-> << B >>], [name |-> B, body |-> << A >>], A >>}
=============================================================================
