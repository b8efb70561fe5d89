--------------------------- MODULE MC_AccBranches ---------------------------
EXTENDS AccBranches

\* Two forward references per function on x86, where they form a chain.
\* On ARM a second forward reference to the same function is the case
\* branches_fwdref.cfg reproduces; the pass run keeps one.
MC_RefBound == [b \in {"arm", "x86"} |-> IF b = "arm" THEN 1 ELSE 2]
MC_RefBoundTwo == [b \in {"arm", "x86"} |-> 2]

\* The function names are interchangeable.
MC_Symmetry == Permutations(Funcs)

=============================================================================
