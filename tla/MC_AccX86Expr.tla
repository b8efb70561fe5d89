--------------------------- MODULE MC_AccX86Expr ----------------------------
EXTENDS AccX86Expr

\* A float, a pointer to short and a function returning float of one
\* double: float and integer stores (through s and *s), pointer scaling,
\* both conversions and a call.
MC_Vars == [x \in {"f", "s", "fn"} |->
              CASE x = "f" -> Scalar("float")
                [] x = "s" -> Ptr(Scalar("short"))
                [] x = "fn" -> Fn(Scalar("float"), <<Scalar("double")>>)]

MC_Casts == {IntT}

\* After error() the compile fails and nothing it emits is used: every
\* errored state is one state for the checker.
MC_View == IF errored THEN <<"errored">> ELSE vars

=============================================================================
