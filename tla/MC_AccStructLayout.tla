------------------------ MODULE MC_AccStructLayout ------------------------
(* Members of alignment 1, 4 and 8, arrays of three elements, two struct  *)
(* types (so one can be a member of the other) and up to three members.  *)
EXTENDS AccStructLayout

MC_Scalars == {"char", "int", "double"}
MC_ArrayLengths == {3}
=============================================================================
