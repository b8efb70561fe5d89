--------------------------- MODULE MC_AccArmCodeBuf ---------------------------
(* Constants of AccArmCodeBuf for TLC.                                      *)
EXTENDS AccArmCodeBuf

\* li inputs: 0 and 129 (mov), 257 (neither mov nor mvn: literal pool) and
\* Mod - 1, that is -1 (mvn #0).
MC_Consts == {0, 129, 257}

MC_Ops == {"add", "div"}

\* A local four bytes below the frame pointer.
MC_LocalEAs == {-4}

\* Locals four and 260 bytes below the frame pointer: 260 encodes for sub
\* (65 rotated), but not as a plain offset, and a frame that deep is past
\* the 255 bytes the allocation can hold.
MC_DeepLocalEAs == {-4, -260}

\* A literal value whose bits are "stmfd sp!, {r0}": 0xE92D0001, the int
\* -382926847.
MC_Colliding == {Push}
=============================================================================
