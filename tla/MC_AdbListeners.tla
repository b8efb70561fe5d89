-------------------------- MODULE MC_AdbListeners --------------------------
EXTENDS AdbListeners

CONSTANTS l1, l2, l3, tcp5037, tcp1, tcp2, rA, rB, smart, d1, d2, null

MC_Ids == {l1, l2, l3}
MC_LocalNames == {tcp5037, tcp1, tcp2}
MC_Remotes == {rA, rB}
MC_Transports == {d1, d2}
\* Devices, remotes and listener addresses are interchangeable: no
\* definition or property names one, and every property is safety.
MC_Symmetry == Permutations(MC_Transports) \cup Permutations(MC_Remotes) \cup Permutations(MC_Ids)
=============================================================================
