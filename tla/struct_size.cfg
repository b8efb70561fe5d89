CONSTANTS
    Width = 16
    Scalars <- MC_Scalars
    ArrayLengths <- MC_ArrayLengths
    MaxStructs = 2
    MaxMembers = 3
    ValidCOnly = TRUE
SPECIFICATION Spec
INVARIANT SizeMultipleOfAlignment
