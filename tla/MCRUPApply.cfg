CONSTANTS
    Inputs <- MCInputs
    Patches <- MCPatches
    MayCrash = TRUE
SPECIFICATION Spec
INVARIANTS PatchedExactly ReplacementComplete VerdictExact 
