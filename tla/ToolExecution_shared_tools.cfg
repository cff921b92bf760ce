CONSTANTS
    Bom <- MCBom
    Policy <- MCPolicy
    Sessions = {"primary", "worker"}
    Verifiers = {v1, v2}
    Keys = {k1}
SPECIFICATION Spec
INVARIANTS RawTextIsVouched TrustIsEarned StatusIsTrue
PROPERTY NoCallAfterMismatch
SYMMETRY Symmetry
CHECK_DEADLOCK FALSE
