------------------------------ MODULE MCAuth ------------------------------
(* Small instances of AuthThrottle: more attempts than the limit allows.   *)
EXTENDS AuthThrottle, TLC

CONSTANTS a1, a2, a3, a4, a5

FiveAttempts == {a1, a2, a3, a4, a5}
Interchangeable == Permutations(FiveAttempts)
=============================================================================
