----------------------------- MODULE MCProvider -----------------------------
(* A small instance of ProviderCall.  Durations are scaled so that a limit *)
(* has room for all NO_IMAGE pauses or for none, and backoffs range from   *)
(* none to one that outlasts the shorter limit.                            *)
EXTENDS ProviderCall

ShortAndLong == {2, 6}
TooFewAndTooMany == {0, 2, 5}
NoneAndLong == {0, 3}
=============================================================================
