------------------------------ MODULE MCSlots ------------------------------
(* A small instance of SlotConfig: three updates, one job, two uploads,    *)
(* two kinds of templates.  The payloads set settings or not, and clear    *)
(* the templates, name one kind, both, or one kind twice.                  *)
EXTENDS SlotConfig

CONSTANTS put1, put2, put3, t1, u1, u2, prompt, seed

ThreeUpdates == {put1, put2, put3}
OneRun == {t1}
TwoUploads == {u1, u2}
TwoNames == {prompt, seed}
Bind(k, u) == [kind |-> k, object |-> u]
SomePayloads ==
    {[sets |-> {}, media |-> <<>>],
     [sets |-> {prompt}, media |-> <<Bind("style", u1)>>],
     [sets |-> {seed}, media |-> <<Bind("overlay", u1)>>],
     [sets |-> {prompt, seed}, media |-> <<Bind("overlay", u2), Bind("style", u2)>>],
     [sets |-> {}, media |-> <<Bind("style", u1), Bind("style", u2)>>]}
Interchangeable == Permutations(ThreeUpdates)
=============================================================================
