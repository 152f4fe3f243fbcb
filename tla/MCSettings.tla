----------------------------- MODULE MCSettings -----------------------------
(* A small instance of SettingsRuntime: an update of the password and of   *)
(* all keys, those of the two Gemini drivers sharing a variable; one of    *)
(* both fields and Turbotext's key; one that sets one Gemini key and       *)
(* clears Turbotext's; and a GET.                                          *)
EXTENDS SettingsRuntime

CONSTANTS password, timeout, gemini, gemini3, turbotext, GEMINI, TURBOTEXT,
          put1, put2, put3, get

SomeFields == {password, timeout}
SomeProviders == {gemini, gemini3, turbotext}
SomeEnvOf == [p \in SomeProviders |-> IF p = turbotext THEN TURBOTEXT ELSE GEMINI]
SomeCalls == {put1, put2, put3, get}
SomeSets ==
    [c \in SomeCalls |->
        CASE c = put1 -> {password, gemini, gemini3, turbotext}
          [] c = put2 -> {password, timeout, turbotext}
          [] c = put3 -> {gemini}
          [] c = get -> {}]
SomeClears == [c \in SomeCalls |-> IF c = put3 THEN {turbotext} ELSE {}]
=============================================================================
