----------------------------- MODULE SlotSaves -----------------------------
(***************************************************************************)
(* What a slot promises to the administrators who edit it and the jobs     *)
(* that read it: it is a sequence of complete saves.  Each save is one     *)
(* update worked into an earlier save, not always the last one, and is     *)
(* never torn: bindings change in the same step.  A job takes the settings *)
(* and templates of the last save in one step, and is never refused for    *)
(* want of a template.  Only its provider may be of an earlier save.       *)
(*                                                                         *)
(* SlotConfig implements this module with its transactions, row lock and   *)
(* two reads, whatever overlaps and whatever fails.                        *)
(***************************************************************************)
EXTENDS Naturals, Sequences

CONSTANTS Uploads, Updates, Runs, Names, None

VARIABLES
    saves,     \* every committed row of the slot
    bindings,  \* its rows in slot_template_media
    objects,   \* template objects that can be read
    job,       \* where each job is
    given      \* what each job works with

vars == <<saves, bindings, objects, job, given>>

Seed ==
    [author |-> None, version |-> 1, settings |-> [n \in Names |-> None], templates |-> <<>>]

Init ==
    /\ saves = <<Seed>>
    /\ bindings = {}
    /\ objects = {}
    /\ job = [t \in Runs |-> "idle"]
    /\ given = [t \in Runs |-> None]

Last == saves[Len(saves)]

Bound(save) ==
    {[by |-> save.author, pos |-> i,
      kind |-> save.templates[i].kind, object |-> save.templates[i].object]
        : i \in DOMAIN save.templates}

(* Every setting is the update's or was there before; every template can   *)
(* be read and no kind has two; either all templates are gone, or each     *)
(* kind that was there is where it was.                                    *)
MadeFrom(new, old) ==
    LET list == new.templates
    IN  /\ new.version = old.version + 1
        /\ \A n \in Names : new.settings[n] \in {new.author, old.settings[n]}
        /\ \A i \in DOMAIN list : list[i].object \in objects
        /\ \A i, k \in DOMAIN list : list[i].kind = list[k].kind => i = k
        /\ \/ list = <<>>
           \/ \A i \in DOMAIN old.templates :
                 i \in DOMAIN list /\ list[i].kind = old.templates[i].kind

Register(u) ==
    /\ objects' = objects \cup {u}
    /\ UNCHANGED <<saves, bindings, job, given>>

(* An update is saved once. *)
Save(c) ==
    LET new == Last'
    IN  /\ new.author = c
        /\ \A i \in DOMAIN saves : saves[i].author # c
        /\ \E i \in DOMAIN saves : MadeFrom(new, saves[i])
        /\ saves' = Append(saves, new)
        /\ bindings' = Bound(new)
        /\ UNCHANGED <<objects, job, given>>

Take(t) ==
    /\ job[t] = "idle"
    /\ job' = [job EXCEPT ![t] = "ready"]
    /\ \E i \in DOMAIN saves :
          given' = [given EXCEPT ![t] = [provider |-> saves[i].author,
                                         settings |-> Last.settings,
                                         templates |-> Last.templates]]
    /\ UNCHANGED <<saves, bindings, objects>>

Finish(t) ==
    /\ job[t] = "ready"
    /\ job' = [job EXCEPT ![t] = "ok"]
    /\ UNCHANGED <<saves, bindings, objects, given>>

Next ==
    \/ \E u \in Uploads : Register(u)
    \/ \E c \in Updates : Save(c)
    \/ \E t \in Runs : Take(t) \/ Finish(t)

Spec == Init /\ [][Next]_vars
=============================================================================
