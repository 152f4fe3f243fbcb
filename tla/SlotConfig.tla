----------------------------- MODULE SlotConfig -----------------------------
(***************************************************************************)
(* The configuration of one slot: template uploads, PUT /api/slots/{id}    *)
(* and the jobs that read the slot.  Updates run on threads of the pool,   *)
(* uploads and jobs on the event loop, so an update's transaction may end  *)
(* between any two reads of a job.                                         *)
(*                                                                         *)
(* An update is one transaction, READ COMMITTED: it reads the row, merges, *)
(* and its pending UPDATE is flushed (and the row locked) by the session   *)
(* before the DELETE of the bindings is sent.  Nothing compares versions.  *)
(*                                                                         *)
(* Values are named after who wrote them: the provider and the other plain *)
(* fields after the update, a template's media object after its upload.    *)
(***************************************************************************)
EXTENDS Naturals, SequencesExt

CONSTANTS
    Uploads,      \* template uploads, and the media objects they make
    Updates,      \* calls of PUT
    Runs,         \* jobs of the slot: ingest requests or test runs
    Names,        \* names in settings_json other than template_media
    Payloads,     \* what a PUT sends, or the overrides of a test run
    None,
    MaxThreads,   \* bound on updates that overlap
    MaxFaults     \* bound on operations that fail

Entry == [kind : STRING, object : Uploads]
Payload == [sets : SUBSET Names, media : Seq(Entry)]

(* An ingest request, or a test run without overrides. *)
Nothing == [sets |-> {}, media |-> <<>>]

ASSUME SlotAssumption ==
    /\ None \notin Updates \cup Runs
    /\ Updates \cap Runs = {}
    /\ Payloads \subseteq Payload
    /\ Nothing \in Payloads
    /\ MaxThreads \in Nat \ {0}
    /\ MaxFaults \in Nat

VARIABLES
    row,       \* the slot row as committed last
    binds,     \* its rows in slot_template_media
    locker,    \* the update that holds the row lock
    at,        \* where each update is
    payload,   \* what each update or job was sent
    view,      \* the row an update read
    seen,      \* the bindings its DELETE found
    upload,    \* where each upload is
    mediaRows, \* uploads with a media_object
    run,       \* where each job is
    provider,  \* the row whose provider a job took
    config,    \* settings and templates a job took
    faults,
    saved,     \* history: every committed row
    contended  \* history: updates that overlapped another one

slotVars == <<row, binds, saved>>
updateVars == <<locker, at, view, seen, contended>>
uploadVars == <<upload, mediaRows>>
runVars == <<run, provider, config>>
vars == <<slotVars, updateVars, payload, uploadVars, runVars, faults>>

Value == Updates \cup {None}
Config == [settings : [Names -> Value], templates : Seq(Entry)]
Row == [author : Updates \cup {None}, version : Nat,
        settings : [Names -> Value], templates : Seq(Entry)]
Binding == [by : Updates, pos : Nat \ {0}, kind : STRING, object : Uploads]

Busy == {c \in Updates : at[c] \in {"read", "flushed", "deleted"}}

TypeOK ==
    /\ row \in Row
    /\ binds \subseteq Binding
    /\ locker \in Updates \cup {None}
    /\ at \in [Updates -> {"idle", "read", "flushed", "deleted", "committed", "failed"}]
    /\ payload \in [Updates \cup Runs -> Payload]
    /\ view \in [Updates -> Row]
    /\ seen \in [Updates -> SUBSET Binding]
    /\ upload \in [Uploads -> {"idle", "file", "job", "answered", "failed"}]
    /\ mediaRows \subseteq Uploads
    /\ run \in [Runs -> {"idle", "prepared", "ready", "ok", "provider_error"}]
    /\ provider \in [Runs -> Updates \cup {None}]
    /\ config \in [Runs -> Config]
    /\ faults \in 0..MaxFaults
    /\ saved \in Seq(Row)
    /\ contended \subseteq Updates

(* The row as db_init seeds it. *)
SeedRow ==
    [author |-> None, version |-> 1, settings |-> [n \in Names |-> None], templates |-> <<>>]

Init ==
    /\ row = SeedRow
    /\ binds = {}
    /\ locker = None
    /\ at = [c \in Updates |-> "idle"]
    /\ payload = [c \in Updates \cup Runs |-> Nothing]
    /\ view = [c \in Updates |-> SeedRow]
    /\ seen = [c \in Updates |-> {}]
    /\ upload = [u \in Uploads |-> "idle"]
    /\ mediaRows = {}
    /\ run = [t \in Runs |-> "idle"]
    /\ provider = [t \in Runs |-> None]
    /\ config = [t \in Runs |-> [settings |-> SeedRow.settings, templates |-> <<>>]]
    /\ faults = 0
    /\ saved = <<SeedRow>>
    /\ contended = {}

-----------------------------------------------------------------------------
(* Merging *)

(* Mistake: an entry that replaces one of its kind goes to the end. *)
PlaceLast(list, entry) == Append(SelectSeq(list, LAMBDA e : e.kind # entry.kind), entry)

(* An entry replaces the last one of its kind in place or is appended. *)
Place(list, entry) ==
    LET same == {i \in DOMAIN list : list[i].kind = entry.kind}
    IN  IF same = {}
        THEN Append(list, entry)
        ELSE [list EXCEPT ![CHOOSE i \in same : \A j \in same : j <= i] = entry]

(* merge_template_media: the list as it is after each of the overrides. *)
Merges(base, overrides) ==
    LET merged[i \in 0..Len(overrides)] ==
            IF i = 0 THEN base ELSE Place(merged[i - 1], overrides[i])
    IN  merged

MergeMedia(base, overrides) == Merges(base, overrides)[Len(overrides)]

(* dict.update on the settings. *)
MergeSettings(base, p, who) == [n \in Names |-> IF n \in p.sets THEN who ELSE base[n]]

(* Mistake: an empty list of templates leaves them alone. *)
UpdatedKeeping(old, p, who) ==
    [author |-> who,
     version |-> old.version + 1,
     settings |-> MergeSettings(old.settings, p, who),
     templates |-> MergeMedia(old.templates, p.media)]

(* The row an update writes: an empty list of templates clears them. *)
Updated(old, p, who) ==
    [author |-> who,
     version |-> old.version + 1,
     settings |-> MergeSettings(old.settings, p, who),
     templates |-> IF p.media = <<>> THEN <<>> ELSE MergeMedia(old.templates, p.media)]

(* The binding rows of a slot row, with fresh primary keys. *)
Rows(r) ==
    {[by |-> r.author, pos |-> i, kind |-> r.templates[i].kind, object |-> r.templates[i].object]
        : i \in DOMAIN r.templates}

(* The admin page knows a media object from the reply to its upload. *)
Sendable == {p \in Payloads : \A i \in DOMAIN p.media : upload[p.media[i].object] = "answered"}

-----------------------------------------------------------------------------
(* Template upload *)

WriteFile(u) ==
    /\ upload[u] = "idle"
    /\ upload' = [upload EXCEPT ![u] = "file"]
    /\ UNCHANGED <<slotVars, updateVars, payload, mediaRows, runVars, faults>>

(* The job the foreign key of media_object asks for. *)
RecordPseudoJob(u) ==
    /\ upload[u] = "file"
    /\ upload' = [upload EXCEPT ![u] = "job"]
    /\ UNCHANGED <<slotVars, updateVars, payload, mediaRows, runVars, faults>>

(* Mistake: the id is answered and the media row is not committed. *)
RegisterUncommitted(u) ==
    /\ upload[u] = "job"
    /\ upload' = [upload EXCEPT ![u] = "answered"]
    /\ UNCHANGED <<slotVars, updateVars, payload, mediaRows, runVars, faults>>

RegisterTemplate(u) ==
    /\ upload[u] = "job"
    /\ mediaRows' = mediaRows \cup {u}
    /\ upload' = [upload EXCEPT ![u] = "answered"]
    /\ UNCHANGED <<slotVars, updateVars, payload, runVars, faults>>

(* A write or a commit fails: 500, and what was stored stays. *)
UploadFault(u) ==
    /\ faults < MaxFaults
    /\ upload[u] \in {"idle", "file", "job"}
    /\ upload' = [upload EXCEPT ![u] = "failed"]
    /\ faults' = faults + 1
    /\ UNCHANGED <<slotVars, updateVars, payload, mediaRows, runVars>>

-----------------------------------------------------------------------------
(* update_slot *)

ReadRow(c) ==
    /\ at[c] = "idle"
    /\ Cardinality(Busy) < MaxThreads
    /\ \E p \in Sendable : payload' = [payload EXCEPT ![c] = p]
    /\ view' = [view EXCEPT ![c] = row]
    /\ at' = [at EXCEPT ![c] = "read"]
    /\ contended' = contended \cup (IF Busy = {} THEN {} ELSE Busy \cup {c})
    /\ UNCHANGED <<slotVars, locker, seen, uploadVars, runVars, faults>>

(* Mistake: a session without autoflush sends the DELETE first. *)
NoFlush(c) ==
    /\ at[c] = "read"
    /\ at' = [at EXCEPT ![c] = "flushed"]
    /\ UNCHANGED <<slotVars, locker, view, seen, contended, payload, uploadVars, runVars, faults>>

(* The UPDATE waits for the row lock and keeps it to the commit. *)
FlushRow(c) ==
    /\ at[c] = "read"
    /\ locker = None
    /\ locker' = c
    /\ at' = [at EXCEPT ![c] = "flushed"]
    /\ UNCHANGED <<slotVars, view, seen, contended, payload, uploadVars, runVars, faults>>

(* The DELETE finds the bindings that are committed when it is sent. *)
DeleteBindings(c) ==
    /\ at[c] = "flushed"
    /\ seen' = [seen EXCEPT ![c] = binds]
    /\ at' = [at EXCEPT ![c] = "deleted"]
    /\ UNCHANGED <<slotVars, locker, view, contended, payload, uploadVars, runVars, faults>>

Commit(c) ==
    /\ at[c] = "deleted"
    /\ row' = Updated(view[c], payload[c], c)
    /\ binds' = (binds \ seen[c]) \cup Rows(row')
    /\ saved' = Append(saved, row')
    /\ locker' = None
    /\ at' = [at EXCEPT ![c] = "committed"]
    /\ UNCHANGED <<view, seen, contended, payload, uploadVars, runVars, faults>>

(* A statement fails: the transaction is rolled back and its lock is free. *)
UpdateFault(c) ==
    /\ faults < MaxFaults
    /\ c \in Busy
    /\ faults' = faults + 1
    /\ locker' = IF locker = c THEN None ELSE locker
    /\ at' = [at EXCEPT ![c] = "failed"]
    /\ UNCHANGED <<slotVars, view, seen, contended, payload, uploadVars, runVars>>

-----------------------------------------------------------------------------
(* A job *)

(* prepare_job takes the provider. *)
Prepare(t) ==
    /\ run[t] = "idle"
    /\ \E p \in Sendable : payload' = [payload EXCEPT ![t] = p]
    /\ provider' = [provider EXCEPT ![t] = row.author]
    /\ config' = [config EXCEPT ![t] = [settings |-> row.settings, templates |-> row.templates]]
    /\ run' = [run EXCEPT ![t] = "prepared"]
    /\ UNCHANGED <<slotVars, updateVars, uploadVars, faults>>

(* Mistake: the second read replaces the templates only. *)
RereadTemplates(t) ==
    /\ run[t] = "prepared"
    /\ config' = [config EXCEPT ![t].templates = row.templates]
    /\ run' = [run EXCEPT ![t] = "ready"]
    /\ UNCHANGED <<slotVars, updateVars, payload, uploadVars, provider, faults>>

(* validate_upload reads the slot again and takes settings and templates,  *)
(* not the provider and not is_active.                                     *)
Reread(t) ==
    /\ run[t] = "prepared"
    /\ config' = [config EXCEPT ![t] = [settings |-> row.settings, templates |-> row.templates]]
    /\ run' = [run EXCEPT ![t] = "ready"]
    /\ UNCHANGED <<slotVars, updateVars, payload, uploadVars, provider, faults>>

(* What the driver is given: _apply_test_overrides works on the job's copy *)
(* and, unlike an update, lets an empty list of templates keep them.       *)
Templates(t) == MergeMedia(config[t].templates, payload[t].media)

(* get_media finds the row; the file was there before it and nothing       *)
(* deletes template files.                                                 *)
Resolves(object) == object \in mediaRows

(* The driver resolves every template or refuses. *)
CallDriver(t) ==
    /\ run[t] = "ready"
    /\ run' = [run EXCEPT ![t] =
                 IF \A i \in DOMAIN Templates(t) : Resolves(Templates(t)[i].object)
                 THEN "ok" ELSE "provider_error"]
    /\ UNCHANGED <<slotVars, updateVars, payload, uploadVars, provider, config, faults>>

-----------------------------------------------------------------------------
Next ==
    \/ \E u \in Uploads :
          WriteFile(u) \/ RecordPseudoJob(u) \/ RegisterTemplate(u) \/ UploadFault(u)
    \/ \E c \in Updates :
          ReadRow(c) \/ FlushRow(c) \/ DeleteBindings(c) \/ Commit(c) \/ UpdateFault(c)
    \/ \E t \in Runs : Prepare(t) \/ Reread(t) \/ CallDriver(t)

Spec == Init /\ [][Next]_vars

-----------------------------------------------------------------------------
(* The bindings of a slot are those its settings name, one for each entry  *)
(* and none left over, however updates overlap: what the DELETE of one     *)
(* update finds cannot change before it commits.                           *)
BindingsMatchSettings == binds = Rows(row)

(* The object that updates sent one after another, none overlapping, leave *)
(* for kind k: the last one named since the templates were cleared.        *)
Authors == [i \in 1..(Len(saved) - 1) |-> saved[i + 1].author]

LastNamed(k) ==
    LET media == [i \in DOMAIN Authors |-> payload[Authors[i]].media]
        named == {x \in UNION {{i} \X DOMAIN media[i] : i \in DOMAIN Authors} :
                    /\ media[x[1]][x[2]].kind = k
                    /\ \A j \in DOMAIN Authors : j > x[1] => media[j] # <<>>}
        later(y, z) == z[1] > y[1] \/ (z[1] = y[1] /\ z[2] > y[2])
    IN  {media[x[1]][x[2]].object : x \in {y \in named : \A z \in named : ~later(y, z)}}

(* No kind is bound twice (get_media_by_kind would refuse it).  Updates    *)
(* that do not overlap add up: a setting has the value of the last update  *)
(* that names it, a kind the object named last since the templates were    *)
(* cleared, and the version counts the updates.                            *)
UpdatesAddUp ==
    /\ \A i, j \in DOMAIN row.templates :
          row.templates[i].kind = row.templates[j].kind => i = j
    /\ contended = {} =>
          /\ row.version = Len(saved)
          /\ \A n \in Names :
                LET naming == {i \in DOMAIN Authors : n \in payload[Authors[i]].sets}
                IN  \/ naming = {} /\ row.settings[n] = None
                    \/ \E i \in naming :
                          row.settings[n] = Authors[i] /\ \A j \in naming : j <= i
          /\ \A k \in {entry.kind : entry \in UNION {ToSet(p.media) : p \in Payloads}} :
                {entry.object : entry \in {e \in ToSet(row.templates) : e.kind = k}}
                    = LastNamed(k)

(* Every template bound to the slot can be read, and so no job fails for   *)
(* want of one, although the upload is three steps and any may fail.       *)
BoundTemplatesResolve ==
    /\ \A b \in binds : Resolves(b.object)
    /\ \A t \in Runs : run[t] # "provider_error"

(* A job works with settings and templates that were saved together, and   *)
(* never with older ones than its provider's.  The provider itself may be  *)
(* of an earlier save: the slot is read twice.                             *)
JobNeverGoesBack ==
    \A t \in Runs : run[t] \notin {"idle", "prepared"} =>
        \E i, k \in DOMAIN saved :
            /\ i <= k
            /\ saved[i].author = provider[t]
            /\ saved[k].settings = config[t].settings
            /\ saved[k].templates = config[t].templates

(* The slot is a sequence of complete saves, and a job reads the last one. *)
(* What it was given is what it has when it reaches its driver.            *)
Saves == INSTANCE SlotSaves WITH
    saves <- saved,
    bindings <- binds,
    objects <- mediaRows,
    job <- [t \in Runs |-> IF run[t] = "prepared" THEN "idle" ELSE run[t]],
    given <- [t \in Runs |-> IF run[t] \in {"idle", "prepared"} THEN None
                             ELSE [provider |-> provider[t],
                                   settings |-> config[t].settings,
                                   templates |-> config[t].templates]]

(* Whatever overlaps and whatever fails, nobody sees a save in part: every *)
(* save is one update worked into one earlier save, with its bindings, and *)
(* every job works with the settings and templates of one save.            *)
ImplementsSaves == Saves!Spec
=============================================================================
