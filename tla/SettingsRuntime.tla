-------------------------- MODULE SettingsRuntime --------------------------
(***************************************************************************)
(* SettingsService: the table of global settings and the copies of it that *)
(* the running process uses.  GET and PUT /api/settings are plain          *)
(* functions, so calls run on threads of the pool and interleave: between  *)
(* two transactions, and wherever the code calls something.  The           *)
(* assignments to the shared services make no call and are one step.       *)
(*                                                                         *)
(* Every value is written by one call and is named after it; None is the   *)
(* configured default, or an API key that is not set.                      *)
(***************************************************************************)
EXTENDS Naturals, Sequences, FiniteSets

CONSTANTS
    Calls,       \* calls of GET or PUT, each handled once
    Fields,      \* sync_response_seconds, result_ttl_hours, ingest_password
    Providers,   \* names that may appear in provider_keys
    EnvOf,       \* env_map: the environment variable of a provider's key
    Sets,        \* the fields and providers a call gives a value; {} for GET
    Clears,      \* the providers a call gives an empty key
    None,
    MaxThreads,  \* bound on the calls that overlap
    MaxFaults,   \* bound on transactions that fail
    MaxRestarts  \* bound on restarts of the process

ASSUME SettingsAssumption ==
    /\ None \notin Calls
    /\ Fields \cap Providers = {}
    /\ IsFiniteSet(Providers)
    /\ DOMAIN EnvOf = Providers
    /\ Sets \in [Calls -> SUBSET (Fields \cup Providers)]
    /\ Clears \in [Calls -> SUBSET Providers]
    /\ \A c \in Calls : Sets[c] \cap Clears[c] = {}
    /\ MaxThreads \in Nat \ {0}
    /\ MaxFaults \in Nat
    /\ MaxRestarts \in Nat

VARIABLES
    table,      \* settings rows: the fields, and the JSON of provider_keys
    live,       \* the fields as IngestService and AppConfig hold them
    env,        \* os.environ
    cached,     \* the fields in SettingsService._snapshot
    at,         \* where each call is
    view,       \* the table as a call read it last
    exported,   \* how far a call has come in the names of its view's API keys
    faults,
    restarts,
    writes,     \* history: calls in the order of their commits
    contended,  \* history: calls that overlapped another one
    last        \* history: the call that ended last, None after start-up

tableVars == <<table, writes>>
runtimeVars == <<live, env, cached>>
callVars == <<at, view, exported>>
historyVars == <<contended, last>>
faultVars == <<faults, restarts>>
vars == <<tableVars, runtimeVars, callVars, historyVars, faultVars>>

Value == Calls \cup {None}
EnvVars == {EnvOf[p] : p \in Providers}
Keys(c) == (Sets[c] \cup Clears[c]) \cap Providers
Busy == {c \in Calls : at[c] \in {"write", "readback", "fields", "keys"}}

(* A JSON object keeps the order in which its names were first written. *)
KeyTable == [order : Seq(Providers), val : [Providers -> Value]]
Table == [field : [Fields -> Value], keys : KeyTable]

EmptyTable ==
    [field |-> [f \in Fields |-> None],
     keys |-> [order |-> <<>>, val |-> [p \in Providers |-> None]]]

TypeOK ==
    /\ table \in Table
    /\ live \in [Fields -> Value]
    /\ env \in [EnvVars -> Value]
    /\ cached \in [Fields -> Value]
    /\ at \in [Calls -> {"idle", "write", "readback", "fields", "keys", "done",
                         "failed", "lost"}]
    /\ view \in [Calls -> Table]
    /\ exported \in [Calls -> Nat]
    /\ faults \in 0..MaxFaults
    /\ restarts \in 0..MaxRestarts
    /\ writes \in Seq(Calls)
    /\ contended \subseteq Calls
    /\ last \in Value

(* Start-up has loaded an empty table. *)
Init ==
    /\ table = EmptyTable
    /\ live = EmptyTable.field
    /\ env = [v \in EnvVars |-> None]
    /\ cached = EmptyTable.field
    /\ at = [c \in Calls |-> "idle"]
    /\ view = [c \in Calls |-> EmptyTable]
    /\ exported = [c \in Calls |-> 0]
    /\ faults = 0
    /\ restarts = 0
    /\ writes = <<>>
    /\ contended = {}
    /\ last = None

-----------------------------------------------------------------------------
(* The orders in which a payload may name the providers in S. *)
Orders(S) == {o \in [1..Cardinality(S) -> S] : \A p \in S : \E i \in DOMAIN o : o[i] = p}

(* Mistake: provider_keys is replaced by the payload, not merged into. *)
ReplaceKeys(c, old, order) ==
    [order |-> order,
     val |-> [p \in Providers |-> IF p \in Sets[c] THEN c ELSE None]]

(* provider_keys edited by call c: old names keep their place. *)
MergeKeys(c, old, order) ==
    [order |-> old.order \o order,
     val |-> [p \in Providers |->
                IF p \in Sets[c] THEN c ELSE IF p \in Clears[c] THEN None ELSE old.val[p]]]

(* A thread takes the call; an update reads the table before it writes. *)
Begin(c) ==
    /\ at[c] = "idle"
    /\ Cardinality(Busy) < MaxThreads
    /\ at' = [at EXCEPT ![c] = IF Sets[c] \cup Clears[c] = {} THEN "readback" ELSE "write"]
    /\ view' = [view EXCEPT ![c] = table]
    /\ contended' = contended \cup (IF Busy = {} THEN {} ELSE Busy \cup {c})
    /\ UNCHANGED <<tableVars, runtimeVars, exported, last, faultVars>>

(* bulk_upsert: the rows of the payload, provider_keys built on what was   *)
(* read before.                                                            *)
Write(c) ==
    /\ at[c] = "write"
    /\ \E order \in Orders(Keys(c) \ {p \in Providers : \E i \in DOMAIN view[c].keys.order :
                                                           view[c].keys.order[i] = p}) :
          table' = [field |-> [f \in Fields |-> IF f \in Sets[c] THEN c ELSE table.field[f]],
                    keys |-> IF Keys(c) = {} THEN table.keys
                             ELSE MergeKeys(c, view[c].keys, order)]
    /\ writes' = Append(writes, c)
    /\ at' = [at EXCEPT ![c] = "readback"]
    /\ UNCHANGED <<runtimeVars, view, exported, historyVars, faultVars>>

(* Mistake: the reply is built from the table as it was before the write. *)
ReadBackStale(c) ==
    /\ at[c] = "readback"
    /\ at' = [at EXCEPT ![c] = "fields"]
    /\ exported' = [exported EXCEPT ![c] = 0]
    /\ UNCHANGED <<tableVars, runtimeVars, view, historyVars, faultVars>>

(* read_all and _hydrate. *)
ReadBack(c) ==
    /\ at[c] = "readback"
    /\ view' = [view EXCEPT ![c] = table]
    /\ exported' = [exported EXCEPT ![c] = 0]
    /\ at' = [at EXCEPT ![c] = "fields"]
    /\ UNCHANGED <<tableVars, runtimeVars, historyVars, faultVars>>

(* _apply_runtime: the attributes ... *)
ApplyFields(c) ==
    /\ at[c] = "fields"
    /\ live' = view[c].field
    /\ at' = [at EXCEPT ![c] = "keys"]
    /\ UNCHANGED <<tableVars, env, cached, view, exported, historyVars, faultVars>>

(* The places of the keys that have a value: _hydrate leaves the others out *)
(* of provider_values, and so do the loops over it.                        *)
Given(keys) == {i \in DOMAIN keys.order : keys.val[keys.order[i]] # None}
Ahead(c) == {i \in Given(view[c].keys) : exported[c] < i}

(* Mistake: the stored record is exported instead of its value. *)
ApplyKeyRecord(c) ==
    /\ at[c] = "keys"
    /\ \E i \in Ahead(c) :
          /\ \A j \in Ahead(c) : i <= j
          /\ env' = [env EXCEPT ![EnvOf[view[c].keys.order[i]]] = view[c].keys]
          /\ exported' = [exported EXCEPT ![c] = i]
    /\ UNCHANGED <<tableVars, live, cached, at, view, historyVars, faultVars>>

(* ... then the keys, one environment variable at a time. *)
ApplyKey(c) ==
    /\ at[c] = "keys"
    /\ \E i \in Ahead(c) :
          /\ \A j \in Ahead(c) : i <= j
          /\ env' = [env EXCEPT ![EnvOf[view[c].keys.order[i]]] = view[c].keys.val[view[c].keys.order[i]]]
          /\ exported' = [exported EXCEPT ![c] = i]
    /\ UNCHANGED <<tableVars, live, cached, at, view, historyVars, faultVars>>

(* _snapshot is replaced and the call returns it. *)
End(c) ==
    /\ at[c] = "keys"
    /\ Ahead(c) = {}
    /\ cached' = view[c].field
    /\ at' = [at EXCEPT ![c] = "done"]
    /\ last' = c
    /\ UNCHANGED <<tableVars, live, env, view, exported, contended, faultVars>>

(* A transaction fails: the call ends with 500 where it is. *)
Fault(c) ==
    /\ faults < MaxFaults
    /\ at[c] \in {"write", "readback"}
    /\ faults' = faults + 1
    /\ at' = [at EXCEPT ![c] = "failed"]
    /\ last' = c
    /\ UNCHANGED <<tableVars, runtimeVars, view, exported, contended, restarts>>

(* Mistake: the services are built, but the table is not loaded. *)
RestartUnloaded ==
    /\ restarts < MaxRestarts
    /\ restarts' = restarts + 1
    /\ at' = [c \in Calls |-> IF c \in Busy THEN "lost" ELSE at[c]]
    /\ live' = EmptyTable.field
    /\ cached' = EmptyTable.field
    /\ env' = [v \in EnvVars |-> None]
    /\ last' = None
    /\ UNCHANGED <<tableVars, view, exported, contended, faults>>

(* The process dies, with the calls it was handling, and include_routers   *)
(* builds the services anew: load() puts what the table says over the      *)
(* configured defaults, key after key.                                     *)
Restart ==
    /\ restarts < MaxRestarts
    /\ restarts' = restarts + 1
    /\ at' = [c \in Calls |-> IF c \in Busy THEN "lost" ELSE at[c]]
    /\ live' = table.field
    /\ cached' = table.field
    /\ env' = [v \in EnvVars |->
                 LET mine == {i \in Given(table.keys) : EnvOf[table.keys.order[i]] = v}
                     final == CHOOSE i \in mine : \A j \in mine : j <= i
                 IN  IF mine = {} THEN None ELSE table.keys.val[table.keys.order[final]]]
    /\ last' = None
    /\ UNCHANGED <<tableVars, view, exported, contended, faults>>

Next ==
    \/ \E c \in Calls :
          \/ Begin(c) \/ Write(c) \/ ReadBack(c) \/ ApplyFields(c) \/ ApplyKey(c)
          \/ End(c) \/ Fault(c)
    \/ Restart

Spec == Init /\ [][Next]_vars

-----------------------------------------------------------------------------
(* The reply to an update shows each field as the update set it, or as an  *)
(* update committed later did, whatever runs at the same time.             *)
ReplyShowsOwnUpdate ==
    \A c \in Calls : at[c] = "done" =>
        \A f \in Fields \cap Sets[c] :
            \E i, j \in DOMAIN writes :
                writes[i] = c /\ i <= j /\ writes[j] = view[c].field[f]

(* Once the process has started, or a call has run alone to its end, the   *)
(* process uses what the table says, also after calls that overlapped,     *)
(* failed or were cut off: a GET repairs it, and so does a restart, which  *)
(* also forgets the keys that were cleared.  A key counts only where its   *)
(* environment variable is not shared.                                     *)
OwnVariable(p) == \A q \in Providers : EnvOf[q] = EnvOf[p] => q = p
InStep ==
    /\ live = table.field
    /\ cached = table.field
    /\ \A p \in Providers : OwnVariable(p) =>
          \/ env[EnvOf[p]] = table.keys.val[p]
          \/ table.keys.val[p] = None /\ last # None

AloneMeansInStep ==
    Busy = {} /\ (last = None \/ (last \notin contended /\ at[last] = "done")) => InStep

(* While calls do not overlap, no API key is lost: each has the value the  *)
(* last committed update that names it gave it.                            *)
KeysKept ==
    contended = {} =>
        \A p \in Providers :
            LET naming == {i \in DOMAIN writes : p \in Keys(writes[i])}
            IN  \/ naming = {} /\ table.keys.val[p] = None
                \/ \E i \in naming :
                      /\ \A j \in naming : j <= i
                      /\ table.keys.val[p] = IF p \in Sets[writes[i]] THEN writes[i] ELSE None
=============================================================================
