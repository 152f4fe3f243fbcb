--------------------------- MODULE SettingsProofs ---------------------------
(***************************************************************************)
(* Global settings, for any calls, fields and providers: what a reply      *)
(* shows, when the process uses what the table says, and that no API key   *)
(* is lost while calls do not overlap.                                     *)
(***************************************************************************)
EXTENDS SettingsRuntime, SequenceTheorems, FiniteSetTheorems,
        WellFoundedInduction, TLAPS

USE SettingsAssumption

-----------------------------------------------------------------------------
(* Numbers and orders. *)

(* Every nonempty set of natural numbers has a least element. *)
LEMMA LeastNumber ==
    ASSUME NEW T, T \subseteq Nat, T # {}
    PROVE  \E m \in T : \A k \in T : m <= k
  <1> DEFINE R == OpToRel(<, Nat)
  <1>1. PICK m \in T : \A k \in T : ~ (<<k, m>> \in R)
    <2> HIDE DEF R
    <2>1. IsWellFoundedOn(R, Nat)
      BY NatLessThanWellFounded DEF R
    <2>2. QED
      BY <2>1, WFMin
  <1>2. \A k \in T : ~(k < m)
    BY <1>1 DEF OpToRel
  <1>3. QED
    BY <1>2, SMT

(* A nonempty set of natural numbers with a bound has a greatest element. *)
LEMMA GreatestNumber ==
    ASSUME NEW S, S \subseteq Nat, S # {}, NEW n \in Nat, \A i \in S : i <= n
    PROVE  \E m \in S : \A k \in S : k <= m
  <1> DEFINE T == {u \in Nat : \A i \in S : i <= u}
  <1>1. PICK m \in T : \A k \in T : m <= k
    <2>1. T \subseteq Nat /\ n \in T
      OBVIOUS
    <2> HIDE DEF T
    <2>2. QED
      BY <2>1, LeastNumber
  <1>2. m \in S
    <2> SUFFICES ASSUME m \notin S PROVE FALSE
      OBVIOUS
    <2>1. \A i \in S : i < m
      BY <1>1
    <2>2. m - 1 \in Nat
      <3>1. PICK i \in S : TRUE
        OBVIOUS
      <3>2. i \in Nat /\ m \in Nat /\ i < m
        BY <2>1, <3>1
      <3>3. QED
        BY <3>2
    <2>3. \A i \in S : i <= m - 1
      BY <2>1
    <2>4. m - 1 \in T
      BY <2>2, <2>3
    <2>5. m <= m - 1
      BY <1>1, <2>4
    <2>6. QED
      BY <2>5
  <1>3. QED
    BY <1>1, <1>2

(* A payload names each of its providers, in some order. *)
LEMMA OrdersName ==
    ASSUME NEW S \in SUBSET Providers, NEW o \in Orders(S)
    PROVE  /\ o \in Seq(Providers)
           /\ \A p \in S : \E i \in DOMAIN o : o[i] = p
  <1>1. Cardinality(S) \in Nat
    BY FS_Subset, FS_CardinalityType
  <1>2. o \in [1..Cardinality(S) -> Providers]
    BY DEF Orders
  <1>3. o \in Seq(Providers)
    <2> DEFINE n == Cardinality(S)
    <2> HIDE DEF n
    <2>1. \A m \in Nat : o \in [1..m -> Providers] => o \in Seq(Providers)
      BY SeqDef
    <2>2. QED
      BY <1>1, <1>2, <2>1 DEF n
  <1>4. QED
    BY <1>3 DEF Orders

(* The order an update may give to the names the table it read had not. *)
NewOrders(c) ==
    Orders(Keys(c) \ {p \in Providers : \E i \in DOMAIN view[c].keys.order :
                                            view[c].keys.order[i] = p})

LEMMA NewOrdersName ==
    ASSUME NEW c \in Calls, NEW order \in NewOrders(c)
    PROVE  /\ order \in Seq(Providers)
           /\ \A p \in Keys(c) :
                 \/ \E i \in DOMAIN view[c].keys.order : view[c].keys.order[i] = p
                 \/ \E i \in DOMAIN order : order[i] = p
  <1> DEFINE S == Keys(c) \ {p \in Providers : \E i \in DOMAIN view[c].keys.order :
                                                   view[c].keys.order[i] = p}
  <1>1. S \subseteq Providers /\ Keys(c) \subseteq Providers
    BY DEF Keys
  <1>2. order \in Orders(S)
    BY DEF NewOrders
  <1>3. order \in Seq(Providers) /\ \A p \in S : \E i \in DOMAIN order : order[i] = p
    <2> HIDE DEF S
    <2>1. QED
      BY <1>1, <1>2, OrdersName
  <1>4. QED
    BY <1>1, <1>3

(* What an update makes of the API keys it read: every key with a value    *)
(* is still named.                                                         *)
Named(keys) == \A p \in Providers : keys.val[p] # None => \E i \in DOMAIN keys.order : keys.order[i] = p

LEMMA MergeKeysIsKeyTable ==
    ASSUME NEW c \in Calls, view[c].keys \in KeyTable, NEW order \in NewOrders(c)
    PROVE  MergeKeys(c, view[c].keys, order) \in KeyTable
  <1>1. order \in Seq(Providers) /\ view[c].keys.order \in Seq(Providers)
    BY NewOrdersName DEF KeyTable
  <1>2. view[c].keys.order \o order \in Seq(Providers)
    BY <1>1, ConcatProperties
  <1>3. view[c].keys.val \in [Providers -> Value]
    BY DEF KeyTable
  <1>4. QED
    BY <1>2, <1>3 DEF MergeKeys, KeyTable, Value

(* Where the elements of two sequences are once they are put together. *)
LEMMA ConcatPlaces ==
    ASSUME NEW S, NEW s \in Seq(S), NEW t \in Seq(S)
    PROVE  /\ \A i \in DOMAIN s : i \in DOMAIN (s \o t) /\ (s \o t)[i] = s[i]
           /\ \A i \in DOMAIN t : /\ Len(s) + i \in DOMAIN (s \o t)
                                /\ (s \o t)[Len(s) + i] = t[i]
  <1> DEFINE st == s \o t
  <1>1. /\ Len(s) \in Nat /\ DOMAIN s = 1..Len(s)
        /\ Len(t) \in Nat /\ DOMAIN t = 1..Len(t)
    BY LenProperties
  <1>2. st \in Seq(S) /\ Len(st) = Len(s) + Len(t)
    BY ConcatProperties
  <1>3. DOMAIN st = 1..(Len(s) + Len(t))
    BY <1>2, LenProperties
  <1>4. \A i \in 1..(Len(s) + Len(t)) : st[i] = IF i <= Len(s) THEN s[i] ELSE t[i - Len(s)]
    BY ConcatProperties
  <1> HIDE DEF st
  <1>5. \A i \in DOMAIN s : i \in DOMAIN st /\ st[i] = s[i]
    BY <1>1, <1>3, <1>4
  <1>6. \A i \in DOMAIN t : Len(s) + i \in DOMAIN st /\ st[Len(s) + i] = t[i]
    BY <1>1, <1>3, <1>4
  <1>7. QED
    BY <1>5, <1>6 DEF st

LEMMA MergeKeysNames ==
    ASSUME NEW c \in Calls, view[c].keys \in KeyTable, Named(view[c].keys),
           NEW order \in NewOrders(c)
    PROVE  Named(MergeKeys(c, view[c].keys, order))
  <1> DEFINE old == view[c].keys
             new == MergeKeys(c, old, order)
  <1>1. order \in Seq(Providers) /\ old.order \in Seq(Providers)
    BY NewOrdersName DEF KeyTable
  <1>2. new.order = old.order \o order
    BY DEF MergeKeys
  <1>3. /\ \A i \in DOMAIN old.order : i \in DOMAIN new.order /\ new.order[i] = old.order[i]
        /\ \A i \in DOMAIN order : /\ Len(old.order) + i \in DOMAIN new.order
                                   /\ new.order[Len(old.order) + i] = order[i]
    <2> DEFINE s == old.order
               st == s \o order
    <2>0. s \in Seq(Providers) /\ order \in Seq(Providers)
      BY <1>1
    <2>1. /\ \A i \in DOMAIN s : i \in DOMAIN st /\ st[i] = s[i]
          /\ \A i \in DOMAIN order : /\ Len(s) + i \in DOMAIN st
                                     /\ st[Len(s) + i] = order[i]
      <3> HIDE DEF s
      <3>1. QED
        BY <2>0, ConcatPlaces
    <2>2. st = new.order
      BY <1>2
    <2> HIDE DEF st, new
    <2>3. QED
      BY <2>1, <2>2
  <1>4. ASSUME NEW p \in Providers, new.val[p] # None
        PROVE  p \in Keys(c) \/ old.val[p] # None
    BY <1>4 DEF MergeKeys, Keys
  <1>5. ASSUME NEW p \in Providers, new.val[p] # None
        PROVE  \/ \E i \in DOMAIN old.order : old.order[i] = p
               \/ \E i \in DOMAIN order : order[i] = p
    BY <1>4, <1>5, NewOrdersName DEF Named
  <1> HIDE DEF old, new
  <1>6. \A p \in Providers : new.val[p] # None => \E i \in DOMAIN new.order : new.order[i] = p
    BY <1>3, <1>5
  <1>7. QED
    BY <1>6 DEF Named, new, old

-----------------------------------------------------------------------------
(* Types. *)

LEMMA EmptyTableIsTable == EmptyTable \in Table /\ Named(EmptyTable.keys)
  <1>1. << >> \in Seq(Providers)
    BY EmptySeq
  <1>2. QED
    BY <1>1 DEF EmptyTable, Table, KeyTable, Value, Named

(* What a payload may leave in the table. *)
Written(c, new) ==
    \E order \in NewOrders(c) :
        new = [field |-> [f \in Fields |-> IF f \in Sets[c] THEN c ELSE table.field[f]],
               keys |-> IF Keys(c) = {} THEN table.keys
                        ELSE MergeKeys(c, view[c].keys, order)]

LEMMA WriteWrites ==
    ASSUME NEW c \in Calls, Write(c)
    PROVE  Written(c, table')
  BY DEF Write, Written, NewOrders

LEMMA WrittenIsTable ==
    ASSUME TypeOK, NEW c \in Calls, NEW new, Written(c, new)
    PROVE  new \in Table
  <1>1. PICK order \in NewOrders(c) :
            new = [field |-> [f \in Fields |-> IF f \in Sets[c] THEN c ELSE table.field[f]],
                   keys |-> IF Keys(c) = {} THEN table.keys
                            ELSE MergeKeys(c, view[c].keys, order)]
    BY DEF Written
  <1>2. table.field \in [Fields -> Value] /\ table.keys \in KeyTable /\ view[c].keys \in KeyTable
    BY DEF TypeOK, Table
  <1>3. MergeKeys(c, view[c].keys, order) \in KeyTable
    BY <1>2, MergeKeysIsKeyTable
  <1>4. [f \in Fields |-> IF f \in Sets[c] THEN c ELSE table.field[f]] \in [Fields -> Value]
    BY <1>2 DEF Value
  <1>5. QED
    BY <1>1, <1>2, <1>3, <1>4 DEF Table

(* Restart exports, for a variable, the last key in the table that has one. *)
Mine(v) == {i \in Given(table.keys) : EnvOf[table.keys.order[i]] = v}
Final(v) == CHOOSE i \in Mine(v) : \A j \in Mine(v) : j <= i

LEMMA FinalIsMine ==
    ASSUME TypeOK, NEW v, Mine(v) # {}
    PROVE  Final(v) \in Mine(v)
  <1>1. table.keys.order \in Seq(Providers)
    BY DEF TypeOK, Table, KeyTable
  <1>2. Len(table.keys.order) \in Nat /\ DOMAIN table.keys.order = 1..Len(table.keys.order)
    BY <1>1, LenProperties
  <1>3. Mine(v) \subseteq 1..Len(table.keys.order)
    BY <1>2 DEF Mine, Given
  <1>4. \E m \in Mine(v) : \A k \in Mine(v) : k <= m
    <2> DEFINE S == Mine(v)
               n == Len(table.keys.order)
    <2>1. S \subseteq Nat /\ S # {} /\ n \in Nat /\ \A i \in S : i <= n
      BY <1>2, <1>3
    <2> HIDE DEF S, n
    <2>2. \E m \in S : \A k \in S : k <= m
      BY <2>1, GreatestNumber
    <2>3. QED
      BY <2>2 DEF S
  <1>5. QED
    BY <1>4, Zenon DEF Final

LEMMA RestartExports ==
    ASSUME TypeOK, Restart
    PROVE  /\ env' \in [EnvVars -> Value]
           /\ \A v \in EnvVars :
                 env'[v] = IF Mine(v) = {} THEN None
                           ELSE table.keys.val[table.keys.order[Final(v)]]
  <1>1. env' = [v \in EnvVars |-> IF Mine(v) = {} THEN None
                                  ELSE table.keys.val[table.keys.order[Final(v)]]]
    BY DEF Restart, Mine, Final
  <1>2. ASSUME NEW v \in EnvVars, Mine(v) # {}
        PROVE  table.keys.val[table.keys.order[Final(v)]] \in Value
    <2>1. Final(v) \in DOMAIN table.keys.order
      BY <1>2, FinalIsMine DEF Mine, Given
    <2>2. table.keys.order[Final(v)] \in Providers
      BY <2>1, ElementOfSeq, LenProperties DEF TypeOK, Table, KeyTable
    <2>3. QED
      BY <2>2 DEF TypeOK, Table, KeyTable
  <1>3. QED
    BY <1>1, <1>2 DEF Value

LEMMA NextKeepsTypes ==
    ASSUME TypeOK, [Next]_vars
    PROVE  TypeOK'
  <1>1. ASSUME NEW c \in Calls, Begin(c)
        PROVE  TypeOK'
    <2>1. contended' \subseteq Calls
      BY <1>1 DEF TypeOK, Begin, Busy
    <2>2. view' \in [Calls -> Table] /\ table' \in Table
      BY <1>1 DEF TypeOK, Begin, tableVars
    <2>3. QED
      BY <1>1, <2>1, <2>2 DEF TypeOK, Begin, tableVars, runtimeVars, faultVars
  <1>2. ASSUME NEW c \in Calls, Write(c)
        PROVE  TypeOK'
    <2>1. table' \in Table
      BY <1>2, WriteWrites, WrittenIsTable
    <2>2. writes' \in Seq(Calls)
      BY <1>2, AppendProperties DEF TypeOK, Write
    <2>3. QED
      BY <1>2, <2>1, <2>2 DEF TypeOK, Write, runtimeVars, historyVars, faultVars
  <1>3. ASSUME NEW c \in Calls, ReadBack(c)
        PROVE  TypeOK'
    BY <1>3 DEF TypeOK, ReadBack, tableVars, runtimeVars, historyVars, faultVars
  <1>4. ASSUME NEW c \in Calls, ApplyFields(c)
        PROVE  TypeOK'
    <2>1. live' \in [Fields -> Value]
      BY <1>4 DEF TypeOK, ApplyFields, Table
    <2>2. QED
      BY <1>4, <2>1 DEF TypeOK, ApplyFields, tableVars, historyVars, faultVars
  <1>5. ASSUME NEW c \in Calls, ApplyKey(c)
        PROVE  TypeOK'
    <2>1. PICK i \in Ahead(c) :
              /\ env' = [env EXCEPT ![EnvOf[view[c].keys.order[i]]]
                                        = view[c].keys.val[view[c].keys.order[i]]]
              /\ exported' = [exported EXCEPT ![c] = i]
      BY <1>5 DEF ApplyKey
    <2>2. i \in DOMAIN view[c].keys.order /\ view[c].keys.order \in Seq(Providers)
      BY <2>1 DEF Ahead, Given, TypeOK, Table, KeyTable
    <2>3. i \in Nat /\ view[c].keys.order[i] \in Providers
      BY <2>2, ElementOfSeq, LenProperties
    <2>4. view[c].keys.val[view[c].keys.order[i]] \in Value
      BY <2>3 DEF TypeOK, Table, KeyTable
    <2>5. env' \in [EnvVars -> Value] /\ exported' \in [Calls -> Nat]
      BY <2>1, <2>3, <2>4 DEF TypeOK
    <2>6. QED
      BY <1>5, <2>5 DEF TypeOK, ApplyKey, tableVars, historyVars, faultVars
  <1>6. ASSUME NEW c \in Calls, End(c)
        PROVE  TypeOK'
    <2>1. cached' \in [Fields -> Value] /\ last' \in Value
      BY <1>6 DEF TypeOK, End, Table, Value
    <2>2. QED
      BY <1>6, <2>1 DEF TypeOK, End, tableVars, faultVars
  <1>7. ASSUME NEW c \in Calls, Fault(c)
        PROVE  TypeOK'
    BY <1>7 DEF TypeOK, Fault, Value, tableVars, runtimeVars
  <1>8. CASE Restart
    <2>1. env' \in [EnvVars -> Value]
      BY <1>8, RestartExports
    <2>2. live' \in [Fields -> Value] /\ cached' \in [Fields -> Value]
      BY <1>8 DEF TypeOK, Restart, Table
    <2>3. at' = [c \in Calls |-> IF c \in Busy THEN "lost" ELSE at[c]]
      BY <1>8 DEF Restart
    <2>4. /\ restarts' \in 0..MaxRestarts
          /\ last' = None
          /\ UNCHANGED <<table, writes, view, exported, contended, faults>>
      BY <1>8 DEF TypeOK, Restart, tableVars
    <2>5. QED
      BY <2>1, <2>2, <2>3, <2>4 DEF TypeOK, Value
  <1>9. CASE UNCHANGED vars
    BY <1>9 DEF TypeOK, vars, tableVars, runtimeVars, callVars, historyVars, faultVars
  <1>10. QED
    BY <1>1, <1>2, <1>3, <1>4, <1>5, <1>6, <1>7, <1>8, <1>9 DEF Next

(* Type correctness. *)
THEOREM TypeCorrect == Spec => []TypeOK
  <1>1. Init => TypeOK
    <2> SUFFICES ASSUME Init PROVE TypeOK
      OBVIOUS
    <2>1. EmptyTable \in Table /\ EmptyTable.field \in [Fields -> Value]
      BY EmptyTableIsTable DEF Table
    <2>2. << >> \in Seq(Calls)
      BY EmptySeq
    <2>3. QED
      BY <2>1, <2>2 DEF Init, TypeOK, Value
  <1>2. TypeOK /\ [Next]_vars => TypeOK'
    BY NextKeepsTypes
  <1>3. QED
    BY <1>1, <1>2, PTL DEF Spec

-----------------------------------------------------------------------------
(* The reply to an update.  The table shows, of every committed update,    *)
(* each field it set or what a later one set it to, and a reply is a copy  *)
(* of the table made after the update's own commit.                        *)
Shows(fields, i) ==
    \A f \in Fields \cap Sets[writes[i]] :
        \E j \in DOMAIN writes : i <= j /\ writes[j] = fields[f]

TableShowsWrites == \A i \in DOMAIN writes : Shows(table.field, i)

UpdatesAreWritten ==
    \A c \in Calls :
        Sets[c] # {} /\ at[c] \in {"readback", "fields", "keys", "done"} =>
            \E i \in DOMAIN writes : writes[i] = c

ViewsShowWrite ==
    \A c \in Calls : at[c] \in {"fields", "keys", "done"} =>
        \A f \in Fields \cap Sets[c] :
            \E i, j \in DOMAIN writes :
                writes[i] = c /\ i <= j /\ writes[j] = view[c].field[f]

ReplyInv == TypeOK /\ TableShowsWrites /\ UpdatesAreWritten /\ ViewsShowWrite

(* The log of commits grows at its end. *)
LEMMA WritesGrow ==
    ASSUME TypeOK, NEW c \in Calls, Write(c)
    PROVE  /\ Len(writes) \in Nat /\ DOMAIN writes = 1..Len(writes)
           /\ DOMAIN writes' = 1..(Len(writes) + 1)
           /\ \A i \in DOMAIN writes : writes'[i] = writes[i]
           /\ writes'[Len(writes) + 1] = c
  <1>1. writes \in Seq(Calls)
    BY DEF TypeOK
  <1>2. writes' = Append(writes, c)
    BY DEF Write
  <1>3. Len(writes) \in Nat /\ DOMAIN writes = 1..Len(writes)
    BY <1>1, LenProperties
  <1>4. writes' \in Seq(Calls) /\ Len(writes') = Len(writes) + 1
    BY <1>1, <1>2, AppendProperties
  <1>5. DOMAIN writes' = 1..(Len(writes) + 1)
    BY <1>4, LenProperties
  <1>6. /\ \A i \in 1..Len(writes) : writes'[i] = writes[i]
        /\ writes'[Len(writes) + 1] = c
    BY <1>1, <1>2, AppendProperties
  <1>7. QED
    BY <1>3, <1>5, <1>6

LEMMA WriteKeepsReply ==
    ASSUME ReplyInv, NEW c \in Calls, Write(c)
    PROVE  ReplyInv'
  <1> DEFINE n == Len(writes)
  <1>1. /\ n \in Nat /\ DOMAIN writes = 1..n
        /\ DOMAIN writes' = 1..(n + 1)
        /\ \A i \in DOMAIN writes : writes'[i] = writes[i]
        /\ writes'[n + 1] = c
    BY WritesGrow DEF ReplyInv
  <1>2. /\ table'.field = [f \in Fields |-> IF f \in Sets[c] THEN c ELSE table.field[f]]
        /\ at' = [at EXCEPT ![c] = "readback"]
        /\ view' = view
    BY DEF Write
  <1> HIDE DEF n
  <1>3. TypeOK'
    BY NextKeepsTypes DEF ReplyInv, Next
  <1>4. TableShowsWrites'
    <2> SUFFICES ASSUME NEW i \in DOMAIN writes', NEW f \in Fields \cap Sets[writes'[i]]
                 PROVE  \E j \in DOMAIN writes' : i <= j /\ writes'[j] = table'.field[f]
      BY DEF TableShowsWrites, Shows
    <2>1. CASE f \in Sets[c]
      <3>1. table'.field[f] = c
        BY <1>2, <2>1
      <3>2. n + 1 \in DOMAIN writes' /\ i <= n + 1
        BY <1>1
      <3>3. QED
        BY <1>1, <3>1, <3>2
    <2>2. CASE f \notin Sets[c]
      <3>1. i # n + 1
        BY <1>1, <2>2
      <3>2. i \in DOMAIN writes /\ writes'[i] = writes[i]
        BY <1>1, <3>1
      <3>3. PICK j \in DOMAIN writes : i <= j /\ writes[j] = table.field[f]
        BY <3>2 DEF ReplyInv, TableShowsWrites, Shows
      <3>4. j \in DOMAIN writes' /\ writes'[j] = table'.field[f]
        BY <1>1, <1>2, <2>2, <3>3
      <3>5. QED
        BY <3>3, <3>4
    <2>3. QED
      BY <2>1, <2>2
  <1>5. UpdatesAreWritten'
    <2> SUFFICES ASSUME NEW d \in Calls, Sets[d] # {},
                        at'[d] \in {"readback", "fields", "keys", "done"}
                 PROVE  \E i \in DOMAIN writes' : writes'[i] = d
      BY DEF UpdatesAreWritten
    <2>1. CASE d = c
      <3>1. n + 1 \in DOMAIN writes'
        BY <1>1
      <3>2. QED
        BY <1>1, <2>1, <3>1
    <2>2. CASE d # c
      <3>1. PICK i \in DOMAIN writes : writes[i] = d
        BY <1>2, <2>2 DEF ReplyInv, UpdatesAreWritten, TypeOK
      <3>2. i \in DOMAIN writes' /\ writes'[i] = d
        BY <1>1, <3>1
      <3>3. QED
        BY <3>2
    <2>3. QED
      BY <2>1, <2>2
  <1>6. ViewsShowWrite'
    <2> SUFFICES ASSUME NEW d \in Calls, at'[d] \in {"fields", "keys", "done"},
                        NEW f \in Fields \cap Sets[d]
                 PROVE  \E i, j \in DOMAIN writes' :
                            writes'[i] = d /\ i <= j /\ writes'[j] = view'[d].field[f]
      BY DEF ViewsShowWrite
    <2>1. at[d] \in {"fields", "keys", "done"}
      BY <1>2 DEF ReplyInv, TypeOK
    <2>2. PICK i \in DOMAIN writes, j \in DOMAIN writes :
              writes[i] = d /\ i <= j /\ writes[j] = view[d].field[f]
      BY <2>1 DEF ReplyInv, ViewsShowWrite
    <2>3. i \in DOMAIN writes' /\ j \in DOMAIN writes'
      BY <1>1
    <2>4. writes'[i] = d /\ i <= j /\ writes'[j] = view'[d].field[f]
      BY <1>1, <1>2, <2>2
    <2>5. QED
      BY <2>3, <2>4
  <1>7. QED
    BY <1>3, <1>4, <1>5, <1>6 DEF ReplyInv

LEMMA NextKeepsReply ==
    ASSUME ReplyInv, [Next]_vars
    PROVE  ReplyInv'
  <1>1. TypeOK'
    BY NextKeepsTypes DEF ReplyInv
  <1>2. ASSUME UNCHANGED <<table, writes, view>>,
               \A d \in Calls : \/ at'[d] = at[d]
                                \/ at[d] \in {"fields", "keys"} /\ at'[d] \in {"keys", "done"}
                                \/ at'[d] \in {"failed", "lost"}
        PROVE  ReplyInv'
    <2>1. TableShowsWrites'
      BY <1>2 DEF ReplyInv, TableShowsWrites, Shows
    <2>2. UpdatesAreWritten'
      BY <1>2 DEF ReplyInv, UpdatesAreWritten
    <2>3. ViewsShowWrite'
      BY <1>2 DEF ReplyInv, ViewsShowWrite
    <2>4. QED
      BY <1>1, <2>1, <2>2, <2>3 DEF ReplyInv
  <1>3. ASSUME NEW c \in Calls, Begin(c)
        PROVE  ReplyInv'
    <2>1. UNCHANGED <<table, writes>>
      BY <1>3 DEF Begin, tableVars
    <2>2. /\ at' = [at EXCEPT ![c] = IF Sets[c] \cup Clears[c] = {} THEN "readback" ELSE "write"]
          /\ view' = [view EXCEPT ![c] = table]
          /\ DOMAIN at = Calls /\ DOMAIN view = Calls
      BY <1>3 DEF Begin, ReplyInv, TypeOK
    <2>3. TableShowsWrites'
      BY <2>1 DEF ReplyInv, TableShowsWrites, Shows
    <2>4. UpdatesAreWritten'
      BY <2>1, <2>2 DEF ReplyInv, UpdatesAreWritten
    <2>5. ViewsShowWrite'
      BY <2>1, <2>2 DEF ReplyInv, ViewsShowWrite
    <2>6. QED
      BY <1>1, <2>3, <2>4, <2>5 DEF ReplyInv
  <1>4. ASSUME NEW c \in Calls, Write(c)
        PROVE  ReplyInv'
    BY <1>4, WriteKeepsReply
  <1>5. ASSUME NEW c \in Calls, ReadBack(c)
        PROVE  ReplyInv'
    <2>1. UNCHANGED <<table, writes>>
      BY <1>5 DEF ReadBack, tableVars
    <2>2. /\ at[c] = "readback"
          /\ at' = [at EXCEPT ![c] = "fields"]
          /\ view' = [view EXCEPT ![c] = table]
          /\ DOMAIN at = Calls /\ DOMAIN view = Calls
      BY <1>5 DEF ReadBack, ReplyInv, TypeOK
    <2>3. TableShowsWrites'
      BY <2>1 DEF ReplyInv, TableShowsWrites, Shows
    <2>4. UpdatesAreWritten'
      BY <2>1, <2>2 DEF ReplyInv, UpdatesAreWritten
    <2>5. ASSUME NEW f \in Fields \cap Sets[c]
          PROVE  \E i, j \in DOMAIN writes :
                     writes[i] = c /\ i <= j /\ writes[j] = table.field[f]
      <3>1. PICK i \in DOMAIN writes : writes[i] = c
        BY <2>2 DEF ReplyInv, UpdatesAreWritten
      <3>2. PICK j \in DOMAIN writes : i <= j /\ writes[j] = table.field[f]
        BY <3>1 DEF ReplyInv, TableShowsWrites, Shows
      <3>3. QED
        BY <3>1, <3>2
    <2>6. ViewsShowWrite'
      BY <2>1, <2>2, <2>5 DEF ReplyInv, ViewsShowWrite
    <2>7. QED
      BY <1>1, <2>3, <2>4, <2>6 DEF ReplyInv
  <1>6. ASSUME NEW c \in Calls, ApplyFields(c)
        PROVE  ReplyInv'
    BY <1>2, <1>6 DEF ApplyFields, tableVars, ReplyInv, TypeOK
  <1>7. ASSUME NEW c \in Calls, ApplyKey(c)
        PROVE  ReplyInv'
    BY <1>2, <1>7 DEF ApplyKey, tableVars
  <1>8. ASSUME NEW c \in Calls, End(c)
        PROVE  ReplyInv'
    BY <1>2, <1>8 DEF End, tableVars, ReplyInv, TypeOK
  <1>9. ASSUME NEW c \in Calls, Fault(c)
        PROVE  ReplyInv'
    BY <1>2, <1>9 DEF Fault, tableVars, ReplyInv, TypeOK
  <1>10. CASE Restart
    BY <1>2, <1>10 DEF Restart, tableVars, ReplyInv, TypeOK
  <1>11. CASE UNCHANGED vars
    BY <1>2, <1>11 DEF vars, tableVars, callVars
  <1>12. QED
    BY <1>3, <1>4, <1>5, <1>6, <1>7, <1>8, <1>9, <1>10, <1>11 DEF Next

(* The reply to an update shows each field as the update set it, or as an  *)
(* update committed later did.                                             *)
THEOREM ReplyIsOwn == Spec => []ReplyShowsOwnUpdate
  <1>1. Init => TableShowsWrites /\ UpdatesAreWritten /\ ViewsShowWrite
    <2> SUFFICES ASSUME Init PROVE TableShowsWrites /\ UpdatesAreWritten /\ ViewsShowWrite
      OBVIOUS
    <2>1. DOMAIN writes = {}
      BY EmptySeq, LenProperties DEF Init
    <2>2. \A c \in Calls : at[c] = "idle"
      BY DEF Init
    <2>3. QED
      BY <2>1, <2>2 DEF TableShowsWrites, UpdatesAreWritten, ViewsShowWrite
  <1>2. ReplyInv /\ [Next]_vars => ReplyInv'
    BY NextKeepsReply
  <1>3. ReplyInv => ReplyShowsOwnUpdate
    BY DEF ReplyInv, ViewsShowWrite, ReplyShowsOwnUpdate
  <1>4. Spec => []ReplyInv
    <2>1. Init /\ TypeOK => ReplyInv
      BY <1>1 DEF ReplyInv
    <2>2. QED
      BY <1>2, <2>1, TypeCorrect, PTL DEF Spec
  <1>5. QED
    BY <1>3, <1>4, PTL

-----------------------------------------------------------------------------
(* A call that overlaps no other, from its first read to the copy it       *)
(* leaves in the process.  While it is at work it is the only one, so the  *)
(* table stays as it read it; behind its place in the names, the           *)
(* environment already has the table's keys.                               *)
Alone(c) == c \in Busy /\ c \notin contended

AloneIsOnly == \A c \in Calls : Alone(c) => Busy = {c}

ReadsAreCurrent ==
    \A c \in Calls : Alone(c) /\ at[c] \in {"write", "fields", "keys"} => view[c] = table

(* The key of p is where the process uses it, or call c has still to       *)
(* export it.                                                              *)
InUseOrAhead(c, p) ==
    \/ env[EnvOf[p]] = table.keys.val[p]
    \/ \E i \in Ahead(c) : view[c].keys.order[i] = p

ExportsCatchUp ==
    \A c \in Calls : Alone(c) /\ at[c] = "keys" =>
        /\ live = table.field
        /\ \A p \in Providers :
              OwnVariable(p) /\ table.keys.val[p] # None => InUseOrAhead(c, p)

ExportStarts == \A c \in Calls : at[c] = "fields" => exported[c] = 0

KeysAreNamed == Named(table.keys) /\ \A c \in Calls : Named(view[c].keys)

AloneInv ==
    /\ TypeOK
    /\ KeysAreNamed
    /\ AloneIsOnly
    /\ ReadsAreCurrent
    /\ ExportStarts
    /\ ExportsCatchUp
    /\ AloneMeansInStep

(* Every step leaves each provider with a value in the order of names.     *)
LEMMA NextKeepsNames ==
    ASSUME TypeOK, KeysAreNamed, [Next]_vars
    PROVE  KeysAreNamed'
  <1>1. ASSUME NEW c \in Calls, Begin(c) \/ ReadBack(c)
        PROVE  KeysAreNamed'
    BY <1>1 DEF KeysAreNamed, TypeOK, Begin, ReadBack, tableVars
  <1>2. ASSUME NEW c \in Calls, Write(c)
        PROVE  KeysAreNamed'
    <2>1. PICK order \in NewOrders(c) :
              table'.keys = IF Keys(c) = {} THEN table.keys
                            ELSE MergeKeys(c, view[c].keys, order)
      BY <1>2, WriteWrites DEF Written
    <2>2. view[c].keys \in KeyTable /\ Named(view[c].keys)
      BY DEF TypeOK, Table, KeysAreNamed
    <2>3. Named(MergeKeys(c, view[c].keys, order))
      BY <2>2, MergeKeysNames
    <2>4. Named(table.keys)
      BY DEF KeysAreNamed
    <2>5. Named(table'.keys)
      BY <2>1, <2>3, <2>4
    <2>6. QED
      BY <1>2, <2>5 DEF KeysAreNamed, Write
  <1>3. CASE UNCHANGED <<table, view>>
    BY <1>3 DEF KeysAreNamed
  <1>4. QED
    BY <1>1, <1>2, <1>3 DEF Next, ApplyFields, ApplyKey, End, Fault, Restart, vars,
                            tableVars, callVars

(* Two calls at work, or one that starts while another is, have overlapped. *)
LEMMA NextKeepsAloneOnly ==
    ASSUME TypeOK, AloneIsOnly, [Next]_vars
    PROVE  AloneIsOnly'
  <1>1. ASSUME NEW c \in Calls, Begin(c)
        PROVE  AloneIsOnly'
    <2>1. Busy' = Busy \cup {c}
      BY <1>1 DEF Busy, Begin, TypeOK
    <2>2. contended' = contended \cup (IF Busy = {} THEN {} ELSE Busy \cup {c})
      BY <1>1 DEF Begin
    <2>3. CASE Busy = {}
      BY <2>1, <2>3 DEF AloneIsOnly, Alone
    <2>4. CASE Busy # {}
      BY <2>1, <2>2, <2>4 DEF AloneIsOnly, Alone
    <2>5. QED
      BY <2>3, <2>4
  <1>2. ASSUME contended' = contended,
               \A d \in Calls : d \in Busy' => d \in Busy
        PROVE  AloneIsOnly'
    <2>1. Busy' \subseteq Busy
      BY <1>2 DEF Busy
    <2>2. QED
      BY <1>2, <2>1 DEF AloneIsOnly, Alone
  <1>3. ASSUME NEW c \in Calls, Write(c) \/ ReadBack(c) \/ ApplyFields(c) \/ ApplyKey(c)
                                 \/ End(c) \/ Fault(c)
        PROVE  AloneIsOnly'
    <2>1. contended' = contended
      BY <1>3 DEF Write, ReadBack, ApplyFields, ApplyKey, End, Fault, historyVars
    <2>2. \A d \in Calls : d \in Busy' => d \in Busy
      BY <1>3 DEF Write, ReadBack, ApplyFields, ApplyKey, End, Fault, Busy, TypeOK
    <2>3. QED
      BY <1>2, <2>1, <2>2
  <1>4. CASE Restart
    <2>1. \A d \in Calls : d \notin Busy'
      BY <1>4 DEF Restart, Busy, TypeOK
    <2>2. QED
      BY <1>2, <1>4, <2>1 DEF Restart
  <1>5. CASE UNCHANGED vars
    BY <1>2, <1>5 DEF vars, historyVars, callVars, Busy
  <1>6. QED
    BY <1>1, <1>3, <1>4, <1>5 DEF Next

LEMMA NextKeepsReads ==
    ASSUME TypeOK, AloneIsOnly, ReadsAreCurrent, [Next]_vars
    PROVE  ReadsAreCurrent'
  <1>1. AloneIsOnly'
    BY NextKeepsAloneOnly
  <1> SUFFICES ASSUME NEW d \in Calls, Alone(d)', at'[d] \in {"write", "fields", "keys"}
               PROVE  view'[d] = table'
    BY DEF ReadsAreCurrent
  <1>2. Busy' = {d}
    BY <1>1 DEF AloneIsOnly
  <1>3. ASSUME NEW c \in Calls, Begin(c) \/ ReadBack(c)
        PROVE  view'[d] = table'
    <2>1. /\ table' = table /\ view' = [view EXCEPT ![c] = table]
          /\ at'[c] \in {"write", "readback", "fields"}
      BY <1>3 DEF Begin, ReadBack, tableVars, TypeOK
    <2>2. c \in Busy'
      BY <2>1 DEF Busy
    <2>3. c = d
      BY <1>2, <2>2
    <2>4. QED
      BY <2>1, <2>3 DEF TypeOK
  <1>4. ASSUME NEW c \in Calls, Write(c)
        PROVE  view'[d] = table'
    <2>1. at'[c] = "readback"
      BY <1>4 DEF Write, TypeOK
    <2>2. c \in Busy'
      BY <2>1 DEF Busy
    <2>3. QED
      BY <1>2, <2>1, <2>2
  <1>5. ASSUME UNCHANGED <<table, view, contended>>,
               at'[d] = at[d] \/ (at[d] = "fields" /\ at'[d] = "keys")
        PROVE  view'[d] = table'
    BY <1>5 DEF ReadsAreCurrent, Alone, Busy
  <1>6. ASSUME NEW c \in Calls, ApplyFields(c) \/ ApplyKey(c) \/ End(c) \/ Fault(c)
        PROVE  view'[d] = table'
    <2>1. UNCHANGED <<table, view, contended>>
      BY <1>6 DEF ApplyFields, ApplyKey, End, Fault, tableVars, historyVars
    <2>2. at'[d] = at[d] \/ (at[d] = "fields" /\ at'[d] = "keys")
      BY <1>6 DEF ApplyFields, ApplyKey, End, Fault, TypeOK
    <2>3. QED
      BY <1>5, <2>1, <2>2
  <1>7. CASE Restart
    <2>1. d \notin Busy'
      BY <1>7 DEF Restart, Busy, TypeOK
    <2>2. QED
      BY <1>2, <2>1
  <1>8. CASE UNCHANGED vars
    BY <1>5, <1>8 DEF vars, tableVars, callVars, historyVars
  <1>9. QED
    BY <1>3, <1>4, <1>6, <1>7, <1>8 DEF Next

LEMMA NextKeepsStart ==
    ASSUME TypeOK, ExportStarts, [Next]_vars
    PROVE  ExportStarts'
  <1>1. ASSUME NEW c \in Calls,
               Begin(c) \/ Write(c) \/ ReadBack(c) \/ ApplyFields(c) \/ End(c) \/ Fault(c)
        PROVE  ExportStarts'
    BY <1>1 DEF ExportStarts, TypeOK, Begin, Write, ReadBack, ApplyFields, End, Fault
  <1>2. ASSUME NEW c \in Calls, ApplyKey(c)
        PROVE  ExportStarts'
    BY <1>2 DEF ExportStarts, TypeOK, ApplyKey
  <1>3. CASE Restart
    BY <1>3 DEF ExportStarts, TypeOK, Restart
  <1>4. CASE UNCHANGED vars
    BY <1>4 DEF ExportStarts, vars, callVars
  <1>5. QED
    BY <1>1, <1>2, <1>3, <1>4 DEF Next

LEMMA ApplyFieldsStartsExports ==
    ASSUME AloneInv, NEW c \in Calls, ApplyFields(c), Alone(c)
    PROVE  /\ live' = table'.field
           /\ \A p \in Providers :
                 OwnVariable(p) /\ table'.keys.val[p] # None => InUseOrAhead(c, p)'
  <1>1. /\ at[c] = "fields" /\ live' = view[c].field
        /\ UNCHANGED <<table, view, exported>>
    BY DEF ApplyFields, tableVars
  <1>2. view[c] = table
    BY <1>1 DEF AloneInv, ReadsAreCurrent
  <1>3. exported[c] = 0
    BY <1>1 DEF AloneInv, ExportStarts
  <1>4. ASSUME NEW p \in Providers, table.keys.val[p] # None
        PROVE  \E i \in Ahead(c)' : view'[c].keys.order[i] = p
    <2>1. PICK i \in DOMAIN table.keys.order : table.keys.order[i] = p
      BY <1>4 DEF AloneInv, KeysAreNamed, Named
    <2>2. i \in Nat /\ 0 < i
      BY LenProperties DEF AloneInv, TypeOK, Table, KeyTable
    <2>3. i \in Ahead(c)'
      BY <1>1, <1>2, <1>3, <1>4, <2>1, <2>2 DEF Ahead, Given
    <2>4. QED
      BY <1>1, <1>2, <2>1, <2>3
  <1>5. QED
    BY <1>1, <1>2, <1>4 DEF InUseOrAhead

LEMMA ApplyKeyKeepsExports ==
    ASSUME AloneInv, NEW c \in Calls, ApplyKey(c), Alone(c)
    PROVE  /\ live' = table'.field
           /\ \A p \in Providers :
                 OwnVariable(p) /\ table'.keys.val[p] # None => InUseOrAhead(c, p)'
  <1>1. at[c] = "keys" /\ UNCHANGED <<table, live, view>>
    BY DEF ApplyKey, tableVars
  <1>2. /\ view[c] = table
        /\ live = table.field
        /\ \A p \in Providers :
              OwnVariable(p) /\ table.keys.val[p] # None => InUseOrAhead(c, p)
    BY <1>1 DEF AloneInv, ReadsAreCurrent, ExportsCatchUp
  <1>3. PICK i \in Ahead(c) :
            /\ \A j \in Ahead(c) : i <= j
            /\ env' = [env EXCEPT ![EnvOf[table.keys.order[i]]]
                                      = table.keys.val[table.keys.order[i]]]
            /\ exported' = [exported EXCEPT ![c] = i]
    BY <1>2 DEF ApplyKey
  <1>4. Ahead(c) \subseteq Nat
    BY LenProperties DEF Ahead, Given, AloneInv, TypeOK, Table, KeyTable
  <1>5. table.keys.order[i] \in Providers
    BY <1>2, <1>3, ElementOfSeq, LenProperties DEF Ahead, Given, AloneInv, TypeOK, Table, KeyTable
  <1>6. /\ DOMAIN env = EnvVars /\ exported'[c] = i
        /\ \A p \in Providers : EnvOf[p] \in EnvVars
    BY <1>3 DEF AloneInv, TypeOK, EnvVars
  <1> SUFFICES ASSUME NEW p \in Providers, OwnVariable(p), table.keys.val[p] # None
               PROVE  InUseOrAhead(c, p)'
    BY <1>1, <1>2 DEF OwnVariable
  <1>7. CASE table.keys.order[i] = p
    <2>1. env'[EnvOf[p]] = table.keys.val[p]
      BY <1>3, <1>6, <1>7
    <2>2. QED
      BY <1>1, <2>1 DEF InUseOrAhead
  <1>8. CASE table.keys.order[i] # p
    <2>1. EnvOf[table.keys.order[i]] # EnvOf[p]
      BY <1>5, <1>8 DEF OwnVariable
    <2>2. env'[EnvOf[p]] = env[EnvOf[p]]
      BY <1>3, <1>6, <2>1
    <2>3. CASE env[EnvOf[p]] = table.keys.val[p]
      BY <1>1, <2>2, <2>3 DEF InUseOrAhead
    <2>4. CASE \E j \in Ahead(c) : view[c].keys.order[j] = p
      <3>1. PICK j \in Ahead(c) : view[c].keys.order[j] = p
        BY <2>4
      <3>2. i < j
        BY <1>2, <1>3, <1>4, <1>8, <3>1
      <3>3. j \in Ahead(c)'
        BY <1>1, <1>6, <3>1, <3>2 DEF Ahead, Given
      <3>4. QED
        BY <1>1, <3>1, <3>3 DEF InUseOrAhead
    <2>5. QED
      BY <1>2, <2>3, <2>4 DEF InUseOrAhead
  <1>9. QED
    BY <1>7, <1>8

LEMMA NextKeepsExports ==
    ASSUME AloneInv, [Next]_vars
    PROVE  ExportsCatchUp'
  <1>1. TypeOK /\ AloneIsOnly /\ AloneIsOnly'
    BY NextKeepsAloneOnly DEF AloneInv
  <1> SUFFICES ASSUME NEW d \in Calls, Alone(d)', at'[d] = "keys"
               PROVE  /\ live' = table'.field
                      /\ \A p \in Providers :
                            OwnVariable(p) /\ table'.keys.val[p] # None => InUseOrAhead(d, p)'
    BY DEF ExportsCatchUp, OwnVariable
  <1>2. Busy' = {d}
    BY <1>1 DEF AloneIsOnly
  <1>3. ASSUME NEW c \in Calls, Begin(c) \/ Write(c) \/ ReadBack(c)
        PROVE  FALSE
    <2>1. at'[c] \in {"write", "readback", "fields"}
      BY <1>1, <1>3 DEF Begin, Write, ReadBack, TypeOK
    <2>2. c \in Busy'
      BY <2>1 DEF Busy
    <2>3. QED
      BY <1>2, <2>1, <2>2
  <1>4. ASSUME NEW c \in Calls, ApplyFields(c) \/ ApplyKey(c)
        PROVE  c = d /\ Alone(c)
    <2>1. at[c] \in {"fields", "keys"} /\ at'[c] = "keys" /\ contended' = contended
      BY <1>1, <1>4 DEF ApplyFields, ApplyKey, TypeOK, historyVars
    <2>2. c \in Busy /\ c \in Busy'
      BY <2>1 DEF Busy
    <2>3. QED
      BY <1>2, <2>1, <2>2 DEF Alone
  <1>5. ASSUME NEW c \in Calls, ApplyFields(c)
        PROVE  /\ live' = table'.field
               /\ \A p \in Providers :
                     OwnVariable(p) /\ table'.keys.val[p] # None => InUseOrAhead(d, p)'
    BY <1>4, <1>5, ApplyFieldsStartsExports
  <1>6. ASSUME NEW c \in Calls, ApplyKey(c)
        PROVE  /\ live' = table'.field
               /\ \A p \in Providers :
                     OwnVariable(p) /\ table'.keys.val[p] # None => InUseOrAhead(d, p)'
    BY <1>4, <1>6, ApplyKeyKeepsExports
  <1>7. ASSUME NEW c \in Calls, End(c) \/ Fault(c)
        PROVE  FALSE
    <2>1. c \in Busy /\ c \notin Busy' /\ contended' = contended
      BY <1>1, <1>7 DEF End, Fault, Busy, TypeOK
    <2>2. d # c /\ at'[d] = at[d]
      BY <1>1, <1>2, <1>7, <2>1 DEF End, Fault, TypeOK
    <2>3. Alone(d)
      BY <2>1, <2>2 DEF Alone, Busy
    <2>4. QED
      BY <1>1, <2>1, <2>2, <2>3 DEF AloneIsOnly
  <1>8. CASE Restart
    <2>1. d \notin Busy'
      BY <1>1, <1>8 DEF Restart, Busy, TypeOK
    <2>2. QED
      BY <1>2, <2>1
  <1>9. CASE UNCHANGED vars
    BY <1>9 DEF AloneInv, ExportsCatchUp, Alone, Busy, InUseOrAhead, Ahead, Given, vars,
                tableVars, runtimeVars, callVars, historyVars
  <1>10. QED
    BY <1>3, <1>5, <1>6, <1>7, <1>8, <1>9 DEF Next

LEMMA EndAloneIsInStep ==
    ASSUME AloneInv, NEW c \in Calls, End(c), Alone(c)
    PROVE  InStep'
  <1>1. /\ at[c] = "keys" /\ Ahead(c) = {} /\ cached' = view[c].field /\ last' = c
        /\ UNCHANGED <<table, live, env, view>>
    BY DEF End, tableVars
  <1>2. /\ view[c] = table
        /\ live = table.field
        /\ \A p \in Providers :
              OwnVariable(p) /\ table.keys.val[p] # None => InUseOrAhead(c, p)
    BY <1>1 DEF AloneInv, ReadsAreCurrent, ExportsCatchUp
  <1>3. ASSUME NEW p \in Providers, OwnVariable(p), table.keys.val[p] # None
        PROVE  env'[EnvOf[p]] = table.keys.val[p]
    BY <1>1, <1>2, <1>3 DEF InUseOrAhead
  <1>4. last' # None
    BY <1>1
  <1>5. QED
    BY <1>1, <1>2, <1>3, <1>4 DEF InStep, OwnVariable

LEMMA RestartIsInStep ==
    ASSUME AloneInv, Restart
    PROVE  InStep'
  <1>1. TypeOK /\ Named(table.keys)
    BY DEF AloneInv, KeysAreNamed
  <1>2. live' = table.field /\ cached' = table.field /\ table' = table
    BY DEF Restart, tableVars
  <1>3. ASSUME NEW p \in Providers, OwnVariable(p)
        PROVE  env'[EnvOf[p]] = table.keys.val[p]
    <2> DEFINE v == EnvOf[p]
               o == table.keys.order
    <2>1. v \in EnvVars
      BY DEF EnvVars
    <2>2. \A i \in DOMAIN o : o[i] \in Providers
      BY <1>1, ElementOfSeq, LenProperties DEF TypeOK, Table, KeyTable
    <2>3. \A i \in Mine(v) : o[i] = p /\ table.keys.val[p] # None
      BY <1>3, <2>2 DEF Mine, Given, OwnVariable
    <2>4. env'[v] = IF Mine(v) = {} THEN None ELSE table.keys.val[o[Final(v)]]
      BY <1>1, <2>1, RestartExports
    <2>5. CASE Mine(v) = {}
      <3>1. \A i \in DOMAIN o : o[i] = p => table.keys.val[p] = None
        BY <2>5 DEF Mine, Given
      <3>2. table.keys.val[p] = None
        BY <1>1, <3>1 DEF Named
      <3>3. QED
        BY <2>4, <2>5, <3>2
    <2>6. CASE Mine(v) # {}
      <3>1. Final(v) \in Mine(v)
        BY <1>1, <2>6, FinalIsMine
      <3>2. QED
        BY <2>3, <2>4, <2>6, <3>1
    <2>7. QED
      BY <2>5, <2>6
  <1>4. QED
    BY <1>2, <1>3 DEF InStep, OwnVariable

LEMMA NextKeepsInStep ==
    ASSUME AloneInv, [Next]_vars
    PROVE  AloneMeansInStep'
  <1> SUFFICES ASSUME Busy' = {},
                      \/ last' = None
                      \/ last' \notin contended' /\ at'[last'] = "done"
               PROVE  InStep'
    BY DEF AloneMeansInStep
  <1>1. TypeOK
    BY DEF AloneInv
  <1>2. ASSUME NEW c \in Calls,
               Begin(c) \/ Write(c) \/ ReadBack(c) \/ ApplyFields(c) \/ ApplyKey(c)
        PROVE  FALSE
    <2>1. at'[c] \in {"write", "readback", "fields", "keys"}
      BY <1>1, <1>2 DEF Begin, Write, ReadBack, ApplyFields, ApplyKey, TypeOK
    <2>2. QED
      BY <2>1 DEF Busy
  <1>3. ASSUME NEW c \in Calls, End(c)
        PROVE  InStep'
    <2>1. c \in Busy /\ last' = c /\ contended' = contended /\ c # None
      BY <1>3 DEF End, Busy
    <2>2. Alone(c)
      BY <2>1 DEF Alone
    <2>3. QED
      BY <1>3, <2>2, EndAloneIsInStep
  <1>4. ASSUME NEW c \in Calls, Fault(c)
        PROVE  FALSE
    BY <1>1, <1>4 DEF Fault, TypeOK
  <1>5. CASE Restart
    BY <1>5, RestartIsInStep
  <1>6. CASE UNCHANGED vars
    BY <1>6 DEF AloneInv, AloneMeansInStep, InStep, OwnVariable, Busy, vars, tableVars,
                runtimeVars, callVars, historyVars
  <1>7. QED
    BY <1>2, <1>3, <1>4, <1>5, <1>6 DEF Next

LEMMA AloneHolds == Spec => []AloneInv
  <1>1. Init /\ TypeOK => AloneInv
    <2> SUFFICES ASSUME Init, TypeOK PROVE AloneInv
      OBVIOUS
    <2>1. Busy = {} /\ \A c \in Calls : at[c] = "idle"
      BY DEF Init, Busy
    <2>2. KeysAreNamed
      BY EmptyTableIsTable DEF Init, KeysAreNamed
    <2>3. AloneIsOnly /\ ReadsAreCurrent /\ ExportStarts /\ ExportsCatchUp
      BY <2>1 DEF AloneIsOnly, ReadsAreCurrent, ExportStarts, ExportsCatchUp, Alone
    <2>4. InStep
      BY DEF Init, InStep, EmptyTable, EnvVars
    <2>5. QED
      BY <2>2, <2>3, <2>4 DEF AloneInv, AloneMeansInStep
  <1>2. AloneInv /\ [Next]_vars => AloneInv'
    BY NextKeepsTypes, NextKeepsNames, NextKeepsAloneOnly, NextKeepsReads, NextKeepsStart,
       NextKeepsExports, NextKeepsInStep DEF AloneInv
  <1>3. QED
    BY <1>1, <1>2, TypeCorrect, PTL DEF Spec

(* After start-up, and after a call that ran alone to its end, the process *)
(* uses what the table says.                                               *)
THEOREM AloneLeavesInStep == Spec => []AloneMeansInStep
  <1>1. AloneInv => AloneMeansInStep
    BY DEF AloneInv
  <1>2. QED
    BY <1>1, AloneHolds, PTL

-----------------------------------------------------------------------------
(* API keys, while calls do not overlap: the update that writes them has   *)
(* read them as the last one left them.                                    *)
KeysInv == AloneInv /\ KeysKept

LEMMA NextKeepsKeys ==
    ASSUME KeysInv, [Next]_vars
    PROVE  KeysKept'
  <1>1. TypeOK /\ AloneIsOnly /\ ReadsAreCurrent
    BY DEF KeysInv, AloneInv
  <1> DEFINE naming(p) == {i \in DOMAIN writes : p \in Keys(writes[i])}
             kept(p) == \/ naming(p) = {} /\ table.keys.val[p] = None
                        \/ \E i \in naming(p) :
                              /\ \A j \in naming(p) : j <= i
                              /\ table.keys.val[p] = IF p \in Sets[writes[i]] THEN writes[i]
                                                     ELSE None
  <1>2. contended' = {} => contended = {}
    BY DEF Next, Begin, Write, ReadBack, ApplyFields, ApplyKey, End, Fault, Restart, vars,
           historyVars
  <1> SUFFICES ASSUME contended' = {}, NEW p \in Providers
               PROVE  kept(p)'
    BY DEF KeysKept
  <1>3. kept(p)
    BY <1>2 DEF KeysInv, KeysKept
  <1>4. ASSUME UNCHANGED <<table, writes>>
        PROVE  kept(p)'
    BY <1>3, <1>4 DEF Keys
  <1>5. ASSUME NEW c \in Calls, Write(c)
        PROVE  kept(p)'
    <2> DEFINE n == Len(writes)
    <2>1. /\ n \in Nat /\ DOMAIN writes = 1..n
          /\ DOMAIN writes' = 1..(n + 1)
          /\ \A i \in DOMAIN writes : writes'[i] = writes[i]
          /\ writes'[n + 1] = c
      BY <1>1, <1>5, WritesGrow
    <2>2. at[c] = "write" /\ c \in Busy
      BY <1>5 DEF Write, Busy
    <2>3. view[c] = table
      BY <1>1, <1>2, <2>2 DEF ReadsAreCurrent, Alone
    <2>4. PICK order \in NewOrders(c) :
              table'.keys = IF Keys(c) = {} THEN table.keys
                            ELSE MergeKeys(c, table.keys, order)
      BY <1>5, <2>3, WriteWrites DEF Written
    <2> HIDE DEF n
    <2>5. CASE p \in Keys(c)
      <3>1. table'.keys.val[p] = IF p \in Sets[c] THEN c ELSE None
        BY <2>4, <2>5 DEF MergeKeys, Keys
      <3>2. n + 1 \in naming(p)' /\ \A j \in naming(p)' : j <= n + 1
        BY <2>1, <2>5
      <3>3. table'.keys.val[p] = IF p \in Sets[writes'[n + 1]] THEN writes'[n + 1] ELSE None
        BY <2>1, <3>1
      <3>4. QED
        BY <3>2, <3>3
    <2>6. CASE p \notin Keys(c)
      <3>1. table'.keys.val[p] = table.keys.val[p]
        BY <2>4, <2>6 DEF MergeKeys, Keys
      <3>2. naming(p)' = naming(p)
        BY <2>1, <2>6
      <3>3. \A i \in naming(p) : writes'[i] = writes[i]
        BY <2>1
      <3>4. QED
        BY <1>3, <3>1, <3>2, <3>3
    <2>7. QED
      BY <2>5, <2>6
  <1>6. QED
    BY <1>4, <1>5 DEF Next, Begin, ReadBack, ApplyFields, ApplyKey, End, Fault, Restart, vars,
                      tableVars

(* While calls do not overlap, no API key is lost. *)
THEOREM NoKeyIsLost == Spec => []KeysKept
  <1>1. Init => KeysKept
    <2>1. ASSUME Init PROVE DOMAIN writes = {}
      BY <2>1, EmptySeq, LenProperties DEF Init
    <2>2. QED
      BY <2>1 DEF Init, KeysKept, EmptyTable
  <1>2. KeysKept /\ AloneInv /\ [Next]_vars => KeysKept'
    BY NextKeepsKeys DEF KeysInv
  <1>3. QED
    BY <1>1, <1>2, AloneHolds, PTL DEF Spec
=============================================================================
