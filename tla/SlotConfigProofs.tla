-------------------------- MODULE SlotConfigProofs --------------------------
(***************************************************************************)
(* A slot's configuration, for any number of updates and uploads that      *)
(* overlap in any way and fail anywhere: bindings match the settings,      *)
(* templates resolve, a job's two reads do not go back, and updates that   *)
(* do not overlap lose nothing, whatever their payloads name.  Together   *)
(* they make a slot what SlotSaves says of it.                             *)
(***************************************************************************)
EXTENDS SlotConfig, SequenceTheorems, FiniteSetTheorems, WellFoundedInduction,
        TLAPS

(* BindingsMatchSettings alone is not inductive: Commit takes away only    *)
(* the rows its DELETE found earlier.  They are all the rows there are,    *)
(* because from the flush to the commit an update holds the row lock.      *)
LockHeld == \A c \in Updates : at[c] \in {"flushed", "deleted"} => locker = c

SeenIsCommitted == \A c \in Updates : at[c] = "deleted" => seen[c] = binds

BindingInv ==
    /\ DOMAIN at = Updates /\ DOMAIN seen = Updates
    /\ LockHeld
    /\ SeenIsCommitted
    /\ BindingsMatchSettings

LEMMA InitBinding == Init => BindingInv
  <1> SUFFICES ASSUME Init PROVE BindingInv
    OBVIOUS
  <1>1. LockHeld /\ SeenIsCommitted /\ DOMAIN at = Updates /\ DOMAIN seen = Updates
    BY DEF Init, LockHeld, SeenIsCommitted
  <1>2. Rows(SeedRow) = {}
    BY DEF Rows, SeedRow
  <1>3. QED
    BY <1>1, <1>2 DEF Init, BindingInv, BindingsMatchSettings

(* A step that moves no update and commits nothing. *)
LEMMA ElsewhereKeepsBinding ==
    ASSUME BindingInv, UNCHANGED <<row, binds, locker, at, seen>>
    PROVE  BindingInv'
  BY DEF BindingInv, LockHeld, SeenIsCommitted, BindingsMatchSettings, Rows

(* Two updates are never between flush and commit at the same time. *)
LEMMA OneHolder ==
    ASSUME BindingInv, NEW c \in Updates, NEW d \in Updates,
           at[c] \in {"flushed", "deleted"}, at[d] \in {"flushed", "deleted"}
    PROVE  c = d
  BY DEF BindingInv, LockHeld

LEMMA CommitKeepsBinding ==
    ASSUME BindingInv, NEW c \in Updates, Commit(c)
    PROVE  BindingInv'
  <1>1. binds' = Rows(row')
    BY DEF Commit, BindingInv, SeenIsCommitted
  <1>2. \A d \in Updates : at'[d] \notin {"flushed", "deleted"}
    <2> SUFFICES ASSUME NEW d \in Updates PROVE at'[d] \notin {"flushed", "deleted"}
      OBVIOUS
    <2>1. CASE d = c
      BY <2>1 DEF Commit, BindingInv
    <2>2. CASE d # c
      BY <2>2, OneHolder DEF Commit, BindingInv
    <2>3. QED
      BY <2>1, <2>2
  <1>3. DOMAIN at' = Updates /\ DOMAIN seen' = Updates
    BY DEF Commit, BindingInv
  <1>4. BindingsMatchSettings'
    BY <1>1 DEF BindingsMatchSettings, Rows
  <1>5. QED
    BY <1>2, <1>3, <1>4 DEF BindingInv, LockHeld, SeenIsCommitted

LEMMA UpdateKeepsBinding ==
    ASSUME BindingInv, NEW c \in Updates,
           ReadRow(c) \/ FlushRow(c) \/ DeleteBindings(c) \/ Commit(c) \/ UpdateFault(c)
    PROVE  BindingInv'
  <1> USE DEF BindingInv, LockHeld, SeenIsCommitted, slotVars
  <1>1. CASE ReadRow(c)
    BY <1>1 DEF ReadRow, BindingsMatchSettings, Rows
  <1>2. CASE FlushRow(c)
    BY <1>2, SlotAssumption DEF FlushRow, BindingsMatchSettings, Rows
  <1>3. CASE DeleteBindings(c)
    BY <1>3 DEF DeleteBindings, BindingsMatchSettings, Rows
  <1>4. CASE Commit(c)
    BY <1>4, CommitKeepsBinding
  <1>5. CASE UpdateFault(c)
    BY <1>5, OneHolder DEF UpdateFault, Busy, BindingsMatchSettings, Rows
  <1>6. QED
    BY <1>1, <1>2, <1>3, <1>4, <1>5

LEMMA NextBinding == BindingInv /\ [Next]_vars => BindingInv'
  <1> SUFFICES ASSUME BindingInv, [Next]_vars PROVE BindingInv'
    OBVIOUS
  <1> USE DEF slotVars, updateVars
  <1>1. ASSUME NEW u \in Uploads,
               WriteFile(u) \/ RecordPseudoJob(u) \/ RegisterTemplate(u) \/ UploadFault(u)
        PROVE  BindingInv'
    BY <1>1, ElsewhereKeepsBinding
       DEF WriteFile, RecordPseudoJob, RegisterTemplate, UploadFault
  <1>2. ASSUME NEW t \in Runs, Prepare(t) \/ Reread(t) \/ CallDriver(t)
        PROVE  BindingInv'
    BY <1>2, ElsewhereKeepsBinding DEF Prepare, Reread, CallDriver
  <1>3. CASE UNCHANGED vars
    BY <1>3, ElsewhereKeepsBinding DEF vars
  <1>4. QED
    BY <1>1, <1>2, <1>3, UpdateKeepsBinding DEF Next

(* The bindings of the slot are those its settings name, however updates   *)
(* overlap and wherever one of them fails.                                 *)
THEOREM Bindings == Spec => []BindingsMatchSettings
  <1>1. BindingInv => BindingsMatchSettings
    BY DEF BindingInv
  <1>2. QED
    BY <1>1, InitBinding, NextBinding, PTL DEF Spec

-----------------------------------------------------------------------------
(* Numbers. *)

(* Every nonempty set of natural numbers has a least element. *)
LEMMA LeastNumber ==
    ASSUME NEW T, T \subseteq Nat, T # {}
    PROVE  \E m \in T : \A k \in T : m <= k
  <1> DEFINE R == OpToRel(<, Nat)
  <1>1. PICK m \in T : \A k \in T : ~ (<<k, m>> \in R)
    <2> HIDE DEF R
    <2>1. IsWellFoundedOn(R, Nat)
      BY NatLessThanWellFounded DEF R
    <2>2. QED
      BY <2>1, WFMin
  <1>2. \A k \in T : ~(k < m)
    BY <1>1 DEF OpToRel
  <1>3. QED
    BY <1>2, SMT

(* A nonempty set of natural numbers with a bound has a greatest element. *)
LEMMA GreatestNumber ==
    ASSUME NEW S, S \subseteq Nat, S # {}, NEW n \in Nat, \A i \in S : i <= n
    PROVE  \E m \in S : \A k \in S : k <= m
  <1> DEFINE T == {u \in Nat : \A i \in S : i <= u}
  <1>1. PICK m \in T : \A k \in T : m <= k
    <2>1. T \subseteq Nat /\ n \in T
      OBVIOUS
    <2> HIDE DEF T
    <2>2. QED
      BY <2>1, LeastNumber
  <1>2. m \in S
    <2> SUFFICES ASSUME m \notin S PROVE FALSE
      OBVIOUS
    <2>1. \A i \in S : i < m
      BY <1>1
    <2>2. m - 1 \in Nat
      <3>1. PICK i \in S : TRUE
        OBVIOUS
      <3>2. i \in Nat /\ m \in Nat /\ i < m
        BY <2>1, <3>1
      <3>3. QED
        BY <3>2
    <2>3. \A i \in S : i <= m - 1
      BY <2>1
    <2>4. m - 1 \in T
      BY <2>2, <2>3
    <2>5. m <= m - 1
      BY <1>1, <2>4
    <2>6. QED
      BY <2>5
  <1>3. QED
    BY <1>1, <1>2

-----------------------------------------------------------------------------
(* Merging templates.  What a property P of lists needs to hold of the     *)
(* result: it holds of the base, and Place keeps it.  A property is given  *)
(* by the set of positions up to which the merge has it, so that the least *)
(* position outside that set is the place where it would first fail.       *)

(* A set of positions that begins at 0 and goes on at every step has all.  *)
LEMMA PositionsByStep ==
    ASSUME NEW n \in Nat, NEW P, 0 \in P,
           \A i \in 1..n : i - 1 \in P => i \in P
    PROVE  \A i \in 0..n : i \in P
  <1> DEFINE T == {i \in 0..n : i \notin P}
  <1> SUFFICES ASSUME T # {} PROVE FALSE
    OBVIOUS
  <1>1. PICK m \in T : \A k \in T : m <= k
    <2>1. T \subseteq Nat
      OBVIOUS
    <2> HIDE DEF T
    <2>2. QED
      BY <2>1, LeastNumber
  <1>2. m \in 0..n /\ m \notin P /\ m # 0
    BY <1>1
  <1>3. m - 1 \in 0..n /\ m \in 1..n
    BY <1>2
  <1>4. m - 1 \in P
    BY <1>1, <1>3
  <1>5. QED
    BY <1>2, <1>3, <1>4

(* The equation that defines the merge, for the first n overrides. *)
MergesUpTo(f, base, overrides, n) ==
    f = [i \in 0..n |-> IF i = 0 THEN base ELSE Place(f[i - 1], overrides[i])]

LEMMA MergesExist ==
    ASSUME NEW base, NEW overrides, NEW n \in Nat
    PROVE  \E f : MergesUpTo(f, base, overrides, n)
  <1> DEFINE P == {m \in Nat : \E f : MergesUpTo(f, base, overrides, m)}
  <1>1. 0 \in P
    <2> DEFINE f == [i \in 0..0 |-> base]
    <2>1. f = [i \in 0..0 |-> IF i = 0 THEN base ELSE Place(f[i - 1], overrides[i])]
      OBVIOUS
    <2>2. MergesUpTo(f, base, overrides, 0)
      BY <2>1 DEF MergesUpTo
    <2>3. QED
      BY <2>2
  <1>2. ASSUME NEW m \in 1..n, m - 1 \in P
        PROVE  m \in P
    <2>1. PICK f : MergesUpTo(f, base, overrides, m - 1)
      BY <1>2
    <2>2. f = [i \in 0..(m - 1) |-> IF i = 0 THEN base ELSE Place(f[i - 1], overrides[i])]
      BY <2>1 DEF MergesUpTo
    <2> DEFINE g == [i \in 0..m |-> IF i = m THEN Place(f[m - 1], overrides[m]) ELSE f[i]]
               h == [i \in 0..m |-> IF i = 0 THEN base ELSE Place(g[i - 1], overrides[i])]
    <2>3. \A i \in 0..m : g[i] = h[i]
      <3> SUFFICES ASSUME NEW i \in 0..m PROVE g[i] = h[i]
        OBVIOUS
      <3>1. CASE i = m
        BY <3>1
      <3>2. CASE i = 0
        BY <2>2, <3>2
      <3>3. CASE i # 0 /\ i # m
        <4>1. i \in 0..(m - 1) /\ i - 1 \in 0..(m - 1) /\ i - 1 # m /\ i - 1 \in 0..m
          BY <3>3
        <4>2. f[i] = Place(f[i - 1], overrides[i])
          BY <2>2, <3>3, <4>1
        <4>3. g[i] = f[i] /\ g[i - 1] = f[i - 1]
          BY <3>3, <4>1
        <4>4. QED
          BY <3>3, <4>2, <4>3
      <3>4. QED
        BY <3>1, <3>2, <3>3
    <2>4. g = h
      BY <2>3
    <2>5. MergesUpTo(g, base, overrides, m)
      BY <2>4 DEF MergesUpTo
    <2>6. QED
      BY <2>5
  <1> HIDE DEF P
  <1>3. \A i \in 0..n : i \in P
    BY <1>1, <1>2, PositionsByStep
  <1>4. QED
    BY <1>3 DEF P

(* The merge, step by step. *)
LEMMA MergeSteps ==
    ASSUME NEW base, NEW overrides, Len(overrides) \in Nat
    PROVE  LET merged == Merges(base, overrides) IN
           /\ merged[0] = base
           /\ \A i \in 1..Len(overrides) : merged[i] = Place(merged[i - 1], overrides[i])
  <1> DEFINE n == Len(overrides)
             merged == Merges(base, overrides)
  <1>1. merged = CHOOSE f : MergesUpTo(f, base, overrides, n)
    BY DEF Merges, MergesUpTo
  <1>2. \E f : MergesUpTo(f, base, overrides, n)
    BY MergesExist
  <1> HIDE DEF merged
  <1>3. MergesUpTo(merged, base, overrides, n)
    BY <1>1, <1>2
  <1>4. /\ merged[0] = base
        /\ \A i \in 1..n : merged[i] = Place(merged[i - 1], overrides[i])
    BY <1>3 DEF MergesUpTo
  <1>5. QED
    BY <1>4 DEF merged

-----------------------------------------------------------------------------
(* What a merge does to a list of templates: its type, that no kind is     *)
(* named twice, and the objects of a kind.                                 *)
OnePerKind(list) == \A i, j \in DOMAIN list : list[i].kind = list[j].kind => i = j

OfKind(list, k) == {list[i].object : i \in {i \in DOMAIN list : list[i].kind = k}}

Within(list, objects) == \A i \in DOMAIN list : list[i].object \in objects

(* Where Place puts an entry, and that it leaves the rest alone. *)
LEMMA PlaceFacts ==
    ASSUME NEW list \in Seq(Entry), NEW e \in Entry
    PROVE  /\ Place(list, e) \in Seq(Entry)
           /\ \E p \in DOMAIN Place(list, e) :
                 /\ Place(list, e)[p] = e
                 /\ \A i \in DOMAIN Place(list, e) : i # p =>
                       i \in DOMAIN list /\ Place(list, e)[i] = list[i]
                 /\ DOMAIN list \subseteq DOMAIN Place(list, e)
                 /\ p \in DOMAIN list => list[p].kind = e.kind
                 /\ p \notin DOMAIN list => \A i \in DOMAIN list : list[i].kind # e.kind
  <1> DEFINE n == Len(list)
             same == {i \in DOMAIN list : list[i].kind = e.kind}
  <1>1. n \in Nat /\ DOMAIN list = 1..n
    BY LenProperties
  <1>2. CASE same = {}
    <2>1. Place(list, e) = Append(list, e)
      BY <1>2 DEF Place
    <2>2. /\ Append(list, e) \in Seq(Entry)
          /\ Len(Append(list, e)) = n + 1
          /\ \A i \in 1..n : Append(list, e)[i] = list[i]
          /\ Append(list, e)[n + 1] = e
      BY AppendProperties
    <2>3. DOMAIN Append(list, e) = 1..(n + 1)
      BY <2>2, LenProperties
    <2> DEFINE new == Append(list, e)
    <2> HIDE DEF new, n
    <2>4. /\ new \in Seq(Entry) /\ DOMAIN new = 1..(n + 1) /\ new[n + 1] = e
          /\ \A i \in 1..n : new[i] = list[i]
      BY <2>2, <2>3 DEF new
    <2>5. \A i \in DOMAIN list : list[i].kind # e.kind
      BY <1>2
    <2>6. n + 1 \in DOMAIN new
      BY <1>1, <2>4
    <2>7. /\ \A i \in DOMAIN new : i # n + 1 => i \in DOMAIN list /\ new[i] = list[i]
          /\ DOMAIN list \subseteq DOMAIN new
          /\ n + 1 \notin DOMAIN list
      BY <1>1, <2>4
    <2>8. QED
      BY <2>1, <2>4, <2>5, <2>6, <2>7 DEF new
  <1>3. CASE same # {}
    <2> DEFINE p == CHOOSE i \in same : \A j \in same : j <= i
    <2>1. p \in same
      <3>1. \E i \in same : \A j \in same : j <= i
        <4>1. same \subseteq Nat /\ \A i \in same : i <= n
          BY <1>1
        <4> HIDE DEF same, n
        <4>2. n \in Nat
          BY <1>1
        <4>3. QED
          BY <1>3, <4>1, <4>2, GreatestNumber
      <3> HIDE DEF same
      <3>2. QED
        BY <3>1
    <2>2. Place(list, e) = [list EXCEPT ![p] = e]
      BY <1>3 DEF Place
    <2> HIDE DEF p
    <2>3. p \in 1..n /\ list[p].kind = e.kind
      BY <1>1, <2>1
    <2>4. /\ [list EXCEPT ![p] = e] \in Seq(Entry)
          /\ Len([list EXCEPT ![p] = e]) = n
          /\ \A j \in 1..n : [list EXCEPT ![p] = e][j] = IF j = p THEN e ELSE list[j]
      BY <2>3, ExceptSeq
    <2>5. DOMAIN [list EXCEPT ![p] = e] = 1..n
      BY <1>1
    <2>6. QED
      BY <1>1, <2>2, <2>3, <2>4, <2>5
  <1>4. QED
    BY <1>2, <1>3

LEMMA PlaceIsList ==
    ASSUME NEW list \in Seq(Entry), NEW e \in Entry
    PROVE  Place(list, e) \in Seq(Entry)
  BY PlaceFacts

LEMMA PlaceKeepsKinds ==
    ASSUME NEW list \in Seq(Entry), NEW e \in Entry, OnePerKind(list)
    PROVE  /\ OnePerKind(Place(list, e))
           /\ \A k : OfKind(Place(list, e), k) = IF k = e.kind THEN {e.object}
                                                  ELSE OfKind(list, k)
  <1> DEFINE new == Place(list, e)
  <1>1. PICK p \in DOMAIN new :
            /\ new[p] = e
            /\ \A i \in DOMAIN new : i # p => i \in DOMAIN list /\ new[i] = list[i]
            /\ DOMAIN list \subseteq DOMAIN new
            /\ p \in DOMAIN list => list[p].kind = e.kind
            /\ p \notin DOMAIN list => \A i \in DOMAIN list : list[i].kind # e.kind
    BY PlaceFacts
  <1> HIDE DEF new
  <1>2. \A i \in DOMAIN new : i # p => new[i].kind # e.kind
    BY <1>1 DEF OnePerKind
  <1>3. OnePerKind(new)
    BY <1>1, <1>2 DEF OnePerKind
  <1>4. OfKind(new, e.kind) = {e.object}
    BY <1>1, <1>2 DEF OfKind
  <1>5. ASSUME NEW k, k # e.kind
        PROVE  OfKind(new, k) = OfKind(list, k)
    <2>1. ASSUME NEW i \in DOMAIN new, new[i].kind = k
          PROVE  i \in DOMAIN list /\ list[i] = new[i]
      BY <1>1, <1>5, <2>1
    <2>2. ASSUME NEW i \in DOMAIN list, list[i].kind = k
          PROVE  i \in DOMAIN new /\ list[i] = new[i]
      BY <1>1, <1>5, <2>2
    <2>3. {i \in DOMAIN new : new[i].kind = k} = {i \in DOMAIN list : list[i].kind = k}
      BY <2>1, <2>2
    <2>4. QED
      BY <2>1, <2>3 DEF OfKind
  <1>6. QED
    BY <1>3, <1>4, <1>5 DEF new

LEMMA PlaceStaysWithin ==
    ASSUME NEW list \in Seq(Entry), NEW e \in Entry, NEW objects,
           Within(list, objects), e.object \in objects
    PROVE  Within(Place(list, e), objects)
  <1> DEFINE new == Place(list, e)
  <1>1. PICK p \in DOMAIN new :
            /\ new[p] = e
            /\ \A i \in DOMAIN new : i # p => i \in DOMAIN list /\ new[i] = list[i]
    BY PlaceFacts
  <1> HIDE DEF new
  <1>2. Within(new, objects)
    BY <1>1 DEF Within
  <1>3. QED
    BY <1>2 DEF new

LEMMA MergeFacts ==
    ASSUME NEW base \in Seq(Entry), NEW overrides \in Seq(Entry)
    PROVE  /\ MergeMedia(base, overrides) \in Seq(Entry)
           /\ \A objects : Within(base, objects) /\ Within(overrides, objects) =>
                 Within(MergeMedia(base, overrides), objects)
           /\ OnePerKind(base) => OnePerKind(MergeMedia(base, overrides))
  <1> DEFINE n == Len(overrides)
             merged == Merges(base, overrides)
  <1>1. n \in Nat /\ DOMAIN overrides = 1..n /\ \A i \in 1..n : overrides[i] \in Entry
    BY LenProperties, ElementOfSeq
  <1>2. /\ merged[0] = base
        /\ \A i \in 1..n : merged[i] = Place(merged[i - 1], overrides[i])
    BY <1>1, MergeSteps
  <1> HIDE DEF n, merged
  <1>3. \A i \in 0..n : merged[i] \in Seq(Entry)
    <2> DEFINE P == {i \in 0..n : merged[i] \in Seq(Entry)}
    <2>1. 0 \in P
      BY <1>1, <1>2
    <2>2. ASSUME NEW i \in 1..n, i - 1 \in P PROVE i \in P
      <3>1. merged[i - 1] \in Seq(Entry) /\ overrides[i] \in Entry
        BY <1>1, <2>2
      <3>2. merged[i] \in Seq(Entry)
        BY <1>2, <3>1, PlaceIsList
      <3>3. QED
        BY <1>1, <3>2
    <2> HIDE DEF P
    <2>3. \A i \in 0..n : i \in P
      BY <1>1, <2>1, <2>2, PositionsByStep
    <2>4. QED
      BY <2>3 DEF P
  <1>4. ASSUME NEW objects, Within(base, objects), Within(overrides, objects)
        PROVE  \A i \in 0..n : Within(merged[i], objects)
    <2> DEFINE P == {i \in 0..n : Within(merged[i], objects)}
    <2>1. 0 \in P
      BY <1>1, <1>2, <1>4
    <2>2. ASSUME NEW i \in 1..n, i - 1 \in P PROVE i \in P
      <3>1. merged[i - 1] \in Seq(Entry) /\ Within(merged[i - 1], objects)
        BY <1>1, <1>3, <2>2
      <3>2. overrides[i] \in Entry /\ overrides[i].object \in objects
        BY <1>1, <1>4 DEF Within
      <3>3. Within(merged[i], objects)
        BY <1>2, <3>1, <3>2, PlaceStaysWithin
      <3>4. QED
        BY <1>1, <3>3
    <2> HIDE DEF P
    <2>3. \A i \in 0..n : i \in P
      BY <1>1, <2>1, <2>2, PositionsByStep
    <2>4. QED
      BY <2>3 DEF P
  <1>5. ASSUME OnePerKind(base)
        PROVE  \A i \in 0..n : OnePerKind(merged[i])
    <2> DEFINE P == {i \in 0..n : OnePerKind(merged[i])}
    <2>1. 0 \in P
      BY <1>1, <1>2, <1>5
    <2>2. ASSUME NEW i \in 1..n, i - 1 \in P PROVE i \in P
      <3>1. merged[i - 1] \in Seq(Entry) /\ OnePerKind(merged[i - 1]) /\ overrides[i] \in Entry
        BY <1>1, <1>3, <2>2
      <3>2. OnePerKind(merged[i])
        BY <1>2, <3>1, PlaceKeepsKinds
      <3>3. QED
        BY <1>1, <3>2
    <2> HIDE DEF P
    <2>3. \A i \in 0..n : i \in P
      BY <1>1, <2>1, <2>2, PositionsByStep
    <2>4. QED
      BY <2>3 DEF P
  <1>6. MergeMedia(base, overrides) = merged[n] /\ n \in 0..n
    BY <1>1 DEF MergeMedia, merged, n
  <1>7. QED
    BY <1>3, <1>4, <1>5, <1>6

(* A kind is left with the object its last override names, or, if none     *)
(* names it, with what it had.                                             *)
LEMMA MergeOfKind ==
    ASSUME NEW base \in Seq(Entry), NEW overrides \in Seq(Entry), OnePerKind(base), NEW k
    PROVE  \/ /\ \A i \in DOMAIN overrides : overrides[i].kind # k
              /\ OfKind(MergeMedia(base, overrides), k) = OfKind(base, k)
           \/ \E i \in DOMAIN overrides :
                 /\ overrides[i].kind = k
                 /\ \A j \in DOMAIN overrides : overrides[j].kind = k => j <= i
                 /\ OfKind(MergeMedia(base, overrides), k) = {overrides[i].object}
  <1> DEFINE n == Len(overrides)
             merged == Merges(base, overrides)
             right(m) ==
                \/ /\ \A i \in 1..m : overrides[i].kind # k
                   /\ OfKind(merged[m], k) = OfKind(base, k)
                \/ \E i \in 1..m :
                      /\ overrides[i].kind = k
                      /\ \A j \in 1..m : overrides[j].kind = k => j <= i
                      /\ OfKind(merged[m], k) = {overrides[i].object}
  <1>1. n \in Nat /\ DOMAIN overrides = 1..n /\ \A i \in 1..n : overrides[i] \in Entry
    BY LenProperties, ElementOfSeq
  <1>2. /\ merged[0] = base
        /\ \A i \in 1..n : merged[i] = Place(merged[i - 1], overrides[i])
    BY <1>1, MergeSteps
  <1> HIDE DEF n, merged
  <1> DEFINE P == {m \in 0..n : merged[m] \in Seq(Entry) /\ OnePerKind(merged[m]) /\ right(m)}
  <1>3. 0 \in P
    BY <1>1, <1>2
  <1>4. ASSUME NEW m \in 1..n, m - 1 \in P PROVE m \in P
    <2>1. /\ merged[m - 1] \in Seq(Entry) /\ OnePerKind(merged[m - 1]) /\ right(m - 1)
          /\ overrides[m] \in Entry
      BY <1>1, <1>4
    <2> HIDE DEF right
    <2>2. merged[m] = Place(merged[m - 1], overrides[m])
      BY <1>2
    <2>3. /\ merged[m] \in Seq(Entry)
          /\ OnePerKind(merged[m])
          /\ OfKind(merged[m], k) = IF k = overrides[m].kind THEN {overrides[m].object}
                                    ELSE OfKind(merged[m - 1], k)
      <3> DEFINE list == merged[m - 1]
                 e == overrides[m]
      <3>1. list \in Seq(Entry) /\ OnePerKind(list) /\ e \in Entry
        BY <2>1
      <3> HIDE DEF list, e
      <3>2. /\ OnePerKind(Place(list, e))
            /\ \A x : OfKind(Place(list, e), x) = IF x = e.kind THEN {e.object}
                                                  ELSE OfKind(list, x)
        BY <3>1, PlaceKeepsKinds
      <3>3. Place(list, e) \in Seq(Entry)
        BY <3>1, PlaceIsList
      <3>4. QED
        BY <2>2, <3>2, <3>3 DEF list, e
    <2> USE DEF right
    <2>4. right(m)
      <3>1. CASE overrides[m].kind = k
        <4>1. \A j \in 1..m : j <= m
          BY <1>1
        <4>2. m \in 1..m
          BY <1>1
        <4>3. QED
          BY <2>3, <3>1, <4>1, <4>2
      <3>2. CASE overrides[m].kind # k
        <4>1. OfKind(merged[m], k) = OfKind(merged[m - 1], k)
          BY <2>3, <3>2
        <4>2. \A i \in 1..m : i = m \/ i \in 1..(m - 1)
          BY <1>1
        <4>3. \A i \in 1..(m - 1) : i \in 1..m
          BY <1>1
        <4>4. CASE \A i \in 1..(m - 1) : overrides[i].kind # k
          BY <2>1, <3>2, <4>1, <4>2, <4>4
        <4>5. CASE ~(\A i \in 1..(m - 1) : overrides[i].kind # k)
          <5>1. PICK i \in 1..(m - 1) :
                    /\ overrides[i].kind = k
                    /\ \A j \in 1..(m - 1) : overrides[j].kind = k => j <= i
                    /\ OfKind(merged[m - 1], k) = {overrides[i].object}
            BY <2>1, <4>5
          <5>2. \A j \in 1..m : overrides[j].kind = k => j <= i
            BY <3>2, <4>2, <5>1
          <5>3. QED
            BY <4>1, <4>3, <5>1, <5>2
        <4>6. QED
          BY <4>4, <4>5
      <3>3. QED
        BY <3>1, <3>2
    <2>5. QED
      BY <1>1, <2>3, <2>4
  <1> HIDE DEF P
  <1>5. \A m \in 0..n : m \in P
    BY <1>1, <1>3, <1>4, PositionsByStep
  <1>6. n \in 0..n /\ MergeMedia(base, overrides) = merged[n]
    BY <1>1 DEF MergeMedia, merged, n
  <1>7. right(n)
    BY <1>5, <1>6 DEF P
  <1>8. QED
    BY <1>1, <1>6, <1>7

-----------------------------------------------------------------------------
(* Types. *)

LEMMA UpdatedIsRow ==
    ASSUME NEW old \in Row, NEW p \in Payload, NEW c \in Updates
    PROVE  Updated(old, p, c) \in Row
  <1>1. old.settings \in [Names -> Value] /\ old.templates \in Seq(Entry) /\ old.version \in Nat
    BY DEF Row
  <1>2. p.media \in Seq(Entry)
    BY DEF Payload
  <1>3. MergeMedia(old.templates, p.media) \in Seq(Entry)
    BY <1>1, <1>2, MergeFacts
  <1>4. << >> \in Seq(Entry)
    BY EmptySeq
  <1>5. MergeSettings(old.settings, p, c) \in [Names -> Value]
    BY <1>1 DEF MergeSettings, Value
  <1>6. QED
    BY <1>1, <1>3, <1>4, <1>5 DEF Updated, Row

LEMMA RowsAreBindings ==
    ASSUME NEW r \in Row, r.author \in Updates
    PROVE  Rows(r) \subseteq Binding
  <1>1. r.templates \in Seq(Entry)
    BY DEF Row
  <1>2. /\ Len(r.templates) \in Nat /\ DOMAIN r.templates = 1..Len(r.templates)
        /\ \A i \in 1..Len(r.templates) : r.templates[i] \in Entry
    BY <1>1, LenProperties, ElementOfSeq
  <1>3. \A i \in DOMAIN r.templates : i \in Nat \ {0} /\ r.templates[i] \in Entry
    BY <1>2
  <1>4. QED
    BY <1>3 DEF Rows, Binding, Entry

LEMMA SeedIsRow == SeedRow \in Row
  <1>1. << >> \in Seq(Entry)
    BY EmptySeq
  <1>2. QED
    BY <1>1 DEF SeedRow, Row, Value

LEMMA NextKeepsTypes ==
    ASSUME TypeOK, [Next]_vars
    PROVE  TypeOK'
  <1> USE SlotAssumption DEF slotVars, updateVars, uploadVars, runVars
  <1>1. ASSUME NEW u \in Uploads,
               WriteFile(u) \/ RecordPseudoJob(u) \/ RegisterTemplate(u) \/ UploadFault(u)
        PROVE  TypeOK'
    BY <1>1 DEF WriteFile, RecordPseudoJob, RegisterTemplate, UploadFault, TypeOK
  <1>2. ASSUME NEW c \in Updates, ReadRow(c)
        PROVE  TypeOK'
    <2>1. Sendable \subseteq Payload /\ Busy \subseteq Updates
      BY DEF Sendable, Busy
    <2>2. payload' \in [Updates \cup Runs -> Payload] /\ contended' \subseteq Updates
      BY <1>2, <2>1 DEF ReadRow, TypeOK
    <2>3. QED
      BY <1>2, <2>2 DEF ReadRow, TypeOK
  <1>3. ASSUME NEW c \in Updates, FlushRow(c) \/ DeleteBindings(c) \/ UpdateFault(c)
        PROVE  TypeOK'
    BY <1>3 DEF FlushRow, DeleteBindings, UpdateFault, TypeOK
  <1>4. ASSUME NEW c \in Updates, Commit(c)
        PROVE  TypeOK'
    <2>1. row' = Updated(view[c], payload[c], c) /\ view[c] \in Row /\ payload[c] \in Payload
      BY <1>4 DEF Commit, TypeOK
    <2>2. row' \in Row /\ row'.author = c
      BY <2>1, UpdatedIsRow DEF Updated
    <2>3. binds' \subseteq Binding
      BY <1>4, <2>2, RowsAreBindings DEF Commit, TypeOK
    <2>4. saved' \in Seq(Row)
      BY <1>4, <2>2, AppendProperties DEF Commit, TypeOK
    <2>5. QED
      BY <1>4, <2>2, <2>3, <2>4 DEF Commit, TypeOK
  <1>5. ASSUME NEW t \in Runs, Prepare(t)
        PROVE  TypeOK'
    <2>1. Sendable \subseteq Payload
      BY DEF Sendable
    <2>2. [settings |-> row.settings, templates |-> row.templates] \in Config
      BY DEF TypeOK, Row, Config
    <2>3. config' \in [Runs -> Config] /\ provider' \in [Runs -> Updates \cup {None}]
      BY <1>5, <2>2 DEF Prepare, TypeOK, Row
    <2>4. QED
      BY <1>5, <2>1, <2>3 DEF Prepare, TypeOK
  <1>6. ASSUME NEW t \in Runs, Reread(t)
        PROVE  TypeOK'
    <2>1. [settings |-> row.settings, templates |-> row.templates] \in Config
      BY DEF TypeOK, Row, Config
    <2>2. QED
      BY <1>6, <2>1 DEF Reread, TypeOK
  <1>7. ASSUME NEW t \in Runs, CallDriver(t)
        PROVE  TypeOK'
    BY <1>7 DEF CallDriver, TypeOK
  <1>8. CASE UNCHANGED vars
    BY <1>8 DEF vars, TypeOK
  <1>9. QED
    BY <1>1, <1>2, <1>3, <1>4, <1>5, <1>6, <1>7, <1>8 DEF Next

(* Type correctness. *)
THEOREM TypeCorrect == Spec => []TypeOK
  <1>1. Init => TypeOK
    <2> SUFFICES ASSUME Init PROVE TypeOK
      OBVIOUS
    <2>1. SeedRow \in Row /\ <<SeedRow>> \in Seq(Row) /\ << >> \in Seq(Entry)
      <3>1. SeedRow \in Row
        BY SeedIsRow
      <3>2. <<SeedRow>> \in Seq(Row)
        BY <3>1
      <3>3. QED
        BY <3>1, <3>2, EmptySeq
    <2>2. [settings |-> SeedRow.settings, templates |-> <<>>] \in Config /\ Nothing \in Payload
      BY <2>1, SlotAssumption DEF Row, Config, Payload
    <2>3. QED
      BY <2>1, <2>2, SlotAssumption DEF Init, TypeOK
  <1>2. TypeOK /\ [Next]_vars => TypeOK'
    BY NextKeepsTypes
  <1>3. QED
    BY <1>1, <1>2, PTL DEF Spec

-----------------------------------------------------------------------------
(* Templates resolve.  A template can be sent only once its upload was     *)
(* answered, and by then its media row is committed; from there on only    *)
(* merges move templates about.                                            *)
AnsweredHaveRows == \A u \in Uploads : upload[u] = "answered" => u \in mediaRows

KnownTemplates ==
    /\ \A x \in Updates \cup Runs : Within(payload[x].media, mediaRows)
    /\ Within(row.templates, mediaRows)
    /\ \A c \in Updates : Within(view[c].templates, mediaRows)
    /\ \A t \in Runs : Within(config[t].templates, mediaRows)

NoRunRefused == \A t \in Runs : run[t] # "provider_error"

ResolveInv == TypeOK /\ AnsweredHaveRows /\ KnownTemplates /\ NoRunRefused

LEMMA SendableIsKnown ==
    ASSUME TypeOK, AnsweredHaveRows, NEW p \in Sendable
    PROVE  Within(p.media, mediaRows)
  <1>1. p \in Payload /\ \A i \in DOMAIN p.media : upload[p.media[i].object] = "answered"
    BY SlotAssumption DEF Sendable
  <1>2. \A i \in DOMAIN p.media : p.media[i] \in Entry
    BY <1>1, LenProperties, ElementOfSeq DEF Payload
  <1>3. QED
    BY <1>1, <1>2 DEF AnsweredHaveRows, Within, Entry

LEMMA NextKeepsResolving ==
    ASSUME ResolveInv, [Next]_vars
    PROVE  ResolveInv'
  <1> USE DEF slotVars, updateVars, uploadVars, runVars
  <1>1. TypeOK /\ TypeOK' /\ AnsweredHaveRows /\ KnownTemplates /\ NoRunRefused
    BY NextKeepsTypes DEF ResolveInv
  <1>2. ASSUME NEW u \in Uploads,
               WriteFile(u) \/ RecordPseudoJob(u) \/ RegisterTemplate(u) \/ UploadFault(u)
        PROVE  ResolveInv'
    <2>1. /\ UNCHANGED <<row, view, payload, config, run>>
          /\ mediaRows \subseteq mediaRows'
      BY <1>2 DEF WriteFile, RecordPseudoJob, RegisterTemplate, UploadFault
    <2>2. AnsweredHaveRows'
      BY <1>1, <1>2
         DEF WriteFile, RecordPseudoJob, RegisterTemplate, UploadFault, AnsweredHaveRows, TypeOK
    <2>3. KnownTemplates' /\ NoRunRefused'
      BY <1>1, <2>1 DEF KnownTemplates, NoRunRefused, Within
    <2>4. QED
      BY <1>1, <2>2, <2>3 DEF ResolveInv
  <1>3. ASSUME UNCHANGED <<upload, mediaRows, run>>, KnownTemplates'
        PROVE  ResolveInv'
    BY <1>1, <1>3 DEF ResolveInv, AnsweredHaveRows, NoRunRefused
  <1>4. ASSUME NEW c \in Updates, ReadRow(c)
        PROVE  ResolveInv'
    <2>1. PICK p \in Sendable : payload' = [payload EXCEPT ![c] = p]
      BY <1>4 DEF ReadRow
    <2>2. Within(p.media, mediaRows)
      BY <1>1, SendableIsKnown
    <2>3. KnownTemplates'
      BY <1>1, <1>4, <2>1, <2>2 DEF ReadRow, KnownTemplates, TypeOK, Within
    <2>4. QED
      BY <1>3, <1>4, <2>3 DEF ReadRow
  <1>5. ASSUME NEW c \in Updates, FlushRow(c) \/ DeleteBindings(c) \/ UpdateFault(c)
        PROVE  ResolveInv'
    BY <1>1, <1>3, <1>5
       DEF FlushRow, DeleteBindings, UpdateFault, KnownTemplates, Within
  <1>6. ASSUME NEW c \in Updates, Commit(c)
        PROVE  ResolveInv'
    <2>1. /\ row' = Updated(view[c], payload[c], c)
          /\ UNCHANGED <<view, payload, upload, mediaRows, config, run>>
      BY <1>6 DEF Commit
    <2>2. /\ view[c].templates \in Seq(Entry) /\ payload[c].media \in Seq(Entry)
          /\ Within(view[c].templates, mediaRows) /\ Within(payload[c].media, mediaRows)
      BY <1>1 DEF TypeOK, Row, Payload, KnownTemplates
    <2>3. Within(MergeMedia(view[c].templates, payload[c].media), mediaRows)
      BY <2>2, MergeFacts
    <2>4. Within(<<>>, mediaRows)
      BY EmptySeq, LenProperties DEF Within
    <2>5. Within(row'.templates, mediaRows)
      BY <2>1, <2>3, <2>4 DEF Updated
    <2>6. KnownTemplates'
      BY <1>1, <2>1, <2>5 DEF KnownTemplates, Within
    <2>7. QED
      BY <1>3, <2>1, <2>6
  <1>7. ASSUME NEW t \in Runs, Prepare(t) \/ Reread(t)
        PROVE  ResolveInv'
    <2>1. /\ UNCHANGED <<row, view, mediaRows, upload>>
          /\ config' = [config EXCEPT ![t] = [settings |-> row.settings,
                                              templates |-> row.templates]]
          /\ run' = [run EXCEPT ![t] = "prepared"] \/ run' = [run EXCEPT ![t] = "ready"]
          /\ \/ payload' = payload
             \/ \E p \in Sendable : payload' = [payload EXCEPT ![t] = p]
      BY <1>7 DEF Prepare, Reread
    <2>2. \A x \in Updates \cup Runs : Within(payload'[x].media, mediaRows)
      <3>1. CASE payload' = payload
        BY <1>1, <3>1 DEF KnownTemplates
      <3>2. CASE \E p \in Sendable : payload' = [payload EXCEPT ![t] = p]
        <4>1. PICK p \in Sendable : payload' = [payload EXCEPT ![t] = p]
          BY <3>2
        <4>2. Within(p.media, mediaRows)
          BY <1>1, SendableIsKnown
        <4>3. QED
          BY <1>1, <4>1, <4>2 DEF KnownTemplates, TypeOK
      <3>3. QED
        BY <2>1, <3>1, <3>2
    <2>3. \A x \in Runs : Within(config'[x].templates, mediaRows)
      BY <1>1, <2>1 DEF KnownTemplates, TypeOK
    <2>4. KnownTemplates'
      BY <1>1, <2>1, <2>2, <2>3 DEF KnownTemplates, Within
    <2>5. AnsweredHaveRows' /\ NoRunRefused'
      BY <1>1, <2>1 DEF AnsweredHaveRows, NoRunRefused, TypeOK
    <2>6. QED
      BY <1>1, <2>4, <2>5 DEF ResolveInv
  <1>8. ASSUME NEW t \in Runs, CallDriver(t)
        PROVE  ResolveInv'
    <2>1. /\ config[t].templates \in Seq(Entry) /\ payload[t].media \in Seq(Entry)
          /\ Within(config[t].templates, mediaRows) /\ Within(payload[t].media, mediaRows)
      BY <1>1 DEF TypeOK, Config, Payload, KnownTemplates
    <2>2. Within(Templates(t), mediaRows)
      BY <2>1, MergeFacts DEF Templates
    <2>3. run' = [run EXCEPT ![t] = "ok"]
      BY <1>8, <2>2 DEF CallDriver, Within, Resolves
    <2>4. NoRunRefused'
      BY <1>1, <2>3 DEF NoRunRefused, TypeOK
    <2>5. UNCHANGED <<row, view, payload, upload, mediaRows, config>>
      BY <1>8 DEF CallDriver
    <2>6. AnsweredHaveRows' /\ KnownTemplates'
      BY <1>1, <2>5 DEF AnsweredHaveRows, KnownTemplates, Within
    <2>7. QED
      BY <1>1, <2>4, <2>6 DEF ResolveInv
  <1>9. CASE UNCHANGED vars
    BY <1>1, <1>3, <1>9 DEF vars, KnownTemplates, Within
  <1>10. QED
    BY <1>2, <1>4, <1>5, <1>6, <1>7, <1>8, <1>9 DEF Next

LEMMA InitResolves ==
    ASSUME Init, TypeOK
    PROVE  ResolveInv
  <1>1. \A objects : Within(<<>>, objects)
    BY EmptySeq, LenProperties DEF Within
  <1>2. QED
    BY <1>1 DEF Init, ResolveInv, AnsweredHaveRows, KnownTemplates, NoRunRefused, SeedRow,
                Nothing

(* Every template bound to the slot can be read, and no job is refused for *)
(* want of one.                                                            *)
THEOREM TemplatesResolve == Spec => []BoundTemplatesResolve
  <1>1. Init /\ TypeOK => ResolveInv
    BY InitResolves
  <1>2. ResolveInv /\ [Next]_vars => ResolveInv'
    BY NextKeepsResolving
  <1>3. ResolveInv /\ BindingsMatchSettings => BoundTemplatesResolve
    <2> SUFFICES ASSUME ResolveInv, BindingsMatchSettings PROVE BoundTemplatesResolve
      OBVIOUS
    <2>1. \A b \in binds : \E i \in DOMAIN row.templates : b.object = row.templates[i].object
      BY DEF BindingsMatchSettings, Rows
    <2>2. \A i \in DOMAIN row.templates : row.templates[i].object \in mediaRows
      BY DEF ResolveInv, KnownTemplates, Within
    <2>3. QED
      BY <2>1, <2>2 DEF BoundTemplatesResolve, Resolves, ResolveInv, NoRunRefused
  <1>4. QED
    BY <1>1, <1>2, <1>3, TypeCorrect, Bindings, PTL DEF Spec

-----------------------------------------------------------------------------
(* Every save is kept, and the row is the last of them. *)
RowIsLastSaved == Len(saved) > 0 /\ row = saved[Len(saved)]

LEMMA CommitSaves ==
    ASSUME TypeOK, NEW c \in Updates, Commit(c)
    PROVE  /\ Len(saved) \in Nat
           /\ DOMAIN saved = 1..Len(saved)
           /\ Len(saved') = Len(saved) + 1
           /\ DOMAIN saved' = 1..(Len(saved) + 1)
           /\ \A i \in 1..Len(saved) : saved'[i] = saved[i]
           /\ saved'[Len(saved) + 1] = row'
  <1>1. row' \in Row
    BY NextKeepsTypes DEF TypeOK, Next
  <1>2. saved \in Seq(Row) /\ saved' = Append(saved, row')
    BY DEF TypeOK, Commit
  <1> DEFINE new == row'
             old == saved
             then == saved'
  <1>3. new \in Row /\ old \in Seq(Row) /\ then = Append(old, new)
    BY <1>1, <1>2
  <1> HIDE DEF new, old, then
  <1>4. /\ Len(old) \in Nat /\ DOMAIN old = 1..Len(old)
        /\ then \in Seq(Row)
        /\ Len(then) = Len(old) + 1
        /\ \A i \in 1..Len(old) : then[i] = old[i]
        /\ then[Len(old) + 1] = new
    BY <1>3, AppendProperties, LenProperties
  <1>5. DOMAIN then = 1..(Len(old) + 1)
    BY <1>4, LenProperties
  <1>6. QED
    BY <1>4, <1>5 DEF new, old, then

-----------------------------------------------------------------------------
(* Jobs.  The provider is taken before the settings, and saves only append *)
(* to the history: whatever is read later has a later place in it.         *)
JobsFollowSaves ==
    \A t \in Runs : run[t] # "idle" =>
        \E i, k \in DOMAIN saved :
            /\ i <= k
            /\ saved[i].author = provider[t]
            /\ saved[k].settings = config[t].settings
            /\ saved[k].templates = config[t].templates

JobInv == TypeOK /\ RowIsLastSaved /\ JobsFollowSaves

LEMMA NextKeepsJobs ==
    ASSUME JobInv, [Next]_vars
    PROVE  JobInv'
  <1> USE DEF slotVars, updateVars, uploadVars, runVars
  <1>1. TypeOK /\ TypeOK' /\ RowIsLastSaved /\ JobsFollowSaves
    BY NextKeepsTypes DEF JobInv
  <1>2. Len(saved) \in Nat /\ DOMAIN saved = 1..Len(saved) /\ Len(saved) \in DOMAIN saved
    <2>1. saved \in Seq(Row)
      BY <1>1 DEF TypeOK
    <2>2. Len(saved) \in Nat /\ DOMAIN saved = 1..Len(saved)
      BY <2>1, LenProperties
    <2>3. QED
      BY <1>1, <2>2 DEF RowIsLastSaved
  <1>3. CASE UNCHANGED <<row, saved, run, provider, config>>
    BY <1>1, <1>3 DEF JobInv, RowIsLastSaved, JobsFollowSaves
  <1>4. ASSUME NEW c \in Updates, Commit(c)
        PROVE  JobInv'
    <2>1. /\ DOMAIN saved' = 1..(Len(saved) + 1) /\ Len(saved') = Len(saved) + 1
          /\ \A i \in 1..Len(saved) : saved'[i] = saved[i]
          /\ saved'[Len(saved) + 1] = row'
      BY <1>1, <1>4, CommitSaves
    <2>2. RowIsLastSaved'
      BY <1>2, <2>1 DEF RowIsLastSaved
    <2>3. \A i \in DOMAIN saved : i \in DOMAIN saved' /\ saved'[i] = saved[i]
      BY <1>2, <2>1
    <2>4. UNCHANGED <<run, provider, config>>
      BY <1>4 DEF Commit
    <2>5. JobsFollowSaves'
      BY <1>1, <2>3, <2>4 DEF JobsFollowSaves
    <2>6. QED
      BY <1>1, <2>2, <2>5 DEF JobInv
  <1>5. ASSUME NEW t \in Runs, Prepare(t)
        PROVE  JobInv'
    <2>1. UNCHANGED <<row, saved>>
      BY <1>5 DEF Prepare
    <2>2. /\ provider'[t] = row.author
          /\ config'[t].settings = row.settings
          /\ config'[t].templates = row.templates
          /\ \A x \in Runs \ {t} : /\ run'[x] = run[x]
                                   /\ provider'[x] = provider[x]
                                   /\ config'[x] = config[x]
      BY <1>1, <1>5 DEF Prepare, TypeOK
    <2>3. Len(saved) <= Len(saved)
      BY <1>2
    <2>4. JobsFollowSaves'
      BY <1>1, <1>2, <2>1, <2>2, <2>3 DEF JobsFollowSaves, RowIsLastSaved
    <2>5. QED
      BY <1>1, <2>1, <2>4 DEF JobInv, RowIsLastSaved
  <1>6. ASSUME NEW t \in Runs, Reread(t)
        PROVE  JobInv'
    <2>1. UNCHANGED <<row, saved, provider>> /\ run[t] # "idle"
      BY <1>6 DEF Reread
    <2>2. /\ config'[t].settings = row.settings
          /\ config'[t].templates = row.templates
          /\ \A x \in Runs \ {t} : run'[x] = run[x] /\ config'[x] = config[x]
      BY <1>1, <1>6 DEF Reread, TypeOK
    <2>3. PICK i \in DOMAIN saved : saved[i].author = provider[t]
      BY <1>1, <2>1 DEF JobsFollowSaves
    <2>4. i <= Len(saved)
      BY <1>2
    <2>5. JobsFollowSaves'
      BY <1>1, <1>2, <2>1, <2>2, <2>3, <2>4 DEF JobsFollowSaves, RowIsLastSaved
    <2>6. QED
      BY <1>1, <2>1, <2>5 DEF JobInv, RowIsLastSaved
  <1>7. ASSUME NEW t \in Runs, CallDriver(t)
        PROVE  JobInv'
    <2>1. UNCHANGED <<row, saved, provider, config>> /\ run[t] # "idle"
      BY <1>7 DEF CallDriver
    <2>2. \A x \in Runs \ {t} : run'[x] = run[x]
      BY <1>1, <1>7 DEF CallDriver, TypeOK
    <2>3. JobsFollowSaves'
      BY <1>1, <2>1, <2>2 DEF JobsFollowSaves
    <2>4. QED
      BY <1>1, <2>1, <2>3 DEF JobInv, RowIsLastSaved
  <1>8. ASSUME NEW u \in Uploads,
               WriteFile(u) \/ RecordPseudoJob(u) \/ RegisterTemplate(u) \/ UploadFault(u)
        PROVE  JobInv'
    BY <1>3, <1>8 DEF WriteFile, RecordPseudoJob, RegisterTemplate, UploadFault
  <1>9. ASSUME NEW c \in Updates,
               ReadRow(c) \/ FlushRow(c) \/ DeleteBindings(c) \/ UpdateFault(c)
        PROVE  JobInv'
    BY <1>3, <1>9 DEF ReadRow, FlushRow, DeleteBindings, UpdateFault
  <1>10. CASE UNCHANGED vars
    BY <1>3, <1>10 DEF vars
  <1>11. QED
    BY <1>4, <1>5, <1>6, <1>7, <1>8, <1>9, <1>10 DEF Next

LEMMA InitHistory ==
    ASSUME Init
    PROVE  Len(saved) = 1 /\ RowIsLastSaved
  <1>1. saved = <<SeedRow>> /\ row = SeedRow
    BY DEF Init
  <1> HIDE DEF SeedRow
  <1>2. QED
    BY <1>1 DEF RowIsLastSaved

(* A job works with settings and templates that were saved together, and   *)
(* never with older ones than its provider's.                              *)
THEOREM JobsDoNotGoBack == Spec => []JobNeverGoesBack
  <1>1. Init /\ TypeOK => JobInv
    BY InitHistory DEF Init, JobInv, JobsFollowSaves
  <1>2. JobInv /\ [Next]_vars => JobInv'
    BY NextKeepsJobs
  <1>3. JobInv => JobNeverGoesBack
    BY DEF JobInv, JobsFollowSaves, JobNeverGoesBack
  <1>4. QED
    BY <1>1, <1>2, <1>3, TypeCorrect, PTL DEF Spec

-----------------------------------------------------------------------------
(* What updates name, for lists of templates sent one after another.  The  *)
(* p-th entry of the i-th list is named for kind k, and not cleared since. *)
NamedAt(media, k, i, p) ==
    /\ media[i][p].kind = k
    /\ \A j \in DOMAIN media : j > i => media[j] # <<>>

(* It is the last one. *)
LastAt(media, k, i, p) ==
    /\ i \in DOMAIN media
    /\ p \in DOMAIN media[i]
    /\ NamedAt(media, k, i, p)
    /\ \A j \in DOMAIN media : \A q \in DOMAIN media[j] :
          NamedAt(media, k, j, q) => ~(j > i \/ (j = i /\ q > p))

Objects(media, k) == {o \in Uploads : \E i, p \in Nat : LastAt(media, k, i, p) /\ o = media[i][p].object}

Sent(media, n) == DOMAIN media = 1..n /\ \A i \in 1..n : media[i] \in Seq(Entry)

(* One more list of templates is sent. *)
Then(media, later, n, list) ==
    /\ Sent(media, n)
    /\ list \in Seq(Entry)
    /\ DOMAIN later = 1..(n + 1)
    /\ \A i \in 1..n : later[i] = media[i]
    /\ later[n + 1] = list

LEMMA EntriesOf ==
    ASSUME NEW list \in Seq(Entry)
    PROVE  /\ \A p \in DOMAIN list : p \in Nat /\ list[p] \in Entry /\ list[p].object \in Uploads
           /\ list # <<>> <=> \E p : p \in DOMAIN list
  <1>1. Len(list) \in Nat /\ DOMAIN list = 1..Len(list)
    BY LenProperties
  <1>2. \A p \in 1..Len(list) : list[p] \in Entry
    BY ElementOfSeq
  <1>3. Len(list) = 0 <=> list = <<>>
    BY EmptySeq
  <1>4. Len(list) # 0 => 1 \in DOMAIN list
    BY <1>1
  <1>5. Len(list) = 0 => DOMAIN list = {}
    BY <1>1
  <1>6. QED
    BY <1>1, <1>2, <1>3, <1>4, <1>5 DEF Entry

(* An empty list clears what was named. *)
LEMMA ClearedNames ==
    ASSUME NEW n \in Nat, NEW media, NEW later, Then(media, later, n, <<>>), NEW k
    PROVE  Objects(later, k) = {}
  <1> SUFFICES ASSUME NEW i \in Nat, NEW p \in Nat, LastAt(later, k, i, p) PROVE FALSE
    BY DEF Objects
  <1>1. i \in 1..(n + 1) /\ p \in DOMAIN later[i]
    BY DEF LastAt, Then
  <1>2. CASE i = n + 1
    <2>1. p \in DOMAIN <<>>
      BY <1>1, <1>2 DEF Then
    <2>2. QED
      BY <2>1
  <1>3. CASE i # n + 1
    <2>1. n + 1 > i /\ n + 1 \in DOMAIN later /\ later[n + 1] = <<>>
      BY <1>1, <1>3 DEF Then
    <2>2. QED
      BY <2>1 DEF LastAt, NamedAt
  <1>4. QED
    BY <1>2, <1>3

(* A list that names another kind keeps what was named. *)
LEMMA OtherNames ==
    ASSUME NEW n \in Nat, NEW media, NEW later, NEW list, Then(media, later, n, list),
           list # <<>>, NEW k, \A i \in DOMAIN list : list[i].kind # k
    PROVE  Objects(later, k) = Objects(media, k)
  <1>1. ASSUME NEW i \in 1..n, NEW p
        PROVE  NamedAt(later, k, i, p) <=> NamedAt(media, k, i, p)
    <2>1. later[i] = media[i] /\ DOMAIN later = 1..(n + 1) /\ DOMAIN media = 1..n
      BY DEF Then, Sent
    <2>2. \A j \in 1..(n + 1) : j = n + 1 \/ j \in 1..n
      OBVIOUS
    <2>3. \A j \in 1..n : j \in 1..(n + 1) /\ later[j] = media[j]
      BY DEF Then
    <2>4. later[n + 1] # <<>>
      BY DEF Then
    <2>5. QED
      BY <2>1, <2>2, <2>3, <2>4 DEF NamedAt
  <1>2. \A p \in DOMAIN later[n + 1] : ~NamedAt(later, k, n + 1, p)
    BY DEF NamedAt, Then
  <1>3. ASSUME NEW i \in Nat, NEW p \in Nat
        PROVE  LastAt(later, k, i, p) <=> LastAt(media, k, i, p)
    <2>1. DOMAIN later = 1..(n + 1) /\ DOMAIN media = 1..n
          /\ \A j \in 1..n : later[j] = media[j]
      BY DEF Then, Sent
    <2>2. \A j \in 1..(n + 1) : j = n + 1 \/ j \in 1..n
      OBVIOUS
    <2>3. \A j \in 1..n : j \in 1..(n + 1)
      OBVIOUS
    <2>4. LastAt(later, k, i, p) => i \in 1..n
      BY <1>2, <2>1, <2>2 DEF LastAt
    <2>5. ASSUME LastAt(media, k, i, p) PROVE LastAt(later, k, i, p)
      <3>1. i \in 1..n /\ p \in DOMAIN media[i] /\ NamedAt(later, k, i, p)
        BY <1>1, <2>1, <2>5 DEF LastAt
      <3>2. \A j \in 1..n : \A q \in DOMAIN later[j] :
               NamedAt(later, k, j, q) => ~(j > i \/ (j = i /\ q > p))
        BY <1>1, <2>1, <2>5 DEF LastAt
      <3>3. QED
        BY <1>2, <2>1, <2>2, <2>3, <3>1, <3>2 DEF LastAt
    <2>6. ASSUME LastAt(later, k, i, p) PROVE LastAt(media, k, i, p)
      <3>1. i \in 1..n /\ p \in DOMAIN media[i] /\ NamedAt(media, k, i, p)
        BY <1>1, <2>1, <2>4, <2>6 DEF LastAt
      <3>2. \A j \in 1..n : \A q \in DOMAIN media[j] :
               NamedAt(media, k, j, q) => ~(j > i \/ (j = i /\ q > p))
        BY <1>1, <2>1, <2>3, <2>6 DEF LastAt
      <3>3. QED
        BY <2>1, <3>1, <3>2 DEF LastAt
    <2>7. QED
      BY <2>5, <2>6
  <1>4. \A i, p \in Nat : LastAt(media, k, i, p) => later[i][p].object = media[i][p].object
    BY DEF LastAt, Then, Sent
  <1>5. QED
    BY <1>3, <1>4 DEF Objects

(* A list that names kind k decides alone. *)
LEMMA NewNames ==
    ASSUME NEW n \in Nat, NEW media, NEW later, NEW list, Then(media, later, n, list),
           NEW k, NEW p \in DOMAIN list, list[p].kind = k,
           \A q \in DOMAIN list : list[q].kind = k => q <= p
    PROVE  Objects(later, k) = {list[p].object}
  <1>1. /\ DOMAIN later = 1..(n + 1) /\ later[n + 1] = list
        /\ \A q \in DOMAIN list : q \in Nat /\ list[q].object \in Uploads
    BY EntriesOf DEF Then
  <1>2. \A j \in 1..(n + 1) : ~(j > n + 1)
    OBVIOUS
  <1>3. n + 1 \in 1..(n + 1) /\ n + 1 \in Nat
    OBVIOUS
  <1>4. NamedAt(later, k, n + 1, p)
    BY <1>1, <1>2 DEF NamedAt
  <1>5. LastAt(later, k, n + 1, p)
    <2>1. ASSUME NEW j \in DOMAIN later, NEW q \in DOMAIN later[j], NamedAt(later, k, j, q)
          PROVE  ~(j > n + 1 \/ (j = n + 1 /\ q > p))
      <3>1. ~(j > n + 1)
        BY <1>1, <1>2
      <3>2. ASSUME j = n + 1 PROVE ~(q > p)
        <4>1. q \in DOMAIN list /\ list[q].kind = k
          BY <1>1, <2>1, <3>2 DEF NamedAt
        <4>2. q \in Nat /\ p \in Nat /\ q <= p
          BY <1>1, <4>1
        <4>3. QED
          BY <4>2
      <3>3. QED
        BY <3>1, <3>2
    <2>2. QED
      BY <1>1, <1>3, <1>4, <2>1 DEF LastAt
  <1>6. ASSUME NEW i \in Nat, NEW q \in Nat, LastAt(later, k, i, q)
        PROVE  i = n + 1 /\ q = p
    <2>1. /\ i \in 1..(n + 1) /\ q \in DOMAIN later[i] /\ NamedAt(later, k, i, q)
          /\ ~(n + 1 > i \/ (n + 1 = i /\ p > q))
      BY <1>1, <1>3, <1>4, <1>6 DEF LastAt
    <2>2. i = n + 1
      BY <2>1
    <2>3. list[q].kind = k /\ q \in DOMAIN list
      BY <1>1, <2>1, <2>2 DEF NamedAt
    <2>4. q <= p /\ ~(p > q) /\ p \in Nat
      BY <1>1, <2>1, <2>2, <2>3
    <2>5. QED
      BY <2>2, <2>4
  <1>7. QED
    BY <1>1, <1>3, <1>5, <1>6 DEF Objects

(* The lists the saved updates sent. *)
Media == [i \in DOMAIN Authors |-> payload[Authors[i]].media]

LEMMA LastNamedIs ==
    ASSUME NEW n \in Nat, Sent(Media, n), NEW k
    PROVE  LastNamed(k) = Objects(Media, k)
  <1> DEFINE media == Media
             pairs == UNION {{i} \X DOMAIN media[i] : i \in DOMAIN media}
             named == {x \in pairs : media[x[1]][x[2]].kind = k
                                     /\ \A j \in DOMAIN media : j > x[1] => media[j] # <<>>}
             later(y, z) == z[1] > y[1] \/ (z[1] = y[1] /\ z[2] > y[2])
             last == {y \in named : \A z \in named : ~later(y, z)}
  <1>1. LastNamed(k) = {media[x[1]][x[2]].object : x \in last}
    BY DEF LastNamed, Media
  <1>2. Sent(media, n)
    OBVIOUS
  <1> HIDE DEF media
  <1>3. \A i \in DOMAIN media : i \in Nat /\ \A p \in DOMAIN media[i] :
            p \in Nat /\ media[i][p].object \in Uploads
    BY <1>2, EntriesOf DEF Sent
  <1>4. ASSUME NEW i \in DOMAIN media, NEW p \in DOMAIN media[i]
        PROVE  <<i, p>> \in named <=> NamedAt(media, k, i, p)
    BY <1>4 DEF NamedAt
  <1>5. ASSUME NEW x \in named
        PROVE  \E i \in DOMAIN media : \E p \in DOMAIN media[i] : x = <<i, p>>
    BY <1>5
  <1>6. ASSUME NEW i \in DOMAIN media, NEW p \in DOMAIN media[i]
        PROVE  <<i, p>> \in last <=> LastAt(media, k, i, p)
    <2>1. ASSUME <<i, p>> \in last PROVE LastAt(media, k, i, p)
      <3>1. NamedAt(media, k, i, p)
        BY <1>4, <2>1
      <3>2. ASSUME NEW j \in DOMAIN media, NEW q \in DOMAIN media[j], NamedAt(media, k, j, q)
            PROVE  ~(j > i \/ (j = i /\ q > p))
        <4>1. <<j, q>> \in named
          BY <1>4, <3>2
        <4>2. ~later(<<i, p>>, <<j, q>>)
          BY <2>1, <4>1
        <4>3. QED
          BY <4>2
      <3>3. QED
        BY <3>1, <3>2 DEF LastAt
    <2>2. ASSUME LastAt(media, k, i, p) PROVE <<i, p>> \in last
      <3>1. <<i, p>> \in named
        BY <1>4, <2>2 DEF LastAt
      <3>2. ASSUME NEW z \in named
            PROVE  ~later(<<i, p>>, z)
        <4>1. PICK j, q : j \in DOMAIN media /\ q \in DOMAIN media[j] /\ z = <<j, q>>
          BY <1>5, <3>2
        <4>2. NamedAt(media, k, j, q)
          BY <1>4, <3>2, <4>1
        <4>3. ~(j > i \/ (j = i /\ q > p))
          BY <2>2, <4>1, <4>2 DEF LastAt
        <4>4. QED
          BY <4>1, <4>3
      <3>3. QED
        BY <3>1, <3>2
    <2>3. QED
      BY <2>1, <2>2
  <1>7. \A x \in last : \E i \in DOMAIN media : \E p \in DOMAIN media[i] : x = <<i, p>>
    BY <1>5
  <1> HIDE DEF last
  <1>8. {media[x[1]][x[2]].object : x \in last} = Objects(media, k)
    <2>1. ASSUME NEW x \in last
          PROVE  media[x[1]][x[2]].object \in Objects(media, k)
      <3>1. PICK i, p : i \in DOMAIN media /\ p \in DOMAIN media[i] /\ x = <<i, p>>
        BY <1>7, <2>1
      <3>2. LastAt(media, k, i, p) /\ x[1] = i /\ x[2] = p
        BY <1>6, <2>1, <3>1
      <3>3. i \in Nat /\ p \in Nat /\ media[i][p].object \in Uploads
        BY <1>3, <3>1
      <3>4. media[x[1]][x[2]].object = media[i][p].object
        BY <3>2
      <3>5. QED
        BY <3>2, <3>3, <3>4 DEF Objects
    <2>2. ASSUME NEW o \in Objects(media, k)
          PROVE  \E x \in last : media[x[1]][x[2]].object = o
      <3>1. PICK i \in Nat, p \in Nat : LastAt(media, k, i, p) /\ o = media[i][p].object
        BY <2>2 DEF Objects
      <3>2. i \in DOMAIN media /\ p \in DOMAIN media[i]
        BY <3>1 DEF LastAt
      <3>3. <<i, p>> \in last
        BY <1>6, <3>1, <3>2
      <3>4. <<i, p>>[1] = i /\ <<i, p>>[2] = p
        OBVIOUS
      <3>5. QED
        BY <3>1, <3>3, <3>4
    <2>3. QED
      BY <2>1, <2>2
  <1>9. QED
    BY <1>1, <1>8 DEF media

-----------------------------------------------------------------------------
(* Updates add up.  While none has overlapped another, the update in       *)
(* progress is alone and its view is the row, so its commit extends what   *)
(* the earlier ones left.                                                  *)
KindsOnce ==
    /\ OnePerKind(row.templates)
    /\ \A c \in Updates : OnePerKind(view[c].templates)

OneAtATime ==
    /\ \A c, d \in Busy : c = d
    /\ \A c \in Busy : view[c] = row

AuthorsCommitted ==
    /\ \A i \in 1..(Len(saved) - 1) : /\ saved[i + 1].author \in Updates
                                      /\ at[saved[i + 1].author] = "committed"
    /\ row.version = Len(saved)

SettingsAddUp ==
    \A n \in Names :
        LET naming == {i \in DOMAIN Authors : n \in payload[Authors[i]].sets}
        IN  \/ naming = {} /\ row.settings[n] = None
            \/ \E i \in naming :
                  row.settings[n] = Authors[i] /\ \A j \in naming : j <= i

TemplatesAddUp == \A k : OfKind(row.templates, k) = Objects(Media, k)

AddUpInv ==
    /\ TypeOK
    /\ Len(saved) > 0
    /\ KindsOnce
    /\ contended = {} => /\ OneAtATime
                         /\ AuthorsCommitted
                         /\ SettingsAddUp
                         /\ TemplatesAddUp

LEMMA SavedLength ==
    ASSUME TypeOK
    PROVE  Len(saved) \in Nat /\ DOMAIN saved = 1..Len(saved)
  <1>1. saved \in Seq(Row)
    BY DEF TypeOK
  <1>2. QED
    BY <1>1, LenProperties

LEMMA AuthorsAre ==
    ASSUME TypeOK, AuthorsCommitted
    PROVE  /\ DOMAIN Authors = 1..(Len(saved) - 1)
           /\ \A i \in 1..(Len(saved) - 1) : Authors[i] \in Updates /\ at[Authors[i]] = "committed"
  BY DEF Authors, AuthorsCommitted

(* A step that commits nothing and leaves the payloads of the authors. *)
LEMMA HistoryStays ==
    ASSUME AddUpInv, contended = {}, TypeOK', UNCHANGED <<row, saved>>,
           \A c \in Updates : at[c] = "committed" =>
               at'[c] = "committed" /\ payload'[c] = payload[c]
    PROVE  AuthorsCommitted' /\ SettingsAddUp' /\ TemplatesAddUp'
  <1>1. /\ TypeOK /\ AuthorsCommitted /\ SettingsAddUp /\ TemplatesAddUp
        /\ Len(saved) > 0
    BY DEF AddUpInv
  <1>2. AuthorsCommitted'
    BY <1>1 DEF AuthorsCommitted
  <1>3. Authors' = Authors
    BY DEF Authors
  <1>4. \A i \in DOMAIN Authors : payload'[Authors[i]] = payload[Authors[i]]
    BY <1>1, AuthorsAre
  <1>5. Media' = Media
    BY <1>3, <1>4 DEF Media
  <1>6. TemplatesAddUp'
    BY <1>1, <1>5 DEF TemplatesAddUp
  <1>7. SettingsAddUp'
    BY <1>1, <1>3, <1>4 DEF SettingsAddUp
  <1>8. QED
    BY <1>2, <1>6, <1>7

(* What a commit makes of the history, when no update has overlapped. *)
LEMMA CommitHistory ==
    ASSUME AddUpInv, contended = {}, NEW c \in Updates, Commit(c),
           NEW n, n = Len(saved)
    PROVE  /\ n \in Nat \ {0}
           /\ row' = Updated(row, payload[c], c)
           /\ DOMAIN Authors = 1..(n - 1)
           /\ DOMAIN Authors' = 1..n
           /\ \A i \in 1..(n - 1) : /\ Authors'[i] = Authors[i]
                                    /\ Authors[i] \in Updates
                                    /\ at[Authors[i]] = "committed"
           /\ Authors'[n] = c
           /\ payload' = payload
  <1>1. /\ TypeOK /\ OneAtATime /\ AuthorsCommitted /\ n \in Nat /\ n > 0
        /\ payload' = payload
    BY SavedLength DEF AddUpInv, Commit
  <1>2. /\ Len(saved') = n + 1
        /\ \A i \in 1..n : saved'[i] = saved[i]
        /\ saved'[n + 1] = row'
    BY <1>1, CommitSaves
  <1>3. row' = Updated(row, payload[c], c)
    BY <1>1 DEF Commit, OneAtATime, Busy
  <1>4. row'.author = c
    BY <1>3 DEF Updated
  <1>5. Authors' = [i \in 1..n |-> saved'[i + 1].author]
    BY <1>1, <1>2 DEF Authors
  <1>6. Authors'[n] = c
    BY <1>1, <1>2, <1>4, <1>5
  <1>7. \A i \in 1..(n - 1) : i \in 1..n /\ i + 1 \in 1..n
    BY <1>1
  <1>8. \A i \in 1..(n - 1) : Authors'[i] = Authors[i]
    BY <1>1, <1>2, <1>5, <1>7 DEF Authors
  <1>9. /\ DOMAIN Authors = 1..(n - 1)
        /\ \A i \in 1..(n - 1) : Authors[i] \in Updates /\ at[Authors[i]] = "committed"
    BY <1>1, AuthorsAre
  <1>10. DOMAIN Authors' = 1..n
    BY <1>5
  <1>11. QED
    BY <1>1, <1>3, <1>6, <1>8, <1>9, <1>10

LEMMA CommitAuthors ==
    ASSUME AddUpInv, contended = {}, NEW c \in Updates, Commit(c)
    PROVE  AuthorsCommitted'
  <1> DEFINE n == Len(saved)
  <1>1. /\ TypeOK /\ AuthorsCommitted /\ n \in Nat \ {0}
        /\ row' = Updated(row, payload[c], c)
    BY CommitHistory DEF AddUpInv
  <1>2. /\ Len(saved') = n + 1
        /\ \A i \in 1..n : saved'[i] = saved[i]
        /\ saved'[n + 1] = row'
    BY <1>1, CommitSaves
  <1>3. at'[c] = "committed" /\ \A d \in Updates : at[d] = "committed" => at'[d] = "committed"
    BY <1>1 DEF Commit, TypeOK
  <1>4. row'.author = c /\ row'.version = n + 1
    BY <1>1 DEF Updated, AuthorsCommitted
  <1>5. ASSUME NEW i \in 1..n
        PROVE  saved'[i + 1].author \in Updates /\ at'[saved'[i + 1].author] = "committed"
    <2>1. CASE i = n
      BY <1>2, <1>3, <1>4, <2>1
    <2>2. CASE i # n
      <3>1. i \in 1..(n - 1) /\ i + 1 \in 1..n
        BY <1>1, <2>2
      <3>2. QED
        BY <1>1, <1>2, <1>3, <3>1 DEF AuthorsCommitted
    <2>3. QED
      BY <2>1, <2>2
  <1>6. QED
    BY <1>1, <1>2, <1>4, <1>5 DEF AuthorsCommitted

LEMMA CommitSettings ==
    ASSUME AddUpInv, contended = {}, NEW c \in Updates, Commit(c)
    PROVE  SettingsAddUp'
  <1> SUFFICES ASSUME NEW x \in Names
               PROVE  LET naming == {i \in DOMAIN Authors' : x \in payload'[Authors'[i]].sets}
                      IN  \/ naming = {} /\ row'.settings[x] = None
                          \/ \E i \in naming : /\ row'.settings[x] = Authors'[i]
                                               /\ \A j \in naming : j <= i
    BY DEF SettingsAddUp
  <1> DEFINE n == Len(saved)
             before == {i \in DOMAIN Authors : x \in payload[Authors[i]].sets}
             naming == {i \in DOMAIN Authors' : x \in payload'[Authors'[i]].sets}
  <1>1. /\ n \in Nat \ {0}
        /\ row' = Updated(row, payload[c], c)
        /\ DOMAIN Authors = 1..(n - 1)
        /\ DOMAIN Authors' = 1..n
        /\ \A i \in 1..(n - 1) : Authors'[i] = Authors[i]
        /\ Authors'[n] = c
        /\ payload' = payload
    BY CommitHistory
  <1>2. row'.settings[x] = IF x \in payload[c].sets THEN c ELSE row.settings[x]
    BY <1>1 DEF Updated, MergeSettings
  <1>3. \/ before = {} /\ row.settings[x] = None
        \/ \E i \in before : row.settings[x] = Authors[i] /\ \A j \in before : j <= i
    BY DEF AddUpInv, SettingsAddUp
  <1>4. \A i \in 1..n : i = n \/ i \in 1..(n - 1)
    BY <1>1
  <1>5. \A i \in 1..(n - 1) : i \in 1..n /\ i # n /\ i <= n
    BY <1>1
  <1>6. CASE x \in payload[c].sets
    <2>1. n \in naming /\ row'.settings[x] = Authors'[n]
      BY <1>1, <1>2, <1>6
    <2>2. \A j \in naming : j <= n
      BY <1>1
    <2>3. QED
      BY <2>1, <2>2
  <1>7. CASE x \notin payload[c].sets
    <2>1. naming = before
      BY <1>1, <1>4, <1>5, <1>7
    <2>2. \A i \in before : Authors'[i] = Authors[i]
      BY <1>1
    <2>3. QED
      BY <1>2, <1>3, <1>7, <2>1, <2>2
  <1>8. QED
    BY <1>6, <1>7

LEMMA MediaSent ==
    ASSUME TypeOK, AuthorsCommitted
    PROVE  Sent(Media, Len(saved) - 1)
  <1>1. /\ DOMAIN Authors = 1..(Len(saved) - 1)
        /\ \A i \in 1..(Len(saved) - 1) : Authors[i] \in Updates
    BY AuthorsAre
  <1>2. \A d \in Updates : payload[d].media \in Seq(Entry)
    BY DEF TypeOK, Payload
  <1>3. QED
    BY <1>1, <1>2 DEF Sent, Media

LEMMA CommitTemplates ==
    ASSUME AddUpInv, contended = {}, NEW c \in Updates, Commit(c)
    PROVE  TemplatesAddUp'
  <1> SUFFICES ASSUME NEW k PROVE OfKind(row'.templates, k) = Objects(Media', k)
    BY DEF TemplatesAddUp
  <1> DEFINE n == Len(saved) - 1
             list == payload[c].media
             base == row.templates
             media == Media
             later == Media'
  <1>1. /\ TypeOK /\ AuthorsCommitted /\ OnePerKind(base) /\ n \in Nat
        /\ base \in Seq(Entry) /\ list \in Seq(Entry)
        /\ OfKind(base, k) = Objects(media, k)
    BY SavedLength DEF AddUpInv, KindsOnce, TemplatesAddUp, TypeOK, Row, Payload
  <1>2. Then(media, later, n, list)
    <2>1. /\ DOMAIN Authors = 1..n
          /\ DOMAIN Authors' = 1..(n + 1)
          /\ \A i \in 1..n : Authors'[i] = Authors[i]
          /\ Authors'[n + 1] = c
          /\ payload' = payload
      <3>1. (n + 1) = Len(saved)
        BY <1>1
      <3>2. QED
        BY <3>1, CommitHistory
    <2>2. \A i \in 1..n : i \in 1..(n + 1)
      BY <1>1
    <2>3. n + 1 \in 1..(n + 1)
      BY <1>1
    <2>4. Sent(media, n)
      BY <1>1, MediaSent
    <2>5. QED
      BY <1>1, <2>1, <2>2, <2>3, <2>4 DEF Then, Media
  <1>3. row'.templates = IF list = <<>> THEN <<>> ELSE MergeMedia(base, list)
    <2>1. row' = Updated(row, payload[c], c)
      BY CommitHistory
    <2>2. QED
      BY <2>1 DEF Updated
  <1> HIDE DEF n, list, base, media, later
  <1>4. CASE list = <<>>
    <2>1. Objects(later, k) = {}
      BY <1>1, <1>2, <1>4, ClearedNames
    <2>2. OfKind(<<>>, k) = {}
      BY EmptySeq, EntriesOf DEF OfKind
    <2>3. QED
      BY <1>3, <1>4, <2>1, <2>2 DEF later
  <1>5. CASE list # <<>>
    <2>1. CASE /\ \A i \in DOMAIN list : list[i].kind # k
               /\ OfKind(MergeMedia(base, list), k) = OfKind(base, k)
      <3>1. Objects(later, k) = Objects(media, k)
        BY <1>1, <1>2, <1>5, <2>1, OtherNames
      <3>2. QED
        BY <1>1, <1>3, <1>5, <2>1, <3>1 DEF later
    <2>2. CASE \E i \in DOMAIN list :
                  /\ list[i].kind = k
                  /\ \A j \in DOMAIN list : list[j].kind = k => j <= i
                  /\ OfKind(MergeMedia(base, list), k) = {list[i].object}
      <3>1. PICK i \in DOMAIN list :
                  /\ list[i].kind = k
                  /\ \A j \in DOMAIN list : list[j].kind = k => j <= i
                  /\ OfKind(MergeMedia(base, list), k) = {list[i].object}
        BY <2>2
      <3>2. Objects(later, k) = {list[i].object}
        BY <1>1, <1>2, <3>1, NewNames
      <3>3. QED
        BY <1>3, <1>5, <3>1, <3>2 DEF later
    <2>3. QED
      BY <1>1, <2>1, <2>2, MergeOfKind
  <1>6. QED
    BY <1>4, <1>5

LEMMA NextAddsUp ==
    ASSUME AddUpInv, [Next]_vars
    PROVE  AddUpInv'
  <1> USE DEF slotVars, updateVars, uploadVars, runVars
  <1>1. /\ TypeOK /\ TypeOK' /\ KindsOnce /\ Len(saved) > 0
        /\ DOMAIN at = Updates /\ DOMAIN view = Updates /\ DOMAIN payload = Updates \cup Runs
    BY NextKeepsTypes DEF AddUpInv, TypeOK
  <1>2. contended = {} => OneAtATime /\ AuthorsCommitted /\ SettingsAddUp /\ TemplatesAddUp
    BY DEF AddUpInv
  <1>3. ASSUME UNCHANGED <<row, saved, view, contended>>, Busy' \subseteq Busy,
               \A c \in Updates : at[c] = "committed" =>
                   at'[c] = "committed" /\ payload'[c] = payload[c]
        PROVE  AddUpInv'
    <2>1. KindsOnce' /\ Len(saved') > 0
      BY <1>1, <1>3 DEF KindsOnce
    <2>2. contended' = {} => OneAtATime'
      BY <1>2, <1>3 DEF OneAtATime
    <2>3. contended' = {} => AuthorsCommitted' /\ SettingsAddUp' /\ TemplatesAddUp'
      BY <1>1, <1>3, HistoryStays
    <2>4. QED
      BY <1>1, <2>1, <2>2, <2>3 DEF AddUpInv
  <1>4. CASE UNCHANGED <<row, saved, view, contended, at, payload>>
    BY <1>3, <1>4 DEF Busy
  <1>5. ASSUME NEW c \in Updates, ReadRow(c)
        PROVE  AddUpInv'
    <2>1. PICK p \in Payloads : payload' = [payload EXCEPT ![c] = p]
      BY <1>5 DEF ReadRow, Sendable
    <2>2. /\ UNCHANGED <<row, saved>>
          /\ at[c] = "idle" /\ at' = [at EXCEPT ![c] = "read"]
          /\ view' = [view EXCEPT ![c] = row]
          /\ contended' = contended \cup (IF Busy = {} THEN {} ELSE Busy \cup {c})
      BY <1>5 DEF ReadRow
    <2>3. KindsOnce' /\ Len(saved') > 0
      BY <1>1, <2>2 DEF KindsOnce
    <2>4. ASSUME contended' = {}
          PROVE  OneAtATime' /\ AuthorsCommitted' /\ SettingsAddUp' /\ TemplatesAddUp'
      <3>1. contended = {} /\ Busy = {}
        BY <2>2, <2>4
      <3>2. \A d \in Busy' : d = c
        BY <1>1, <2>2, <3>1 DEF Busy
      <3>3. OneAtATime'
        BY <1>1, <2>2, <3>2 DEF OneAtATime, Busy
      <3>4. \A d \in Updates : at[d] = "committed" =>
                at'[d] = "committed" /\ payload'[d] = payload[d]
        BY <1>1, <2>1, <2>2
      <3>5. QED
        BY <1>1, <2>2, <3>1, <3>3, <3>4, HistoryStays
    <2>5. QED
      BY <1>1, <2>3, <2>4 DEF AddUpInv
  <1>6. ASSUME NEW c \in Updates, FlushRow(c) \/ DeleteBindings(c) \/ UpdateFault(c)
        PROVE  AddUpInv'
    <2>1. /\ UNCHANGED <<row, saved, view, contended, payload>>
          /\ c \in Busy
          /\ \/ at' = [at EXCEPT ![c] = "flushed"]
             \/ at' = [at EXCEPT ![c] = "deleted"]
             \/ at' = [at EXCEPT ![c] = "failed"]
      BY <1>6 DEF FlushRow, DeleteBindings, UpdateFault, Busy
    <2>2. Busy' \subseteq Busy
      BY <1>1, <2>1 DEF Busy
    <2>3. \A d \in Updates : at[d] = "committed" => at'[d] = "committed"
      BY <1>1, <2>1 DEF Busy
    <2>4. QED
      BY <1>3, <2>1, <2>2, <2>3
  <1>7. ASSUME NEW c \in Updates, Commit(c)
        PROVE  AddUpInv'
    <2>1. /\ row' = Updated(view[c], payload[c], c)
          /\ UNCHANGED <<view, contended, payload>>
          /\ at[c] = "deleted" /\ at' = [at EXCEPT ![c] = "committed"]
      BY <1>7 DEF Commit
    <2>2. /\ view[c].templates \in Seq(Entry) /\ payload[c].media \in Seq(Entry)
          /\ OnePerKind(view[c].templates)
      BY <1>1 DEF TypeOK, Row, Payload, KindsOnce
    <2>3. OnePerKind(MergeMedia(view[c].templates, payload[c].media))
      BY <2>2, MergeFacts
    <2>4. OnePerKind(<<>>)
      BY EmptySeq, EntriesOf DEF OnePerKind
    <2>5. KindsOnce'
      BY <1>1, <2>1, <2>3, <2>4 DEF KindsOnce, Updated
    <2>6. Len(saved') > 0
      BY <1>1, <1>7, CommitSaves
    <2>7. ASSUME contended' = {}
          PROVE  OneAtATime' /\ AuthorsCommitted' /\ SettingsAddUp' /\ TemplatesAddUp'
      <3>1. contended = {}
        BY <2>1, <2>7
      <3>2. Busy' \subseteq Busy \ {c} /\ c \in Busy
        BY <1>1, <2>1 DEF Busy
      <3>3. Busy' = {}
        BY <1>2, <3>1, <3>2 DEF OneAtATime
      <3>4. OneAtATime'
        BY <3>3 DEF OneAtATime
      <3>5. QED
        BY <1>7, <3>1, <3>4, CommitAuthors, CommitSettings, CommitTemplates
    <2>8. QED
      BY <1>1, <2>5, <2>6, <2>7 DEF AddUpInv
  <1>8. ASSUME NEW t \in Runs, Prepare(t)
        PROVE  AddUpInv'
    <2>1. PICK p \in Payloads : payload' = [payload EXCEPT ![t] = p]
      BY <1>8 DEF Prepare, Sendable
    <2>2. \A c \in Updates : payload'[c] = payload[c]
      BY <1>1, <2>1, SlotAssumption
    <2>3. UNCHANGED <<row, saved, view, contended, at>>
      BY <1>8 DEF Prepare
    <2>4. QED
      BY <1>3, <2>2, <2>3 DEF Busy
  <1>9. ASSUME NEW t \in Runs, Reread(t) \/ CallDriver(t)
        PROVE  AddUpInv'
    BY <1>4, <1>9 DEF Reread, CallDriver
  <1>10. ASSUME NEW u \in Uploads,
                WriteFile(u) \/ RecordPseudoJob(u) \/ RegisterTemplate(u) \/ UploadFault(u)
         PROVE  AddUpInv'
    BY <1>4, <1>10 DEF WriteFile, RecordPseudoJob, RegisterTemplate, UploadFault
  <1>11. CASE UNCHANGED vars
    BY <1>4, <1>11 DEF vars
  <1>12. QED
    BY <1>5, <1>6, <1>7, <1>8, <1>9, <1>10, <1>11 DEF Next

LEMMA InitAddsUp ==
    ASSUME Init, TypeOK
    PROVE  AddUpInv
  <1>1. Len(saved) = 1
    BY InitHistory
  <1>2. /\ row = SeedRow /\ Busy = {} /\ view = [c \in Updates |-> SeedRow]
    BY DEF Init, Busy
  <1>3. \A i : i \notin DOMAIN <<>>
    BY EmptySeq
  <1>4. OnePerKind(<<>>) /\ \A k : OfKind(<<>>, k) = {}
    BY <1>3 DEF OnePerKind, OfKind
  <1>5. KindsOnce
    BY <1>2, <1>4 DEF KindsOnce, SeedRow
  <1>6. OneAtATime
    BY <1>2 DEF OneAtATime
  <1>7. AuthorsCommitted
    BY <1>1, <1>2 DEF AuthorsCommitted, SeedRow
  <1>8. DOMAIN Authors = {}
    BY <1>1, <1>7, AuthorsAre
  <1>9. SettingsAddUp
    BY <1>2, <1>8 DEF SettingsAddUp, SeedRow
  <1>10. DOMAIN Media = {}
    BY <1>8 DEF Media
  <1>11. TemplatesAddUp
    BY <1>2, <1>4, <1>10 DEF TemplatesAddUp, SeedRow, Objects, LastAt
  <1>12. QED
    BY <1>1, <1>5, <1>6, <1>7, <1>9, <1>11 DEF AddUpInv

(* The invariant says what the property says: the objects of a kind are    *)
(* those of the entries of that kind.                                      *)
LEMMA AddUpImplies ==
    ASSUME AddUpInv
    PROVE  UpdatesAddUp
  <1>1. \A i, j \in DOMAIN row.templates :
           row.templates[i].kind = row.templates[j].kind => i = j
    BY DEF AddUpInv, KindsOnce, OnePerKind
  <1>2. ASSUME contended = {}
        PROVE  /\ row.version = Len(saved)
               /\ SettingsAddUp
               /\ \A k : {entry.object : entry \in {e \in ToSet(row.templates) : e.kind = k}}
                            = LastNamed(k)
    <2>1. TypeOK /\ AuthorsCommitted /\ SettingsAddUp /\ TemplatesAddUp /\ Len(saved) > 0
      BY <1>2 DEF AddUpInv
    <2>2. Len(saved) - 1 \in Nat
      BY <2>1, SavedLength
    <2>3. \A k : LastNamed(k) = Objects(Media, k)
      BY <2>1, <2>2, MediaSent, LastNamedIs
    <2>4. ASSUME NEW k
          PROVE  {entry.object : entry \in {e \in ToSet(row.templates) : e.kind = k}}
                    = OfKind(row.templates, k)
      BY DEF ToSet, OfKind
    <2>5. QED
      BY <2>1, <2>3, <2>4 DEF AuthorsCommitted, TemplatesAddUp
  <1>3. QED
    BY <1>1, <1>2 DEF UpdatesAddUp, SettingsAddUp

(* No kind is bound twice, and updates that do not overlap add up: no      *)
(* setting, no template and no version of theirs is lost.                  *)
THEOREM NothingIsLost == Spec => []UpdatesAddUp
  <1>1. Init /\ TypeOK => AddUpInv
    BY InitAddsUp
  <1>2. AddUpInv /\ [Next]_vars => AddUpInv'
    BY NextAddsUp
  <1>3. AddUpInv => UpdatesAddUp
    BY AddUpImplies
  <1>4. QED
    BY <1>1, <1>2, <1>3, TypeCorrect, PTL DEF Spec
-----------------------------------------------------------------------------
(* A sequence of complete saves.  What is proved above says of one state   *)
(* that bindings, templates, kinds and jobs are right.  Two more facts are *)
(* needed to see a save in a commit: what an update has read is some save, *)
(* and an update whose save is there has ended.                            *)
ViewsAreSaved == \A c \in Updates : \E i \in DOMAIN saved : view[c] = saved[i]

AuthorsAreDone ==
    \A i \in DOMAIN saved :
        saved[i].author = None \/ \E c \in Updates : saved[i].author = c /\ at[c] = "committed"

SavesInv ==
    /\ BindingInv
    /\ ResolveInv
    /\ JobInv
    /\ AddUpInv
    /\ ViewsAreSaved
    /\ AuthorsAreDone

(* A merge keeps each kind that was there in its place. *)
InPlace(old, new) == \A i \in DOMAIN old : i \in DOMAIN new /\ new[i].kind = old[i].kind

LEMMA PlaceInPlace ==
    ASSUME NEW list \in Seq(Entry), NEW e \in Entry
    PROVE  InPlace(list, Place(list, e))
  <1> DEFINE new == Place(list, e)
  <1>1. PICK p \in DOMAIN new :
            /\ new[p] = e
            /\ \A i \in DOMAIN new : i # p => i \in DOMAIN list /\ new[i] = list[i]
            /\ DOMAIN list \subseteq DOMAIN new
            /\ p \in DOMAIN list => list[p].kind = e.kind
            /\ p \notin DOMAIN list => \A i \in DOMAIN list : list[i].kind # e.kind
    BY PlaceFacts
  <1> HIDE DEF new
  <1>2. InPlace(list, new)
    BY <1>1 DEF InPlace
  <1>3. QED
    BY <1>2 DEF new

LEMMA MergeInPlace ==
    ASSUME NEW base \in Seq(Entry), NEW overrides \in Seq(Entry)
    PROVE  InPlace(base, MergeMedia(base, overrides))
  <1> DEFINE n == Len(overrides)
             merged == Merges(base, overrides)
             P == {i \in 0..n : merged[i] \in Seq(Entry) /\ InPlace(base, merged[i])}
  <1>1. n \in Nat /\ DOMAIN overrides = 1..n /\ \A i \in 1..n : overrides[i] \in Entry
    BY LenProperties, ElementOfSeq
  <1>2. /\ merged[0] = base
        /\ \A i \in 1..n : merged[i] = Place(merged[i - 1], overrides[i])
    BY <1>1, MergeSteps
  <1>3. n \in 0..n /\ MergeMedia(base, overrides) = merged[n]
    BY <1>1 DEF MergeMedia
  <1> HIDE DEF n, merged
  <1>4. 0 \in P
    BY <1>1, <1>2 DEF InPlace
  <1>5. ASSUME NEW i \in 1..n, i - 1 \in P PROVE i \in P
    <2>1. /\ merged[i - 1] \in Seq(Entry) /\ InPlace(base, merged[i - 1])
          /\ overrides[i] \in Entry
      BY <1>1, <1>5
    <2>2. merged[i] \in Seq(Entry) /\ InPlace(merged[i - 1], merged[i])
      BY <1>2, <2>1, PlaceIsList, PlaceInPlace
    <2>3. InPlace(base, merged[i])
      BY <2>1, <2>2 DEF InPlace
    <2>4. QED
      BY <1>1, <2>2, <2>3
  <1> HIDE DEF P
  <1>6. \A i \in 0..n : i \in P
    BY <1>1, <1>4, <1>5, PositionsByStep
  <1>7. QED
    BY <1>3, <1>6 DEF P

LEMMA NextKeepsSaves ==
    ASSUME SavesInv, [Next]_vars
    PROVE  SavesInv'
  <1> USE DEF slotVars, updateVars, uploadVars, runVars
  <1>1. BindingInv' /\ ResolveInv' /\ JobInv' /\ AddUpInv'
    BY NextBinding, NextKeepsResolving, NextKeepsJobs, NextAddsUp DEF SavesInv
  <1>2. /\ TypeOK /\ RowIsLastSaved /\ ViewsAreSaved /\ AuthorsAreDone
        /\ DOMAIN at = Updates /\ DOMAIN view = Updates
    BY DEF SavesInv, JobInv, TypeOK
  <1>3. Len(saved) \in DOMAIN saved
    BY <1>2, SavedLength DEF RowIsLastSaved
  <1>4. ASSUME UNCHANGED <<saved, view>>,
               \A c \in Updates : at[c] = "committed" => at'[c] = "committed"
        PROVE  ViewsAreSaved' /\ AuthorsAreDone'
    BY <1>2, <1>4 DEF ViewsAreSaved, AuthorsAreDone
  <1>5. ASSUME NEW c \in Updates, ReadRow(c)
        PROVE  ViewsAreSaved' /\ AuthorsAreDone'
    <2>1. /\ saved' = saved /\ at[c] = "idle"
          /\ view' = [view EXCEPT ![c] = row] /\ at' = [at EXCEPT ![c] = "read"]
      BY <1>5 DEF ReadRow
    <2>2. ViewsAreSaved'
      BY <1>2, <1>3, <2>1 DEF ViewsAreSaved, RowIsLastSaved
    <2>3. AuthorsAreDone'
      BY <1>2, <2>1 DEF AuthorsAreDone
    <2>4. QED
      BY <2>2, <2>3
  <1>6. ASSUME NEW c \in Updates, FlushRow(c) \/ DeleteBindings(c) \/ UpdateFault(c)
        PROVE  ViewsAreSaved' /\ AuthorsAreDone'
    <2>1. /\ UNCHANGED <<saved, view>> /\ at[c] # "committed"
          /\ \A d \in Updates \ {c} : at'[d] = at[d]
      BY <1>2, <1>6 DEF FlushRow, DeleteBindings, UpdateFault, Busy
    <2>2. QED
      BY <1>4, <2>1
  <1>7. ASSUME NEW c \in Updates, Commit(c)
        PROVE  ViewsAreSaved' /\ AuthorsAreDone'
    <2>1. /\ \A i \in DOMAIN saved : i \in DOMAIN saved' /\ saved'[i] = saved[i]
          /\ \A i \in DOMAIN saved' : i \in DOMAIN saved \/ saved'[i] = row'
      <3>1. /\ DOMAIN saved = 1..Len(saved) /\ DOMAIN saved' = 1..(Len(saved) + 1)
            /\ \A i \in 1..Len(saved) : saved'[i] = saved[i]
            /\ saved'[Len(saved) + 1] = row'
            /\ Len(saved) \in Nat
        BY <1>2, <1>7, CommitSaves
      <3>2. \A i \in 1..(Len(saved) + 1) : i \in 1..Len(saved) \/ i = Len(saved) + 1
        BY <3>1
      <3>3. \A i \in 1..Len(saved) : i \in 1..(Len(saved) + 1)
        BY <3>1
      <3>4. QED
        BY <3>1, <3>2, <3>3
    <2>2. view' = view /\ row'.author = c
      BY <1>7 DEF Commit, Updated
    <2>3. at'[c] = "committed" /\ \A d \in Updates \ {c} : at'[d] = at[d]
      BY <1>2, <1>7 DEF Commit
    <2>4. ViewsAreSaved'
      BY <1>2, <2>1, <2>2 DEF ViewsAreSaved
    <2>5. ASSUME NEW i \in DOMAIN saved'
          PROVE  \/ saved'[i].author = None
                 \/ \E d \in Updates : saved'[i].author = d /\ at'[d] = "committed"
      <3>1. CASE i \in DOMAIN saved
        BY <1>2, <2>1, <2>3, <3>1 DEF AuthorsAreDone
      <3>2. CASE i \notin DOMAIN saved
        BY <2>1, <2>2, <2>3, <3>2
      <3>3. QED
        BY <3>1, <3>2
    <2>6. QED
      BY <2>4, <2>5 DEF AuthorsAreDone
  <1>8. ASSUME NEW t \in Runs, Prepare(t) \/ Reread(t) \/ CallDriver(t)
        PROVE  ViewsAreSaved' /\ AuthorsAreDone'
    BY <1>4, <1>8 DEF Prepare, Reread, CallDriver
  <1>9. ASSUME NEW u \in Uploads,
               WriteFile(u) \/ RecordPseudoJob(u) \/ RegisterTemplate(u) \/ UploadFault(u)
        PROVE  ViewsAreSaved' /\ AuthorsAreDone'
    BY <1>4, <1>9 DEF WriteFile, RecordPseudoJob, RegisterTemplate, UploadFault
  <1>10. ASSUME UNCHANGED vars PROVE ViewsAreSaved' /\ AuthorsAreDone'
    BY <1>4, <1>10 DEF vars
  <1>11. ViewsAreSaved' /\ AuthorsAreDone'
    BY <1>5, <1>6, <1>7, <1>8, <1>9, <1>10 DEF Next
  <1>12. QED
    BY <1>1, <1>11 DEF SavesInv

(* A commit is a save: the row it writes is made from one that was saved,  *)
(* its bindings come with it, and its author had none before.              *)
LEMMA CommitIsSave ==
    ASSUME SavesInv, SavesInv', NEW c \in Updates, Commit(c)
    PROVE  Saves!Save(c)
  <1>1. /\ TypeOK /\ RowIsLastSaved /\ RowIsLastSaved' /\ ViewsAreSaved /\ AuthorsAreDone
        /\ OnePerKind(row'.templates) /\ Within(row'.templates, mediaRows')
        /\ binds' = Rows(row)'
    BY DEF SavesInv, JobInv, AddUpInv, KindsOnce, ResolveInv, KnownTemplates,
           BindingInv, BindingsMatchSettings
  <1>2. /\ row' = Updated(view[c], payload[c], c)
        /\ at[c] = "deleted"
        /\ saved' = Append(saved, row')
        /\ UNCHANGED <<mediaRows, run, provider, config>>
    BY <1>1 DEF Commit, uploadVars, runVars
  <1>3. row' = saved'[Len(saved')]
    BY <1>1 DEF RowIsLastSaved
  <1>4. row'.author = c
    BY <1>2 DEF Updated
  <1>5. \A i \in DOMAIN saved : saved[i].author # c
    BY <1>1, <1>2, SlotAssumption DEF AuthorsAreDone
  <1>6. PICK i \in DOMAIN saved : view[c] = saved[i]
    BY <1>1 DEF ViewsAreSaved
  <1>7. Saves!MadeFrom(row', saved[i])
    <2> DEFINE old == saved[i]
               list == row'.templates
    <2>1. /\ old.templates \in Seq(Entry) /\ payload[c].media \in Seq(Entry)
          /\ row' = Updated(old, payload[c], c)
      BY <1>1, <1>2, <1>6 DEF TypeOK, Row, Payload
    <2>2. row'.version = old.version + 1
      BY <2>1 DEF Updated
    <2>3. \A n \in Names : row'.settings[n] \in {row'.author, old.settings[n]}
      BY <2>1 DEF Updated, MergeSettings
    <2>4. \A k \in DOMAIN list : list[k].object \in mediaRows
      BY <1>1, <1>2 DEF Within
    <2>5. \A j, k \in DOMAIN list : list[j].kind = list[k].kind => j = k
      BY <1>1 DEF OnePerKind
    <2>6. \/ list = <<>>
          \/ \A k \in DOMAIN old.templates :
                k \in DOMAIN list /\ list[k].kind = old.templates[k].kind
      <3>1. InPlace(old.templates, MergeMedia(old.templates, payload[c].media))
        BY <2>1, MergeInPlace
      <3>2. list = <<>> \/ list = MergeMedia(old.templates, payload[c].media)
        BY <2>1 DEF Updated
      <3>3. QED
        BY <3>1, <3>2 DEF InPlace
    <2>7. QED
      BY <2>2, <2>3, <2>4, <2>5, <2>6 DEF Saves!MadeFrom
  <1>8. binds' = Saves!Bound(row')
    BY <1>1 DEF Rows, Saves!Bound
  <1>9. QED
    BY <1>2, <1>3, <1>4, <1>5, <1>6, <1>7, <1>8 DEF Saves!Save, Saves!Last

LEMMA StepIsSaved ==
    ASSUME SavesInv, SavesInv', [Next]_vars
    PROVE  [Saves!Next]_(Saves!vars)
  <1> USE DEF slotVars, updateVars, uploadVars, runVars
  <1>1. /\ TypeOK /\ RowIsLastSaved /\ JobsFollowSaves /\ NoRunRefused'
        /\ DOMAIN run = Runs
    BY DEF SavesInv, JobInv, ResolveInv, TypeOK
  <1>2. ASSUME UNCHANGED <<saved, binds, mediaRows, run, provider, config>>
        PROVE  UNCHANGED Saves!vars
    BY <1>2 DEF Saves!vars
  <1>3. ASSUME NEW u \in Uploads, RegisterTemplate(u)
        PROVE  Saves!Register(u)
    BY <1>3 DEF RegisterTemplate, Saves!Register
  <1>4. ASSUME NEW u \in Uploads, WriteFile(u) \/ RecordPseudoJob(u) \/ UploadFault(u)
        PROVE  UNCHANGED Saves!vars
    BY <1>2, <1>4 DEF WriteFile, RecordPseudoJob, UploadFault
  <1>5. ASSUME NEW c \in Updates,
               ReadRow(c) \/ FlushRow(c) \/ DeleteBindings(c) \/ UpdateFault(c)
        PROVE  UNCHANGED Saves!vars
    BY <1>2, <1>5 DEF ReadRow, FlushRow, DeleteBindings, UpdateFault
  <1>6. ASSUME NEW c \in Updates, Commit(c)
        PROVE  Saves!Save(c)
    BY <1>6, CommitIsSave
  <1>7. ASSUME NEW t \in Runs, Prepare(t)
        PROVE  UNCHANGED Saves!vars
    <2>1. /\ run[t] = "idle" /\ run' = [run EXCEPT ![t] = "prepared"]
          /\ UNCHANGED <<saved, binds, mediaRows>>
          /\ \A x \in Runs \ {t} : provider'[x] = provider[x] /\ config'[x] = config[x]
      BY <1>1, <1>7 DEF Prepare, TypeOK
    <2>2. QED
      BY <1>1, <2>1 DEF Saves!vars
  <1>8. ASSUME NEW t \in Runs, Reread(t)
        PROVE  Saves!Take(t)
    <2>1. /\ run[t] = "prepared" /\ run' = [run EXCEPT ![t] = "ready"]
          /\ UNCHANGED <<saved, binds, mediaRows, provider>>
          /\ config' = [config EXCEPT ![t] = [settings |-> row.settings,
                                              templates |-> row.templates]]
      BY <1>8 DEF Reread
    <2>2. PICK i \in DOMAIN saved : saved[i].author = provider[t]
      BY <1>1, <2>1 DEF JobsFollowSaves
    <2>3. row = Saves!Last
      BY <1>1 DEF RowIsLastSaved, Saves!Last
    <2>4. DOMAIN config = Runs
      BY <1>1 DEF TypeOK
    <2>5. QED
      BY <1>1, <2>1, <2>2, <2>3, <2>4 DEF Saves!Take
  <1>9. ASSUME NEW t \in Runs, CallDriver(t)
        PROVE  Saves!Finish(t)
    <2>1. /\ run[t] = "ready"
          /\ UNCHANGED <<saved, binds, mediaRows, provider, config>>
          /\ \/ run' = [run EXCEPT ![t] = "ok"]
             \/ run' = [run EXCEPT ![t] = "provider_error"]
      BY <1>9 DEF CallDriver
    <2>2. run' = [run EXCEPT ![t] = "ok"]
      BY <1>1, <2>1 DEF NoRunRefused
    <2>3. QED
      BY <1>1, <2>1, <2>2 DEF Saves!Finish
  <1>10. CASE UNCHANGED vars
    BY <1>2, <1>10 DEF vars
  <1>11. QED
    BY <1>3, <1>4, <1>5, <1>6, <1>7, <1>8, <1>9, <1>10 DEF Next, Saves!Next

(* The slot implements a sequence of complete saves: whatever overlaps and *)
(* whatever fails, each save is one update worked into one earlier save,   *)
(* with its bindings, and each job works with one save and is not refused. *)
THEOREM SavesRefined == Spec => ImplementsSaves
  <1>1. Init => Saves!Init
    <2> SUFFICES ASSUME Init PROVE Saves!Init
      OBVIOUS
    <2>1. SeedRow = Saves!Seed
      BY DEF SeedRow, Saves!Seed
    <2>2. QED
      BY <2>1 DEF Init, Saves!Init
  <1>2. Init /\ TypeOK => SavesInv
    <2> SUFFICES ASSUME Init, TypeOK PROVE SavesInv
      OBVIOUS
    <2>1. ViewsAreSaved /\ AuthorsAreDone
      <3>1. saved = <<SeedRow>> /\ view = [c \in Updates |-> SeedRow]
        BY DEF Init
      <3>2. SeedRow.author = None
        BY DEF SeedRow
      <3> HIDE DEF SeedRow
      <3>3. DOMAIN saved = {1} /\ saved[1] = SeedRow
        BY <3>1
      <3>4. QED
        BY <3>1, <3>2, <3>3 DEF ViewsAreSaved, AuthorsAreDone
    <2>2. BindingInv /\ JobInv /\ AddUpInv /\ ResolveInv
      BY InitBinding, InitAddsUp, InitHistory, InitResolves DEF JobInv, JobsFollowSaves, Init
    <2>3. QED
      BY <2>1, <2>2 DEF SavesInv
  <1>3. SavesInv /\ [Next]_vars => SavesInv'
    BY NextKeepsSaves
  <1>4. SavesInv /\ SavesInv' /\ [Next]_vars => [Saves!Next]_(Saves!vars)
    BY StepIsSaved
  <1>5. QED
    BY <1>1, <1>2, <1>3, <1>4, TypeCorrect, PTL DEF Spec, ImplementsSaves, Saves!Spec
=============================================================================
