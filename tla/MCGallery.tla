----------------------------- MODULE MCGallery -----------------------------
(***************************************************************************)
(* Small instances of the two halves of the public gallery.  They share no *)
(* state (a request that passes GalleryAccess is one Gallery may begin at  *)
(* any time), so a behaviour explores one half and leaves the other alone. *)
(*   - access: four requests of one client, two threads at most;           *)
(*   - page: three requests, two jobs of one slot.                         *)
(***************************************************************************)
EXTENDS GalleryAccess, Gallery, TLC

CONSTANTS r1, r2, r3, r4, guest, j1, j2, s1

VARIABLE part

FourRequests == {r1, r2, r3, r4}
OneClient == {guest}
AllOfGuest == [r \in FourRequests |-> guest]
Times == {0, 3}

ThreeVisits == {r1, r2, r3}
TwoJobs == {j1, j2}
OneSlot == <<s1>>
AllOfSlot == [j \in TwoJobs |-> s1]
Interchangeable == Permutations(ThreeVisits) \cup Permutations(TwoJobs)

MCInit ==
    /\ part \in {"access", "page"}
    /\ Init
    /\ PageInit
    /\ part = "page" => threads = 1

MCNext ==
    \/ part = "access" /\ Next /\ UNCHANGED <<part, pageVars>>
    \/ part = "page" /\ PageNext /\ UNCHANGED <<part, vars>>

MCSpec == MCInit /\ [][MCNext]_<<part, vars, pageVars>>
=============================================================================
