--------------------------- MODULE ProviderProofs ---------------------------
(***************************************************************************)
(* Machine-checked theorems about ProviderCall, for every limit, retry     *)
(* policy, pause and number of polls.                                      *)
(***************************************************************************)
EXTENDS ProviderCall, TLAPS

(* Which loop a call is in, and how far: the facts its budget rests on.    *)
PlaceInv ==
    /\ at = "prepared" =>
          /\ clock <= MaxUpload
          /\ posts = 0 /\ attempt = 1 /\ noImage = 0 /\ polls = 0
    /\ at \in {"request", "backoff", "no_image_pause"} => driver # "turbotext"
    /\ at \in {"queue", "poll_pause", "poll", "download"} => driver = "turbotext"
    /\ attempt <= tries
    /\ driver = "gpt-image-1.5" => noImage = 0
    /\ at # "over" => outcome = "none"

(* Why requests are bounded: every round of the outer loop has sent at     *)
(* most `tries' requests, and this one as many as it has made attempts;    *)
(* Turbotext's driver has sent one request to create the queue and one for *)
(* each poll.                                                              *)
SpentInv ==
    /\ at = "request" => noImage < NoImageMax /\ posts <= noImage * tries + attempt
    /\ at = "backoff" => noImage < NoImageMax /\ posts < noImage * tries + attempt
    /\ at = "no_image_pause" =>
          noImage < NoImageMax /\ attempt = 1 /\ posts <= noImage * tries
    /\ at = "queue" => posts = 1 /\ polls = 0
    /\ at = "poll_pause" => posts = polls
    /\ at = "poll" => posts = polls + 1
    /\ at = "download" => posts = polls + 2

Inv == TypeOK /\ PlaceInv /\ SpentInv /\ RequestsBounded /\ TimeoutIsJustified

-----------------------------------------------------------------------------
(* Rounds of at most t requests, i of them over and a requests into the    *)
(* next, fit into n rounds of at most m.                                   *)
LEMMA Rounds ==
    ASSUME NEW i \in Nat, NEW n \in Nat, NEW t \in Nat, NEW m \in Nat, NEW a \in Nat,
           i < n, a <= t, t <= m
    PROVE  i * t \in Nat /\ i * t + a <= (i + 1) * t /\ (i + 1) * t <= n * m
  <1>1. i * t \in Nat /\ (i + 1) * t = i * t + t
    OBVIOUS
  <1>2. PICK k \in Nat : n = i + 1 + k
    <2>1. n - (i + 1) \in Nat /\ n = i + 1 + (n - (i + 1))
      OBVIOUS
    <2>2. QED
      BY <2>1
  <1>3. PICK d \in Nat : m = t + d
    <2>1. m - t \in Nat /\ m = t + (m - t)
      OBVIOUS
    <2>2. QED
      BY <2>1
  <1>4. n * m = (i + 1) * t + k * t + n * d
    BY <1>2, <1>3
  <1>5. k * t \in Nat /\ n * d \in Nat /\ (i + 1) * t \in Nat
    OBVIOUS
  <1>6. QED
    BY <1>1, <1>4, <1>5

(* A call that is not over has not spent more than it may. *)
LEMMA WithinBudget ==
    TypeOK /\ PlaceInv /\ SpentInv /\ at # "over" => RequestsBounded
  <1> SUFFICES ASSUME TypeOK, PlaceInv, SpentInv, at # "over" PROVE RequestsBounded
    OBVIOUS
  <1> USE CallAssumption
  <1>1. NoImageMax * MaxTries \in Nat /\ MaxTries \in Nat /\ PollMax \in Nat
    OBVIOUS
  <1>2. CASE at = "prepared"
    BY <1>1, <1>2 DEF PlaceInv, RequestsBounded, TypeOK, Drivers, GeminiDrivers
  <1>3. CASE at \in {"request", "backoff", "no_image_pause"}
    <2>1. /\ noImage \in Nat /\ tries \in Nat /\ attempt \in Nat /\ NoImageMax \in Nat
          /\ noImage < NoImageMax /\ attempt <= tries /\ tries <= MaxTries
          /\ posts <= noImage * tries + attempt /\ posts \in Nat
      BY <1>3 DEF PlaceInv, SpentInv, TypeOK
    <2>2. /\ noImage * tries + attempt <= (noImage + 1) * tries
          /\ (noImage + 1) * tries <= NoImageMax * MaxTries
          /\ noImage * tries \in Nat
      BY <1>1, <2>1, Rounds
    <2>3. posts <= NoImageMax * MaxTries
      BY <1>1, <2>1, <2>2
    <2>4. driver = "gpt-image-1.5" => posts <= MaxTries
      BY <1>1, <2>1 DEF PlaceInv
    <2>5. driver # "turbotext"
      BY <1>3 DEF PlaceInv
    <2>6. QED
      BY <2>3, <2>4, <2>5 DEF RequestsBounded, TypeOK, Drivers, GeminiDrivers
  <1>4. CASE at \in {"queue", "poll_pause", "poll", "download"}
    <2>1. driver = "turbotext" /\ polls \in Nat /\ polls <= PollMax /\ posts <= polls + 2
      BY <1>4 DEF PlaceInv, SpentInv, TypeOK
    <2>2. posts <= PollMax + 2
      BY <1>1, <2>1 DEF TypeOK
    <2>3. QED
      BY <2>1, <2>2 DEF RequestsBounded, GeminiDrivers
  <1>5. QED
    BY <1>2, <1>3, <1>4 DEF TypeOK, Calling, Pauses, Exchanges

LEMMA WithinBudgetNext ==
    (TypeOK /\ PlaceInv /\ SpentInv /\ at # "over")' => RequestsBounded'
  BY WithinBudget, PTL

LEMMA InitInv == Init => Inv
  <1> SUFFICES ASSUME Init PROVE Inv
    OBVIOUS
  <1> USE CallAssumption
  <1>1. tries \in 1..MaxTries
    <2>1. PICK n \in Requested : tries = Clamp(n)
      BY DEF Init
    <2>2. n \in Nat
      BY <2>1
    <2>3. QED
      BY <2>1, <2>2 DEF Clamp
  <1>2. TypeOK
    <2>1. /\ 0 \in 0..MaxClock /\ 0 \in 0..MaxChanges /\ 0 \in 0..NoImageMax
          /\ 0 \in 0..PollMax /\ 1 \in 1..MaxTries
      OBVIOUS
    <2>2. QED
      BY <1>1, <2>1 DEF Init, TypeOK
  <1>3. PlaceInv /\ SpentInv
    BY <1>1 DEF Init, PlaceInv, SpentInv
  <1>4. RequestsBounded
    BY <1>2, <1>3, WithinBudget DEF Init
  <1>5. TimeoutIsJustified
    BY DEF Init, TimeoutIsJustified
  <1>6. QED
    BY <1>2, <1>3, <1>4, <1>5 DEF Inv

(* A step that ends the call sends nothing; a step that does not keeps the *)
(* budget.                                                                 *)
LEMMA NextInv == Inv /\ [Next]_vars => Inv'
  <1> SUFFICES ASSUME Inv, [Next]_vars PROVE Inv'
    OBVIOUS
  <1> USE CallAssumption DEF Inv, jobVars, settingVars, loopVars
  <1>1. CASE Tick
    <2>1. TypeOK' /\ PlaceInv' /\ SpentInv'
      BY <1>1 DEF Tick, TypeOK, PlaceInv, SpentInv
    <2>2. QED
      BY <1>1, <2>1 DEF Tick, RequestsBounded, TimeoutIsJustified, PlaceInv
  <1>2. CASE ChangeLimit
    <2>1. TypeOK' /\ PlaceInv' /\ SpentInv'
      BY <1>2 DEF ChangeLimit, TypeOK, PlaceInv, SpentInv
    <2>2. QED
      BY <1>2, <2>1 DEF ChangeLimit, RequestsBounded, TimeoutIsJustified
  <1>3. CASE Begin
    <2>1. clock + limit \in 0..MaxClock
      BY <1>3 DEF Begin, TypeOK, PlaceInv
    <2>2. /\ at' \in {"over", "queue", "request"}
          /\ at' = "queue" => driver = "turbotext"
          /\ at' = "request" => driver # "turbotext"
          /\ at' = "over" => posts' = posts /\ outcome' = "provider_error"
          /\ at' # "over" => posts' = 1 /\ outcome' = outcome
      BY <1>3 DEF Begin, End
    <2>3. TypeOK'
      BY <1>3, <2>1, <2>2 DEF Begin, TypeOK, Calling, Exchanges
    <2>4. PlaceInv' /\ SpentInv'
      <3>1. noImage * tries \in Nat
        BY DEF TypeOK
      <3>2. QED
        BY <1>3, <2>2, <3>1 DEF Begin, PlaceInv, SpentInv, TypeOK
    <2>5. TimeoutIsJustified'
      BY <2>2, <1>3 DEF Begin, PlaceInv, TimeoutIsJustified
    <2>6. RequestsBounded'
      BY <1>3, <2>2, <2>3, <2>4, WithinBudgetNext DEF Begin, RequestsBounded
    <2>7. QED
      BY <2>3, <2>4, <2>5, <2>6
  <1>4. CASE Wake
    <2>1. TypeOK'
      BY <1>4 DEF Wake, TypeOK, Calling, Exchanges
    <2>2. PlaceInv' /\ SpentInv'
      <3>1. noImage * tries \in Nat
        BY DEF TypeOK
      <3>2. QED
        BY <1>4, <3>1 DEF Wake, Pauses, PlaceInv, SpentInv, TypeOK
    <2>3. at' # "over"
      BY <1>4 DEF Wake
    <2>4. TimeoutIsJustified'
      BY <1>4, <2>2, <2>3 DEF PlaceInv, TimeoutIsJustified
    <2>5. QED
      BY <2>1, <2>2, <2>3, <2>4, WithinBudgetNext
  <1>5. CASE TimeOut
    <2>1. TypeOK' /\ PlaceInv' /\ SpentInv'
      BY <1>5 DEF TimeOut, End, TypeOK, PlaceInv, SpentInv
    <2>2. QED
      BY <1>5, <2>1 DEF TimeOut, End, RequestsBounded, TimeoutIsJustified
  <1>6. CASE RetryLater
    <2>1. handed' \in BOOLEAN
      BY <1>6 DEF RetryLater, HandsOver
    <2>2. TypeOK'
      BY <1>6, <2>1 DEF RetryLater, TypeOK, Calling, Pauses
    <2>3. PlaceInv' /\ SpentInv'
      <3>1. noImage * tries \in Nat
        BY DEF TypeOK
      <3>2. QED
        BY <1>6, <3>1 DEF RetryLater, PlaceInv, SpentInv, TypeOK
    <2>4. at' # "over"
      BY <1>6 DEF RetryLater
    <2>5. TimeoutIsJustified'
      BY <2>3, <2>4 DEF PlaceInv, TimeoutIsJustified
    <2>6. QED
      BY <2>2, <2>3, <2>4, <2>5, WithinBudgetNext
  <1>7. CASE RequestFails \/ ImageArrives
    <2>1. handed' \in BOOLEAN
      BY <1>7 DEF RequestFails, ImageArrives, HandsOver
    <2>2. at' = "over" /\ outcome' \in {"ok", "provider_error"}
      BY <1>7 DEF RequestFails, ImageArrives, End
    <2>3. UNCHANGED <<clock, settingVars, jobVars, loopVars, wake, callDeadline, queue, posts>>
      BY <1>7 DEF RequestFails, ImageArrives
    <2>4. TypeOK' /\ PlaceInv' /\ SpentInv'
      BY <2>1, <2>2, <2>3 DEF TypeOK, PlaceInv, SpentInv
    <2>5. QED
      BY <2>2, <2>3, <2>4 DEF RequestsBounded, TimeoutIsJustified
  <1>8. CASE NoImage
    <2>1. PICK a \in Answers : Reads(a) = "no_image" /\ handed' = HandsOver(a)
      BY <1>8 DEF NoImage
    <2>2. handed' \in BOOLEAN
      BY <2>1 DEF HandsOver
    <2>3. driver \in GeminiDrivers
      BY <2>1 DEF Reads, GptReads
    <2>4. /\ at = "request" /\ noImage < NoImageMax /\ posts <= noImage * tries + attempt
          /\ noImage' = noImage + 1
          /\ UNCHANGED <<clock, settingVars, jobVars, polls, callDeadline, queue, posts>>
      BY <1>8 DEF NoImage, SpentInv
    <2>5. \/ /\ noImage + 1 < NoImageMax
             /\ at' = "no_image_pause" /\ wake' = clock + NoImagePause
             /\ attempt' = 1 /\ outcome' = outcome
          \/ /\ noImage + 1 >= NoImageMax \/ ~TimeForPause
             /\ at' = "over" /\ outcome' = "provider_timeout"
             /\ UNCHANGED <<wake, attempt>>
      BY <1>8 DEF NoImage, End, TypeOK
    <2>6. TypeOK'
      BY <2>2, <2>4, <2>5 DEF TypeOK, Calling, Pauses
    <2>7. posts <= (noImage + 1) * tries
      <3>1. /\ noImage \in Nat /\ tries \in Nat /\ attempt \in Nat /\ NoImageMax \in Nat
            /\ MaxTries \in Nat /\ attempt <= tries /\ tries <= MaxTries /\ posts \in Nat
        BY DEF TypeOK, PlaceInv
      <3>2. /\ noImage * tries \in Nat
            /\ noImage * tries + attempt <= (noImage + 1) * tries
        BY <2>4, <3>1, Rounds
      <3>3. (noImage + 1) * tries \in Nat
        BY <3>1
      <3>4. QED
        BY <2>4, <3>1, <3>2, <3>3
    <2>8. PlaceInv' /\ SpentInv'
      BY <2>3, <2>4, <2>5, <2>7 DEF PlaceInv, SpentInv, GeminiDrivers, TypeOK
    <2>9. RequestsBounded'
      BY <2>4 DEF RequestsBounded
    <2>10. TimeoutIsJustified'
      BY <2>4, <2>5 DEF TimeoutIsJustified, TimeForPause, TypeOK, PlaceInv
    <2>11. QED
      BY <2>6, <2>8, <2>9, <2>10
  <1>9. CASE QueueCreated
    <2>1. TypeOK' /\ PlaceInv' /\ SpentInv'
      BY <1>9 DEF QueueCreated, PollLater, TypeOK, Calling, Pauses, PlaceInv, SpentInv
    <2>2. QED
      BY <1>9, <2>1 DEF QueueCreated, PollLater, RequestsBounded, TimeoutIsJustified, PlaceInv
  <1>10. CASE QueueMoves
    <2>1. TypeOK' /\ PlaceInv' /\ SpentInv'
      BY <1>10 DEF QueueMoves, TypeOK, PlaceInv, SpentInv
    <2>2. QED
      BY <1>10, <2>1 DEF QueueMoves, RequestsBounded, TimeoutIsJustified
  <1>11. CASE PollAnswered
    <2>1. TypeOK'
      BY <1>11 DEF PollAnswered, PollLater, End, TypeOK, Calling, Pauses, Exchanges
    <2>2. PlaceInv' /\ SpentInv'
      BY <1>11 DEF PollAnswered, PollLater, End, PlaceInv, SpentInv, TypeOK
    <2>3. TimeoutIsJustified'
      BY <1>11 DEF PollAnswered, End, PlaceInv, TimeoutIsJustified
    <2>4. at' = "over" => posts' = posts
      BY <1>11 DEF PollAnswered, PollLater, End
    <2>5. RequestsBounded'
      BY <1>11, <2>1, <2>2, <2>4, WithinBudgetNext DEF PollAnswered, RequestsBounded
    <2>6. QED
      BY <2>1, <2>2, <2>3, <2>5
  <1>12. CASE Downloaded \/ ExchangeFails
    <2>1. TypeOK' /\ PlaceInv' /\ SpentInv'
      BY <1>12 DEF Downloaded, ExchangeFails, End, TypeOK, PlaceInv, SpentInv
    <2>2. QED
      BY <1>12, <2>1 DEF Downloaded, ExchangeFails, End, RequestsBounded, TimeoutIsJustified
  <1>13. CASE UNCHANGED vars
    <2>1. TypeOK' /\ PlaceInv' /\ SpentInv'
      BY <1>13 DEF vars, TypeOK, PlaceInv, SpentInv
    <2>2. QED
      BY <1>13, <2>1 DEF vars, RequestsBounded, TimeoutIsJustified
  <1>14. QED
    BY <1>1, <1>2, <1>3, <1>4, <1>5, <1>6, <1>7, <1>8, <1>9, <1>10, <1>11, <1>12, <1>13
       DEF Next

LEMMA Invariant == Spec => []Inv
  BY InitInv, NextInv, PTL DEF Spec

-----------------------------------------------------------------------------
(* Every variable keeps its type: no loop counts beyond its maximum, and   *)
(* every deadline lies within the clock's bound.                           *)
THEOREM TypeCorrect == Spec => []TypeOK
  <1>1. Inv => TypeOK
    BY DEF Inv
  <1>2. QED
    BY <1>1, Invariant, PTL

(* No retry policy, limit or sequence of answers makes a driver send more  *)
(* requests than its loops allow.                                          *)
THEOREM RequestsStayBounded == Spec => []RequestsBounded
  <1>1. Inv => RequestsBounded
    BY DEF Inv
  <1>2. QED
    BY <1>1, Invariant, PTL

(* A job is recorded as timed out only when its time is up, or when Gemini *)
(* has said NO_IMAGE often enough or too late for another pause.           *)
THEOREM TimeoutsAreJustified == Spec => []TimeoutIsJustified
  <1>1. Inv => TimeoutIsJustified
    BY DEF Inv
  <1>2. QED
    BY <1>1, Invariant, PTL

-----------------------------------------------------------------------------
(* Why an image that was handed over is used: the answer that holds it is  *)
(* read as an image; and Turbotext's driver asks once more only while its  *)
(* job was not ready.                                                      *)
AnswerInv ==
    /\ driver # "turbotext" => queue = "none"
    /\ handed => at \in {"poll", "download", "over"}
    /\ handed /\ at = "poll" => queue = "ready"
    /\ ImageIsUsed

(* Only a good answer has a body. *)
LEMMA ErrorsHoldNothing == \A a \in Answers : Transient(a) => ~HandsOver(a)
  <1>1. \A a \in Answers : a.code # 200 => a.body = <<>>
    BY DEF Answers
  <1>2. DOMAIN <<>> = {}
    OBVIOUS
  <1>3. QED
    BY <1>1, <1>2 DEF Transient, HandsOver

(* Text, NO_IMAGE and further images beside an image do not hide it. *)
LEMMA ImageIsRead ==
    driver # "turbotext" /\ TypeOK =>
        \A a \in Answers : HandsOver(a) => Reads(a) = "image"
  <1> SUFFICES ASSUME driver # "turbotext", TypeOK, NEW a \in Answers, HandsOver(a)
               PROVE  Reads(a) = "image"
    OBVIOUS
  <1>1. PICK i \in DOMAIN a.body : a.body[i] = "image"
    BY DEF HandsOver
  <1>2. a.code = 200 /\ a.body \in Bodies
    <2>1. a.code = 200 \/ a.body = <<>>
      BY DEF Answers
    <2>2. DOMAIN <<>> = {}
      OBVIOUS
    <2>3. QED
      BY <1>1, <2>1, <2>2 DEF Answers
  <1>3. DOMAIN a.body \subseteq {1, 2}
    BY <1>2 DEF Bodies
  <1>4. \A k \in DOMAIN a.body : a.body[k] # "broken"
    BY DEF HandsOver
  <1>5. CASE driver \in GeminiDrivers
    <2>1. FirstDecodes(a)
      <3>1. CASE 1 \in DOMAIN a.body /\ a.body[1] = "image"
        BY <1>3, <3>1 DEF FirstDecodes, InlineData
      <3>2. CASE ~(1 \in DOMAIN a.body /\ a.body[1] = "image")
        <4>1. i = 2
          BY <1>1, <1>3, <3>2
        <4>2. InlineData(a) = {2}
          BY <1>1, <1>3, <1>4, <3>2, <4>1 DEF InlineData
        <4>3. QED
          BY <1>1, <4>1, <4>2 DEF FirstDecodes
      <3>3. QED
        BY <3>1, <3>2
    <2>2. QED
      BY <1>2, <1>5, <2>1 DEF Reads, GeminiReads
  <1>6. CASE driver \notin GeminiDrivers
    <2>1. Len(a.body) = 1
      BY <1>6 DEF HandsOver
    <2>2. a.body # <<>> /\ a.body[1] = "image"
      BY <1>1, <1>2, <2>1 DEF Bodies
    <2>3. QED
      BY <1>2, <1>6, <2>2 DEF Reads, GptReads
  <1>7. QED
    BY <1>5, <1>6

LEMMA NextAnswer == Inv /\ AnswerInv /\ [Next]_vars => AnswerInv'
  <1> SUFFICES ASSUME Inv, AnswerInv, [Next]_vars PROVE AnswerInv'
    OBVIOUS
  <1> USE DEF AnswerInv, ImageIsUsed, jobVars, settingVars, loopVars
  <1>1. CASE Tick \/ ChangeLimit \/ UNCHANGED vars
    BY <1>1 DEF Tick, ChangeLimit, vars
  <1>2. CASE Begin
    BY <1>2 DEF Begin, End, Inv, PlaceInv
  <1>3. CASE Wake
    BY <1>3 DEF Wake, Pauses, Inv, PlaceInv
  <1>4. CASE TimeOut
    BY <1>4 DEF TimeOut, End, Calling, Pauses, Exchanges, Inv, PlaceInv
  <1>5. CASE RetryLater
    <2>1. ~handed'
      BY <1>5, ErrorsHoldNothing DEF RetryLater
    <2>2. QED
      BY <1>5, <2>1 DEF RetryLater
  <1>6. CASE RequestFails
    <2>1. PICK a \in Answers : /\ Transient(a) \/ Reads(a) = "error"
                               /\ handed' = HandsOver(a)
      BY <1>6 DEF RequestFails
    <2>2. driver # "turbotext"
      BY <1>6 DEF RequestFails, Inv, PlaceInv
    <2>3. ~handed'
      BY <2>1, <2>2, ErrorsHoldNothing, ImageIsRead DEF Inv
    <2>4. QED
      BY <1>6, <2>3 DEF RequestFails, End
  <1>7. CASE ImageArrives
    BY <1>7 DEF ImageArrives, End
  <1>8. CASE NoImage
    <2>1. PICK a \in Answers : Reads(a) = "no_image" /\ handed' = HandsOver(a)
      BY <1>8 DEF NoImage
    <2>2. driver # "turbotext"
      BY <1>8 DEF NoImage, Inv, PlaceInv
    <2>3. ~handed'
      BY <2>1, <2>2, ImageIsRead DEF Inv
    <2>4. QED
      BY <1>8, <2>3 DEF NoImage, End
  <1>9. CASE QueueCreated \/ QueueMoves
    BY <1>9 DEF QueueCreated, QueueMoves, PollLater, Inv, PlaceInv
  <1>10. CASE PollAnswered
    BY <1>10 DEF PollAnswered, PollLater, End, Inv, PlaceInv
  <1>11. CASE Downloaded \/ ExchangeFails
    BY <1>11 DEF Downloaded, ExchangeFails, End, Inv, PlaceInv
  <1>12. QED
    BY <1>1, <1>2, <1>3, <1>4, <1>5, <1>6, <1>7, <1>8, <1>9, <1>10, <1>11 DEF Next

(* No image that a provider handed over is asked for again or reported as  *)
(* an error, whatever else its answer says and however often it is polled. *)
THEOREM ImagesAreUsed == Spec => []ImageIsUsed
  <1>1. Init => AnswerInv
    BY DEF Init, AnswerInv, ImageIsUsed
  <1>2. AnswerInv => ImageIsUsed
    BY DEF AnswerInv
  <1>3. QED
    BY <1>1, <1>2, NextAnswer, Invariant, PTL DEF Spec


-----------------------------------------------------------------------------
(* Pauses after NO_IMAGE: one is begun only when it ends before the job's  *)
(* deadline, which nothing moves.                                          *)
PauseFits == at = "no_image_pause" => wake < syncDeadline

LEMMA NextPause == Inv /\ PauseFits /\ [Next]_vars => PauseFits'
  <1> SUFFICES ASSUME Inv, PauseFits, [Next]_vars, at' = "no_image_pause"
               PROVE  wake' < syncDeadline'
    BY DEF PauseFits
  <1> USE DEF jobVars, settingVars, loopVars
  <1>1. CASE NoImage
    BY <1>1 DEF NoImage, TimeForPause, End
  <1>2. CASE at = "no_image_pause" /\ UNCHANGED <<wake, syncDeadline>>
    BY <1>2 DEF PauseFits
  <1>3. Tick \/ ChangeLimit \/ QueueMoves \/ UNCHANGED vars => UNCHANGED <<at, wake, syncDeadline>>
    BY DEF Tick, ChangeLimit, QueueMoves, vars
  <1>4. Begin \/ Wake \/ TimeOut \/ RetryLater \/ RequestFails \/ ImageArrives
          \/ QueueCreated \/ PollAnswered \/ Downloaded \/ ExchangeFails
        => at' # "no_image_pause"
    BY DEF Begin, Wake, TimeOut, RetryLater, RequestFails, ImageArrives, QueueCreated,
           PollAnswered, Downloaded, ExchangeFails, PollLater, End
  <1>5. QED
    BY <1>1, <1>2, <1>3, <1>4 DEF Next

(* The only thing that can cut off a pause after NO_IMAGE is a limit that  *)
(* was lowered between prepare_job and the call: without it the deadline   *)
(* of wait_for is not before the job's, and the pause ends before that.    *)
THEOREM PausesAreNotCut == Spec => PauseIsNotCut
  <1>1. Init => PauseFits
    BY DEF Init, PauseFits
  <1>2. Inv /\ PauseFits /\ [Next]_vars
          => [at = "no_image_pause" /\ wake > clock /\ outcome' = "provider_timeout"
                => callDeadline < syncDeadline]_vars
    <2> SUFFICES ASSUME Inv, PauseFits, Next, at = "no_image_pause", wake > clock,
                        outcome' = "provider_timeout"
                 PROVE  callDeadline < syncDeadline
      OBVIOUS
    <2>1. outcome = "none"
      BY DEF Inv, PlaceInv
    <2>2. TimeOut
      BY <2>1 DEF Next, Tick, ChangeLimit, Begin, Wake, RetryLater, RequestFails, ImageArrives,
                  NoImage, QueueCreated, QueueMoves, PollAnswered, Downloaded, ExchangeFails, End,
                  Pauses
    <2>3. clock \in Nat /\ wake \in Nat /\ callDeadline \in Nat /\ syncDeadline \in Nat
      BY CallAssumption DEF Inv, TypeOK
    <2>4. callDeadline <= clock /\ wake < syncDeadline
      BY <2>2 DEF TimeOut, PauseFits
    <2>5. QED
      BY <2>3, <2>4
  <1>3. QED
    BY <1>1, <1>2, NextPause, Invariant, PTL DEF Spec, PauseIsNotCut
=============================================================================
