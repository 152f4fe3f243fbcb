---------------------------- MODULE ProviderCall ----------------------------
(***************************************************************************)
(* One job's call of its provider driver against the clock: the deadline   *)
(* prepare_job computes, the wait_for around the driver, and inside it the *)
(* retries of the Gemini drivers and of GPT Image and the polls of         *)
(* Turbotext.  In Ingest all of this is the one action ProviderEnds.       *)
(*                                                                         *)
(* The provider answers when it likes or never: httpx bounds the pauses of *)
(* a transfer, not its length.  The event loop may run a due timer late,   *)
(* so an answer can still win against a timeout that is due.               *)
(***************************************************************************)
EXTENDS Naturals, Sequences

CONSTANTS
    Limits,        \* values of sync_response_seconds
    Requested,     \* values of retry_policy.max_attempts in slot settings
    Backoffs,      \* values of retry_policy.backoff_seconds
    MaxTries,      \* the 3 in the drivers' clamp of max_attempts
    NoImageMax,    \* NO_IMAGE_MAX_ATTEMPTS
    NoImagePause,  \* NO_IMAGE_BACKOFF_SECONDS
    PollMax,       \* TurbotextDriver.max_attempts
    PollPause,     \* TurbotextDriver.poll_interval_seconds
    MaxUpload,     \* bound on the time between the job's start and the call
    MaxChanges,    \* bound on changes of sync_response_seconds
    MaxClock       \* bound on the clock

ASSUME CallAssumption ==
    /\ Limits \subseteq Nat \ {0}
    /\ Requested \subseteq Nat
    /\ Backoffs \subseteq Nat
    /\ {MaxTries, NoImageMax, NoImagePause, PollMax, PollPause} \subseteq Nat \ {0}
    /\ {MaxUpload, MaxChanges, MaxClock} \subseteq Nat
    /\ \A l \in Limits : MaxUpload + l <= MaxClock

VARIABLES
    clock,
    limit,         \* IngestService.sync_response_seconds
    changes,       \* how often an administrator changed it
    driver,        \* the slot's provider
    tries,         \* max_attempts as the driver clamps it
    backoff,       \* backoff_seconds
    at,            \* what the call waits for
    attempt,       \* attempt of _send_request
    noImage,       \* no_image_attempts
    polls,         \* attempt of the polling loop
    wake,          \* when the current pause is over
    syncDeadline,  \* job.sync_deadline
    callDeadline,  \* when wait_for cancels the driver
    outcome,
    queue,         \* the job in Turbotext's queue
    posts,         \* history: requests sent to the provider
    handed         \* history: the provider has handed over an image: in the
                   \* last answer, or in its queue when the last poll was sent

jobVars == <<driver, tries, backoff, syncDeadline>>
loopVars == <<attempt, noImage, polls>>
settingVars == <<limit, changes>>
vars == <<clock, settingVars, jobVars, at, loopVars, wake, callDeadline, outcome,
          queue, posts, handed>>

GeminiDrivers == {"gemini", "gemini-3-pro"}
Drivers == GeminiDrivers \cup {"gpt-image-1.5", "turbotext"}
Pauses == {"backoff", "no_image_pause", "poll_pause"}
Exchanges == {"request", "queue", "poll", "download"}
Calling == Pauses \cup Exchanges

TypeOK ==
    /\ clock \in 0..MaxClock
    /\ limit \in Limits
    /\ changes \in 0..MaxChanges
    /\ driver \in Drivers
    /\ tries \in 1..MaxTries
    /\ backoff \in Backoffs
    /\ at \in {"prepared", "over"} \cup Calling
    /\ attempt \in 1..MaxTries
    /\ noImage \in 0..NoImageMax
    /\ polls \in 0..PollMax
    /\ wake \in Nat
    /\ syncDeadline \in Limits
    /\ callDeadline \in 0..MaxClock
    /\ outcome \in {"none", "ok", "provider_timeout", "provider_error", "polls_exhausted"}
    /\ queue \in {"none", "working", "ready", "failed"}
    /\ posts \in Nat
    /\ handed \in BOOLEAN

(* Mistake: the slot's setting is not clamped. *)
AnyTries(n) == n

(* max(1, min(n, 3)) *)
Clamp(n) == IF n < 1 THEN 1 ELSE IF n > MaxTries THEN MaxTries ELSE n

(* prepare_job has just read the clock; the upload is being copied. *)
Init ==
    /\ clock = 0
    /\ limit \in Limits
    /\ changes = 0
    /\ driver \in Drivers
    /\ \E n \in Requested : tries = Clamp(n)
    /\ backoff \in Backoffs
    /\ at = "prepared"
    /\ attempt = 1
    /\ noImage = 0
    /\ polls = 0
    /\ wake = 0
    /\ syncDeadline = limit
    /\ callDeadline = 0
    /\ outcome = "none"
    /\ queue = "none"
    /\ posts = 0
    /\ handed = FALSE

-----------------------------------------------------------------------------
(* What the provider says: the HTTP status of an answer (0: a transport    *)
(* error instead of an answer), the status in its JSON error object, and   *)
(* what the candidates of a good answer hold: an image, inline data that   *)
(* does not decode, text, or finishReason NO_IMAGE.                        *)
Contents == {"image", "broken", "text", "no_image"}
Bodies == {<<>>} \cup {<<c>> : c \in Contents} \cup {<<c, d>> : c, d \in Contents}

Answers ==
    [code : {200}, error : {"none"}, body : Bodies]
        \cup [code : {0}, error : {"none"}, body : {<<>>}]
        \cup [code : {400, 429, 500, 503}, body : {<<>>},
              error : {"none", "RESOURCE_EXHAUSTED", "DEADLINE_EXCEEDED", "UNAVAILABLE"}]

(* _should_retry: the error object, if there is one, outweighs the code. *)
GeminiRetries(a) ==
    IF a.error = "none" THEN a.code \in {429, 500, 503}
    ELSE a.error \in {"RESOURCE_EXHAUSTED", "DEADLINE_EXCEEDED"}

GptRetries(a) == a.code \in {429, 500, 503}

(* The inline data of an answer; its first is the one that counts. *)
InlineData(a) == {i \in DOMAIN a.body : a.body[i] \in {"image", "broken"}}

FirstDecodes(a) ==
    \E i \in InlineData(a) : a.body[i] = "image" /\ \A j \in InlineData(a) : i <= j

SaysNoImage(a) == \E i \in DOMAIN a.body : a.body[i] = "no_image"

(* Mistake: a reason to go on is looked for before an image is. *)
GeminiReadsReasonFirst(a) ==
    IF SaysNoImage(a) THEN "no_image"
    ELSE IF FirstDecodes(a) THEN "image"
    ELSE "error"

(* One NO_IMAGE among the finish reasons is a reason to ask again, unless  *)
(* there is inline data.                                                   *)
GeminiReads(a) ==
    IF FirstDecodes(a) THEN "image"
    ELSE IF InlineData(a) = {} /\ SaysNoImage(a) THEN "no_image"
    ELSE "error"

(* The first entry of `data' is the result. *)
GptReads(a) == IF a.body # <<>> /\ a.body[1] = "image" THEN "image" ELSE "error"

Transient(a) ==
    a.code = 0 \/ (a.code # 200 /\ IF driver \in GeminiDrivers THEN GeminiRetries(a)
                                   ELSE GptRetries(a))

Reads(a) ==
    IF a.code # 200 THEN "error"
    ELSE IF driver \in GeminiDrivers THEN GeminiReads(a) ELSE GptReads(a)

(* An image that can be used: GPT Image is asked for one only. *)
HandsOver(a) ==
    /\ \E i \in DOMAIN a.body : a.body[i] = "image"
    /\ \A i \in DOMAIN a.body : a.body[i] # "broken"
    /\ driver \in GeminiDrivers \/ Len(a.body) = 1

(* What a driver insists on before it sends anything. *)
InlineNeeds == {"prompt", "upload file", "template files", "key"}
TurbotextNeeds == {"prompt", "base url", "key", "upload link", "template links"}
Needs == IF driver = "turbotext" THEN TurbotextNeeds ELSE InlineNeeds

-----------------------------------------------------------------------------
Tick ==
    /\ at # "over"
    /\ clock < IF at = "prepared" THEN MaxUpload ELSE MaxClock
    /\ clock' = clock + 1
    /\ UNCHANGED <<settingVars, jobVars, at, loopVars, wake, callDeadline, outcome,
                   queue, posts, handed>>

(* SettingsRuntime's ApplyFields, on a thread of the pool. *)
ChangeLimit ==
    /\ changes < MaxChanges
    /\ changes' = changes + 1
    /\ limit' \in Limits \ {limit}
    /\ UNCHANGED <<clock, jobVars, at, loopVars, wake, callDeadline, outcome, queue,
                   posts, handed>>

End(o) ==
    /\ at' = "over"
    /\ outcome' = o

(* process() starts the timer and the driver, which refuses when something *)
(* is missing or sends its first request.                                  *)
Begin ==
    /\ at = "prepared"
    /\ callDeadline' = clock + limit
    /\ \E given \in SUBSET (InlineNeeds \cup TurbotextNeeds) :
          \/ /\ ~(Needs \subseteq given)
             /\ End("provider_error")
             /\ UNCHANGED posts
          \/ /\ Needs \subseteq given
             /\ at' = IF driver = "turbotext" THEN "queue" ELSE "request"
             /\ posts' = 1
             /\ UNCHANGED outcome
    /\ UNCHANGED <<clock, settingVars, jobVars, loopVars, wake, queue, handed>>

(* A pause is over: the next request is sent. *)
Wake ==
    /\ at \in Pauses
    /\ clock >= wake
    /\ posts' = posts + 1
    /\ at' = IF at = "poll_pause" THEN "poll" ELSE "request"
    /\ handed' = (queue = "ready")
    /\ UNCHANGED <<clock, settingVars, jobVars, loopVars, wake, callDeadline, outcome, queue>>

(* Mistake: the deadline is looked at between two requests only. *)
TimeOutInPause ==
    /\ at \in Pauses
    /\ clock >= callDeadline
    /\ End("provider_timeout")
    /\ UNCHANGED <<clock, settingVars, jobVars, loopVars, wake, callDeadline, queue, posts,
                   handed>>

(* wait_for cancels the driver, whatever it awaits. *)
TimeOut ==
    /\ at \in Calling
    /\ clock >= callDeadline
    /\ End("provider_timeout")
    /\ UNCHANGED <<clock, settingVars, jobVars, loopVars, wake, callDeadline, queue, posts,
                   handed>>

-----------------------------------------------------------------------------
(* Gemini and GPT Image *)

(* A transport error or a transient answer, and an attempt is left. *)
RetryLater ==
    /\ at = "request"
    /\ attempt < tries
    /\ \E a \in Answers : Transient(a) /\ handed' = HandsOver(a)
    /\ attempt' = attempt + 1
    /\ at' = "backoff"
    /\ wake' = clock + backoff
    /\ UNCHANGED <<clock, settingVars, jobVars, noImage, polls, callDeadline, outcome, queue,
                   posts>>

(* The last attempt failed, or the answer has no future.  What a driver    *)
(* does not expect, an answer that is no JSON included, _invoke_provider   *)
(* turns into a provider error as well.                                    *)
RequestFails ==
    /\ at = "request"
    /\ \E a \in Answers :
          /\ IF Transient(a) THEN attempt >= tries ELSE Reads(a) = "error"
          /\ handed' = HandsOver(a)
    /\ End("provider_error")
    /\ UNCHANGED <<clock, settingVars, jobVars, loopVars, wake, callDeadline, queue, posts>>

ImageArrives ==
    /\ at = "request"
    /\ \E a \in Answers : Reads(a) = "image" /\ handed' = HandsOver(a)
    /\ End("ok")
    /\ UNCHANGED <<clock, settingVars, jobVars, loopVars, wake, callDeadline, queue, posts>>

(* Mistake: the first NO_IMAGE is final. *)
NeverTime == FALSE

(* Mistake: the deadline is not looked at. *)
AlwaysTime == TRUE

(* _remaining_seconds(job) > NO_IMAGE_BACKOFF_SECONDS *)
TimeForPause == clock + NoImagePause < syncDeadline

(* Gemini answers finishReason NO_IMAGE. *)
NoImage ==
    /\ at = "request"
    /\ \E a \in Answers : Reads(a) = "no_image" /\ handed' = HandsOver(a)
    /\ noImage' = noImage + 1
    /\ IF noImage + 1 < NoImageMax /\ TimeForPause
          THEN /\ at' = "no_image_pause"
               /\ wake' = clock + NoImagePause
               /\ attempt' = 1
               /\ UNCHANGED outcome
          ELSE End("provider_timeout") /\ UNCHANGED <<wake, attempt>>
    /\ UNCHANGED <<clock, settingVars, jobVars, polls, callDeadline, queue, posts>>

-----------------------------------------------------------------------------
(* Turbotext *)

(* Pause before the next poll; the loop has counted it already. *)
PollLater ==
    /\ polls' = polls + 1
    /\ at' = "poll_pause"
    /\ wake' = clock + PollPause

QueueCreated ==
    /\ at = "queue"
    /\ queue' = "working"
    /\ PollLater
    /\ UNCHANGED <<clock, settingVars, jobVars, attempt, noImage, callDeadline, outcome, posts,
                   handed>>

(* The provider's side: the image is ready, or the job failed there. *)
QueueMoves ==
    /\ queue = "working"
    /\ at # "over"
    /\ queue' \in {"ready", "failed"}
    /\ UNCHANGED <<clock, settingVars, jobVars, at, loopVars, wake, callDeadline, outcome,
                   posts, handed>>

(* get_result answers `reconnect', a failure or the link to the image. *)
PollAnswered ==
    /\ at = "poll"
    /\ \/ /\ queue = "working"
          /\ IF polls < PollMax
                THEN PollLater /\ UNCHANGED outcome
                ELSE End("polls_exhausted") /\ UNCHANGED <<polls, wake>>
          /\ UNCHANGED posts
       \/ queue = "failed" /\ End("provider_error") /\ UNCHANGED <<polls, wake, posts>>
       \/ /\ queue = "ready"
          /\ at' = "download"
          /\ posts' = posts + 1
          /\ UNCHANGED <<polls, wake, outcome>>
    /\ UNCHANGED <<clock, settingVars, jobVars, attempt, noImage, callDeadline, queue, handed>>

Downloaded ==
    /\ at = "download"
    /\ End("ok")
    /\ UNCHANGED <<clock, settingVars, jobVars, loopVars, wake, callDeadline, queue, posts,
                   handed>>

(* A transport error or an unexpected answer: nothing is tried twice. *)
ExchangeFails ==
    /\ at \in {"queue", "poll", "download"}
    /\ End("provider_error")
    /\ UNCHANGED <<clock, settingVars, jobVars, loopVars, wake, callDeadline, queue, posts,
                   handed>>

-----------------------------------------------------------------------------
Next ==
    \/ Tick \/ ChangeLimit
    \/ Begin \/ Wake \/ TimeOut
    \/ RetryLater \/ RequestFails \/ ImageArrives \/ NoImage
    \/ QueueCreated \/ QueueMoves \/ PollAnswered \/ Downloaded \/ ExchangeFails

Spec == Init /\ [][Next]_vars

(* Time passes and the event loop runs due timers; providers owe nothing.  *)
FairSpec == Spec /\ WF_vars(Tick) /\ WF_vars(Wake) /\ WF_vars(TimeOut)

-----------------------------------------------------------------------------
(* The two nested loops of the Gemini drivers, the one of GPT Image and    *)
(* the polls of Turbotext send a bounded number of (billed) requests,      *)
(* whatever a slot's retry_policy says and however late timers fire.       *)
RequestsBounded ==
    posts <= CASE driver \in GeminiDrivers -> NoImageMax * MaxTries
               [] driver = "gpt-image-1.5" -> MaxTries
               [] driver = "turbotext" -> PollMax + 2

(* A call is reported as timed out only when its time is up, or when       *)
(* Gemini refused an image NO_IMAGE_MAX_ATTEMPTS times or so late that the *)
(* pause before the next try would not fit the job's deadline.             *)
TimeoutIsJustified ==
    outcome = "provider_timeout" =>
        \/ clock >= callDeadline
        \/ noImage = NoImageMax
        \/ noImage > 0 /\ clock + NoImagePause >= syncDeadline

(* An image that was handed over is used, whatever else the answer says:   *)
(* it is neither asked (and billed) for again nor turned into an error,    *)
(* and Turbotext's driver does not give up on one that was ready when it   *)
(* asked for the last time.                                                *)
ImageIsUsed ==
    handed =>
        /\ driver # "turbotext" => outcome = "ok"
        /\ outcome # "polls_exhausted"

(* A pause after NO_IMAGE is never cut off by wait_for, because the job's  *)
(* deadline is not after the call's, unless an administrator lowered       *)
(* sync_response_seconds while the upload was being copied.                *)
PauseIsNotCut ==
    [][at = "no_image_pause" /\ wake > clock /\ outcome' = "provider_timeout"
         => callDeadline < syncDeadline]_vars

(* A call ends although its provider never answers. *)
CallEnds == at \in Calling ~> at = "over"
=============================================================================
