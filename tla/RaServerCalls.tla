--------------------------- MODULE RaServerCalls ---------------------------
(***************************************************************************)
(* RetroAchievements, the calls to the server                              *)
(* (platform/3ds/source/port_retroachievements_3ds.c).  rcheevos runs on   *)
(* the logic thread; a worker thread makes its HTTP requests, and badge    *)
(* downloads when there are none.  Requests wait in sPending, responses in *)
(* sCompleted, both under sQueueLock, and every response is read into the  *)
(* one buffer sResponseBuf.                                                *)
(*                                                                         *)
(* Calls are numbered in the order rcheevos makes them; what the requests  *)
(* say is left out.  The buffer holds the number of the call,              *)
(* or the badge, whose bytes are in it.  A section under the lock is one   *)
(* step.  Port_RA_Shutdown has no caller and is left out.                  *)
(***************************************************************************)
EXTENDS Integers, Sequences, FiniteSets

CONSTANTS
  MaxCalls,       \* bound: calls rcheevos makes
  RA_MAX_PENDING,
  Badge,          \* badges that are not compiled in
  BADGE_MAX, BADGE_TRIES,
  ThreadMayFail,  \* threadCreate can fail
  None

Call == 1 .. MaxCalls
Failed == 0      \* a response with RC_API_SERVER_RESPONSE_RETRYABLE_CLIENT_ERROR
Idle == {"top", "wait"}
Places == Idle \cup {"request", "deliver", "badge", "publish"}

\* A response on its way to its callback.
Response == [call : Call, body : Call \cup Badge \cup {None, Failed}]

ASSUME RaServerCallsAssumption ==
  /\ MaxCalls \in Nat /\ RA_MAX_PENDING \in Nat \ {0}
  /\ BADGE_MAX \in Nat /\ BADGE_TRIES \in Nat \ {0} /\ ThreadMayFail \in BOOLEAN
  /\ None \notin Badge \cup Call \cup {Failed} /\ None \notin Response
  /\ Badge \cap (Call \cup {Failed}) = {}

VARIABLES
  sPending, sCompleted,     \* calls; calls with "has a body"
  sResponseBuf,
  sWorkerRunning,
  at, held, got,            \* the worker: where, with which call or badge, whether it has a body
  drained,                  \* the response DrainServerResponses has copied and is about to hand over
  sBadges, tries, pixels,   \* per badge: state, failed attempts, pixels are written
  made,                     \* how many calls rcheevos has made
  answer                    \* what each call's callback was given

worker == <<at, held, got>>
queues == <<sPending, sCompleted, sResponseBuf>>
badges == <<sBadges, tries, pixels>>
calls == <<drained, made, answer>>
vars == <<queues, sWorkerRunning, worker, badges, calls>>

Init ==
  /\ sPending = <<>> /\ sCompleted = <<>> /\ sResponseBuf = None
  /\ sWorkerRunning \in {TRUE, ~ ThreadMayFail}   \* EnsureWorkerThread in Port_RA_Init
  /\ at = "top" /\ held = None /\ got = FALSE /\ drained = None
  /\ sBadges = [b \in Badge |-> "ABSENT"] /\ tries = [b \in Badge |-> 0]
  /\ pixels = [b \in Badge |-> FALSE]
  /\ made = 0 /\ answer = [c \in Call |-> None]

-----------------------------------------------------------------------------
(* The logic thread. *)

EnsureWorkerThread == sWorkerRunning' \in {TRUE} \cup (IF ThreadMayFail THEN {sWorkerRunning} ELSE {})

\* rcheevos makes a call, in a frame or inside the callback of another one: queued,
\* or answered at once.
ServerCall ==
  /\ made < MaxCalls /\ made' = made + 1
  /\ EnsureWorkerThread
  /\ \/ /\ Len(sPending) < RA_MAX_PENDING
        /\ sPending' = Append(sPending, made') /\ UNCHANGED answer
     \/ /\ Len(sPending) >= RA_MAX_PENDING
        /\ answer' = [answer EXCEPT ![made'] = Failed] /\ UNCHANGED sPending
  /\ UNCHANGED <<sCompleted, sResponseBuf, worker, badges, drained>>

\* DrainServerResponses takes a response and copies its body, under the lock, ...
DrainServerResponses ==
  /\ drained = None /\ sCompleted # <<>>
  /\ drained' = [call |-> Head(sCompleted).call,
                 body |-> IF Head(sCompleted).got THEN sResponseBuf ELSE Failed]
  /\ sCompleted' = Tail(sCompleted)
  /\ UNCHANGED <<sPending, sResponseBuf, sWorkerRunning, worker, badges, made, answer>>

\* ... and hands it over without it.
Callback ==
  /\ drained # None
  /\ answer' = [answer EXCEPT ![drained.call] = drained.body] /\ drained' = None
  /\ UNCHANGED <<queues, sWorkerRunning, worker, badges, made>>

\* Port_RA_GetBadgePixels for a badge that is not in the table yet.
BadgeFindOrQueue(b) ==
  /\ drained = None /\ sWorkerRunning /\ sBadges[b] = "ABSENT"
  /\ Cardinality({c \in Badge : sBadges[c] # "ABSENT"}) < BADGE_MAX
  /\ sBadges' = [sBadges EXCEPT ![b] = "QUEUED"]
  /\ UNCHANGED <<queues, sWorkerRunning, worker, tries, pixels, calls>>

-----------------------------------------------------------------------------
(* The worker thread. *)

CanTake == sPending # <<>> /\ Len(sCompleted) < RA_MAX_PENDING

\* Seeded defect: the newest request goes first.
DefectTakesNewest ==
  /\ sWorkerRunning /\ at = "top" /\ CanTake
  /\ held' = sPending[Len(sPending)] /\ sPending' = SubSeq(sPending, 1, Len(sPending) - 1)
  /\ sResponseBuf' = None /\ at' = "request"
  /\ UNCHANGED <<sCompleted, sWorkerRunning, got, badges, calls>>

\* The oldest request, and the response starts to come into the buffer.
TakeCall ==
  /\ sWorkerRunning /\ at = "top" /\ CanTake
  /\ held' = Head(sPending) /\ sPending' = Tail(sPending)
  /\ sResponseBuf' = None /\ at' = "request"
  /\ UNCHANGED <<sCompleted, sWorkerRunning, got, badges, calls>>

\* Seeded defect: a request that failed has no response.
DefectFailureNotDelivered ==
  /\ at = "request"
  /\ \/ sResponseBuf' = held /\ got' = TRUE /\ at' = "deliver" /\ UNCHANGED held
     \/ at' = "top" /\ held' = None /\ UNCHANGED <<got, sResponseBuf>>
  /\ UNCHANGED <<sPending, sCompleted, sWorkerRunning, badges, calls>>

\* The request ends, with a body or (length < 0) without.
RequestEnds ==
  /\ at = "request" /\ at' = "deliver"
  /\ \/ sResponseBuf' = held /\ got' = TRUE
     \/ got' = FALSE /\ UNCHANGED sResponseBuf
  /\ UNCHANGED <<sPending, sCompleted, sWorkerRunning, held, badges, calls>>

\* Seeded defect: the worker does not wait for its response to be copied.
DefectDoesNotWait ==
  /\ at = "deliver" /\ at' = "top" /\ held' = None
  /\ sCompleted' = Append(sCompleted, [call |-> held, got |-> got])
  /\ UNCHANGED <<sPending, sResponseBuf, sWorkerRunning, got, badges, calls>>

Deliver ==
  /\ at = "deliver" /\ at' = "wait" /\ held' = None
  /\ sCompleted' = Append(sCompleted, [call |-> held, got |-> got])
  /\ UNCHANGED <<sPending, sResponseBuf, sWorkerRunning, got, badges, calls>>

\* "wait for the queue to drain before taking the next request".
Drained ==
  /\ at = "wait" /\ sCompleted = <<>> /\ at' = "top"
  /\ UNCHANGED <<queues, sWorkerRunning, held, got, badges, calls>>

\* Seeded defect: the state that publishes them before the pixels.
DefectReadyFirst(b) ==
  /\ sWorkerRunning /\ at = "top" /\ ~ CanTake /\ sBadges[b] = "QUEUED"
  /\ sBadges' = [sBadges EXCEPT ![b] = "READY"] /\ held' = b /\ at' = "badge"
  /\ UNCHANGED <<queues, sWorkerRunning, got, tries, pixels, calls>>

\* Idle: a queued badge (the one wanted last; here any).
LoadNextBadge(b) ==
  /\ sWorkerRunning /\ at = "top" /\ ~ CanTake /\ sBadges[b] = "QUEUED"
  /\ sBadges' = [sBadges EXCEPT ![b] = "LOADING"] /\ held' = b /\ at' = "badge"
  /\ UNCHANGED <<queues, sWorkerRunning, got, tries, pixels, calls>>

\* From the SD card, or through the shared buffer from the server: pixels, or
\* another try if it was the first.
BadgeEnds ==
  /\ at = "badge"
  /\ sResponseBuf' \in {sResponseBuf, held}
  /\ \/ /\ at' = "publish" /\ pixels' = [pixels EXCEPT ![held] = TRUE]
        /\ UNCHANGED <<held, sBadges, tries>>
     \/ /\ at' = "top" /\ held' = None /\ tries' = [tries EXCEPT ![held] = @ + 1]
        /\ sBadges' = [sBadges EXCEPT ![held] = IF tries'[held] < BADGE_TRIES THEN "QUEUED" ELSE "FAILED"]
        /\ UNCHANGED pixels
  /\ UNCHANGED <<sPending, sCompleted, sWorkerRunning, got, calls>>

\* "the pixels before the state that publishes them".
BadgeReady ==
  /\ at = "publish" /\ at' = "top" /\ held' = None
  /\ sBadges' = [sBadges EXCEPT ![held] = "READY"]
  /\ UNCHANGED <<queues, sWorkerRunning, got, tries, pixels, calls>>

ServerCallWorker ==
  \/ TakeCall \/ RequestEnds \/ Deliver \/ Drained
  \/ \E b \in Badge : LoadNextBadge(b)
  \/ BadgeEnds \/ BadgeReady

Next ==
  \/ ServerCall \/ DrainServerResponses \/ Callback
  \/ \E b \in Badge : BadgeFindOrQueue(b)
  \/ ServerCallWorker

Spec == Init /\ [][Next]_vars

\* Port_RA_Update drains in every frame; the worker runs whenever the threads of
\* the game sleep, and a request ends (the http service gives up).
FairSpec == Spec /\ WF_vars(DrainServerResponses \/ Callback) /\ WF_vars(ServerCallWorker)

-----------------------------------------------------------------------------
(* Properties. *)

QueueTypes ==
  /\ sPending \in Seq(Call) /\ Len(sPending) <= RA_MAX_PENDING
  /\ sCompleted \in Seq([call : Call, got : BOOLEAN]) /\ Len(sCompleted) <= RA_MAX_PENDING
  /\ sResponseBuf \in Call \cup Badge \cup {None}
  /\ drained \in Response \cup {None}
  /\ made \in 0 .. MaxCalls /\ answer \in [Call -> Call \cup Badge \cup {None, Failed}]

WorkerTypes ==
  /\ sWorkerRunning \in BOOLEAN /\ at \in Places /\ got \in BOOLEAN
  /\ at \in Idle => held = None
  /\ at \in {"request", "deliver"} => held \in Call
  /\ at \in {"badge", "publish"} => held \in Badge

BadgeTypes ==
  /\ sBadges \in [Badge -> {"ABSENT", "QUEUED", "LOADING", "READY", "FAILED"}]
  /\ tries \in [Badge -> 0 .. BADGE_TRIES] /\ pixels \in [Badge -> BOOLEAN]

\* Every variable keeps to its type; the arrays of RA_MAX_PENDING do not overflow and
\* no badge is tried more often than allowed.
TypeOK == QueueTypes /\ WorkerTypes /\ BadgeTypes

InQueue(c) == \E i \in 1 .. Len(sPending) : sPending[i] = c
InResponses(c) == \E i \in 1 .. Len(sCompleted) : sCompleted[i].call = c
InWorker(c) == at \in {"request", "deliver"} /\ held = c
InDrain(c) == drained # None /\ drained.call = c

\* "One shared response buffer [...] a completed call's body is copied out before
\* the next one starts": although calls and badges share it, a callback is given
\* the response to its own call, or a failure.
OwnAnswer == \A c \in Call : answer[c] \in {None, c, Failed}

\* Every call rcheevos made is in one place, or has been answered: none is lost,
\* and none can be answered twice.
EveryCallOnce ==
  \A c \in Call :
    LET there == <<InQueue(c), InWorker(c), InResponses(c), InDrain(c)>> IN
      IF c <= made /\ answer[c] = None
        THEN \E p \in 1 .. 4 : \A q \in 1 .. 4 : there[q] <=> q = p
        ELSE \A q \in 1 .. 4 : ~ there[q]

\* Both: a call has one answer, and it is its own.
EachCallItsAnswer == OwnAnswer /\ EveryCallOnce

\* Responses are handed over in the order of the calls, whatever is queued
\* meanwhile; only a call that finds the queue full is answered before its turn.
AnsweredInOrder ==
  [][\A c \in Call : InDrain(c) /\ answer'[c] # None =>
       \A b \in Call : b < c => answer[b] # None]_vars

\* The UI never draws a badge whose pixels are not there.
ReadyHasPixels == \A b \in Badge : sBadges[b] = "READY" => pixels[b]

\* "leave rcheevos waiting for a response forever" (ServerCall) does not happen
\* once the worker runs, failed requests and badge downloads included; nor does a
\* badge stay queued: it is loaded, or given up after its tries.
EveryRequestEnds ==
  /\ \A c \in Call : c <= made /\ sWorkerRunning ~> answer[c] # None
  /\ \A b \in Badge : sBadges[b] = "QUEUED" ~> sBadges[b] \in {"READY", "FAILED"}
=============================================================================
