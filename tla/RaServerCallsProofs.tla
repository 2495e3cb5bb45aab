------------------------ MODULE RaServerCallsProofs ------------------------
(***************************************************************************)
(* What holds of RaServerCalls for every number of calls, queue size, set  *)
(* of badges and pattern of failures.                                      *)
(***************************************************************************)
EXTENDS RaServerCalls, TLAPS

-----------------------------------------------------------------------------
(* The badges. *)

\* A badge being loaded says so, one that has not ended has a try left, and what
\* is published has its pixels.
BadgeInv ==
  /\ BadgeTypes
  /\ at \in {"badge", "publish"} => held \in Badge /\ sBadges[held] = "LOADING"
  /\ at = "publish" => pixels[held]
  /\ \A b \in Badge : sBadges[b] \in {"ABSENT", "QUEUED", "LOADING"} => tries[b] < BADGE_TRIES
  /\ ReadyHasPixels

LEMMA BadgeInit == Init => BadgeInv
  BY RaServerCallsAssumption DEF Init, BadgeInv, BadgeTypes, ReadyHasPixels

LEMMA BadgeStep == BadgeInv /\ [Next]_vars => BadgeInv'
<1> SUFFICES ASSUME BadgeInv, [Next]_vars PROVE BadgeInv'
  OBVIOUS
<1> USE RaServerCallsAssumption DEF BadgeInv, BadgeTypes, ReadyHasPixels
<1>1. CASE ServerCall
  BY <1>1 DEF ServerCall, worker, badges
<1>2. CASE DrainServerResponses
  BY <1>2 DEF DrainServerResponses, worker, badges
<1>3. CASE Callback
  BY <1>3 DEF Callback, worker, badges
<1>4. ASSUME NEW b \in Badge, BadgeFindOrQueue(b) PROVE BadgeInv'
  <2>1. sBadges' \in [Badge -> {"ABSENT", "QUEUED", "LOADING", "READY", "FAILED"}]
    BY <1>4 DEF BadgeFindOrQueue
  <2>2. \A c \in Badge : sBadges'[c] = IF c = b THEN "QUEUED" ELSE sBadges[c]
    BY <1>4 DEF BadgeFindOrQueue
  <2> QED
    BY <1>4, <2>1, <2>2 DEF BadgeFindOrQueue, worker
<1>5. CASE TakeCall
  BY <1>5 DEF TakeCall, badges
<1>6. CASE RequestEnds
  BY <1>6 DEF RequestEnds, badges
<1>7. CASE Deliver
  BY <1>7 DEF Deliver, badges
<1>8. CASE Drained
  BY <1>8 DEF Drained, badges
<1>9. ASSUME NEW b \in Badge, LoadNextBadge(b) PROVE BadgeInv'
  <2>1. sBadges' \in [Badge -> {"ABSENT", "QUEUED", "LOADING", "READY", "FAILED"}]
    BY <1>9 DEF LoadNextBadge
  <2>2. \A c \in Badge : sBadges'[c] = IF c = b THEN "LOADING" ELSE sBadges[c]
    BY <1>9 DEF LoadNextBadge
  <2> QED
    BY <1>9, <2>1, <2>2 DEF LoadNextBadge
<1>10. CASE BadgeEnds
  <2>1. held \in Badge /\ tries[held] < BADGE_TRIES
    BY <1>10 DEF BadgeEnds
  <2>2. CASE /\ at' = "publish" /\ pixels' = [pixels EXCEPT ![held] = TRUE]
             /\ UNCHANGED <<held, sBadges, tries>>
    <3>1. pixels' \in [Badge -> BOOLEAN] /\ pixels'[held]
      BY <2>1, <2>2
    <3>2. \A b \in Badge : pixels[b] => pixels'[b]
      BY <2>1, <2>2
    <3>3. UNCHANGED <<held, sBadges, tries>> /\ at' = "publish" /\ at = "badge"
      BY <1>10, <2>2 DEF BadgeEnds
    <3> QED
      BY <2>1, <3>1, <3>2, <3>3
  <2>3. CASE /\ at' = "top" /\ held' = None /\ tries' = [tries EXCEPT ![held] = @ + 1]
             /\ sBadges' = [sBadges EXCEPT ![held] = IF tries'[held] < BADGE_TRIES THEN "QUEUED" ELSE "FAILED"]
             /\ UNCHANGED pixels
    <3>1. tries[held] + 1 \in 0 .. BADGE_TRIES
      BY <2>1
    <3>2. /\ tries' \in [Badge -> 0 .. BADGE_TRIES]
          /\ \A b \in Badge : tries'[b] = IF b = held THEN tries[held] + 1 ELSE tries[b]
      BY <2>1, <2>3, <3>1
    <3>3. /\ sBadges' \in [Badge -> {"ABSENT", "QUEUED", "LOADING", "READY", "FAILED"}]
          /\ \A b \in Badge : sBadges'[b] = IF b = held THEN IF tries'[held] < BADGE_TRIES THEN "QUEUED" ELSE "FAILED"
                                                        ELSE sBadges[b]
      BY <2>1, <2>3
    <3>4. at' = "top" /\ UNCHANGED pixels
      BY <2>3
    <3> QED
      BY <2>1, <3>2, <3>3, <3>4
  <2> QED
    BY <1>10, <2>2, <2>3 DEF BadgeEnds
<1>11. CASE BadgeReady
  <2>1. held \in Badge /\ pixels[held] /\ at' = "top" /\ UNCHANGED <<tries, pixels>>
    BY <1>11 DEF BadgeReady
  <2>2. sBadges' \in [Badge -> {"ABSENT", "QUEUED", "LOADING", "READY", "FAILED"}]
    BY <1>11, <2>1 DEF BadgeReady
  <2>3. \A c \in Badge : sBadges'[c] = IF c = held THEN "READY" ELSE sBadges[c]
    BY <1>11, <2>1 DEF BadgeReady
  <2> QED
    BY <2>1, <2>2, <2>3
<1>12. CASE UNCHANGED vars
  BY <1>12 DEF vars, worker, badges
<1> QED
  BY <1>1, <1>2, <1>3, <1>4, <1>5, <1>6, <1>7, <1>8, <1>9, <1>10, <1>11, <1>12
     DEF Next, ServerCallWorker

\* The UI finds the pixels of every badge the worker has published.
THEOREM Published == Spec => []ReadyHasPixels
<1>1. BadgeInv => ReadyHasPixels
  BY DEF BadgeInv
<1> QED
  BY <1>1, BadgeInit, BadgeStep, PTL DEF Spec

-----------------------------------------------------------------------------
(* The calls: types, and whose bytes are in the buffer. *)

\* The queue of responses has at most one response, and then the worker waits and
\* the buffer is that response's; what is on its way to a callback is its own.
BufferInv ==
  /\ QueueTypes /\ WorkerTypes
  /\ sCompleted # <<>> => at = "wait" /\ Len(sCompleted) = 1
  /\ at = "deliver" /\ got => sResponseBuf = held
  /\ sCompleted # <<>> /\ sCompleted[1].got => sResponseBuf = sCompleted[1].call
  /\ drained # None => drained.body \in {Failed, drained.call}
  /\ OwnAnswer

LEMMA BufferInit == Init => BufferInv
  <1> SUFFICES ASSUME Init PROVE BufferInv
    OBVIOUS
  <1>1. QueueTypes
    BY RaServerCallsAssumption DEF Init, QueueTypes
  <1>2. WorkerTypes
    BY RaServerCallsAssumption DEF Init, WorkerTypes, Places, Idle
  <1> QED
    BY <1>1, <1>2 DEF Init, BufferInv, OwnAnswer

LEMMA TakesResponse ==
  ASSUME BufferInv, DrainServerResponses
  PROVE  /\ drained = None /\ drained' \in Response /\ drained'.body \in {Failed, drained'.call}
         /\ Len(sCompleted) = 1 /\ drained'.call = sCompleted[1].call /\ sCompleted' = <<>>
<1> USE RaServerCallsAssumption DEF BufferInv, QueueTypes, WorkerTypes
<1>1. sCompleted # <<>> /\ Len(sCompleted) = 1 /\ at = "wait" /\ drained = None
  BY DEF DrainServerResponses
<1>2. sCompleted[1] \in [call : Call, got : BOOLEAN] /\ Head(sCompleted) = sCompleted[1]
  <2> DEFINE R == [call : Call, got : BOOLEAN]
  <2>1. sCompleted \in Seq(R)
    OBVIOUS
  <2> HIDE DEF R
  <2>2. sCompleted[1] \in R /\ Head(sCompleted) = sCompleted[1]
    BY <1>1, <2>1
  <2> QED
    BY <2>2 DEF R
<1>3. sCompleted' = <<>>
  BY <1>1 DEF DrainServerResponses
<1>4. drained' = [call |-> sCompleted[1].call,
                  body |-> IF sCompleted[1].got THEN sResponseBuf ELSE Failed]
  BY <1>2 DEF DrainServerResponses
<1>5. drained' \in Response /\ drained'.body \in {Failed, drained'.call}
  BY <1>1, <1>2, <1>4 DEF Response
<1> QED
  BY <1>1, <1>3, <1>4, <1>5

LEMMA BufferStep == BufferInv /\ [Next]_vars => BufferInv'
<1> SUFFICES ASSUME BufferInv, [Next]_vars PROVE BufferInv'
  OBVIOUS
<1> USE RaServerCallsAssumption DEF BufferInv, QueueTypes, WorkerTypes, OwnAnswer, Places, Idle
<1>1. CASE ServerCall
  <2>1. made' \in Call /\ made' \in 0 .. MaxCalls
    BY <1>1 DEF ServerCall, Call
  <2>2. sWorkerRunning' \in BOOLEAN
    BY <1>1 DEF ServerCall, EnsureWorkerThread
  <2>3. UNCHANGED <<sCompleted, sResponseBuf, worker, badges, drained>>
    BY <1>1 DEF ServerCall
  <2>4. CASE /\ Len(sPending) < RA_MAX_PENDING
             /\ sPending' = Append(sPending, made') /\ UNCHANGED answer
    <3>1. sPending' \in Seq(Call) /\ Len(sPending') <= RA_MAX_PENDING
      BY <2>1, <2>4
    <3> QED
      BY <2>1, <2>2, <2>3, <2>4, <3>1 DEF worker
  <2>5. CASE answer' = [answer EXCEPT ![made'] = Failed] /\ UNCHANGED sPending
    <3>1. /\ answer' \in [Call -> Call \cup Badge \cup {None, Failed}]
          /\ \A c \in Call : answer'[c] \in {None, c, Failed}
      BY <2>1, <2>5
    <3> QED
      BY <2>1, <2>2, <2>3, <2>5, <3>1 DEF worker
  <2> QED
    BY <1>1, <2>4, <2>5 DEF ServerCall
<1>2. CASE DrainServerResponses
  BY <1>2, TakesResponse DEF DrainServerResponses, worker
<1>3. CASE Callback
  <2>1. drained # None /\ drained.call \in Call /\ drained.body \in {Failed, drained.call}
    BY <1>3 DEF Callback, Response
  <2>2. /\ answer' \in [Call -> Call \cup Badge \cup {None, Failed}]
        /\ \A c \in Call : answer'[c] \in {None, c, Failed}
    BY <1>3, <2>1 DEF Callback
  <2> QED
    BY <1>3, <2>2 DEF Callback, queues, worker
<1>4. ASSUME NEW b \in Badge, BadgeFindOrQueue(b) PROVE BufferInv'
  BY <1>4 DEF BadgeFindOrQueue, queues, worker, calls
<1>5. CASE TakeCall
  <2>1. held' \in Call /\ sPending' \in Seq(Call) /\ Len(sPending') <= RA_MAX_PENDING
    BY <1>5 DEF TakeCall, CanTake
  <2>2. sCompleted = <<>>
    BY <1>5 DEF TakeCall
  <2> QED
    BY <1>5, <2>1, <2>2 DEF TakeCall, calls
<1>6. CASE RequestEnds
  BY <1>6 DEF RequestEnds, calls
<1>7. CASE Deliver
  <2>1. sCompleted = <<>> /\ held \in Call
    BY <1>7 DEF Deliver
  <2>2. sCompleted' = <<[call |-> held, got |-> got]>>
    BY <1>7, <2>1 DEF Deliver
  <2>3. sCompleted' \in Seq([call : Call, got : BOOLEAN]) /\ Len(sCompleted') = 1
    BY <2>1, <2>2
  <2> QED
    BY <1>7, <2>2, <2>3 DEF Deliver, calls
<1>8. CASE Drained
  BY <1>8 DEF Drained, queues, calls
<1>9. ASSUME NEW b \in Badge, LoadNextBadge(b) PROVE BufferInv'
  BY <1>9 DEF LoadNextBadge, queues, calls
<1>10. CASE BadgeEnds
  <2>1. sCompleted = <<>> /\ held \in Badge
    BY <1>10 DEF BadgeEnds
  <2>2. sResponseBuf' \in Call \cup Badge \cup {None}
    BY <1>10, <2>1 DEF BadgeEnds
  <2>3. \/ at' = "publish" /\ held' = held
        \/ at' = "top" /\ held' = None
    BY <1>10 DEF BadgeEnds
  <2> QED
    BY <1>10, <2>1, <2>2, <2>3 DEF BadgeEnds, calls
<1>11. CASE BadgeReady
  BY <1>11 DEF BadgeReady, queues, calls
<1>12. CASE UNCHANGED vars
  BY <1>12 DEF vars, queues, worker, calls
<1> QED
  BY <1>1, <1>2, <1>3, <1>4, <1>5, <1>6, <1>7, <1>8, <1>9, <1>10, <1>11, <1>12
     DEF Next, ServerCallWorker

\* Every variable keeps to its type and the arrays of RA_MAX_PENDING calls do not
\* overflow.
THEOREM Typed == Spec => []TypeOK
<1>1. BadgeInv /\ BufferInv => TypeOK
  BY DEF BadgeInv, BufferInv, TypeOK
<1> QED
  BY <1>1, BadgeInit, BadgeStep, BufferInit, BufferStep, PTL DEF Spec

\* No callback is given the response to another call, or a badge's bytes.
THEOREM OwnBytes == Spec => []OwnAnswer
<1>1. BufferInv => OwnAnswer
  BY DEF BufferInv
<1> QED
  BY <1>1, BufferInit, BufferStep, PTL DEF Spec

-----------------------------------------------------------------------------
(* The calls stand in one line: in a callback's hands, at the worker or among the
   responses, in sPending. *)

InLine(c) == InQueue(c) \/ InWorker(c) \/ InResponses(c) \/ InDrain(c)

\* Who stands in line has been made and not answered, and the line is in the order
\* the calls were made; who has been made and not answered stands in line.
LineInv ==
  /\ \A c \in Call : InLine(c) <=> c <= made /\ answer[c] = None
  /\ \A c \in Call : c > made => answer[c] = None
  /\ \A i, j \in 1 .. Len(sPending) : i < j => sPending[i] < sPending[j]
  /\ \A b, c \in Call : InQueue(c) /\ (InWorker(b) \/ InResponses(b) \/ InDrain(b)) => b < c
  /\ \A b, c \in Call : InDrain(b) /\ (InWorker(c) \/ InResponses(c)) => b < c

LEMMA LineInit == Init => LineInv
  BY DEF Init, LineInv, InLine, InQueue, InWorker, InResponses, InDrain, Call

\* Neither does a response stand twice, nor a response beside the worker's call.
LEMMA OneResponse ==
  ASSUME BufferInv, NEW b \in Call, NEW c \in Call
  PROVE  /\ InResponses(c) => ~ InWorker(b)
         /\ InResponses(c) /\ InResponses(b) => b = c
  BY DEF BufferInv, InResponses, InWorker

\* A step that moves no call keeps the line.
LEMMA LineStays ==
  ASSUME LineInv, UNCHANGED <<sPending, sCompleted, drained, made, answer>>,
         \A c \in Call : InWorker(c)' <=> InWorker(c)
  PROVE  LineInv'
  BY DEF LineInv, InLine, InQueue, InResponses, InDrain

LEMMA LineStep == BufferInv /\ LineInv /\ [Next]_vars => LineInv'
<1> SUFFICES ASSUME BufferInv, LineInv, [Next]_vars PROVE LineInv'
  OBVIOUS
<1> USE RaServerCallsAssumption
<1>0. QueueTypes /\ WorkerTypes /\ Call \subseteq Nat
  BY DEF BufferInv, Call
<1>1. CASE ServerCall
  <2>1. made' \in Call /\ made' = made + 1 /\ made \in Nat
    BY <1>0, <1>1 DEF ServerCall, Call, QueueTypes
  <2>2. \A c \in Call : /\ InWorker(c)' <=> InWorker(c)
                        /\ InResponses(c)' <=> InResponses(c)
                        /\ InDrain(c)' <=> InDrain(c)
    BY <1>1 DEF ServerCall, InWorker, InResponses, InDrain, worker
  <2>3. CASE /\ Len(sPending) < RA_MAX_PENDING
             /\ sPending' = Append(sPending, made') /\ UNCHANGED answer
    <3>1. \A c \in Call : InQueue(c)' <=> InQueue(c) \/ c = made'
      BY <1>0, <2>1, <2>3 DEF InQueue, QueueTypes
    <3>2. answer[made'] = None
      BY <2>1 DEF LineInv
    <3>3. \A i, j \in 1 .. Len(sPending') : i < j => sPending'[i] < sPending'[j]
      <4>1. \A i \in 1 .. Len(sPending) : sPending[i] \in Call /\ sPending[i] <= made
        <5>1. \A i \in 1 .. Len(sPending) : sPending[i] \in Call
          BY <1>0 DEF QueueTypes
        <5> QED
          BY <5>1 DEF LineInv, InLine, InQueue
      <4>2. /\ Len(sPending) \in Nat /\ Len(sPending') = Len(sPending) + 1
            /\ sPending'[Len(sPending) + 1] = made + 1
            /\ \A i \in 1 .. Len(sPending) : sPending'[i] = sPending[i]
        BY <1>0, <2>1, <2>3 DEF QueueTypes
      <4>3. \A i, j \in 1 .. Len(sPending) : i < j => sPending[i] < sPending[j]
        BY DEF LineInv
      <4> SUFFICES ASSUME NEW i \in 1 .. Len(sPending'), NEW j \in 1 .. Len(sPending'), i < j
                   PROVE  sPending'[i] < sPending'[j]
        OBVIOUS
      <4>4. i \in 1 .. Len(sPending)
        BY <4>2
      <4>5. CASE j \in 1 .. Len(sPending)
        BY <4>2, <4>3, <4>4, <4>5
      <4>6. CASE j = Len(sPending) + 1
        <5>1. sPending[i] \in Nat /\ sPending[i] <= made
          BY <1>0, <4>1, <4>4
        <5> QED
          BY <2>1, <4>2, <4>4, <4>6, <5>1
      <4> QED
        BY <4>2, <4>5, <4>6
    <3> QED
      BY <1>0, <2>1, <2>2, <2>3, <3>1, <3>2, <3>3 DEF LineInv, InLine
  <2>4. CASE answer' = [answer EXCEPT ![made'] = Failed] /\ UNCHANGED sPending
    <3>1. \A c \in Call : InQueue(c)' <=> InQueue(c)
      BY <2>4 DEF InQueue
    <3>2. \A c \in Call : answer'[c] = IF c = made' THEN Failed ELSE answer[c]
      BY <1>0, <2>1, <2>4 DEF QueueTypes
    <3>3. Failed # None
      OBVIOUS
    <3> QED
      BY <1>0, <2>1, <2>2, <2>4, <3>1, <3>2, <3>3 DEF LineInv, InLine
  <2> QED
    BY <1>1, <2>3, <2>4 DEF ServerCall
<1>2. CASE DrainServerResponses
  <2>1. /\ drained = None /\ drained' # None /\ Len(sCompleted) = 1
        /\ drained'.call = sCompleted[1].call /\ sCompleted' = <<>>
    BY <1>2, TakesResponse
  <2>5. \A c \in Call : /\ InDrain(c)' <=> InResponses(c)
                        /\ ~ InDrain(c) /\ ~ InResponses(c)'
    BY <2>1 DEF InDrain, InResponses
  <2>6. \A c \in Call : /\ InQueue(c)' <=> InQueue(c)
                        /\ InWorker(c)' <=> InWorker(c)
    BY <1>2 DEF DrainServerResponses, InQueue, InWorker, worker
  <2>7. UNCHANGED <<sPending, made, answer>>
    BY <1>2 DEF DrainServerResponses
  <2> QED
    BY <2>5, <2>6, <2>7, OneResponse DEF LineInv, InLine
<1>3. CASE Callback
  <2>1. drained # None /\ drained.call \in Call /\ drained.body \in {Failed, drained.call}
    BY <1>0, <1>3 DEF Callback, Response, BufferInv, QueueTypes
  <2>2. \A c \in Call : answer'[c] = IF c = drained.call THEN drained.body ELSE answer[c]
    BY <1>0, <1>3, <2>1 DEF Callback, QueueTypes
  <2>3. \A c \in Call : ~ InDrain(c)' /\ (InDrain(c) <=> c = drained.call)
    BY <1>3, <2>1 DEF Callback, InDrain
  <2>4. \A c \in Call : /\ InQueue(c)' <=> InQueue(c)
                        /\ InWorker(c)' <=> InWorker(c)
                        /\ InResponses(c)' <=> InResponses(c)
    BY <1>3 DEF Callback, InQueue, InWorker, InResponses, queues, worker
  <2>5. drained.body # None /\ UNCHANGED <<sPending, made>>
    BY <1>3, <2>1 DEF Callback, queues
  <2>6. \A c \in Call : InLine(c)' <=> InLine(c) /\ c # drained.call
    <3>1. InDrain(drained.call)
      BY <2>1, <2>3
    <3>2. ~ (drained.call < drained.call)
      <4>1. drained.call \in Nat
        BY <1>0, <2>1
      <4> QED
        BY <4>1
    <3> QED
      BY <2>1, <2>3, <2>4, <3>1, <3>2 DEF LineInv, InLine
  <2>7. drained.call <= made
    BY <2>1, <2>3 DEF LineInv, InLine
  <2>8. \A c \in Call : c > made => answer'[c] = None
    BY <1>0, <2>1, <2>2, <2>7 DEF LineInv, QueueTypes
  <2>9. \A c \in Call : InLine(c)' <=> c <= made /\ answer'[c] = None
    BY <2>1, <2>2, <2>5, <2>6 DEF LineInv
  <2> QED
    BY <2>3, <2>4, <2>5, <2>8, <2>9 DEF LineInv
<1>4. ASSUME NEW b \in Badge, BadgeFindOrQueue(b) PROVE LineInv'
  BY <1>4, LineStays DEF BadgeFindOrQueue, queues, worker, calls, InWorker
<1>5. CASE TakeCall
  <2>1. /\ sPending # <<>> /\ held' = sPending[1] /\ held' \in Call /\ at = "top" /\ at' = "request"
        /\ UNCHANGED <<sCompleted, drained, made, answer>> /\ sCompleted = <<>>
    BY <1>0, <1>5 DEF TakeCall, CanTake, QueueTypes, BufferInv, calls
  <2>2. /\ Len(sPending') = Len(sPending) - 1
        /\ \A i \in 1 .. Len(sPending') : sPending'[i] = sPending[i + 1]
    BY <1>0, <1>5, <2>1 DEF TakeCall, QueueTypes
  <2>3. Len(sPending) \in Nat \ {0} /\ \A i \in 1 .. Len(sPending) : sPending[i] \in Call
    BY <1>0, <2>1 DEF QueueTypes
  <2>4. \A c \in Call : InQueue(c) <=> InQueue(c)' \/ c = held'
    <3> SUFFICES ASSUME NEW c \in Call PROVE InQueue(c) <=> InQueue(c)' \/ c = held'
      OBVIOUS
    <3>1. ASSUME NEW i \in 1 .. Len(sPending), sPending[i] = c PROVE InQueue(c)' \/ c = held'
      <4>1. CASE i = 1
        BY <2>1, <3>1, <4>1
      <4>2. CASE i # 1
        <5>1. i - 1 \in 1 .. Len(sPending') /\ sPending'[i - 1] = sPending[i]
          BY <2>2, <2>3, <4>2
        <5> QED
          BY <3>1, <5>1 DEF InQueue
      <4> QED
        BY <4>1, <4>2
    <3>2. ASSUME NEW i \in 1 .. Len(sPending'), sPending'[i] = c PROVE InQueue(c)
      <4>1. i + 1 \in 1 .. Len(sPending) /\ sPending[i + 1] = c
        BY <2>2, <2>3, <3>2
      <4> QED
        BY <4>1 DEF InQueue
    <3> QED
      BY <2>1, <2>3, <3>1, <3>2 DEF InQueue
  <2>5. \A c \in Call : InQueue(c)' => held' < c
    <3> SUFFICES ASSUME NEW i \in 1 .. Len(sPending') PROVE sPending[1] < sPending[i + 1]
      BY <2>1, <2>2 DEF InQueue
    <3> QED
      BY <2>2, <2>3 DEF LineInv
  <2>6. \A i, j \in 1 .. Len(sPending') : i < j => sPending'[i] < sPending'[j]
    <3> SUFFICES ASSUME NEW i \in 1 .. Len(sPending'), NEW j \in 1 .. Len(sPending'), i < j
                 PROVE  sPending[i + 1] < sPending[j + 1]
      BY <2>2
    <3> QED
      BY <2>2, <2>3 DEF LineInv
  <2>7. \A c \in Call : /\ InWorker(c)' <=> c = held'
                        /\ InResponses(c)' <=> InResponses(c)
                        /\ InDrain(c)' <=> InDrain(c)
                        /\ ~ InWorker(c) /\ ~ InResponses(c)
    BY <2>1 DEF InWorker, InResponses, InDrain
  <2> QED
    BY <1>0, <2>1, <2>4, <2>5, <2>6, <2>7 DEF LineInv, InLine
<1>6. CASE RequestEnds
  BY <1>6, LineStays DEF RequestEnds, badges, calls, InWorker
<1>7. CASE Deliver
  <2>1. sCompleted = <<>> /\ held \in Call /\ at = "deliver" /\ at' = "wait"
    BY <1>0, <1>7 DEF Deliver, BufferInv, WorkerTypes
  <2>2. sCompleted' = <<[call |-> held, got |-> got]>>
    BY <1>7, <2>1 DEF Deliver
  <2>3. \A c \in Call : /\ InResponses(c)' <=> InWorker(c)
                        /\ ~ InResponses(c) /\ ~ InWorker(c)'
    BY <2>1, <2>2 DEF InResponses, InWorker
  <2>4. \A c \in Call : /\ InQueue(c)' <=> InQueue(c)
                        /\ InDrain(c)' <=> InDrain(c)
    BY <1>7 DEF Deliver, InQueue, InDrain, calls
  <2>5. UNCHANGED <<sPending, made, answer>>
    BY <1>7 DEF Deliver, calls
  <2> QED
    BY <2>3, <2>4, <2>5 DEF LineInv, InLine
<1>8. CASE Drained
  BY <1>8, LineStays DEF Drained, queues, badges, calls, InWorker
<1>9. ASSUME NEW b \in Badge, LoadNextBadge(b) PROVE LineInv'
  BY <1>9, LineStays DEF LoadNextBadge, queues, calls, InWorker
<1>10. CASE BadgeEnds
  <2>1. at = "badge" /\ at' \in {"publish", "top"}
    BY <1>10 DEF BadgeEnds
  <2> QED
    BY <1>10, <2>1, LineStays DEF BadgeEnds, calls, InWorker
<1>11. CASE BadgeReady
  BY <1>11, LineStays DEF BadgeReady, queues, calls, InWorker
<1>12. CASE UNCHANGED vars
  BY <1>12, LineStays DEF vars, queues, worker, calls, InWorker
<1> QED
  BY <1>1, <1>2, <1>3, <1>4, <1>5, <1>6, <1>7, <1>8, <1>9, <1>10, <1>11, <1>12
     DEF Next, ServerCallWorker

LEMMA LineAlways == Spec => [](BufferInv /\ LineInv)
  BY BufferInit, BufferStep, LineInit, LineStep, PTL DEF Spec

\* No call is lost, none is in two places, none that was answered comes back.
THEOREM CallOnce == Spec => []EveryCallOnce
<1>1. ASSUME BufferInv, LineInv PROVE EveryCallOnce
  <2> SUFFICES ASSUME NEW c \in Call
               PROVE  LET there == <<InQueue(c), InWorker(c), InResponses(c), InDrain(c)>> IN
                        IF c <= made /\ answer[c] = None
                          THEN \E p \in 1 .. 4 : \A q \in 1 .. 4 : there[q] <=> q = p
                          ELSE \A q \in 1 .. 4 : ~ there[q]
    BY DEF EveryCallOnce
  <2>1. InLine(c) <=> c <= made /\ answer[c] = None
    BY <1>1 DEF LineInv
  <2>2. ~ (c < c)
    BY DEF Call
  <2>3. /\ InQueue(c) => ~ InWorker(c) /\ ~ InResponses(c) /\ ~ InDrain(c)
        /\ InDrain(c) => ~ InWorker(c) /\ ~ InResponses(c)
    BY <1>1, <2>2 DEF LineInv
  <2>4. InResponses(c) => ~ InWorker(c)
    BY <1>1, OneResponse
  <2> QED
    BY <2>1, <2>3, <2>4 DEF InLine
<1> QED
  BY <1>1, LineAlways, PTL

\* Every call has one answer, its own.
THEOREM EachAnswered == Spec => []EachCallItsAnswer
  BY OwnBytes, CallOnce, PTL DEF EachCallItsAnswer

\* A response is handed over only when no earlier call is still to be answered.
THEOREM InOrder == Spec => AnsweredInOrder
<1>1. ASSUME BufferInv, LineInv, [Next]_vars
      PROVE  [\A c \in Call : InDrain(c) /\ answer'[c] # None =>
                \A b \in Call : b < c => answer[b] # None]_vars
  <2> SUFFICES ASSUME NEW c \in Call, InDrain(c), NEW b \in Call, b < c, answer[b] = None PROVE FALSE
    OBVIOUS
  <2>1. c <= made
    BY <1>1 DEF LineInv, InLine
  <2>2. InLine(b)
    BY <1>1, <2>1 DEF LineInv, Call, BufferInv, QueueTypes
  <2> QED
    BY <1>1, <2>2 DEF LineInv, InLine, InDrain, Call
<1> QED
  BY <1>1, LineAlways, PTL DEF AnsweredInOrder, Spec
=============================================================================
