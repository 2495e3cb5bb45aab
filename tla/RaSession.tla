----------------------------- MODULE RaSession -----------------------------
(***************************************************************************)
(* The RetroAchievements session                                           *)
(* (platform/3ds/source/port_retroachievements_3ds.c): the login, the      *)
(* identification of the game with its paced retries, and the player, who  *)
(* switches achievements on and off or logs in at any moment.              *)
(*                                                                         *)
(* Calls to the server are what RaServerCalls says: each is answered once, *)
(* in order, some time later, or at once, with a failure, when its queue   *)
(* is full, which it may be at any time.  Of rcheevos (rc_client.c) are    *)
(* modelled the user's state, the game, the calls behind a login (one) and *)
(* a load (two), what a load that failed leaves behind, and what rcheevos  *)
(* asks of itself while a game is loaded, pings and unlocks, one of each   *)
(* at a time.  rcheevos would refuse or put off a load before the login:   *)
(* that it is not asked for one is AsksOnlyWhenItMay.                      *)
(***************************************************************************)
EXTENDS Naturals, Sequences

CONSTANTS
  Account,
  None,
  RA_LOAD_RETRY_FRAMES, RA_LOAD_MAX_ATTEMPTS,
  MaxTouches       \* bound: what the player does in one run of the program

ASSUME RaSessionAssumption ==
  /\ None \notin Account
  /\ {RA_LOAD_RETRY_FRAMES, RA_LOAD_MAX_ATTEMPTS} \subseteq Nat \ {0}
  /\ MaxTouches \in Nat

VARIABLES
  sRAEnabled, sRAStatus,
  sRAUsername, sRAToken,  \* as in mzm3ds.ini; a token is the account it was given to
  user, as,               \* rcheevos: "none", "requested" or "in"; the account that is
  game,                   \* rcheevos has the game loaded
  unknownRom,             \* rcheevos remembers that the server does not know the ROM
  unpinged,               \* a frame of the game has run since the last ping
  owed, unreachable,      \* an unlock could not be delivered, and is to be sent again; the
                          \* player was told so
  gRomData,               \* the ROM is mapped
  sLoadInFlight, sLoadRetryDelay, sLoadAttempts,
  calls,                  \* calls that wait for their answer, oldest first
  touches

account == <<sRAUsername, sRAToken>>
own == <<unpinged, owed, unreachable>>
client == <<user, as, game, unknownRom, own>>
load == <<sLoadInFlight, sLoadRetryDelay, sLoadAttempts>>
vars == <<sRAEnabled, sRAStatus, account, client, gRomData, load, calls, touches>>

\* The two calls of the load rcheevos is at; the session call of a load that had failed
\* already, and a call of a load that was aborted; what rcheevos asks of itself.
LoadCalls == {"sets", "session"}
DeadCalls == {"left", "dropped"}
LoginCall == [for : {"login"}, who : Account]
AwardCall == [for : {"award"}, again : BOOLEAN]
Calls == LoginCall \cup AwardCall \cup [for : LoadCalls \cup DeadCalls \cup {"ping"}]
Waiting(q, kinds) == \E i \in 1 .. Len(q) : q[i].for \in kinds
Status == {"DISABLED", "OFFLINE", "CONNECTING", "CONNECTED", "ERROR", "NO_ACCOUNT"}

-----------------------------------------------------------------------------
(* Login. *)

\* LoginCallback with an error, after rcheevos has forgotten the user.
LoginFailed == user' = "none" /\ sRAStatus' \in {"ERROR", "OFFLINE"}

\* BeginLogin, with a name and a password or token: CONNECTING, or no room for the call;
\* rcheevos refuses a second login while one is under way.
BeginLogin(who) ==
  \/ user = "requested" /\ sRAStatus' = "OFFLINE" /\ UNCHANGED <<user, calls>>
  \/ /\ user # "requested"
     /\ user' = "requested" /\ sRAStatus' = "CONNECTING"
     /\ calls' = Append(calls, [for |-> "login", who |-> who])
  \/ user # "requested" /\ user' = "none" /\ sRAStatus' = "OFFLINE" /\ UNCHANGED calls

CanLogin(name, token) == name # None /\ token # None

\* Port_RA_Init, after Port_Config_Load: what it makes of the switch, the name and the token.
Starting(enabled, name, token) ==
  IF enabled /\ CanLogin(name, token)
  THEN [user |-> "requested", status |-> "CONNECTING", calls |-> <<[for |-> "login", who |-> name]>>]
  ELSE [user |-> "none", status |-> IF enabled THEN "NO_ACCOUNT" ELSE "DISABLED", calls |-> <<>>]

Init ==
  /\ sRAEnabled \in BOOLEAN /\ sRAUsername \in Account \cup {None} /\ sRAToken = sRAUsername
  /\ LET start == Starting(sRAEnabled, sRAUsername, sRAToken) IN
       user = start.user /\ sRAStatus = start.status /\ calls = start.calls
  /\ as = None /\ game = FALSE /\ unknownRom = FALSE /\ gRomData = FALSE
  /\ unpinged = FALSE /\ owed = FALSE /\ unreachable = FALSE
  /\ sLoadInFlight = FALSE /\ sLoadRetryDelay = 0 /\ sLoadAttempts = 0 /\ touches = 0

\* The program is closed and started again; mzm3ds.ini is saved after each change below.
Restart ==
  /\ UNCHANGED <<sRAEnabled, account>>
  /\ LET start == Starting(sRAEnabled, sRAUsername, sRAToken) IN
       user' = start.user /\ sRAStatus' = start.status /\ calls' = start.calls
  /\ as' = None /\ game' = FALSE /\ unknownRom' = FALSE /\ gRomData' = FALSE
  /\ unpinged' = FALSE /\ owed' = FALSE /\ unreachable' = FALSE
  /\ sLoadInFlight' = FALSE /\ sLoadRetryDelay' = 0 /\ sLoadAttempts' = 0 /\ touches' = 0

-----------------------------------------------------------------------------
(* The load of the game. *)

\* LoadGameCallback with anything but success; an unknown ROM is not asked about again.
LoadFailed(unknown) ==
  /\ sLoadInFlight' = FALSE /\ sLoadRetryDelay' = RA_LOAD_RETRY_FRAMES
  /\ sLoadAttempts' = IF unknown THEN RA_LOAD_MAX_ATTEMPTS ELSE sLoadAttempts

\* Seeded defect: a load that is under way is not looked at.
DefectLoadsAgain == ~ game /\ sLoadRetryDelay = 0 /\ sLoadAttempts < RA_LOAD_MAX_ATTEMPTS /\ gRomData

MayLoad == ~ sLoadInFlight /\ ~ game /\ sLoadRetryDelay = 0 /\ sLoadAttempts < RA_LOAD_MAX_ATTEMPTS /\ gRomData

\* rc_client_abort_load_in_progress: the answers of the load it was at are of no use.
Aborted(q) == [i \in 1 .. Len(q) |-> IF q[i].for \in LoadCalls THEN [for |-> "dropped"] ELSE q[i]]

\* BeginLoadGame on the calls that wait: the first of the two calls, but the callback of a
\* load it aborts clears the guard; or its own callback at once, as for a ROM that is known
\* to be unknown.
BeginLoadGame(waiting, attempts) ==
  \/ /\ ~ unknownRom /\ calls' = Append(Aborted(waiting), [for |-> "sets"])
     /\ sLoadAttempts' = attempts + 1
     /\ sLoadInFlight' = ~ Waiting(waiting, LoadCalls)
     /\ sLoadRetryDelay' = IF Waiting(waiting, LoadCalls) THEN RA_LOAD_RETRY_FRAMES ELSE 0
  \/ /\ calls' = Aborted(waiting)
     /\ sLoadAttempts' = IF unknownRom THEN RA_LOAD_MAX_ATTEMPTS ELSE attempts + 1
     /\ sLoadInFlight' = FALSE /\ sLoadRetryDelay' = RA_LOAD_RETRY_FRAMES

-----------------------------------------------------------------------------
(* The frame: Port_RA_Update and Port_RA_EvaluateTriggers. *)

Answered(what) == calls # <<>> /\ Head(calls).for = what

\* Seeded defect: a refusal is not shown.
DefectRefusalIsSilent ==
  /\ Answered("login") /\ calls' = Tail(calls)
  /\ user' = "none" /\ UNCHANGED sRAStatus
  /\ UNCHANGED <<sRAEnabled, account, as, game, unknownRom, own, gRomData, load, touches>>

LoginRefused ==
  /\ Answered("login") /\ calls' = Tail(calls)
  /\ LoginFailed
  /\ UNCHANGED <<sRAEnabled, account, as, game, unknownRom, own, gRomData, load, touches>>

\* Seeded defect: the name stays as the player typed it.
DefectKeepsTheName(who) == sRAToken' = who /\ UNCHANGED sRAUsername

\* The name and the token the server gave, saved for the next launch.
TakesAccount(who) == sRAUsername' = who /\ sRAToken' = who

\* LoginCallback: a fresh set of attempts, and the first of them.
LoginAccepted ==
  /\ Answered("login")
  /\ TakesAccount(Head(calls).who) /\ as' = Head(calls).who
  /\ user' = "in" /\ sRAStatus' = "CONNECTED"
  /\ IF ~ sLoadInFlight /\ ~ game /\ gRomData
     THEN BeginLoadGame(Tail(calls), 0)
     ELSE /\ calls' = Tail(calls)
          /\ sLoadRetryDelay' = 0 /\ sLoadAttempts' = 0 /\ UNCHANGED sLoadInFlight
  /\ UNCHANGED <<sRAEnabled, game, unknownRom, own, gRomData, touches>>

\* An error, or no room for the second call; or a ROM the server does not know.
LoadRefused ==
  /\ \E what \in LoadCalls : Answered(what)
  /\ calls' = Tail(calls)
  /\ \E unknown \in {FALSE, Head(calls).for = "sets"} :
       LoadFailed(unknown) /\ unknownRom' = (unknownRom \/ unknown)
  /\ UNCHANGED <<sRAEnabled, sRAStatus, account, user, as, game, own, gRomData, touches>>

\* The sets are there: a session for them.  The game may turn out to have none, with the
\* session asked for already: the load has failed, and that call is left.
SetsCome ==
  /\ Answered("sets")
  /\ \/ calls' = Append(Tail(calls), [for |-> "session"]) /\ UNCHANGED load
     \/ calls' = Append(Tail(calls), [for |-> "left"]) /\ LoadFailed(FALSE)
  /\ UNCHANGED <<sRAEnabled, sRAStatus, account, client, gRomData, touches>>

\* The game that is loaded is to be pinged once frames of it have run.
GameLoaded ==
  /\ Answered("session") /\ calls' = Tail(calls)
  /\ game' = TRUE /\ sLoadInFlight' = FALSE /\ sLoadRetryDelay' = RA_LOAD_RETRY_FRAMES
  /\ UNCHANGED <<sRAEnabled, sRAStatus, account, user, as, unknownRom, own, gRomData, sLoadAttempts, touches>>

DeadAnswered ==
  /\ \E what \in DeadCalls : Answered(what)
  /\ calls' = Tail(calls)
  /\ UNCHANGED <<sRAEnabled, sRAStatus, account, client, gRomData, load, touches>>

\* A failure for the session call of a load that had failed: rcheevos frees the load and then
\* uses it.  What the memory holds decides: the callback a second time, or the program ends
\* (Restart).
LeftRefused ==
  /\ Answered("left") /\ calls' = Tail(calls) /\ LoadFailed(FALSE)
  /\ UNCHANGED <<sRAEnabled, sRAStatus, account, client, gRomData, touches>>

DelayPasses ==
  /\ sLoadRetryDelay > 0 /\ sLoadRetryDelay' = sLoadRetryDelay - 1
  /\ UNCHANGED <<sRAEnabled, sRAStatus, account, client, gRomData, sLoadInFlight, sLoadAttempts, calls, touches>>

\* Seeded defect: nor is the login.
DefectIgnoresTheLogin ==
  /\ sRAEnabled /\ MayLoad /\ BeginLoadGame(calls, sLoadAttempts)
  /\ UNCHANGED <<sRAEnabled, sRAStatus, account, client, gRomData, touches>>

EvaluateTriggers ==
  /\ sRAEnabled /\ sRAStatus = "CONNECTED" /\ MayLoad /\ BeginLoadGame(calls, sLoadAttempts)
  /\ UNCHANGED <<sRAEnabled, sRAStatus, account, client, gRomData, touches>>

-----------------------------------------------------------------------------
(* What rcheevos asks of itself: rc_client_do_frame while achievements are switched on, and   *)
(* rc_client_idle in every frame, switched on or not.                                         *)

Asks(what, call) == ~ Waiting(calls, {what}) /\ calls' = Append(calls, call)

DoFrame ==
  /\ sRAEnabled /\ game /\ ~ unpinged /\ unpinged' = TRUE
  /\ UNCHANGED <<sRAEnabled, sRAStatus, account, user, as, game, unknownRom, owed, unreachable,
                gRomData, load, calls, touches>>

\* An achievement: sent, or, with no room twice, to be sent again.
Unlocks ==
  /\ sRAEnabled /\ game /\ ~ owed /\ ~ unreachable
  /\ \/ Asks("award", [for |-> "award", again |-> FALSE]) /\ UNCHANGED owed
     \/ ~ Waiting(calls, {"award"}) /\ owed' = TRUE /\ UNCHANGED calls
  /\ UNCHANGED <<sRAEnabled, sRAStatus, account, user, as, game, unknownRom, unpinged, unreachable,
                gRomData, load, touches>>

\* Seeded defect: the game is pinged whether frames of it run or not.
DefectPingsOn ==
  /\ game /\ Asks("ping", [for |-> "ping"]) /\ UNCHANGED unpinged
  /\ UNCHANGED <<sRAEnabled, sRAStatus, account, user, as, game, unknownRom, owed, unreachable,
                gRomData, load, touches>>

\* rc_client_ping.
Pings ==
  /\ game /\ unpinged /\ unpinged' = FALSE
  /\ Asks("ping", [for |-> "ping"]) \/ UNCHANGED calls
  /\ UNCHANGED <<sRAEnabled, sRAStatus, account, user, as, game, unknownRom, owed, unreachable,
                gRomData, load, touches>>

\* rc_client_award_achievement_retry, after the player was told.
RetriesUnlock ==
  /\ owed /\ unreachable
  /\ Asks("award", [for |-> "award", again |-> TRUE])
  /\ UNCHANGED <<sRAEnabled, sRAStatus, account, client, gRomData, load, touches>>

PingAnswered ==
  /\ Answered("ping") /\ calls' = Tail(calls)
  /\ UNCHANGED <<sRAEnabled, sRAStatus, account, client, gRomData, load, touches>>

\* The server has the unlock, or will not have it; nobody answers, and it is sent again, once
\* at once and then later.
AwardAnswered ==
  /\ Answered("award")
  /\ \/ owed' \in {FALSE, Head(calls).again} /\ calls' = Tail(calls)
     \/ /\ ~ Head(calls).again /\ UNCHANGED owed
        /\ calls' = Append(Tail(calls), [for |-> "award", again |-> TRUE])
  /\ UNCHANGED <<sRAEnabled, sRAStatus, account, user, as, game, unknownRom, unpinged, unreachable,
                gRomData, load, touches>>

\* EventHandler: an unlock could not be delivered; now it was.
Disconnected ==
  /\ owed /\ ~ unreachable /\ unreachable' = TRUE /\ sRAStatus' = "OFFLINE"
  /\ UNCHANGED <<sRAEnabled, account, user, as, game, unknownRom, unpinged, owed, gRomData, load, calls, touches>>
Reconnected ==
  /\ ~ owed /\ unreachable /\ unreachable' = FALSE /\ sRAStatus' = "CONNECTED"
  /\ UNCHANGED <<sRAEnabled, account, user, as, game, unknownRom, unpinged, owed, gRomData, load, calls, touches>>

RomMapped ==
  /\ ~ gRomData /\ gRomData' = TRUE
  /\ UNCHANGED <<sRAEnabled, sRAStatus, account, client, load, calls, touches>>

-----------------------------------------------------------------------------
(* The player: the rows of the settings. *)

Touches == touches < MaxTouches /\ touches' = touches + 1

SwitchOff ==
  /\ Touches /\ sRAEnabled
  /\ sRAEnabled' = FALSE /\ sRAStatus' = "DISABLED"
  /\ UNCHANGED <<account, client, gRomData, load, calls>>

SwitchOn ==
  /\ Touches /\ ~ sRAEnabled
  /\ sRAEnabled' = TRUE
  /\ IF CanLogin(sRAUsername, sRAToken)
     THEN BeginLogin(sRAUsername)
     ELSE sRAStatus' = "NO_ACCOUNT" /\ UNCHANGED <<user, calls>>
  /\ UNCHANGED <<account, as, game, unknownRom, own, gRomData, load>>

\* A name and a password are typed.
PromptLogin ==
  /\ Touches
  /\ \E who \in Account : sRAUsername' = who /\ BeginLogin(who)
  /\ sRAEnabled' = TRUE
  /\ UNCHANGED <<sRAToken, as, game, unknownRom, own, gRomData, load>>

Answer ==
  \/ LoginRefused \/ LoginAccepted
  \/ LoadRefused \/ SetsCome \/ GameLoaded \/ DeadAnswered \/ LeftRefused
  \/ PingAnswered \/ AwardAnswered
Frame ==
  \/ Answer \/ DelayPasses \/ EvaluateTriggers
  \/ DoFrame \/ Unlocks \/ Pings \/ RetriesUnlock \/ Disconnected \/ Reconnected

Next ==
  \/ Frame \/ RomMapped
  \/ SwitchOff \/ SwitchOn \/ PromptLogin
  \/ Restart

Spec == Init /\ [][Next]_vars

\* Port_RA_Update and Port_RA_EvaluateTriggers run in every frame, the delay is counted even
\* while calls wait, and every call is answered (RaServerCalls!EveryCallAnswered).
FairSpec == Spec /\ WF_vars(Answer) /\ WF_vars(DelayPasses) /\ WF_vars(EvaluateTriggers)

-----------------------------------------------------------------------------
(* Properties. *)

\* Every variable keeps to its type; no more than RA_LOAD_MAX_ATTEMPTS loads follow a login.
AccountTypes ==
  /\ sRAEnabled \in BOOLEAN /\ sRAStatus \in Status
  /\ sRAUsername \in Account \cup {None} /\ sRAToken \in Account \cup {None}
  /\ user \in {"none", "requested", "in"} /\ as \in Account \cup {None}
GameTypes ==
  /\ game \in BOOLEAN /\ unknownRom \in BOOLEAN /\ gRomData \in BOOLEAN /\ sLoadInFlight \in BOOLEAN
  /\ unpinged \in BOOLEAN /\ owed \in BOOLEAN /\ unreachable \in BOOLEAN
CountTypes ==
  /\ sLoadRetryDelay \in 0 .. RA_LOAD_RETRY_FRAMES /\ sLoadAttempts \in 0 .. RA_LOAD_MAX_ATTEMPTS
  /\ touches \in 0 .. MaxTouches
TypeOK == AccountTypes /\ GameTypes /\ CountTypes /\ calls \in Seq(Calls)

Once(q, kinds) == \A i, j \in 1 .. Len(q) : q[i].for \in kinds /\ q[j].for \in kinds => i = j
InFlight == Waiting(calls, LoadCalls)
OneOfEach ==
  /\ Once(calls, {"login"}) /\ Once(calls, LoadCalls)
  /\ user = "requested" <=> Waiting(calls, {"login"})
  /\ sLoadInFlight => InFlight

\* "Guards against starting a second load while one is still in flight": rcheevos is at one
\* load and one login at most, and knows of the login; the guard is never set without a load
\* to clear it; and a load is never without the guard, unless rcheevos calls the callback of
\* a load that had failed a second time while the next load is under way.
OneInFlight ==
  /\ sLoadInFlight <=> InFlight
  /\ []OneOfEach
  /\ [][InFlight' /\ ~ sLoadInFlight' /\ (InFlight => sLoadInFlight) => LeftRefused]_vars

\* Whatever was typed, switched or refused meanwhile: while somebody is logged in, the name
\* and the token that are saved are theirs.
SavedIsLoggedIn == user = "in" => sRAUsername = as /\ sRAToken = as

\* The step sends a call of one of these kinds.
Sends(kinds) ==
  /\ calls' # calls /\ Len(calls') >= Len(calls)
  /\ calls'[Len(calls')].for \in kinds

\* rcheevos answers a load before the login with an error, which would cost an attempt: it is
\* asked for a load only while somebody is logged in.  Switched off, the session begins
\* nothing of itself but a ping and the unlocks it owes: what else is asked follows an answer
\* that was on its way.
AsksOnlyWhenItMay ==
  [][/\ Sends({"sets"}) => user' = "in"
     /\ ~ sRAEnabled /\ ~ sRAEnabled' /\ Sends({"login", "sets", "session", "left"}) => Answer
     /\ ~ sRAEnabled /\ Sends({"award"}) => owed \/ Answer]_vars

\* Switched off for good, it comes to rest: all that is asked any more is an unlock that
\* could not be delivered.
OffGoesQuiet == <>[]~ sRAEnabled => <>[](\A i \in 1 .. Len(calls) : calls[i].for = "award")

\* The status does not stay at CONNECTING; connected, the game is loaded in the end, or given
\* up after its attempts.
SessionSettles ==
  /\ sRAStatus = "CONNECTING" ~> sRAStatus # "CONNECTING"
  /\ sRAEnabled /\ sRAStatus = "CONNECTED" /\ gRomData ~>
       game \/ sLoadAttempts = RA_LOAD_MAX_ATTEMPTS \/ sRAStatus # "CONNECTED" \/ ~ sRAEnabled \/ ~ gRomData
=============================================================================
