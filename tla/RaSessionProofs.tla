-------------------------- MODULE RaSessionProofs --------------------------
(***************************************************************************)
(* What holds of RaSession for every set of accounts, delay, number of     *)
(* attempts and number of touches.                                         *)
(***************************************************************************)
EXTENDS RaSession, SequenceTheorems, TLAPS

-----------------------------------------------------------------------------
(* Calls that wait. *)

Login(c) == c.for = "login"
Load(c) == c.for \in LoadCalls
HasLogin(q) == Waiting(q, {"login"})
HasLoad(q) == Waiting(q, LoadCalls)
HasAward(q) == Waiting(q, {"award"})
Orderly(q) == q \in Seq(Calls) /\ Once(q, {"login"}) /\ Once(q, LoadCalls)

LEMMA Kinds ==
  /\ \A c \in Calls : Login(c) => c.who \in Account /\ ~ Load(c)
  /\ \A who \in Account : [for |-> "login", who |-> who] \in Calls
  /\ \A what \in LoadCalls \cup DeadCalls \cup {"ping"} : [for |-> what] \in Calls
  /\ \A again \in BOOLEAN : [for |-> "award", again |-> again] \in Calls
  BY DEF Calls, LoginCall, AwardCall, LoadCalls, DeadCalls, Login, Load

LEMMA JoinsKind ==
  ASSUME NEW q \in Seq(Calls), NEW c \in Calls, NEW K
  PROVE  LET r == Append(q, c) IN
           /\ r \in Seq(Calls)
           /\ Waiting(r, K) <=> Waiting(q, K) \/ c.for \in K
           /\ Once(q, K) /\ ~ (Waiting(q, K) /\ c.for \in K) => Once(r, K)
  <1> DEFINE r == Append(q, c)
  <1>1. Len(q) \in Nat /\ r \in Seq(Calls) /\ Len(r) = Len(q) + 1
    OBVIOUS
  <1>2. \A i \in 1 .. Len(q) : i \in 1 .. Len(r) /\ r[i] = q[i]
    BY <1>1
  <1>3. Len(r) \in 1 .. Len(r) /\ r[Len(r)] = c
    BY <1>1
  <1>4. \A i \in 1 .. Len(r) : i \in 1 .. Len(q) \/ i = Len(r)
    BY <1>1
  <1>5. Waiting(r, K) <=> Waiting(q, K) \/ c.for \in K
    BY <1>2, <1>3, <1>4 DEF Waiting
  <1>6. ASSUME Once(q, K), ~ (Waiting(q, K) /\ c.for \in K)
        PROVE  Once(r, K)
    BY <1>2, <1>3, <1>4, <1>6 DEF Once, Waiting
  <1> QED BY <1>1, <1>5, <1>6

LEMMA LeavesKind ==
  ASSUME NEW q \in Seq(Calls), q # <<>>, NEW K
  PROVE  LET c == Head(q) r == Tail(q) IN
           /\ c \in Calls /\ r \in Seq(Calls)
           /\ Waiting(q, K) <=> Waiting(r, K) \/ c.for \in K
           /\ Once(q, K) => Once(r, K) /\ ~ (Waiting(r, K) /\ c.for \in K)
  <1> DEFINE c == Head(q)
             r == Tail(q)
  <1>1. /\ c = q[1] /\ c \in Calls /\ r \in Seq(Calls) /\ Len(q) \in Nat /\ Len(q) >= 1
        /\ Len(r) = Len(q) - 1 /\ \A i \in 1 .. Len(r) : r[i] = q[i + 1]
    BY HeadTailProperties, EmptySeq, LenProperties, ElementOfSeq
  <1>2. \A i \in 1 .. Len(r) : i + 1 \in 1 .. Len(q) /\ r[i] = q[i + 1] /\ i + 1 # 1
    BY <1>1
  <1>3. \A i \in 1 .. Len(q) : i = 1 \/ (i - 1 \in 1 .. Len(r) /\ q[i] = r[i - 1])
    BY <1>1
  <1>4. 1 \in 1 .. Len(q)
    BY <1>1
  <1>5. \A i, j \in 1 .. Len(r) : i + 1 = j + 1 => i = j
    BY <1>1
  <1>6. Waiting(q, K) <=> Waiting(r, K) \/ c.for \in K
    BY <1>1, <1>2, <1>3, <1>4 DEF Waiting
  <1>7. ASSUME Once(q, K)
        PROVE  Once(r, K) /\ ~ (Waiting(r, K) /\ c.for \in K)
    <2>1. Once(r, K)
      BY <1>2, <1>5, <1>7 DEF Once
    <2>2. ASSUME NEW i \in 1 .. Len(r), r[i].for \in K, c.for \in K
          PROVE  FALSE
      BY <1>1, <1>2, <1>4, <1>7, <2>2 DEF Once
    <2> QED BY <2>1, <2>2 DEF Waiting
  <1> QED BY <1>1, <1>6, <1>7

\* A call may join if it is no second login and no second load.
LEMMA Joins ==
  ASSUME NEW q, Orderly(q), NEW c \in Calls,
         Login(c) => ~ HasLogin(q), Load(c) => ~ HasLoad(q)
  PROVE  LET r == Append(q, c) IN
           /\ Orderly(r)
           /\ HasLogin(r) <=> HasLogin(q) \/ Login(c)
           /\ HasLoad(r) <=> HasLoad(q) \/ Load(c)
           /\ HasAward(r) <=> HasAward(q) \/ c.for = "award"
  <1>1. Once(q, {"login"}) /\ Once(q, LoadCalls) /\ q \in Seq(Calls)
    BY DEF Orderly
  <1> QED BY <1>1, JoinsKind DEF Orderly, HasLogin, HasLoad, HasAward, Login, Load

\* The oldest call is answered.
LEMMA Leaves ==
  ASSUME NEW q, Orderly(q), q # <<>>
  PROVE  LET c == Head(q) r == Tail(q) IN
           /\ c \in Calls /\ Orderly(r)
           /\ HasLogin(q) <=> HasLogin(r) \/ Login(c)
           /\ HasLoad(q) <=> HasLoad(r) \/ Load(c)
           /\ HasAward(q) <=> HasAward(r) \/ c.for = "award"
           /\ Login(c) => ~ HasLogin(r)
           /\ Load(c) => ~ HasLoad(r)
  <1>1. Once(q, {"login"}) /\ Once(q, LoadCalls) /\ q \in Seq(Calls)
    BY DEF Orderly
  <1> QED BY <1>1, LeavesKind DEF Orderly, HasLogin, HasLoad, HasAward, Login, Load

\* The load rcheevos is at is aborted.
LEMMA Aborts ==
  ASSUME NEW q, Orderly(q)
  PROVE  LET r == Aborted(q) IN
           /\ Orderly(r) /\ ~ HasLoad(r)
           /\ HasLogin(r) <=> HasLogin(q)
           /\ HasAward(r) <=> HasAward(q)
           /\ Len(r) = Len(q)
  <1> DEFINE r == Aborted(q)
  <1>1. q \in Seq(Calls) /\ Len(q) \in Nat /\ \A i \in 1 .. Len(q) : q[i] \in Calls
    BY ElementOfSeq DEF Orderly
  <1>2. [for |-> "dropped"] \in Calls
    BY Kinds DEF DeadCalls
  <1>3. r = [i \in 1 .. Len(q) |-> IF q[i].for \in LoadCalls THEN [for |-> "dropped"] ELSE q[i]]
    BY DEF Aborted
  <1>4. \A i \in 1 .. Len(q) : r[i] = IF q[i].for \in LoadCalls THEN [for |-> "dropped"] ELSE q[i]
    BY <1>3
  <1>5. r \in [1 .. Len(q) -> Calls]
    BY <1>1, <1>2, <1>3
  <1>6. r \in Seq(Calls) /\ Len(r) = Len(q)
    BY <1>1, <1>5, SeqDef, LenProperties
  <1>7. \A i \in 1 .. Len(q) :
          /\ r[i].for \notin LoadCalls
          /\ Login(r[i]) <=> Login(q[i])
          /\ r[i].for = "award" <=> q[i].for = "award"
    BY <1>4 DEF LoadCalls, Login
  <1> QED
    BY <1>6, <1>7 DEF Orderly, Once, Waiting, HasLogin, HasLoad, HasAward, Login

-----------------------------------------------------------------------------
(* The inductive invariant. *)

\* The calls that wait are those rcheevos and the guard of the load know of; the account that
\* is logged in is the one that is saved; and CONNECTED is said of somebody who is logged in,
\* or of a game that is loaded already, the only one an unlock can be of.
Guards ==
  /\ user = "requested" <=> HasLogin(calls)
  /\ sLoadInFlight => HasLoad(calls)
  /\ HasAward(calls) => game
Connected == (sRAStatus = "CONNECTED" => user = "in" \/ game) /\ (owed \/ unreachable => game)
SInv ==
  AccountTypes /\ GameTypes /\ CountTypes /\ Orderly(calls) /\ Guards /\ SavedIsLoggedIn /\ Connected

\* A load that had the guard has it still.
GuardStays == (HasLoad(calls) => sLoadInFlight) => (HasLoad(calls') => sLoadInFlight')

Limits ==
  /\ \A n \in Nat : n < RA_LOAD_MAX_ATTEMPTS => n + 1 \in 0 .. RA_LOAD_MAX_ATTEMPTS
  /\ 0 \in 0 .. RA_LOAD_MAX_ATTEMPTS /\ RA_LOAD_MAX_ATTEMPTS \in 0 .. RA_LOAD_MAX_ATTEMPTS
  /\ 0 \in 0 .. RA_LOAD_RETRY_FRAMES /\ RA_LOAD_RETRY_FRAMES \in 0 .. RA_LOAD_RETRY_FRAMES
  /\ 0 \in 0 .. MaxTouches /\ 0 < RA_LOAD_MAX_ATTEMPTS

LEMMA Bounds == Limits
  BY RaSessionAssumption DEF Limits

LEMMA NoneWaits == Orderly(<<>>) /\ ~ HasLogin(<<>>) /\ ~ HasLoad(<<>>) /\ ~ HasAward(<<>>)
  BY EmptySeq DEF Orderly, Once, Waiting, HasLogin, HasLoad, HasAward

LEMMA OneWaits ==
  ASSUME NEW c \in Calls, Login(c)
  PROVE  Orderly(<<c>>) /\ HasLogin(<<c>>) /\ ~ HasLoad(<<c>>) /\ ~ HasAward(<<c>>)
  <1>1. <<c>> = Append(<<>>, c)
    OBVIOUS
  <1>2. ~ Load(c) /\ c.for # "award"
    BY Kinds DEF Login
  <1>3. LET r == Append(<<>>, c) IN
          Orderly(r) /\ HasLogin(r) /\ ~ HasLoad(r) /\ ~ HasAward(r)
    BY <1>2, NoneWaits, Joins
  <1> QED BY <1>1, <1>2, <1>3, NoneWaits

LEMMA Starts ==
  ASSUME NEW enabled \in BOOLEAN, NEW name, NEW token, name \in Account \cup {None}
  PROVE  LET start == Starting(enabled, name, token) IN
           /\ start.user \in {"none", "requested"} /\ start.status \in Status \ {"CONNECTED"}
           /\ Orderly(start.calls) /\ ~ HasLoad(start.calls) /\ ~ HasAward(start.calls)
           /\ start.user = "requested" <=> HasLogin(start.calls)
  <1> DEFINE start == Starting(enabled, name, token)
             c == [for |-> "login", who |-> name]
  <1>1. CASE enabled /\ CanLogin(name, token)
    <2>1. start = [user |-> "requested", status |-> "CONNECTING", calls |-> <<c>>]
      BY <1>1 DEF Starting
    <2>2. c \in Calls /\ Login(c)
      BY <1>1, Kinds DEF CanLogin, Login
    <2> QED BY <2>1, <2>2, OneWaits DEF Status
  <1>2. CASE ~ (enabled /\ CanLogin(name, token))
    <2>1. /\ start.user = "none" /\ start.calls = <<>>
          /\ start.status \in {"NO_ACCOUNT", "DISABLED"}
      BY <1>2 DEF Starting
    <2> QED BY <2>1, NoneWaits DEF Status
  <1> QED BY <1>1, <1>2

LEMMA LoadBegins ==
  ASSUME NEW q, Orderly(q), NEW n \in Nat, n < RA_LOAD_MAX_ATTEMPTS, BeginLoadGame(q, n)
  PROVE  /\ Orderly(calls') /\ sLoadInFlight' \in BOOLEAN
         /\ sLoadInFlight' => HasLoad(calls')
         /\ ~ HasLoad(q) => (HasLoad(calls') => sLoadInFlight')
         /\ HasLogin(calls') <=> HasLogin(q)
         /\ HasAward(calls') <=> HasAward(q)
         /\ sLoadRetryDelay' \in 0 .. RA_LOAD_RETRY_FRAMES
         /\ sLoadAttempts' \in 0 .. RA_LOAD_MAX_ATTEMPTS
  <1> DEFINE c == [for |-> "sets"]
  <1>1. c \in Calls /\ ~ Login(c) /\ Load(c) /\ c.for # "award"
    BY Kinds DEF LoadCalls, Login, Load
  <1>2. sLoadAttempts' \in 0 .. RA_LOAD_MAX_ATTEMPTS /\ sLoadRetryDelay' \in 0 .. RA_LOAD_RETRY_FRAMES
    BY Bounds DEF Limits, BeginLoadGame
  <1>3. CASE sLoadInFlight' = (~ Waiting(q, LoadCalls)) /\ calls' = Append(Aborted(q), c)
    <2>1. /\ Orderly(calls') /\ HasLoad(calls')
          /\ HasLogin(calls') <=> HasLogin(q)
          /\ HasAward(calls') <=> HasAward(q)
      BY <1>1, <1>3, Aborts, Joins
    <2>2. sLoadInFlight' = (~ HasLoad(q))
      BY <1>3 DEF HasLoad
    <2> QED BY <1>2, <2>1, <2>2
  <1>4. CASE sLoadInFlight' = FALSE /\ calls' = Aborted(q)
    BY <1>2, <1>4, Aborts
  <1> QED BY <1>3, <1>4 DEF BeginLoadGame

LEMMA LoginBegins ==
  ASSUME SInv, NEW who \in Account, BeginLogin(who)
  PROVE  /\ Orderly(calls') /\ (user' = "requested" <=> HasLogin(calls'))
         /\ HasLoad(calls') <=> HasLoad(calls)
         /\ HasAward(calls') <=> HasAward(calls)
         /\ user' \in {"none", "requested"} /\ sRAStatus' \in {"CONNECTING", "OFFLINE"}
  <1> DEFINE c == [for |-> "login", who |-> who]
  <1>1. c \in Calls /\ Login(c) /\ ~ Load(c) /\ c.for # "award"
    BY Kinds DEF Login
  <1>2. CASE UNCHANGED calls
    BY <1>2 DEF BeginLogin, SInv, Guards
  <1>3. CASE user # "requested" /\ calls' = Append(calls, c) /\ user' = "requested" /\ sRAStatus' = "CONNECTING"
    BY <1>1, <1>3, Joins DEF SInv, Guards
  <1> QED BY <1>2, <1>3 DEF BeginLogin

-----------------------------------------------------------------------------
(* Every step keeps it. *)

LEMMA SessionFirst == Init => SInv
  <1> SUFFICES ASSUME Init PROVE SInv
    OBVIOUS
  <1> USE DEF Init
  <1>1. /\ user \in {"none", "requested"} /\ sRAStatus \in Status \ {"CONNECTED"}
        /\ Orderly(calls) /\ ~ HasLoad(calls) /\ ~ HasAward(calls)
        /\ (user = "requested" <=> HasLogin(calls))
    BY Starts
  <1>2. AccountTypes
    BY <1>1 DEF AccountTypes
  <1>3. GameTypes
    BY DEF GameTypes
  <1>4. CountTypes
    BY Bounds DEF Limits, CountTypes
  <1> QED BY <1>1, <1>2, <1>3, <1>4 DEF SInv, Guards, SavedIsLoggedIn, Connected

LEMMA RestartKeeps ==
  ASSUME SInv, Restart
  PROVE  SInv' /\ GuardStays
  <1> USE DEF Restart
  <1>1. /\ user' \in {"none", "requested"} /\ sRAStatus' \in Status \ {"CONNECTED"}
        /\ Orderly(calls') /\ ~ HasLoad(calls') /\ ~ HasAward(calls')
        /\ (user' = "requested" <=> HasLogin(calls'))
    BY Starts DEF SInv, AccountTypes
  <1>2. AccountTypes'
    BY <1>1 DEF SInv, AccountTypes, account
  <1>3. GameTypes'
    BY DEF GameTypes
  <1>4. CountTypes'
    BY Bounds DEF Limits, CountTypes
  <1> QED BY <1>1, <1>2, <1>3, <1>4 DEF SInv, Guards, GuardStays, SavedIsLoggedIn, Connected

LEMMA LoginAnswers ==
  ASSUME SInv, LoginRefused \/ LoginAccepted
  PROVE  SInv' /\ GuardStays
  <1> DEFINE c == Head(calls)
             r == Tail(calls)
  <1>1. Answered("login")
    BY DEF LoginRefused, LoginAccepted
  <1>2. Login(c) /\ calls # <<>> /\ Orderly(calls)
    BY <1>1 DEF Answered, Login, SInv
  <1>3. /\ Orderly(r) /\ HasLogin(calls) /\ ~ HasLogin(r)
        /\ HasLoad(r) <=> HasLoad(calls)
        /\ HasAward(r) <=> HasAward(calls)
        /\ c \in Calls /\ c.who \in Account
    BY <1>2, Leaves, Kinds DEF Login
  <1>4. CASE LoginRefused
    <2>1. AccountTypes'
      BY <1>4 DEF LoginRefused, LoginFailed, account, SInv, AccountTypes, Status
    <2>2. GameTypes' /\ CountTypes'
      BY <1>4 DEF LoginRefused, own, load, SInv, GameTypes, CountTypes
    <2> QED
      BY <1>3, <1>4, <2>1, <2>2
      DEF LoginRefused, LoginFailed, account, own, load, SInv, Guards, GuardStays, SavedIsLoggedIn, Connected
  <1>5. CASE LoginAccepted
    <2>1. AccountTypes' /\ SavedIsLoggedIn'
      BY <1>3, <1>5 DEF LoginAccepted, TakesAccount, SInv, AccountTypes, Status, SavedIsLoggedIn
    <2>2. Connected' /\ user' = "in" /\ UNCHANGED game
      BY <1>5 DEF LoginAccepted, own, SInv, Connected
    <2>3. CASE ~ sLoadInFlight /\ BeginLoadGame(r, 0)
      <3>1. 0 \in Nat /\ 0 < RA_LOAD_MAX_ATTEMPTS
        BY Bounds DEF Limits
      <3>2. /\ Orderly(calls') /\ sLoadInFlight' \in BOOLEAN
            /\ sLoadInFlight' => HasLoad(calls')
            /\ ~ HasLoad(calls) => (HasLoad(calls') => sLoadInFlight')
            /\ ~ HasLogin(calls')
            /\ HasAward(calls') <=> HasAward(calls)
            /\ sLoadRetryDelay' \in 0 .. RA_LOAD_RETRY_FRAMES
            /\ sLoadAttempts' \in 0 .. RA_LOAD_MAX_ATTEMPTS
        BY <1>3, <2>3, <3>1, LoadBegins
      <3>3. GameTypes'
        BY <1>5, <3>2 DEF LoginAccepted, own, SInv, GameTypes
      <3>4. CountTypes'
        BY <1>5, <3>2 DEF LoginAccepted, SInv, CountTypes
      <3>5. GuardStays
        BY <2>3, <3>2 DEF GuardStays
      <3> QED BY <2>1, <2>2, <3>2, <3>3, <3>4, <3>5 DEF SInv, Guards
    <2>4. CASE /\ calls' = r /\ sLoadRetryDelay' = 0 /\ sLoadAttempts' = 0
               /\ UNCHANGED sLoadInFlight
      <3>1. GameTypes'
        BY <1>5, <2>4 DEF LoginAccepted, own, SInv, GameTypes
      <3>2. CountTypes'
        BY <1>5, <2>4, Bounds DEF Limits, LoginAccepted, SInv, CountTypes
      <3> QED BY <1>3, <2>1, <2>2, <2>4, <3>1, <3>2 DEF SInv, Guards, GuardStays
    <2> QED BY <1>5, <2>3, <2>4 DEF LoginAccepted
  <1> QED BY <1>4, <1>5

\* Each answer to a call of the load but the sets ends it.
LEMMA LoadAnswers ==
  ASSUME SInv, LoadRefused \/ SetsCome \/ GameLoaded
  PROVE  SInv' /\ GuardStays
  <1> DEFINE c == Head(calls)
             r == Tail(calls)
  <1>1. calls # <<>> /\ Load(c) /\ ~ Login(c) /\ c.for # "award" /\ Orderly(calls)
    BY DEF LoadRefused, SetsCome, GameLoaded, Answered, LoadCalls, Load, Login, SInv
  <1>2. /\ Orderly(r) /\ HasLoad(calls) /\ ~ HasLoad(r)
        /\ HasLogin(r) <=> HasLogin(calls)
        /\ HasAward(r) <=> HasAward(calls)
    BY <1>1, Leaves
  <1>3. AccountTypes'
    BY DEF LoadRefused, SetsCome, GameLoaded, account, client, SInv, AccountTypes
  <1>4. SavedIsLoggedIn' /\ Connected'
    <2>1. SavedIsLoggedIn'
      BY DEF LoadRefused, SetsCome, GameLoaded, account, client, SInv, SavedIsLoggedIn
    <2>2. CASE GameLoaded
      BY <2>1, <2>2 DEF GameLoaded, Connected
    <2>3. CASE LoadRefused \/ SetsCome
      <3>1. UNCHANGED <<sRAStatus, user, game, owed, unreachable>>
        BY <2>3 DEF LoadRefused, SetsCome, client, own
      <3>2. Connected'
        BY <3>1 DEF SInv, Connected
      <3> QED BY <2>1, <3>2
    <2> QED BY <2>2, <2>3
  <1>5. CASE LoadRefused
    <2>1. GameTypes'
      BY <1>5 DEF LoadRefused, LoadFailed, own, SInv, GameTypes
    <2>2. CountTypes'
      BY <1>5, Bounds DEF Limits, LoadRefused, LoadFailed, SInv, CountTypes
    <2> QED
      BY <1>2, <1>3, <1>4, <1>5, <2>1, <2>2 DEF LoadRefused, LoadFailed, SInv, Guards, GuardStays
  <1>6. CASE SetsCome
    <2>1. UNCHANGED <<user, game>>
      BY <1>6 DEF SetsCome, client
    <2>2. CASE calls' = Append(r, [for |-> "session"]) /\ UNCHANGED load
      <3> DEFINE d == [for |-> "session"]
      <3>1. d \in Calls /\ Load(d) /\ ~ Login(d) /\ d.for # "award"
        BY Kinds DEF LoadCalls, Login, Load
      <3>2. /\ Orderly(calls') /\ HasLoad(calls')
            /\ HasLogin(calls') <=> HasLogin(calls)
            /\ HasAward(calls') <=> HasAward(calls)
        BY <1>2, <2>2, <3>1, Joins
      <3>3. GameTypes' /\ CountTypes'
        BY <1>6, <2>2 DEF SetsCome, client, own, load, SInv, GameTypes, CountTypes
      <3> QED BY <1>2, <1>3, <1>4, <2>1, <2>2, <3>2, <3>3 DEF load, SInv, Guards, GuardStays
    <2>3. CASE calls' = Append(r, [for |-> "left"]) /\ LoadFailed(FALSE)
      <3> DEFINE d == [for |-> "left"]
      <3>1. d \in Calls /\ ~ Load(d) /\ ~ Login(d) /\ d.for # "award"
        BY Kinds DEF LoadCalls, DeadCalls, Login, Load
      <3>2. /\ Orderly(calls') /\ ~ HasLoad(calls')
            /\ HasLogin(calls') <=> HasLogin(calls)
            /\ HasAward(calls') <=> HasAward(calls)
        BY <1>2, <2>3, <3>1, Joins
      <3>3. GameTypes'
        BY <1>6, <2>3 DEF SetsCome, LoadFailed, client, own, SInv, GameTypes
      <3>4. CountTypes'
        BY <1>6, <2>3, Bounds DEF Limits, SetsCome, LoadFailed, SInv, CountTypes
      <3> QED BY <1>3, <1>4, <2>1, <2>3, <3>2, <3>3, <3>4 DEF LoadFailed, SInv, Guards, GuardStays
    <2> QED BY <1>6, <2>2, <2>3 DEF SetsCome
  <1>7. CASE GameLoaded
    <2>1. GameTypes'
      BY <1>7 DEF GameLoaded, own, SInv, GameTypes
    <2>2. CountTypes'
      BY <1>7, Bounds DEF Limits, GameLoaded, SInv, CountTypes
    <2> QED BY <1>2, <1>3, <1>4, <1>7, <2>1, <2>2 DEF GameLoaded, SInv, Guards, GuardStays
  <1> QED BY <1>5, <1>6, <1>7

\* The answers nobody waits for: what is left of other loads, and a ping.  The first may run a
\* callback all the same, and so clear the guard of the load that is under way.
LEMMA OtherAnswers ==
  ASSUME SInv, DeadAnswered \/ LeftRefused \/ PingAnswered
  PROVE  SInv' /\ (~ LeftRefused => GuardStays)
  <1> DEFINE c == Head(calls)
             r == Tail(calls)
  <1>1. calls # <<>> /\ ~ Load(c) /\ ~ Login(c) /\ c.for # "award" /\ calls' = r /\ Orderly(calls)
    BY DEF DeadAnswered, LeftRefused, PingAnswered, Answered, DeadCalls, LoadCalls, Load, Login, SInv
  <1>2. /\ Orderly(calls')
        /\ HasLoad(calls') <=> HasLoad(calls)
        /\ HasLogin(calls') <=> HasLogin(calls)
        /\ HasAward(calls') <=> HasAward(calls)
    BY <1>1, Leaves
  <1>3. UNCHANGED <<sRAEnabled, sRAStatus, account, client, gRomData, touches>>
    BY DEF DeadAnswered, LeftRefused, PingAnswered
  <1>4. AccountTypes' /\ SavedIsLoggedIn' /\ Connected'
    BY <1>3 DEF account, client, own, SInv, AccountTypes, SavedIsLoggedIn, Connected
  <1>5. CASE UNCHANGED load
    <2>1. GameTypes' /\ CountTypes'
      BY <1>3, <1>5 DEF client, own, load, SInv, GameTypes, CountTypes
    <2> QED BY <1>2, <1>3, <1>4, <1>5, <2>1 DEF client, load, SInv, Guards, GuardStays
  <1>6. CASE LeftRefused
    <2>1. GameTypes'
      BY <1>3, <1>6 DEF LeftRefused, LoadFailed, client, own, SInv, GameTypes
    <2>2. CountTypes'
      BY <1>3, <1>6, Bounds DEF Limits, LeftRefused, LoadFailed, SInv, CountTypes
    <2> QED BY <1>2, <1>3, <1>4, <1>6, <2>1, <2>2 DEF LeftRefused, LoadFailed, client, SInv, Guards
  <1> QED BY <1>5, <1>6 DEF DeadAnswered, PingAnswered

\* What rcheevos asks of itself is of the game that is loaded, and no matter of the load.
LEMMA OwnKeeps ==
  ASSUME SInv, DoFrame \/ Unlocks \/ Pings \/ RetriesUnlock \/ AwardAnswered
  PROVE  SInv' /\ GuardStays
  <1>1. /\ UNCHANGED <<sRAEnabled, sRAStatus, account, user, as, game, unknownRom, unreachable>>
        /\ UNCHANGED <<gRomData, load, touches>>
    BY DEF DoFrame, Unlocks, Pings, RetriesUnlock, AwardAnswered, client, own
  <1>2. AccountTypes' /\ SavedIsLoggedIn' /\ CountTypes'
    BY <1>1 DEF account, load, SInv, AccountTypes, SavedIsLoggedIn, CountTypes
  <1>3. unpinged' \in BOOLEAN /\ owed' \in BOOLEAN
    <2>1. CASE AwardAnswered
      <3>1. Head(calls).for = "award" /\ Head(calls) \in Calls
        BY <2>1, Leaves DEF AwardAnswered, Answered, SInv
      <3>2. Head(calls).again \in BOOLEAN
        BY <3>1 DEF Calls, LoginCall, AwardCall, LoadCalls, DeadCalls
      <3> QED BY <2>1, <3>2 DEF AwardAnswered, SInv, GameTypes
    <2>2. CASE DoFrame \/ Unlocks \/ Pings \/ RetriesUnlock
      BY <2>2 DEF DoFrame, Unlocks, Pings, RetriesUnlock, client, own, SInv, GameTypes
    <2> QED BY <2>1, <2>2
  <1>4. GameTypes'
    BY <1>1, <1>3 DEF load, SInv, GameTypes
  <1>5. game
    <2>1. CASE AwardAnswered
      <3>1. HasAward(calls)
        BY <2>1, Leaves DEF AwardAnswered, Answered, SInv
      <3> QED BY <3>1 DEF SInv, Guards
    <2>2. CASE DoFrame \/ Unlocks \/ Pings \/ RetriesUnlock
      BY <2>2 DEF DoFrame, Unlocks, Pings, RetriesUnlock, SInv, Connected
    <2> QED BY <2>1, <2>2
  <1>6. Connected'
    BY <1>1, <1>5 DEF SInv, Connected
  <1>7. \A c \in {[for |-> "ping"], [for |-> "award", again |-> FALSE], [for |-> "award", again |-> TRUE]} :
          c \in Calls /\ ~ Load(c) /\ ~ Login(c)
    <2>1. [for |-> "ping"] \in Calls
      BY Kinds
    <2>2. [for |-> "award", again |-> FALSE] \in Calls /\ [for |-> "award", again |-> TRUE] \in Calls
      BY Kinds
    <2>3. ASSUME NEW c, c.for \in {"ping", "award"}
          PROVE  ~ Load(c) /\ ~ Login(c)
      BY <2>3 DEF LoadCalls, Load, Login
    <2>4. ~ Load([for |-> "ping"]) /\ ~ Login([for |-> "ping"])
      BY <2>3
    <2>5. \A again \in BOOLEAN : LET c == [for |-> "award", again |-> again] IN ~ Load(c) /\ ~ Login(c)
      BY <2>3
    <2> QED BY <2>1, <2>2, <2>4, <2>5
  <1>8. /\ Orderly(calls')
        /\ HasLoad(calls') <=> HasLoad(calls)
        /\ HasLogin(calls') <=> HasLogin(calls)
    <2>1. CASE AwardAnswered
      <3> DEFINE r == Tail(calls)
      <3>1. calls # <<>> /\ ~ Load(Head(calls)) /\ ~ Login(Head(calls)) /\ Orderly(calls)
        BY <2>1 DEF AwardAnswered, Answered, LoadCalls, Load, Login, SInv
      <3>2. /\ Orderly(r)
            /\ HasLoad(r) <=> HasLoad(calls)
            /\ HasLogin(r) <=> HasLogin(calls)
        BY <3>1, Leaves
      <3>3. CASE calls' = r
        BY <3>2, <3>3
      <3>4. CASE calls' = Append(r, [for |-> "award", again |-> TRUE])
        BY <1>7, <3>2, <3>4, Joins
      <3> QED BY <2>1, <3>3, <3>4 DEF AwardAnswered
    <2>2. ASSUME NEW c \in {[for |-> "ping"], [for |-> "award", again |-> FALSE], [for |-> "award", again |-> TRUE]},
                 calls' = Append(calls, c)
          PROVE  /\ Orderly(calls')
                 /\ HasLoad(calls') <=> HasLoad(calls)
                 /\ HasLogin(calls') <=> HasLogin(calls)
      BY <1>7, <2>2, Joins DEF SInv
    <2>3. CASE UNCHANGED calls
      BY <2>3 DEF SInv
    <2> QED BY <2>1, <2>2, <2>3 DEF DoFrame, Unlocks, Pings, RetriesUnlock, Asks
  <1> QED BY <1>1, <1>2, <1>4, <1>5, <1>6, <1>8 DEF load, SInv, Guards, GuardStays

LEMMA FrameKeeps ==
  ASSUME SInv, DelayPasses \/ EvaluateTriggers \/ Disconnected \/ Reconnected \/ RomMapped
  PROVE  SInv' /\ GuardStays
  <1>1. CASE DelayPasses
    <2>1. CountTypes'
      BY <1>1, RaSessionAssumption DEF DelayPasses, SInv, CountTypes
    <2>2. AccountTypes' /\ SavedIsLoggedIn' /\ Connected'
      BY <1>1 DEF DelayPasses, account, client, own, SInv, AccountTypes, SavedIsLoggedIn, Connected
    <2>3. GameTypes'
      BY <1>1 DEF DelayPasses, client, own, SInv, GameTypes
    <2> QED
      BY <1>1, <2>1, <2>2, <2>3 DEF DelayPasses, client, SInv, Guards, GuardStays
  <1>2. CASE EvaluateTriggers
    <2>1. ~ sLoadInFlight /\ sLoadAttempts \in Nat /\ sLoadAttempts < RA_LOAD_MAX_ATTEMPTS
      BY <1>2, RaSessionAssumption DEF EvaluateTriggers, MayLoad, SInv, CountTypes
    <2>2. /\ Orderly(calls') /\ sLoadInFlight' \in BOOLEAN
          /\ sLoadInFlight' => HasLoad(calls')
          /\ ~ HasLoad(calls) => (HasLoad(calls') => sLoadInFlight')
          /\ HasLogin(calls') <=> HasLogin(calls)
          /\ HasAward(calls') <=> HasAward(calls)
          /\ sLoadRetryDelay' \in 0 .. RA_LOAD_RETRY_FRAMES
          /\ sLoadAttempts' \in 0 .. RA_LOAD_MAX_ATTEMPTS
      BY <1>2, <2>1, LoadBegins DEF EvaluateTriggers, SInv
    <2>3. AccountTypes' /\ SavedIsLoggedIn' /\ Connected'
      BY <1>2 DEF EvaluateTriggers, account, client, own, SInv, AccountTypes, SavedIsLoggedIn, Connected
    <2>4. GameTypes'
      BY <1>2, <2>2 DEF EvaluateTriggers, client, own, SInv, GameTypes
    <2>5. CountTypes'
      BY <1>2, <2>2 DEF EvaluateTriggers, SInv, CountTypes
    <2> QED BY <1>2, <2>1, <2>2, <2>3, <2>4, <2>5 DEF EvaluateTriggers, client, SInv, Guards, GuardStays
  <1>3. CASE Disconnected \/ Reconnected
    <2>1. AccountTypes'
      BY <1>3 DEF Disconnected, Reconnected, account, SInv, AccountTypes, Status
    <2>2. GameTypes'
      BY <1>3 DEF Disconnected, Reconnected, load, SInv, GameTypes
    <2>3. CountTypes'
      BY <1>3 DEF Disconnected, Reconnected, load, SInv, CountTypes
    <2>4. UNCHANGED <<user, as, game, sRAUsername, sRAToken, sLoadInFlight, calls>>
      BY <1>3 DEF Disconnected, Reconnected, account, load
    <2>5. Connected'
      <3>1. game /\ UNCHANGED game
        BY <1>3 DEF Disconnected, Reconnected, SInv, Connected
      <3> QED BY <3>1 DEF Connected
    <2> QED BY <2>1, <2>2, <2>3, <2>4, <2>5 DEF SInv, Guards, GuardStays, SavedIsLoggedIn
  <1>4. CASE RomMapped
    <2>1. GameTypes'
      BY <1>4 DEF RomMapped, client, own, load, SInv, GameTypes
    <2>2. CountTypes'
      BY <1>4 DEF RomMapped, load, SInv, CountTypes
    <2>3. AccountTypes' /\ SavedIsLoggedIn' /\ Connected'
      BY <1>4 DEF RomMapped, account, client, own, SInv, AccountTypes, SavedIsLoggedIn, Connected
    <2> QED
      BY <1>4, <2>1, <2>2, <2>3 DEF RomMapped, client, load, SInv, Guards, GuardStays
  <1> QED BY <1>1, <1>2, <1>3, <1>4

LEMMA TouchKeeps ==
  ASSUME SInv, SwitchOff \/ SwitchOn \/ PromptLogin
  PROVE  SInv' /\ GuardStays
  <1>1. CountTypes'
    <2>1. touches' \in 0 .. MaxTouches
      <3>1. touches < MaxTouches /\ touches' = touches + 1
        BY DEF SwitchOff, SwitchOn, PromptLogin, Touches
      <3>2. touches \in 0 .. MaxTouches
        BY DEF SInv, CountTypes
      <3> QED BY <3>1, <3>2, RaSessionAssumption
    <2> QED BY <2>1 DEF SwitchOff, SwitchOn, PromptLogin, load, SInv, CountTypes
  <1>2. GameTypes'
    BY DEF SwitchOff, SwitchOn, PromptLogin, client, own, load, SInv, GameTypes
  <1>3. CASE SwitchOff
    <2>1. AccountTypes'
      BY <1>3 DEF SwitchOff, account, client, SInv, AccountTypes, Status
    <2>2. SavedIsLoggedIn' /\ Connected'
      BY <1>3 DEF SwitchOff, account, client, own, SInv, SavedIsLoggedIn, Connected
    <2> QED
      BY <1>1, <1>2, <1>3, <2>1, <2>2 DEF SwitchOff, client, load, SInv, Guards, GuardStays
  <1>4. ASSUME NEW who \in Account, BeginLogin(who), sRAEnabled' = TRUE,
               sRAUsername' \in Account \cup {None},
               UNCHANGED <<sRAToken, as, game, unknownRom, own, gRomData, load>>
        PROVE  SInv' /\ GuardStays
    <2>1. /\ Orderly(calls') /\ (user' = "requested" <=> HasLogin(calls'))
          /\ HasLoad(calls') <=> HasLoad(calls)
          /\ HasAward(calls') <=> HasAward(calls)
          /\ user' \in {"none", "requested"} /\ sRAStatus' \in {"CONNECTING", "OFFLINE"}
      BY <1>4, LoginBegins
    <2>2. AccountTypes'
      BY <1>4, <2>1 DEF SInv, AccountTypes, Status
    <2>3. SavedIsLoggedIn' /\ Connected'
      BY <1>4, <2>1 DEF own, SInv, SavedIsLoggedIn, Connected
    <2> QED
      BY <1>1, <1>2, <1>4, <2>1, <2>2, <2>3 DEF load, SInv, Guards, GuardStays
  <1>5. CASE PromptLogin
    BY <1>4, <1>5 DEF PromptLogin
  <1>6. CASE SwitchOn
    <2>1. CASE CanLogin(sRAUsername, sRAToken)
      <3>1. sRAUsername \in Account
        BY <2>1 DEF CanLogin, SInv, AccountTypes
      <3> QED BY <1>4, <1>6, <2>1, <3>1 DEF SwitchOn, account
    <2>2. CASE sRAStatus' = "NO_ACCOUNT" /\ UNCHANGED <<user, calls>>
      <3>1. AccountTypes'
        BY <1>6, <2>2 DEF SwitchOn, account, SInv, AccountTypes, Status
      <3>2. SavedIsLoggedIn' /\ Connected'
        BY <1>6, <2>2 DEF SwitchOn, account, own, SInv, SavedIsLoggedIn, Connected
      <3> QED
        BY <1>1, <1>2, <1>6, <2>2, <3>1, <3>2 DEF SwitchOn, load, SInv, Guards, GuardStays
    <2> QED BY <1>6, <2>1, <2>2 DEF SwitchOn
  <1> QED BY <1>3, <1>5, <1>6

LEMMA SessionSteps ==
  ASSUME SInv, [Next]_vars
  PROVE  SInv' /\ (~ LeftRefused => GuardStays)
  <1>1. CASE UNCHANGED vars
    <2>1. AccountTypes' /\ SavedIsLoggedIn' /\ Connected'
      BY <1>1 DEF vars, account, client, own, SInv, AccountTypes, SavedIsLoggedIn, Connected
    <2>2. GameTypes' /\ CountTypes'
      BY <1>1 DEF vars, client, own, load, SInv, GameTypes, CountTypes
    <2> QED BY <1>1, <2>1, <2>2 DEF vars, client, load, SInv, Guards, GuardStays
  <1> QED
    BY <1>1, RestartKeeps, LoginAnswers, LoadAnswers, OtherAnswers, OwnKeeps, FrameKeeps, TouchKeeps
    DEF Next, Frame, Answer

LEMMA SessionInvariant == Spec => []SInv
  <1>1. SInv /\ [Next]_vars => SInv'
    BY SessionSteps
  <1> QED BY <1>1, SessionFirst, PTL DEF Spec

-----------------------------------------------------------------------------
(* The theorems. *)

\* The types; and a login is followed by no more loads than it may.
THEOREM Typed == Spec => []TypeOK
  <1>1. SInv => TypeOK
    BY DEF SInv, Orderly, TypeOK
  <1> QED BY <1>1, SessionInvariant, PTL

\* rcheevos is at one load and one login at most; the guard of the load is set while it is at
\* one, and only then, unless the callback of a load that had failed runs a second time.
THEOREM OneAtATime == Spec => OneInFlight
  <1>1. Init => (sLoadInFlight <=> InFlight)
    <2>1. Init => ~ sLoadInFlight /\ ~ HasLoad(calls)
      BY Starts DEF Init
    <2> QED BY <2>1 DEF InFlight, HasLoad
  <1>2. SInv => OneOfEach
    BY DEF SInv, Guards, Orderly, HasLoad, HasLogin, InFlight, OneOfEach
  <1> DEFINE Guarded == InFlight' /\ ~ sLoadInFlight' /\ (InFlight => sLoadInFlight) => LeftRefused
  <1>3. SInv /\ [Next]_vars => [Guarded]_vars
    BY SessionSteps DEF GuardStays, HasLoad, InFlight
  <1> QED BY <1>1, <1>2, <1>3, SessionInvariant, PTL DEF Spec, OneInFlight

\* While somebody is logged in, the name and the token that are saved are theirs.
THEOREM Saved == Spec => []SavedIsLoggedIn
  BY SessionInvariant, PTL DEF SInv

\* An answer leaves fewer calls, or the call that follows it is the last.
LEMMA LastIs ==
  ASSUME NEW q \in Seq(Calls), NEW c
  PROVE  /\ Append(q, c) # <<>> /\ Append(q, c)[Len(Append(q, c))] = c
         /\ q # <<>> => Len(Tail(q)) < Len(q)
  <1>1. Len(q) \in Nat
    OBVIOUS
  <1>2. Append(q, c)[Len(Append(q, c))] = c
    BY <1>1
  <1>3. ASSUME q # <<>>
        PROVE  Len(Tail(q)) < Len(q)
    BY <1>1, <1>3, HeadTailProperties, EmptySeq
  <1> QED BY <1>1, <1>2, <1>3

LEMMA RestartSends ==
  ASSUME SInv, Restart
  PROVE  /\ Sends({"sets"}) => FALSE
         /\ Sends({"award"}) => FALSE
         /\ ~ sRAEnabled => calls' = <<>>
  <1>1. calls' = <<>> \/ calls' = <<[for |-> "login", who |-> sRAUsername]>>
    BY DEF Restart, Starting
  <1>2. ~ sRAEnabled => calls' = <<>>
    BY DEF Restart, Starting
  <1>3. calls \in Seq(Calls) /\ Len(calls) \in Nat
    BY DEF SInv, Orderly
  <1>4. ASSUME calls' = <<>>, NEW K
        PROVE  ~ Sends(K)
    BY <1>3, <1>4, EmptySeq DEF Sends
  <1>5. ASSUME calls' = <<[for |-> "login", who |-> sRAUsername]>>
        PROVE  Len(calls') = 1 /\ calls'[Len(calls')].for = "login"
    BY <1>5
  <1> QED BY <1>1, <1>2, <1>4, <1>5 DEF Sends

\* No attempt is spent before the login.
LEMMA LoadsLoggedIn ==
  ASSUME SInv, [Next]_vars, Sends({"sets"})
  PROVE  user' = "in"
  <1>0. calls \in Seq(Calls)
    BY DEF SInv, Orderly
  <1>1. CASE LoginAccepted
    BY <1>1 DEF LoginAccepted
  <1>2. CASE EvaluateTriggers
    <2>1. user = "in"
      BY <1>2 DEF EvaluateTriggers, MayLoad, SInv, Connected
    <2> QED BY <1>2, <2>1 DEF EvaluateTriggers, client
  <1>3. CASE Restart
    BY <1>3, RestartSends
  <1>4. CASE calls # <<>> /\ calls' = Tail(calls)
    <2>1. Len(calls') < Len(calls) /\ Len(calls) \in Nat /\ Len(calls') \in Nat
      BY <1>0, <1>4, LastIs, HeadTailProperties, LenProperties
    <2> QED BY <2>1 DEF Sends
  <1>5. ASSUME NEW q \in Seq(Calls), NEW c, c.for # "sets", calls' = Append(q, c)
        PROVE  FALSE
    <2>1. calls'[Len(calls')] = c
      BY <1>5, LastIs
    <2> QED BY <1>5, <2>1 DEF Sends
  <1>6. calls # <<>> => Tail(calls) \in Seq(Calls)
    BY <1>0
  <1>7. CASE LoginRefused \/ LoadRefused \/ GameLoaded \/ DeadAnswered \/ LeftRefused \/ PingAnswered
    BY <1>4, <1>7 DEF LoginRefused, LoadRefused, GameLoaded, DeadAnswered, LeftRefused, PingAnswered, Answered
  <1>8. CASE SetsCome
    BY <1>5, <1>6, <1>8 DEF SetsCome, Answered
  <1>9. CASE AwardAnswered
    BY <1>4, <1>5, <1>6, <1>9 DEF AwardAnswered, Answered
  <1>10. CASE Unlocks \/ Pings \/ RetriesUnlock
    BY <1>0, <1>5, <1>10 DEF Unlocks, Pings, RetriesUnlock, Asks, Sends
  <1>11. CASE SwitchOn \/ PromptLogin
    BY <1>0, <1>5, <1>11 DEF SwitchOn, PromptLogin, BeginLogin, Sends
  <1>12. CASE UNCHANGED calls
    BY <1>12 DEF Sends
  <1> QED
    BY <1>1, <1>2, <1>3, <1>7, <1>8, <1>9, <1>10, <1>11, <1>12
    DEF Next, Frame, Answer, DelayPasses, DoFrame, Disconnected, Reconnected, RomMapped, SwitchOff, vars

\* Switched off, a login or a load is asked for only after an answer.
LEMMA OffIsOff ==
  ASSUME SInv, [Next]_vars, ~ sRAEnabled, ~ sRAEnabled', Sends({"login", "sets", "session", "left"})
  PROVE  Answer
  <1>0. calls \in Seq(Calls) /\ Len(calls) \in Nat
    BY DEF SInv, Orderly
  <1>1. CASE Restart
    <2>1. calls' = <<>>
      BY <1>1, RestartSends
    <2> QED BY <1>0, <2>1, EmptySeq DEF Sends
  <1>2. CASE Pings \/ RetriesUnlock
    <2>1. ASSUME NEW c, c.for \in {"ping", "award"}, calls' = Append(calls, c)
          PROVE  FALSE
      <3>1. calls'[Len(calls')] = c
        BY <1>0, <2>1, LastIs
      <3> QED BY <2>1, <3>1 DEF Sends
    <2>2. calls' # Append(calls, [for |-> "ping"])
      BY <2>1
    <2>3. calls' # Append(calls, [for |-> "award", again |-> TRUE])
      BY <2>1
    <2> QED BY <1>2, <2>2, <2>3 DEF Pings, RetriesUnlock, Asks, Sends
  <1>3. CASE UNCHANGED calls
    BY <1>3 DEF Sends
  <1> QED
    BY <1>1, <1>2, <1>3
    DEF Next, Frame, DelayPasses, EvaluateTriggers, DoFrame, Unlocks, Disconnected, Reconnected,
        RomMapped, SwitchOff, SwitchOn, PromptLogin, vars

\* Switched off, an unlock is sent again, or its answer is followed at once by the second try.
LEMMA OffOwes ==
  ASSUME SInv, [Next]_vars, ~ sRAEnabled, Sends({"award"})
  PROVE  owed \/ Answer
  <1>0. calls \in Seq(Calls) /\ Len(calls) \in Nat
    BY DEF SInv, Orderly
  <1>1. CASE Restart
    BY <1>1, RestartSends
  <1>2. ASSUME NEW c, c.for \in {"ping", "login"}, calls' = Append(calls, c)
        PROVE  FALSE
    <2>1. calls'[Len(calls')] = c
      BY <1>0, <1>2, LastIs
    <2> QED BY <1>2, <2>1 DEF Sends
  <1>3. CASE Pings \/ SwitchOn \/ PromptLogin
    <2>1. calls' # Append(calls, [for |-> "ping"])
      BY <1>2
    <2>2. \A who : calls' # Append(calls, [for |-> "login", who |-> who])
      BY <1>2
    <2> QED BY <1>3, <2>1, <2>2 DEF Pings, SwitchOn, PromptLogin, BeginLogin, Asks, Sends
  <1>4. CASE RetriesUnlock
    BY <1>4 DEF RetriesUnlock
  <1>5. CASE UNCHANGED calls
    BY <1>5 DEF Sends
  <1> QED
    BY <1>1, <1>3, <1>4, <1>5
    DEF Next, Frame, DelayPasses, EvaluateTriggers, DoFrame, Unlocks, Disconnected, Reconnected,
        RomMapped, SwitchOff, vars

\* A call is made only when the session is in a state to make it.
THEOREM WhenItMay == Spec => AsksOnlyWhenItMay
  <1> DEFINE LoggedIn == Sends({"sets"}) => user' = "in"
             Off == ~ sRAEnabled /\ ~ sRAEnabled' /\ Sends({"login", "sets", "session", "left"}) => Answer
             Owed == ~ sRAEnabled /\ Sends({"award"}) => owed \/ Answer
  <1>1. SInv /\ [Next]_vars => [LoggedIn /\ Off /\ Owed]_vars
    BY LoadsLoggedIn, OffIsOff, OffOwes
  <1> QED BY <1>1, SessionInvariant, PTL DEF Spec, AsksOnlyWhenItMay
=============================================================================
