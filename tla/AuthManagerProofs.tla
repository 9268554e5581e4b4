-------------------------- MODULE AuthManagerProofs --------------------------
(***************************************************************************)
(* AuthManager's safety properties, for any number of callers, any buffer  *)
(* that outlasts a flight, and any bounds; and that the clients on top of  *)
(* it keep them, and their own budget of attempts.                         *)
(***************************************************************************)
EXTENDS UpstreamClient, TLAPS

-----------------------------------------------------------------------------
(* The inductive invariant *)

\* The flight has found its credentials in the last two stages only.
FlightOK ==
  /\ flight.stage \in {"none", "check", "read", "post"} => flight.creds = NoCreds
  /\ flight.stage = "keep" => flight.creds # NoCreds

\* A flight is not older than its deadline, and what it has found outlives it.
ClockOK ==
  flight.stage # "none" =>
    /\ flight.began \in Nat
    /\ flight.began <= now /\ now <= flight.began + Deadline
    /\ flight.creds # NoCreds => flight.creds.expires > flight.began + Deadline

\* Whatever is cached or in flight was looked up after the invalidations in asked.
AskedOK ==
  \A c \in asked :
    /\ cached # NoCreds => c \in cached.sees
    /\ flight.stage # "none" => c \in flight.sees
    /\ flight.creds # NoCreds => c \in flight.creds.sees

AuthInv == AuthTypeOK /\ FlightOK /\ ClockOK /\ AskedOK /\ OneRefreshPerExpiry

-----------------------------------------------------------------------------
\* The absent credentials are no credentials: their token is zero.
LEMMA NoCredsDiffer == NoCreds \notin Creds
BY SMT DEF NoCreds, Creds

\* A valid record of credentials has a life left beyond the buffer.
LEMMA ValidMeans ==
  ASSUME NEW creds, isTokenValid(creds)
  PROVE  creds # NoCreds /\ creds.expires > now + Buffer
BY DEF isTokenValid

\* The initial state satisfies the invariant.
LEMMA AuthInitOK == AuthInit => AuthInv
<1> SUFFICES ASSUME AuthInit PROVE AuthInv
  OBVIOUS
<1> USE AuthAssumption DEF AuthInit
<1>1. issued \in 0..MaxTokens /\ db \in [token : 0..MaxTokens, expires : Nat, refreshable : BOOLEAN]
  <2>1. CASE issued = 0 /\ db = [token |-> 0, expires |-> 0, refreshable |-> FALSE]
    BY <2>1, SMT
  <2>2. ASSUME NEW l \in Lifetimes, NEW r \in BOOLEAN, issued = 1,
               db = [token |-> 1, expires |-> l, refreshable |-> r]
        PROVE  issued \in 0..MaxTokens /\ db \in [token : 0..MaxTokens, expires : Nat, refreshable : BOOLEAN]
    <3>1. 1 \in 0..MaxTokens /\ l \in Nat
      BY SMT
    <3> QED BY <2>2, <3>1
  <2> QED BY <2>1, <2>2
<1>2. flight \in Flights /\ FlightOK
  BY SMT DEF Grounded, Flights, FlightOK
<1>3. AuthTypeOK
  BY <1>1, <1>2, SMT DEF AuthTypeOK
<1>4. ClockOK /\ AskedOK /\ OneRefreshPerExpiry
  BY SMT DEF ClockOK, AskedOK, OneRefreshPerExpiry, Grounded
<1> QED BY <1>2, <1>3, <1>4 DEF AuthInv

\* A flight stays a flight in any stage and with any credentials.
LEMMA FlightMoves ==
  ASSUME flight \in Flights,
         NEW st \in {"none", "check", "read", "post", "keep", "landing"},
         NEW cr \in Creds \cup {NoCreds}
  PROVE  Flying(st, cr) \in Flights
BY SMT DEF Flights, Flying

\* Types are kept by every step.
LEMMA TypesKept ==
  ASSUME AuthTypeOK, FlightOK, [AuthNext]_authVars
  PROVE  AuthTypeOK'
<1> USE AuthAssumption DEF AuthTypeOK
<1>1. ASSUME NEW c \in Callers, GetToken(c) PROVE AuthTypeOK'
  <2>1. CASE isTokenValid(cached)
    BY <1>1, <2>1, SMT DEF GetToken
  <2>2. CASE ~isTokenValid(cached)
    BY <1>1, <2>2, SMT DEF GetToken
  <2> QED BY <2>1, <2>2
<1>2. ASSUME NEW c \in Callers, Do(c) PROVE AuthTypeOK'
  BY <1>2, SMT DEF Do, Flights
<1>3. ASSUME NEW c \in Callers, Return(c) PROVE AuthTypeOK'
  BY <1>3, SMT DEF Return
<1>4. ASSUME NEW c \in Callers, InvalidateCache(c) PROVE AuthTypeOK'
  BY <1>4, SMT DEF InvalidateCache
<1>5. CASE recheckCache
  BY <1>5, FlightMoves, SMT DEF recheckCache
<1>6. CASE readFromDB
  <2>1. ReadCredentials \subseteq Creds \cup {NoCreds}
    BY SMT DEF ReadCredentials, Creds, Flights
  <2> QED BY <1>6, <2>1, FlightMoves, SMT DEF readFromDB
<1>7. CASE doTokenRefresh
  <2>1. CASE flight' = Flying("landing", NoCreds) /\ UNCHANGED issued
    BY <1>7, <2>1, FlightMoves, SMT DEF doTokenRefresh
  <2>2. CASE issued < MaxTokens /\ issued' = issued + 1
    <3>1. PICK l \in Lifetimes :
            flight' = Flying("keep", [token |-> issued + 1, expires |-> now + l,
                                      sees |-> flight.sees])
      BY <1>7, <2>2, SMT DEF doTokenRefresh
    <3>2. [token |-> issued + 1, expires |-> now + l, sees |-> flight.sees] \in Creds
      BY <2>2, SMT DEF Creds, Flights
    <3>3. flight' \in Flights
      BY <3>1, <3>2, FlightMoves
    <3>4. issued' \in 0..MaxTokens
      BY <2>2, SMT
    <3> QED BY <1>7, <3>3, <3>4, SMT DEF doTokenRefresh
  <2> QED BY <1>7, <2>1, <2>2 DEF doTokenRefresh
<1>8. CASE storeCached
  BY <1>8, FlightMoves, SMT DEF storeCached, Flights, FlightOK
<1>9. CASE Land
  BY <1>9, SMT DEF Land, Grounded, Flights
<1>10. CASE KiroCLI
  <2>1. issued' \in 0..MaxTokens
    BY <1>10, SMT DEF KiroCLI
  <2>2. ASSUME NEW l \in Lifetimes, NEW r \in BOOLEAN, issued < MaxTokens
        PROVE  [token |-> issued + 1, expires |-> now + l, refreshable |-> r]
                 \in [token : 0..MaxTokens, expires : Nat, refreshable : BOOLEAN]
    <3>1. issued + 1 \in 0..MaxTokens /\ now + l \in Nat
      BY <2>2, SMT
    <3> QED BY <3>1
  <2>3. [token |-> 0, expires |-> 0, refreshable |-> FALSE]
          \in [token : 0..MaxTokens, expires : Nat, refreshable : BOOLEAN]
    BY SMT
  <2>4. db' \in [token : 0..MaxTokens, expires : Nat, refreshable : BOOLEAN]
    BY <1>10, <2>2, <2>3, Zenon DEF KiroCLI
  <2> QED BY <1>10, <2>1, <2>4, SMT DEF KiroCLI
<1>11. CASE Tick
  BY <1>11, SMT DEF Tick
<1>12. CASE UNCHANGED authVars
  BY <1>12, SMT DEF authVars
<1> QED
  BY <1>1, <1>2, <1>3, <1>4, <1>5, <1>6, <1>7, <1>8, <1>9, <1>10, <1>11, <1>12
  DEF AuthNext, refreshCredentials

\* The rest of the invariant is kept by every step.
LEMMA InvKept ==
  ASSUME AuthInv, [AuthNext]_authVars
  PROVE  FlightOK' /\ ClockOK' /\ AskedOK' /\ OneRefreshPerExpiry'
<1> USE AuthAssumption DEF AuthInv
<1>a. now \in Nat /\ AuthTypeOK
  BY DEF AuthTypeOK
<1>1. ASSUME NEW c \in Callers, GetToken(c) PROVE (FlightOK /\ ClockOK /\ AskedOK /\ OneRefreshPerExpiry)'
  BY <1>1, SMT DEF GetToken, FlightOK, ClockOK, AskedOK, OneRefreshPerExpiry, isTokenValid
<1>2. ASSUME NEW c \in Callers, Do(c) PROVE (FlightOK /\ ClockOK /\ AskedOK /\ OneRefreshPerExpiry)'
  <2>1. CASE flight.stage = "none"
    BY <1>2, <2>1, <1>a, SMT DEF Do, FlightOK, ClockOK, AskedOK, OneRefreshPerExpiry, isTokenValid
  <2>2. CASE flight.stage # "none"
    BY <1>2, <2>2, SMT DEF Do, FlightOK, ClockOK, AskedOK, OneRefreshPerExpiry, isTokenValid
  <2> QED BY <2>1, <2>2
<1>3. ASSUME NEW c \in Callers, Return(c) PROVE (FlightOK /\ ClockOK /\ AskedOK /\ OneRefreshPerExpiry)'
  BY <1>3, SMT DEF Return, FlightOK, ClockOK, AskedOK, OneRefreshPerExpiry, isTokenValid
<1>4. ASSUME NEW c \in Callers, InvalidateCache(c) PROVE (FlightOK /\ ClockOK /\ AskedOK /\ OneRefreshPerExpiry)'
  BY <1>4, SMT DEF InvalidateCache, FlightOK, ClockOK, AskedOK, OneRefreshPerExpiry, isTokenValid
<1>5. CASE recheckCache
  <2>t. flight \in Flights
    BY DEF AuthTypeOK
  <2>1. CASE isTokenValid(cached)
    <3>1. cached # NoCreds /\ cached.expires > now + Buffer /\ cached \in Creds
      BY <2>1, <1>a, ValidMeans DEF AuthTypeOK
    <3> QED BY <1>5, <2>1, <2>t, <3>1, <1>a, SMT
            DEF recheckCache, Flying, FlightOK, ClockOK, AskedOK, OneRefreshPerExpiry, Creds
  <2>2. CASE ~isTokenValid(cached)
    BY <1>5, <2>2, <2>t, SMT
    DEF recheckCache, Flying, FlightOK, ClockOK, AskedOK, OneRefreshPerExpiry, isTokenValid
  <2> QED BY <2>1, <2>2
<1>6. CASE readFromDB
  <2>t. flight \in Flights
    BY DEF AuthTypeOK
  <2>1. PICK row \in ReadCredentials :
          flight' = IF isTokenValid(row) THEN Flying("keep", row)
                    ELSE IF row # NoCreds /\ db.refreshable THEN Flying("post", NoCreds)
                    ELSE Flying("landing", NoCreds)
    BY <1>6 DEF readFromDB
  <2>2. UNCHANGED <<now, cached, asked>> /\ flight.stage = "read"
    BY <1>6 DEF readFromDB
  <2>3. CASE flight' = Flying("landing", NoCreds) \/ flight' = Flying("post", NoCreds)
    BY <2>2, <2>3, <2>t, SMT
    DEF FlightOK, ClockOK, AskedOK, OneRefreshPerExpiry, isTokenValid, Flights, Flying
  <2>4. CASE isTokenValid(row) /\ flight' = Flying("keep", row)
    <3>1. row # NoCreds /\ row.expires > now + Buffer
      BY <2>4, ValidMeans
    <3>2. row \in Creds
      BY <2>1, <3>1, SMT DEF ReadCredentials, AuthTypeOK, Creds, Flights
    <3>3. row.sees = flight.sees /\ row.expires \in Nat
      BY <2>1, <3>1, <3>2, SMT DEF ReadCredentials, Creds
    <3> QED BY <2>2, <2>4, <2>t, <3>1, <3>3, <1>a, SMT
            DEF Flying, FlightOK, ClockOK, AskedOK, OneRefreshPerExpiry, Flights
  <2> QED BY <2>1, <2>3, <2>4
<1>7. CASE doTokenRefresh
  <2>t. /\ flight \in Flights
        /\ issued \in Nat
    BY SMT DEF AuthTypeOK
  <2>1. CASE flight' = Flying("landing", NoCreds)
    <3>1. UNCHANGED <<now, cached, asked>> /\ flight.stage = "post"
      BY <1>7 DEF doTokenRefresh
    <3> QED BY <2>1, <2>t, <3>1, SMT
            DEF FlightOK, ClockOK, AskedOK, OneRefreshPerExpiry, isTokenValid, Flights, Flying
  <2>2. ASSUME NEW l \in Lifetimes,
               flight' = Flying("keep", [token |-> issued + 1, expires |-> now + l,
                                         sees |-> flight.sees])
        PROVE  (FlightOK /\ ClockOK /\ AskedOK /\ OneRefreshPerExpiry)'
    <3>1. l \in Nat /\ l > Deadline
      BY SMT
    <3>2. [token |-> issued + 1, expires |-> now + l, sees |-> flight.sees] # NoCreds
      BY <2>t, SMT DEF NoCreds
    <3> DEFINE new == [token |-> issued + 1, expires |-> now + l, sees |-> flight.sees]
    <3>3. flight' = [stage |-> "keep", began |-> flight.began, sees |-> flight.sees, creds |-> new]
      BY <2>2 DEF Flying
    <3>4. UNCHANGED <<now, cached, asked>> /\ flight.stage = "post"
      BY <1>7 DEF doTokenRefresh
    <3>5. ClockOK'
      BY <2>t, <3>1, <3>3, <3>4, <1>a, SMT DEF ClockOK
    <3>6. FlightOK' /\ AskedOK' /\ OneRefreshPerExpiry'
      BY <3>2, <3>3, <3>4, SMT DEF FlightOK, AskedOK, OneRefreshPerExpiry
    <3> QED BY <3>5, <3>6
  <2> QED BY <1>7, <2>1, <2>2 DEF doTokenRefresh
<1>8. CASE storeCached
  BY <1>8, <1>a, SMT
  DEF storeCached, Flying, Flights, AuthTypeOK, FlightOK, ClockOK, AskedOK, OneRefreshPerExpiry
<1>9. CASE Land
  BY <1>9, SMT DEF Land, Grounded, FlightOK, ClockOK, AskedOK, OneRefreshPerExpiry, isTokenValid
<1>10. CASE KiroCLI
  BY <1>10, SMT DEF KiroCLI, FlightOK, ClockOK, AskedOK, OneRefreshPerExpiry, isTokenValid
<1>11. CASE Tick
  <2>1. cached.expires \in Nat
    BY SMT DEF AuthTypeOK, Creds, NoCreds
  <2> QED BY <1>11, <1>a, <2>1, SMT
          DEF Tick, AuthTypeOK, FlightOK, ClockOK, AskedOK, OneRefreshPerExpiry, isTokenValid
<1>12. CASE UNCHANGED authVars
  BY <1>12, SMT DEF authVars, FlightOK, ClockOK, AskedOK, OneRefreshPerExpiry, isTokenValid
<1> QED
  BY <1>1, <1>2, <1>3, <1>4, <1>5, <1>6, <1>7, <1>8, <1>9, <1>10, <1>11, <1>12
  DEF AuthNext, refreshCredentials

\* The invariant holds throughout.
LEMMA AuthInvariant == AuthSpec => []AuthInv
<1>1. AuthInit => AuthInv
  BY AuthInitOK
<1>2. AuthInv /\ [AuthNext]_authVars => AuthInv'
  BY TypesKept, InvKept DEF AuthInv
<1> QED BY <1>1, <1>2, PTL DEF AuthSpec

-----------------------------------------------------------------------------
(* The theorems *)

\* Type correctness of the credential cache.
THEOREM AuthTypeCorrect == AuthSpec => []AuthTypeOK
<1>1. AuthInv => AuthTypeOK
  BY DEF AuthInv
<1> QED BY <1>1, AuthInvariant, PTL

\* No refresh is posted while valid credentials are cached.
THEOREM RefreshOnce == AuthSpec => []OneRefreshPerExpiry
<1>1. AuthInv => OneRefreshPerExpiry
  BY DEF AuthInv
<1> QED BY <1>1, AuthInvariant, PTL

\* Which steps serve a caller: the cache check and the landing of a flight.
LEMMA ServingSteps ==
  ASSUME AuthTypeOK, [AuthNext]_authVars, NEW c \in Callers, pc[c] # "got", pc'[c] = "got"
  PROVE  \/ isTokenValid(cached) /\ got'[c] = cached /\ UNCHANGED asked
         \/ flight.stage = "landing" /\ got'[c] = flight.creds /\ UNCHANGED asked
<1> USE DEF AuthTypeOK
<1>1. ASSUME NEW d \in Callers, GetToken(d) PROVE isTokenValid(cached) /\ got'[c] = cached /\ UNCHANGED asked
  BY <1>1, SMT DEF GetToken
<1>2. ASSUME NEW d \in Callers, Do(d) \/ Return(d) \/ InvalidateCache(d) PROVE FALSE
  BY <1>2, SMT DEF Do, Return, InvalidateCache
<1>3. ASSUME refreshCredentials \/ KiroCLI \/ Tick \/ UNCHANGED authVars PROVE FALSE
  <2>1. pc' = pc
    BY <1>3 DEF refreshCredentials, recheckCache, readFromDB, doTokenRefresh, storeCached,
                KiroCLI, Tick, authVars
  <2> QED BY <2>1
<1>4. ASSUME Land PROVE flight.stage = "landing" /\ got'[c] = flight.creds /\ UNCHANGED asked
  BY <1>4, SMT DEF Land
<1> QED BY <1>1, <1>2, <1>3, <1>4 DEF AuthNext

\* GetToken never hands out an expired token.
THEOREM TokensUsable == AuthSpec => UsableTokenServed
<1>1. ASSUME AuthInv, [AuthNext]_authVars,
             NEW c \in Callers, pc[c] # "got", pc'[c] = "got", got'[c] # NoCreds
      PROVE  got'[c].expires > now
  <2>1. AuthTypeOK /\ ClockOK /\ now \in Nat /\ Buffer \in Nat /\ Deadline \in Nat
    BY <1>1, AuthAssumption DEF AuthInv, AuthTypeOK
  <2>2. CASE isTokenValid(cached) /\ got'[c] = cached
    <3>1. cached.expires > now + Buffer /\ cached \in Creds
      BY <2>1, <2>2, ValidMeans DEF AuthTypeOK
    <3> QED BY <2>1, <2>2, <3>1, SMT DEF Creds
  <2>3. CASE flight.stage = "landing" /\ got'[c] = flight.creds
    <3>1. flight.creds \in Creds
      BY <1>1, <2>1, <2>3, SMT DEF AuthTypeOK, Flights
    <3> QED BY <1>1, <2>1, <2>3, <3>1, SMT DEF ClockOK, Creds
  <2> QED BY <1>1, <2>1, <2>2, <2>3, ServingSteps
<1>2. AuthInv /\ [AuthNext]_authVars =>
        [\A c \in Callers : pc[c] # "got" /\ pc'[c] = "got" /\ got'[c] # NoCreds
           => got'[c].expires > now]_authVars
  BY <1>1
<1> QED BY <1>2, AuthInvariant, PTL DEF AuthSpec, UsableTokenServed

\* An invalidation with no refresh in flight is never undone by another caller.
THEOREM InvalidationsHeeded == AuthSpec => InvalidationHeeded
<1>1. ASSUME AuthInv, [AuthNext]_authVars, NEW c \in Callers,
             pc[c] # "got", pc'[c] = "got", got'[c] # NoCreds, c \in asked
      PROVE  c \in got'[c].sees
  <2>1. AuthTypeOK /\ AskedOK
    BY <1>1 DEF AuthInv
  <2>2. CASE isTokenValid(cached) /\ got'[c] = cached
    BY <1>1, <2>1, <2>2 DEF AskedOK
  <2>3. CASE flight.stage = "landing" /\ got'[c] = flight.creds
    BY <1>1, <2>1, <2>3 DEF AskedOK
  <2> QED BY <1>1, <2>1, <2>2, <2>3, ServingSteps
<1>2. AuthInv /\ [AuthNext]_authVars =>
        [\A c \in Callers : pc[c] # "got" /\ pc'[c] = "got" /\ got'[c] # NoCreds /\ c \in asked
           => c \in got'[c].sees]_authVars
  BY <1>1
<1> QED BY <1>2, AuthInvariant, PTL DEF AuthSpec, InvalidationHeeded

-----------------------------------------------------------------------------
(* The clients of the manager *)

(***************************************************************************)
(* A step of a client is at most one operation of the manager.             *)
(***************************************************************************)
LEMMA ClientSteps == [ClientNext]_allVars => [AuthNext]_authVars
<1>. SUFFICES ASSUME [ClientNext]_allVars PROVE [AuthNext]_authVars
  OBVIOUS
<1>1. ASSUME NEW c \in Callers, Call(c) PROVE [AuthNext]_authVars
  BY <1>1 DEF Call, Authenticate, Authenticated, RetryableAnswer, ForbiddenAnswer, FinalAnswer,
              Backoff, Refresh, Reauthenticate, Refreshed, AuthNext
<1>2. ASSUME NEW c \in Callers, Wait(c) \/ Cancel(c) PROVE [AuthNext]_authVars
  BY <1>2 DEF Wait, Cancel, AuthNext
<1>3. CASE Flight \/ ((KiroCLI \/ Tick) /\ UNCHANGED clientVars)
  BY <1>3 DEF Flight, AuthNext
<1>4. CASE UNCHANGED allVars
  BY <1>4 DEF allVars
<1>. QED
  BY <1>1, <1>2, <1>3, <1>4 DEF ClientNext

(***************************************************************************)
(* Whatever the clients do they use the manager as it expects to be used:  *)
(* what is proved of AuthSpec holds under both attempt loops and the token *)
(* refresher they share.                                                   *)
(***************************************************************************)
THEOREM RunsTheManager == ClientSpec => AuthSpec
<1>1. ClientInit => AuthInit
  BY DEF ClientInit
<1>. QED
  BY <1>1, ClientSteps, PTL DEF ClientSpec, AuthSpec

(***************************************************************************)
(* An attempt is waited or refreshed for only while the budget holds it;   *)
(* the MCP client refreshes for none.  A call that asks for its token has  *)
(* sent nothing yet.                                                       *)
(***************************************************************************)
BudgetInv ==
  \A c \in Callers :
    /\ at[c] \in {"idle", "auth"} => attempt[c] = 0
    /\ at[c] = "backoff" => ~Last(c)
    /\ at[c] \in {"refresh", "invalidated", "reauth"} /\ c \notin MCPCallers => ~Last(c)

Places == {"idle", "auth", "send", "backoff", "refresh", "invalidated", "reauth"} \cup Over

\* The types of the calls' own state.
CallsOK ==
  /\ at \in [Callers -> Places]
  /\ attempt \in [Callers -> 0..(maxAttempts - 1)]
  /\ token \in [Callers -> 0..MaxTokens]
  /\ gone \in [Callers -> BOOLEAN]

ClientInv == CallsOK /\ BudgetInv

LEMMA ClientInitial == ClientInit => ClientInv
<1>. SUFFICES ASSUME ClientInit PROVE ClientInv
  OBVIOUS
<1>1. 0 \in 0..(maxAttempts - 1) /\ 0 \in 0..MaxTokens
  BY AuthAssumption, ClientAssumption
<1>2. at \in [Callers -> Places] /\ gone \in [Callers -> BOOLEAN]
  BY DEF ClientInit, Places
<1>3. attempt \in [Callers -> 0..(maxAttempts - 1)] /\ token \in [Callers -> 0..MaxTokens]
  BY <1>1 DEF ClientInit
<1>4. BudgetInv
  BY DEF ClientInit, BudgetInv
<1>. QED
  BY <1>2, <1>3, <1>4 DEF ClientInv, CallsOK

(***************************************************************************)
(* A call that is not on its last attempt may make one more.               *)
(***************************************************************************)
LEMMA OneMore ==
  ASSUME CallsOK, NEW c \in Callers, ~Last(c)
  PROVE  attempt[c] + 1 \in 0..(maxAttempts - 1)
<1>1. attempt[c] \in 0..(maxAttempts - 1)
  BY DEF CallsOK
<1>. QED
  BY <1>1, ClientAssumption DEF Last

(***************************************************************************)
(* A step of one call that goes to a place it may go to keeps the          *)
(* invariant: the other calls are where they were.                         *)
(***************************************************************************)
LEMMA CallMoves ==
  ASSUME ClientInv, NEW c \in Callers, NEW place \in Places, At(c, place),
         NEW n \in 0..(maxAttempts - 1), attempt' = [attempt EXCEPT ![c] = n],
         NEW t \in 0..MaxTokens, token' = [token EXCEPT ![c] = t],
         UNCHANGED gone,
         place \in {"idle", "auth"} => n = 0,
         place = "backoff" => n # maxAttempts - 1,
         place \in {"refresh", "invalidated", "reauth"} /\ c \notin MCPCallers
           => n # maxAttempts - 1
  PROVE  ClientInv'
<1>1. CallsOK'
  BY DEF ClientInv, CallsOK, At
<1>2. /\ at'[c] = place /\ attempt'[c] = n
      /\ \A d \in Callers \ {c} : at'[d] = at[d] /\ attempt'[d] = attempt[d]
  BY DEF ClientInv, CallsOK, At
<1>3. BudgetInv'
  BY <1>2 DEF ClientInv, BudgetInv, Last
<1>. QED
  BY <1>1, <1>3 DEF ClientInv

LEMMA ClientStep == AuthTypeOK /\ ClientInv /\ [ClientNext]_allVars => ClientInv'
<1>. SUFFICES ASSUME AuthTypeOK, ClientInv, [ClientNext]_allVars PROVE ClientInv'
  OBVIOUS
<1>1. ASSUME NEW c \in Callers, Call(c) PROVE ClientInv'
  <2>1. /\ attempt[c] \in 0..(maxAttempts - 1) /\ token[c] \in 0..MaxTokens
        /\ attempt = [attempt EXCEPT ![c] = attempt[c]] /\ token = [token EXCEPT ![c] = token[c]]
    BY DEF ClientInv, CallsOK
  <2>2. got[c] # NoCreds => got[c].token \in 0..MaxTokens
    BY AuthAssumption DEF AuthTypeOK, Creds
  <2>3. /\ at[c] \in {"idle", "auth"} => attempt[c] = 0
        /\ at[c] = "backoff" => ~Last(c)
        /\ at[c] \in {"refresh", "invalidated", "reauth"} /\ c \notin MCPCallers => ~Last(c)
    BY DEF ClientInv, BudgetInv
  <2>4. /\ {"idle", "auth", "send", "backoff", "refresh", "invalidated", "reauth"} \subseteq Places
        /\ {"ok", "failed", "unauthorized"} \subseteq Places
    BY DEF Places, Over
  <2>5. ~Last(c) => attempt[c] + 1 \in 0..(maxAttempts - 1)
    BY OneMore DEF ClientInv
  <2>6. CASE Authenticate(c)
    BY <2>1, <2>3, <2>4, <2>6, CallMoves DEF Authenticate
  <2>7. CASE Authenticated(c)
    BY <2>1, <2>2, <2>4, <2>7, CallMoves DEF Authenticated
  <2>8. CASE RetryableAnswer(c)
    BY <2>1, <2>4, <2>8, CallMoves DEF RetryableAnswer, Last
  <2>9. CASE ForbiddenAnswer(c)
    BY <2>1, <2>4, <2>9, CallMoves DEF ForbiddenAnswer, Last
  <2>10. CASE FinalAnswer(c)
    BY <2>1, <2>4, <2>10, CallMoves DEF FinalAnswer
  <2>11. CASE Backoff(c)
    BY <2>1, <2>3, <2>4, <2>5, <2>11, CallMoves DEF Backoff
  <2>12. CASE Refresh(c)
    BY <2>1, <2>3, <2>4, <2>12, CallMoves DEF Refresh, Last
  <2>13. CASE Reauthenticate(c)
    BY <2>1, <2>3, <2>4, <2>13, CallMoves DEF Reauthenticate, Last
  <2>14. CASE Refreshed(c)
    BY <2>1, <2>2, <2>3, <2>4, <2>5, <2>14, CallMoves DEF Refreshed, Last
  <2>. QED
    BY <1>1, <2>6, <2>7, <2>8, <2>9, <2>10, <2>11, <2>12, <2>13, <2>14 DEF Call
<1>2. ASSUME UNCHANGED <<at, attempt, token>>, gone' \in [Callers -> BOOLEAN] PROVE ClientInv'
  BY <1>2 DEF ClientInv, CallsOK, BudgetInv, Last
<1>3. ASSUME NEW c \in Callers, Cancel(c) PROVE ClientInv'
  BY <1>2, <1>3 DEF Cancel, ClientInv, CallsOK
<1>4. CASE UNCHANGED clientVars
  BY <1>2, <1>4 DEF clientVars, ClientInv, CallsOK
<1>. QED
  BY <1>1, <1>3, <1>4 DEF ClientNext, Wait, Flight, allVars

LEMMA ClientInvariant == ClientSpec => [](AuthTypeOK /\ ClientInv)
<1>1. ClientSpec => []AuthTypeOK
  BY RunsTheManager, AuthTypeCorrect, PTL
<1>. QED
  BY <1>1, ClientInitial, ClientStep, PTL DEF ClientSpec

\* The calls of both clients keep their types, and their attempts stay within the budget.
THEOREM ClientTypes == ClientSpec => []ClientTypeOK
<1>1. AuthTypeOK /\ ClientInv => ClientTypeOK
  BY DEF ClientTypeOK, ClientInv, CallsOK, Places
<1>. QED
  BY <1>1, ClientInvariant, PTL

(***************************************************************************)
(* Each request is one attempt, whichever way the two clients come to it   *)
(* (the runtime client sends at once behind a refresh, the MCP client      *)
(* waits), and no request goes out beyond the budget (AttemptsCounted).    *)
(***************************************************************************)
THEOREM AttemptsWithinBudget == ClientSpec => AttemptsCounted
<1>1. ASSUME AuthTypeOK, ClientInv, [ClientNext]_allVars, NEW c \in Callers,
             at[c] # "send", at'[c] = "send"
      PROVE  /\ attempt'[c] = IF at[c] = "auth" THEN 0 ELSE attempt[c] + 1
             /\ attempt'[c] < maxAttempts
  <2>1. PICK d \in Callers : Call(d)
    BY <1>1 DEF ClientNext, Wait, Cancel, Flight, clientVars, allVars
  <2>2. d = c
    BY <1>1, <2>1 DEF Call, Authenticate, Authenticated, RetryableAnswer, ForbiddenAnswer,
         FinalAnswer, Backoff, Refresh, Reauthenticate, Refreshed, At, ClientInv, CallsOK
  <2>3. Authenticated(c) \/ Backoff(c) \/ Refreshed(c)
    BY <1>1, <2>1, <2>2 DEF Call, Authenticate, RetryableAnswer, ForbiddenAnswer,
         FinalAnswer, Refresh, Reauthenticate, At, ClientInv, CallsOK
  <2>4. attempt'[c] = IF at[c] = "auth" THEN 0 ELSE attempt[c] + 1
    BY <1>1, <2>3 DEF Authenticated, Backoff, Refreshed, At, ClientInv, CallsOK, BudgetInv
  <2>5. ClientInv'
    BY <1>1, ClientStep
  <2>6. attempt'[c] \in 0..(maxAttempts - 1)
    BY <2>5 DEF ClientInv, CallsOK
  <2>. QED
    BY <2>4, <2>6, ClientAssumption
<1>2. AuthTypeOK /\ ClientInv /\ [ClientNext]_allVars =>
        [\A c \in Callers : at[c] # "send" /\ at'[c] = "send" =>
           /\ attempt'[c] = IF at[c] = "auth" THEN 0 ELSE attempt[c] + 1
           /\ attempt'[c] < maxAttempts]_allVars
  BY <1>1
<1>. QED
  BY <1>2, ClientInvariant, PTL DEF ClientSpec, AttemptsCounted
=============================================================================
