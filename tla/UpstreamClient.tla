--------------------------- MODULE UpstreamClient ---------------------------
(***************************************************************************)
(* The two clients that present the manager's tokens: the runtime client   *)
(* (internal/kiroclient/client.go) and the MCP client                      *)
(* (internal/kiromcp/client.go), with their attempt loops and the token    *)
(* refresher cmd/kirocc/main.go gives both.  Each caller makes one call.   *)
(***************************************************************************)
EXTENDS AuthManager

CONSTANTS
  MCPCallers,    \* the callers that use the MCP client; the others use the runtime client
  maxAttempts    \* request attempts of one call, the first included

ASSUME ClientAssumption == MCPCallers \subseteq Callers /\ maxAttempts \in Nat \ {0}

VARIABLES
  at,        \* where the call is
  attempt,   \* index of the attempt being made
  token,     \* currentToken
  gone       \* the call's context is cancelled

clientVars == <<at, attempt, token, gone>>
allVars    == <<authVars, clientVars>>

\* The last attempt of the loop.
Last(c) == attempt[c] = maxAttempts - 1

At(c, place) == at' = [at EXCEPT ![c] = place]

-----------------------------------------------------------------------------
\* HandleMessages asks for a token before anything else.
Authenticate(c) ==
  /\ at[c] = "idle"
  /\ GetToken(c)
  /\ At(c, "auth")
  /\ UNCHANGED <<attempt, token, gone>>

Authenticated(c) ==
  /\ at[c] = "auth"
  /\ Return(c)
  /\ IF got[c] = NoCreds
       THEN At(c, "unauthorized") /\ UNCHANGED token
       ELSE At(c, "send") /\ token' = [token EXCEPT ![c] = got[c].token]
  /\ UNCHANGED <<attempt, gone>>

\* A transport error, a throttled or failing upstream, or a retryable exception in a 200.
RetryableAnswer(c) ==
  /\ at[c] = "send"
  /\ At(c, IF Last(c) THEN "failed" ELSE "backoff")
  /\ UNCHANGED <<authVars, attempt, token, gone>>

\* A refresh is followed by an attempt that the budget does not hold.
ForbiddenAnswer_OnLast(c) ==
  /\ at[c] = "send" /\ ~gone[c]
  /\ At(c, "refresh")
  /\ UNCHANGED <<authVars, attempt, token, gone>>

\* The runtime client does not refresh for an attempt it will not make; the MCP client does.
ForbiddenAnswer(c) ==
  /\ at[c] = "send" /\ ~gone[c]
  /\ At(c, IF Last(c) /\ c \notin MCPCallers THEN "failed" ELSE "refresh")
  /\ UNCHANGED <<authVars, attempt, token, gone>>

FinalAnswer(c) ==
  /\ at[c] = "send" /\ ~gone[c]
  /\ At(c, "ok") \/ At(c, "failed")
  /\ UNCHANGED <<authVars, attempt, token, gone>>

\* retryWait: the delay passes or the context ends first.
Backoff(c) ==
  /\ at[c] = "backoff"
  /\ IF gone[c]
       THEN At(c, "failed") /\ UNCHANGED attempt
       ELSE At(c, "send") /\ attempt' = [attempt EXCEPT ![c] = @ + 1]
  /\ UNCHANGED <<authVars, token, gone>>

\* The token refresher: InvalidateCache, then GetToken.
Refresh(c) ==
  /\ at[c] = "refresh"
  /\ InvalidateCache(c)
  /\ At(c, "invalidated")
  /\ UNCHANGED <<attempt, token, gone>>

Reauthenticate(c) ==
  /\ at[c] = "invalidated"
  /\ GetToken(c)
  /\ At(c, "reauth")
  /\ UNCHANGED <<attempt, token, gone>>

\* A 403 does not use up an attempt.
Refreshed_Uncounted(c) ==
  /\ at[c] = "reauth"
  /\ Return(c)
  /\ IF got[c] = NoCreds
       THEN At(c, "failed") /\ UNCHANGED <<attempt, token>>
       ELSE At(c, "send") /\ token' = [token EXCEPT ![c] = got[c].token] /\ UNCHANGED attempt
  /\ UNCHANGED <<gone>>

\* The runtime client sends again at once, the MCP client waits as before any attempt.
Refreshed(c) ==
  /\ at[c] = "reauth"
  /\ Return(c)
  /\ IF got[c] = NoCreds
       THEN At(c, "failed") /\ UNCHANGED <<attempt, token>>
       ELSE /\ token' = [token EXCEPT ![c] = got[c].token]
            /\ IF c \notin MCPCallers
                 THEN At(c, "send") /\ attempt' = [attempt EXCEPT ![c] = @ + 1]
                 ELSE At(c, IF Last(c) THEN "failed" ELSE "backoff") /\ UNCHANGED attempt
  /\ UNCHANGED <<gone>>

\* The client of the proxy disconnects while the call is under way.
Cancel(c) ==
  /\ ~gone[c]
  /\ gone' = [gone EXCEPT ![c] = TRUE]
  /\ UNCHANGED <<authVars, at, attempt, token>>

-----------------------------------------------------------------------------
ClientInit ==
  /\ AuthInit
  /\ at = [c \in Callers |-> "idle"]
  /\ attempt = [c \in Callers |-> 0]
  /\ token = [c \in Callers |-> 0]
  /\ gone = [c \in Callers |-> FALSE]

Call(c) ==
  \/ Authenticate(c) \/ Authenticated(c) \/ RetryableAnswer(c) \/ ForbiddenAnswer(c)
  \/ FinalAnswer(c) \/ Backoff(c) \/ Refresh(c) \/ Reauthenticate(c) \/ Refreshed(c)

Wait(c) == Do(c) /\ UNCHANGED clientVars
Flight  == (refreshCredentials \/ Land) /\ UNCHANGED clientVars

ClientNext ==
  \/ \E c \in Callers : Call(c) \/ Wait(c) \/ Cancel(c)
  \/ Flight
  \/ (KiroCLI \/ Tick) /\ UNCHANGED clientVars

ClientSpec == ClientInit /\ [][ClientNext]_allVars

\* Goroutines run, and every HTTP call ends: each client sets a timeout.
ClientFairSpec ==
  /\ ClientSpec
  /\ WF_allVars(Flight)
  /\ \A c \in Callers : WF_allVars(Call(c)) /\ WF_allVars(Wait(c))

-----------------------------------------------------------------------------
(* Properties *)

Over == {"ok", "failed", "unauthorized"}

\* The types of the calls' state, and the attempt budget.
ClientTypeOK ==
  /\ AuthTypeOK
  /\ at \in [Callers -> {"idle", "auth", "send", "backoff", "refresh", "invalidated", "reauth"}
                          \cup Over]
  /\ attempt \in [Callers -> 0..(maxAttempts - 1)]
  /\ token \in [Callers -> 0..MaxTokens]
  /\ gone \in [Callers -> BOOLEAN]

\* Every call that asks for a token ends, however many calls wait on the same refresh and
\* however often the upstream rejects what the refresher returns.
EveryCallEnds == \A c \in Callers : at[c] # "idle" ~> at[c] \in Over

\* Every request a call sends is one attempt, also the one behind a refresh, and none goes out
\* beyond the budget that the requests announce (amz-sdk-request: attempt=n; max=m).
AttemptsCounted ==
  [][\A c \in Callers : at[c] # "send" /\ at'[c] = "send" =>
       /\ attempt'[c] = IF at[c] = "auth" THEN 0 ELSE attempt[c] + 1
       /\ attempt'[c] < maxAttempts]_allVars

\* The refresher's promise in cmd/kirocc/main.go: after a 403 the token that was rejected
\* is not returned again.
RejectedTokenReplaced ==
  [][\A c \in Callers : at[c] = "reauth" /\ at'[c] \in {"send", "backoff"}
       => token'[c] # token[c]]_allVars
=============================================================================
