----------------------------- MODULE AuthManager -----------------------------
(***************************************************************************)
(* The credential cache every request shares (internal/auth/refresh.go).   *)
(*                                                                         *)
(* GetToken looks at the cache under the mutex and, on a miss, joins the   *)
(* one refresh in flight or starts it (singleflight).  The flight re-reads *)
(* the Kiro CLI database and, if what it finds there is about to expire,   *)
(* posts a refresh; it holds the mutex only to look at the cache and to    *)
(* store into it.  InvalidateCache may run at any of those points, and the *)
(* Kiro CLI rewrites its database whenever it likes.                       *)
(*                                                                         *)
(* A definition D_X is D with the slip X in it; no specification uses one. *)
(***************************************************************************)
EXTENDS Naturals

CONSTANTS
  Callers,     \* the goroutines that use the manager
  Buffer,      \* tokenValidityBuffer, in clock ticks
  Deadline,    \* the longest a flight lasts: its context's timeout
  Lifetimes,   \* lifetimes of newly issued tokens
  MaxTime,     \* bound: clock ticks
  MaxTokens    \* bound: tokens issued

ASSUME AuthAssumption ==
  /\ Buffer \in Nat /\ Deadline \in Nat /\ MaxTime \in Nat /\ MaxTokens \in Nat \ {0}
  /\ Deadline <= Buffer
  /\ Lifetimes \subseteq {n \in Nat : n > Deadline}

VARIABLES
  now, issued,
  db,        \* the database's row: the token, its expiry, and whether it can be refreshed
  cached,    \* m.cached
  flight,    \* the refresh in flight, and what it has come up with
  pc, got,   \* where each caller is in GetToken, and what GetToken gave it
  asked      \* history: callers that invalidated the cache while nothing was in flight

authVars == <<now, issued, db, cached, flight, pc, got, asked>>

\* Credentials; "sees" is history: the callers in asked when they were looked up.
NoCreds == [token |-> 0, expires |-> 0, sees |-> {}]
Creds   == [token : 1..MaxTokens, expires : Nat, sees : SUBSET Callers]

Flights == [stage : {"none", "check", "read", "post", "keep", "landing"}, began : Nat,
            sees : SUBSET Callers, creds : Creds \cup {NoCreds}]
Flying(stage, creds) == [stage |-> stage, began |-> flight.began, sees |-> flight.sees,
                         creds |-> creds]
Grounded == [stage |-> "none", began |-> 0, sees |-> {}, creds |-> NoCreds]

isTokenValid_NoBuffer(creds) == creds # NoCreds /\ creds.expires > now

isTokenValid(creds) == creds # NoCreds /\ creds.expires > now + Buffer

-----------------------------------------------------------------------------
(* GetToken *)

\* The cache check at the top.
GetToken(c) ==
  /\ pc[c] = "idle"
  /\ IF isTokenValid(cached)
       THEN pc' = [pc EXCEPT ![c] = "got"] /\ got' = [got EXCEPT ![c] = cached]
       ELSE pc' = [pc EXCEPT ![c] = "miss"] /\ UNCHANGED got
  /\ UNCHANGED <<now, issued, db, cached, flight, asked>>

\* singleflight's Do: start the flight, or wait for the one under way.
Do(c) ==
  /\ pc[c] = "miss"
  /\ pc' = [pc EXCEPT ![c] = "wait"]
  /\ IF flight.stage = "none"
       THEN flight' = [stage |-> "check", began |-> now, sees |-> asked, creds |-> NoCreds]
       ELSE UNCHANGED flight
  /\ UNCHANGED <<now, issued, db, cached, got, asked>>

\* singleflight hands its result to every waiter and forgets the flight, in one step.
Land ==
  /\ flight.stage = "landing"
  /\ pc'  = [c \in Callers |-> IF pc[c] = "wait" THEN "got" ELSE pc[c]]
  /\ got' = [c \in Callers |-> IF pc[c] = "wait" THEN flight.creds ELSE got[c]]
  /\ flight' = Grounded
  /\ UNCHANGED <<now, issued, db, cached, asked>>

\* The caller takes its copy and goes on.
Return(c) ==
  /\ pc[c] = "got"
  /\ pc' = [pc EXCEPT ![c] = "idle"]
  /\ got' = [got EXCEPT ![c] = NoCreds]
  /\ asked' = asked \ {c}
  /\ UNCHANGED <<now, issued, db, cached, flight>>

InvalidateCache_KeepsCache(c) ==
  /\ pc[c] = "idle"
  /\ asked' = IF flight.stage = "none" THEN asked \cup {c} ELSE asked \ {c}
  /\ UNCHANGED <<now, issued, db, cached, flight, pc, got>>

InvalidateCache(c) ==
  /\ pc[c] = "idle"
  /\ cached' = NoCreds
  /\ asked' = IF flight.stage = "none" THEN asked \cup {c} ELSE asked \ {c}
  /\ UNCHANGED <<now, issued, db, flight, pc, got>>

-----------------------------------------------------------------------------
(* refreshCredentials, run by the flight *)

\* The flight goes straight to the database.
recheckCache_Skipped ==
  /\ flight.stage = "check"
  /\ flight' = Flying("read", NoCreds)
  /\ UNCHANGED <<now, issued, db, cached, pc, got, asked>>

\* Another flight may have refreshed between the caller's miss and this one's start.
recheckCache ==
  /\ flight.stage = "check"
  /\ flight' = IF isTokenValid(cached)
                 THEN Flying("landing", cached)
                 ELSE Flying("read", NoCreds)
  /\ UNCHANGED <<now, issued, db, cached, pc, got, asked>>

\* Reading the row fails, or finds it.
ReadCredentials ==
  {NoCreds} \cup {r \in {[token |-> db.token, expires |-> db.expires, sees |-> flight.sees]} :
                   db.token # 0}

\* The row decides: give up without one, use it, or refresh it if it can be.
readFromDB ==
  /\ flight.stage = "read"
  /\ \E row \in ReadCredentials :
       flight' = IF isTokenValid(row) THEN Flying("keep", row)
                 ELSE IF row # NoCreds /\ db.refreshable THEN Flying("post", NoCreds)
                 ELSE Flying("landing", NoCreds)
  /\ UNCHANGED <<now, issued, db, cached, pc, got, asked>>

\* The refresh endpoint issues a token, or fails, answers nonsense or times out.
doTokenRefresh ==
  /\ flight.stage = "post"
  /\ \/ /\ flight' = Flying("landing", NoCreds)
        /\ UNCHANGED issued
     \/ /\ issued < MaxTokens
        /\ issued' = issued + 1
        /\ \E l \in Lifetimes :
             flight' = Flying("keep", [token |-> issued + 1, expires |-> now + l,
                                       sees |-> flight.sees])
  /\ UNCHANGED <<now, db, cached, pc, got, asked>>

\* m.cached is assigned under the mutex.
storeCached ==
  /\ flight.stage = "keep"
  /\ cached' = flight.creds
  /\ flight' = Flying("landing", flight.creds)
  /\ UNCHANGED <<now, issued, db, pc, got, asked>>

refreshCredentials == recheckCache \/ readFromDB \/ doTokenRefresh \/ storeCached

-----------------------------------------------------------------------------
(* The Kiro CLI and the clock *)

\* The CLI logs in anew, refreshes its own token, or logs out.
KiroCLI ==
  /\ \/ /\ issued < MaxTokens
        /\ issued' = issued + 1
        /\ \E l \in Lifetimes, r \in BOOLEAN :
             db' = [token |-> issued + 1, expires |-> now + l, refreshable |-> r]
     \/ /\ db.token # 0
        /\ db' = [token |-> 0, expires |-> 0, refreshable |-> FALSE]
        /\ UNCHANGED issued
  /\ UNCHANGED <<now, cached, flight, pc, got, asked>>

\* A flight ends within its deadline: its HTTP call is bounded by it, the rest is local.
Tick ==
  /\ now < MaxTime
  /\ flight.stage # "none" => now < flight.began + Deadline
  /\ now' = now + 1
  /\ UNCHANGED <<issued, db, cached, flight, pc, got, asked>>

-----------------------------------------------------------------------------
AuthInit ==
  /\ now = 0
  /\ \/ issued = 0 /\ db = [token |-> 0, expires |-> 0, refreshable |-> FALSE]
     \/ issued = 1 /\ \E l \in Lifetimes, r \in BOOLEAN :
                        db = [token |-> 1, expires |-> l, refreshable |-> r]
  /\ cached = NoCreds /\ flight = Grounded
  /\ pc = [c \in Callers |-> "idle"] /\ got = [c \in Callers |-> NoCreds]
  /\ asked = {}

AuthNext ==
  \/ \E c \in Callers : GetToken(c) \/ Do(c) \/ Return(c) \/ InvalidateCache(c)
  \/ refreshCredentials \/ Land \/ KiroCLI \/ Tick

AuthSpec == AuthInit /\ [][AuthNext]_authVars

-----------------------------------------------------------------------------
(* Properties *)

\* The types of the manager's state.
AuthTypeOK ==
  /\ now \in Nat /\ issued \in 0..MaxTokens
  /\ db \in [token : 0..MaxTokens, expires : Nat, refreshable : BOOLEAN]
  /\ cached \in Creds \cup {NoCreds}
  /\ flight \in Flights
  /\ pc \in [Callers -> {"idle", "miss", "wait", "got"}]
  /\ got \in [Callers -> Creds \cup {NoCreds}]
  /\ asked \subseteq Callers

\* GetToken never hands out an expired token, however long its caller waited for a flight
\* that was already under way: the validity buffer outlasts a flight.
UsableTokenServed ==
  [][\A c \in Callers : pc[c] # "got" /\ pc'[c] = "got" /\ got'[c] # NoCreds
       => got'[c].expires > now]_authVars

\* A refresh is posted only when nothing valid is cached, although a caller may have missed
\* the cache before the previous flight filled it.
OneRefreshPerExpiry == flight.stage \in {"read", "post"} => ~isTokenValid(cached)

\* A caller that invalidates the cache while no refresh is in flight is served credentials
\* looked up after that, whoever else fills the cache or starts the flight.
InvalidationHeeded ==
  [][\A c \in Callers : pc[c] # "got" /\ pc'[c] = "got" /\ got'[c] # NoCreds /\ c \in asked
       => c \in got'[c].sees]_authVars
=============================================================================
