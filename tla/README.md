# Verification of kirocc

kirocc is a proxy: it answers Anthropic `/v1/messages` requests with what the
Kiro backend says. This directory holds TLA+ models of the parts where that is
hard to get right, what TLC checks of them on small instances, and what TLAPS
proves of them for every instance. Paths are relative to `src/internal/` unless
they begin with `cmd/`.

## 1. Inventory

A streaming request passes through these components:

    client <-- stream session <-- SSE writer <-- accumulator <-- event stream parser <-- Kiro
                  ^  heartbeat                                           ^
                  |                                       upstream clients <-- credential cache
    request execution (one call, one retry)                              ^          ^
    tool search orchestrator (rounds of calls and searches) -------------+     Kiro CLI's database

| Component | State | Operations | Hard about it |
|---|---|---|---|
| **Stream session** `app/messages/stream_session.go`, `gate_writer.go` | buffered events; promoted / committed / firstErr / stopped / finalizing / finalized; activity channel; heartbeat goroutine and timer | Write, Flush, Promote, Discard, WriteFinalError, Start, Stop, the heartbeat | three parties share it; the mutex is released around the final-error callback and in the heartbeat's select; writes fail, fall short, do not flush |
| **Request execution** `execute.go`, `response.go`, `errors.go` | where the handler is, the attempt | call upstream, stream the response, discard and retry once, fail | what may be retried depends on what the client has seen |
| **SSE writer** `respconv/streaming*.go`, `finalize.go` | open block, message started, gate fired, write error | HandleEvent, Finish, WriteError, search blocks, ResetAccumulator | every path must leave a well-formed event stream |
| **Response text** `respconv/accumulator.go`, `chunk_delta.go`, `thinking_tags.go`, `stop_sequence.go`, `token_budget.go` | last chunk, tag buffer, pending text, rune count, local stop | ComputeDelta, one delta, FinalizeStream | chunks repeat and overlap; tags and stop sequences split over frames anywhere; several filters in a row |
| **Tool search orchestrator** `toolsearch.go`, `websearch.go` | history, round, budgets, intercepted calls, plan | call, intercept, plan, search, finish, retry | several upstream responses become one message |
| **Credential cache** `auth/refresh.go`, `auth/db.go` | cached credentials, the flight | GetToken, InvalidateCache, the refresh | callers, invalidations, one shared flight, an external writer of the database, expiry |
| **Upstream clients** `kiroclient/client.go`, `kiromcp/client.go` | attempt, current token | attempt, back off, refresh after a 403 | two attempt loops that share one token refresher |
| **Event stream parser** `kiroproto/` | position, unfinished tool call | readFrame, tool call accumulation, ParseStream | truncated frames, missing stop frames, early stop |
| **Non-streaming responses** `response.go`, `toolsearch.go` 452-647, `respconv/nonstreaming.go`, `tool_calls.go` | collected response, budgets, blocks of all rounds | the same retry and round loop | decides behind the last event; keeps what the streaming path drops |
| **Request conversion** `reqconv/` | none | Normalize, splitMessages, buildHistory, images, tool results | role alternation, orphaned results, the image window, passes that depend on their order |
| Tool search `toolsearch/` | deferred and active tools | search, PromoteTools | promotions survive the retry |
| **Web search and page fetching** `kiromcp/websearch.go`, `webfetch/` | LRU cache with expiry | search, FetchAll | concurrent fetches of one page |
| Body reader `kiroclient/idle_reader.go` | none | Read with a deadline | a read that outlives its caller |
| Token counting, model catalogue, HTTP server, configuration, capture, logging, tracing, API types, scripts | tables and configuration loaded once | lookups and wiring | little: see section 6 |

What makes each of them correct:

* *session*: never a JSON error inside an event stream; nothing behind a final
  error; the client sees one attempt, in order and complete; Stop leaves no
  heartbeat behind; the client is never left silent longer than the interval.
* *execution*: a well-formed stream across retry and error; an answer to every
  request whose client is there; a retry only while the client has seen nothing;
  no empty turn.
* *text*: the outcome does not depend on how chunks cut, repeat or overlap the
  text; a stop sequence and the budget end the text.
* *event stream, non-streaming responses*: a tool call is told once, with its own
  input, also when its stop frame is missing; a broken response is not taken for
  a whole one; the client gets one answer, whose stop reason agrees with it.
* *conversation*: every word arrives, in order, in alternating roles; a result
  answers a call of the entry before it; images are those of the window.
* *pages*: the cache agrees with its index; no page outlives its lease; every
  fetch returns.
* *orchestrator*: one well-formed message over all rounds; no search without its
  result; budgets kept; results reach the model.
* *credentials*: one refresh per expiry; no expired token is served; an
  invalidation is not undone by another caller.
* *clients*: every call ends within its attempts; a rejected token is replaced.

PROJECT.json lists every component and every hazard at its line, those without a
property too.

## 2. Modules

| Module | Models | Extends |
|---|---|---|
| `Downstream` | what a streaming client is promised: keep-alives, then one JSON error or the events of one attempt | |
| `StreamSession` | the session, its heartbeat, Stop and the client | |
| `StreamSessionProofs` | its invariants, and that it implements `Downstream` | StreamSession |
| `SSEWriter` | the writer and what it needs of its accumulator, as operators on a value; `WellFormed`, the grammar of an Anthropic event stream | |
| `SSEWriterProofs` | lemmas: every operation of the writer leads from one place of a stream to another | SSEWriter |
| `MessageExchange` | one streaming request without searches: handler, writer and session together | StreamSession, SSEWriter |
| `MessageExchangeProofs` | its properties, and that it implements `StreamSession!Spec` | MessageExchange, StreamSessionProofs, SSEWriterProofs |
| `Orchestrator` | one streaming request with searches: the round loop over the writer | SSEWriter |
| `OrchestratorProofs` | its properties | Orchestrator, SSEWriterProofs |
| `EventStream` | ParseStream over the frames of a body, and the tool call accumulator | |
| `BufferedExchange` | one non-streaming request, with or without the round loop, on that parser | EventStream, SSEWriter |
| `BufferedExchangeProofs` | its properties, with the accumulator and the deduplication | BufferedExchange |
| `ResponseText` | chunk deltas, thinking tags, stop sequences and budget over the characters of a response | |
| `ResponseTextProofs` | its properties, and lemmas about the overlap matcher and the tag parser | ResponseText |
| `Conversation` | BuildPayload, and what the rounds add to the conversation | |
| `PageCache` | concurrent calls of FetchAll over the LRU cache they share | |
| `PageCacheProofs` | its properties | PageCache |
| `AuthManager` | GetToken, InvalidateCache, the flight, the Kiro CLI and the clock | |
| `UpstreamClient` | both clients' attempt loops on the shared manager | AuthManager |
| `AuthManagerProofs` | the properties of both, and that `UpstreamClient` implements `AuthManager!AuthSpec` | UpstreamClient |

The modules whose names begin with `MC` give constants their values or a
constraint for TLC.

**Grain.** A critical section of a mutex is one action; code that holds no mutex
is split where another party can step in (the heartbeat loop, the final-error
callback, Stop, singleflight, the attempt loops). A method that returns early
is an action with a false guard. Socket writes have four outcomes: accepted, short, failed, accepted but not flushed.

**StreamSession.** Variables carry the struct's names; `hb` is the goroutine's
program counter and `wire` what the connection has accepted. Runs of keep-alives
are collapsed into one, which keeps `wire` finite and hides nothing a property
asks about. `idle` and `timer` count clock ticks up to `Interval`. A write of
the handler is `Write(e)`; the attempt it belongs to and its number are history. The operations are
free: the handler may call any of them in any order, which is more than the code
does, so what holds here holds for any caller.

**MessageExchange** puts the real handler on top. A frame is handled by asking
`SSEWriter!HandleEvent` for the operations it causes and running them on the
session one at a time, so that the heartbeat, a failing write or a disconnect can come between any two.
The upstream is nondeterministic: a call succeeds or fails; a frame carries text,
thinking, a tool call or redacted reasoning; a response ends, breaks, or carries
a retryable or another error. A frame, and the end of a response, may bring thinking and text behind it. Of the text only what the echo guards look at is
kept: nothing; blank or a prefix of a placeholder; a placeholder; either of the last two behind white space that only the guard at
the end ignores (`padded`, `paddedEcho`: U+3000, NBSP, `\v`, `\f`), which opens the gate; anything else.

**Orchestrator** takes the session as section 3 shows it to be (events are
buffered until promoted, then on the wire; a failure is the action `Break`) and
models the rounds: interception, `planRound` with its three budgets, visible and
hidden searches, the executions, the last round, the retry and all its errors.
Tool search and web search results are opaque, and a search always returns, as `executeWebSearch` turns errors into results.

**BufferedExchange** puts both non-streaming handlers on `EventStream`: `searching`
says which one serves the request. A frame is a `toolUseEvent` of an alphabet
(`ToolFrames`), or anything else; `sent` remembers the former, and
`SentCalls(sent)` reads the calls off them by their runs, independently of the
accumulator; frames with neither id nor name that no call precedes are nobody's. `NoName` is a payload without the key, which the code tells
from an empty name. `normalizeJSON` is a constant operator: inputs are compared as it leaves them.
`OnePerID` and `OnePerInput` are the two loops of `DeduplicateToolCalls`, a call at a time. `calls` and `acc` are the accumulator of `respconv/nonstreaming.go`,
which shares its text side with the stream's. A response may be stopped locally at any
text or call. A web search uses one or all of the query budget that is left; `Orchestrator` has the numbers.

**ResponseText** has real characters, since its properties are about where
a text is cut. The upstream repeats or extends its last chunk, or sends a window
of it with one character more. A window that begins like the last chunk is left out: the code
cannot tell it from a text that shrank (`chunk_delta.go:16-19`), and drops it.
`News` says by a definition of its own what a chunk adds; `sent` collects it.

**Conversation** translates the passes of `Normalize` and the parts of
`BuildPayload` as operators. `Request` sends a longer conversation, as a client does that resends
everything; `appendSearchMessages` and `appendWebSearchMessages` are one round of the
loop. Words, calls, results and images are names made of the place and number at
which they were said, so that each can be found again in the payload.
A developer's message carries text only; a result in it would pass the orphan check.

**PageCache.** A goroutine of `FetchAll` queues for the semaphore, looks the page
up, downloads it with the mutex free and stores it; each is one action. A page that failed keeps its URL. `began` and `born` are
when a download started and serve the properties.

**AuthManager.** `flight` is the singleflight call with its stage; `Do` joins or
starts it and `Land` hands its result to all waiters. The database is rewritten
by `KiroCLI` at any time. `sees` and `asked` are history variables for
`InvalidationHeeded`.

**Slips.** A definition `D_Slip` next to `D` is `D` with a plausible mistake in it. No
specification uses one; PROJECT.json lists them as mutants, one for every
property, and TLC finds each property violated when the slip replaces the definition.

## 3. Runs

| Run | States | What it shows |
|---|---|---|
| `session` | 100 thousand | All properties of the session, that it implements `Downstream`, and that the heartbeat ends. |
| `exchange` | 2.0 million | Well-formedness, answers, no empty turns, transparent retry, with the heartbeat running; every streaming request ends and joins its heartbeat. |
| `auth_tokens` | 1.5 million | The credential cache with two callers. |
| `upstream_calls` | 173 thousand | A runtime and an MCP call on one manager count every attempt and keep their budget; both end. |
| `upstream_rejected` | violation | see section 5 |
| `orchestrator_rounds` | 288 thousand | The orchestrator's properties for visible searches, and what its retry may throw away; every request ends. |
| `orchestrator_unclosed` | violation | see section 5 |
| `text_split` | 895 thousand | Every text of up to eight characters in every cut, repetition and overlap, with reasoning frames. |
| `text_stop` | violation | see section 5 |
| `buffered` | 1.7 million | Both non-streaming paths; every request is answered. |
| `conversation` | 266 thousand | Every conversation of up to four messages. |
| `pages` | 1.0 million | Two concurrent calls over a cache of one page. |

**Bounds and why they are enough.**

* *session*: one payload, two writes per attempt, two attempts, an interval of two ticks. Payloads are never
  compared, each event also carries its attempt and number; two writes make a partial promotion and
  a write behind it; two attempts make a leak from the first into the second;
  two ticks make a timer that is stale by one. The proofs of section 4 hold for all values.
* *exchange*: two frames per response make every pair of blocks (what
  closes one and opens another looks at no more), both attempts, `Interval` 1. `ShortRetry` leaves the second response one
  frame, since it starts with everything fresh.
  `MaxWrites` 16 is more than two frames and an ending can write. `KeepAlivesFirst` restricts
  keep-alives to the start of the wire: that is where they decide between JSON and SSE; the session run has them everywhere.
  `EarlyTicks` stops the clock in the second attempt and once the context is cancelled: the heartbeat still runs, but what it does at its
  interval is explored ahead of that, and without restriction in the session run.
* *auth_tokens*: two callers make the joiner and the late starter of a flight, buffer 2 > deadline 1,
  lifetimes on both sides of the buffer, four ticks so that a token expires and is replaced, three tokens.
* *upstream_calls*: one caller of each client, two attempts, so that one is the
  last; time stands still because the attempts do not look at it, and tokens are issued valid or about to expire.
* *orchestrator_rounds*: one tool search round, two web search rounds and two
  queries, so that either budget can end first and a round may ask for more than is left; three
  rounds; two frames per response make a frame ahead of an interception, or two interceptions. `ShortLater` leaves one frame
  to a response from the third round on or behind the retry, which starts with everything fresh but the query count.
* *text_split*: eight characters hold both tags and three more, which is what it takes for the thinking to
  use the budget up in a frame that goes on with text; frames add one to three characters; four
  runes of budget at two runes a token end inside, at and behind a delta. Of the two stop sequences one
  overlaps itself and the opening tag, the other the tags' beginning. A window brings one character: what it
  overlaps with is the question, and the next chunk can bring more.
* *buffered*: three frames are a call that another interrupts and that goes on, or a call split in
  three. The alphabet has two client calls of one name with equal and with different input, repeated, replaced,
  without id or name, frames that are nobody's, a search whose name comes late, and one whose input is one value, and inputs that differ in white space only. One round of each kind makes a second round and a spent budget.
* *conversation*: four messages make two calls and results apart, a result that comes one exchange late, and two
  turns with a continuation; `HistoryImageTurns` zero, one and unlimited. Nine messages to choose from: texts, images
  (one over the limit), results reordered, repeated and orphaned, calls answered or not, replayed searches, blobs.
* *pages*: one place in the semaphore and one entry in the cache make goroutines of one call wait and calls evict each
  other's pages; two URLs may repeat within a call; lease and timeout of one tick in three make an entry
  expire between lookup and store. With more of either there is more of the same.

Deadlock is checked where the system has a `Done` step or runs forever. It is
not checked in `ResponseText`, which stops after `Finish`, in
`UpstreamClient`, where every caller makes one call, and in `Conversation`, which
stops at its longest conversation.

**Fairness.** `session`: a runnable goroutine runs (heartbeat, Stop), a final
error that has begun is completed because the handler does nothing else
meanwhile, and time passes. The handler is not obliged to call anything and the client may
stay for ever. `exchange`: the heartbeat and the handler run, and a response ends, since
`idle_reader.go` puts a deadline on every read (an upstream that streams frames for ever is not considered).
`buffered`: the handler runs, on the same ground. `pages`: goroutines run and a download ends at the
HTTP client's timeout; time need not pass.
`upstream_calls`: each call and the flight go on, since both HTTP clients and the flight have timeouts.
`orchestrator_rounds`: the loop goes on, for the same reasons.
All of it is weak fairness; nothing needs strong fairness. In `exchange`, `orchestrator_rounds` and `buffered` it is
spelled out by what the steps change, which TLC evaluates much faster. `exchange` and `buffered` also name the states in which a goroutine can step
instead of asking ENABLED: everywhere but at its end, in the heartbeat's select and in the wait for the heartbeat. A handler that got stuck elsewhere
would be a deadlock, since the client can go away and the heartbeat then ends; both runs check for it.

The type invariants `AuthTypeOK`, `ExchangeTypeOK`, `OrchTypeOK`, `ClientTypeOK`, `BufferedTypeOK` and
`TextTypeOK` are proved in section 4 and listed in no run, `StopReturns` of the session (Stop is not kept
waiting) is defined in its module and holds; the runs list the properties that say more.

## 4. Proofs

The theorems hold for every value of the constants: any number of callers, frames, rounds, pages and
writes, any payloads, budgets and intervals. Of the 40 properties the passing runs check, 31 are theorems; the rest is liveness and the component at the end of this section.

| Component | Theorems | Inductive invariant |
|---|---|---|
| session | `TypeCorrect`, `SilenceIsBounded`, `FinalErrorLast`, `NeverMix`, `StopJoins`, `Silence`, `OneAttempt`, `PromotedDelivered`, `Implements` | `SessionInv`, with `HeadInv` and `JoinInv` |
| streaming request | `RunsTheSession`, `ExchangeTypes`, `WellFormedAlways`, `AlwaysAnswered`, `EmptyTurnWithheld`, `RetryTransparent` | `ExchInv` |
| orchestrator | `OrchTypes`, `VisibleMessage`, `Answered`, `VisibleBudget`, `ResultsInTime`, `RetryDropsNothing` | `OrchInv` |
| non-streaming request | `AnsweredOnceHolds`, `BufferedTypes`, `CallsAreFaithful`, `CallsKept`, `StopReasonHolds` | `BufferedInv` |
| response text | `ResponseDelivered`, `StopSequencesWithheld`, `BudgetKept`, `TextTypes`, `DeltaIsNews`, `ParseOn` | `TextInv` |
| pages | `CacheIsConsistent`, `PagesServed` | `PageInv` |
| credentials | `AuthTypeCorrect`, `RefreshOnce`, `TokensUsable`, `InvalidationsHeeded` | `AuthInv` |
| clients | `RunsTheManager`, `ClientTypes`, `AttemptsWithinBudget` | `ClientInv` |

**Assumptions on the constants.** Bounds, budgets, limits and intervals are natural numbers, and `MaxAttempts`,
`maxAttempts`, `concurrency` and `MaxEntries` not zero. `AuthAssumption`: a flight's deadline is not
longer than the validity buffer, and a new token outlives it; in the code the
deadline is that of the flight's context and the buffer `tokenValidityBuffer`.
`OrchestratorAssumption`: a round asks a finite set of queries. `ExchangeAssumption`: the session's
events include the writer's. `EventStreamAssumption`: frames have fields of the types the JSON decoder gives them, and
an upstream's ids are none of the numbers that stand for fresh UUIDs.
`BufferedAssumption`: only tool search and web search are intercepted.
`TextAssumption`: tags and stop sequences are not empty, `max_tokens` and the runes to a token above zero; the
alphabet, the tags and the stop sequences are otherwise free.

**Refinements.** `Implements`: every step of the session, the heartbeat and Stop is a step or a stutter of
`Downstream`. `RunsTheSession`: every step of handler and client is one the session allows, so that
`ExchangeSpec => Spec => ImplementsDownstream` and all theorems about the session hold of the real handler; the
proof has to show that the handler writes, promotes and discards only where the session's operations may be
called, never behind Stop or a final error.
`RunsTheManager`: the same for the two attempt loops and the manager.

**Session** (`StreamSessionProofs`). `TypeOK` needs `ClockOK`, which says that the timer and the time since the
last activity together stay within the interval. That a final error is last on the wire is not
inductive; `LastInv` adds that finalizing implies promoted and not finalized (the
callback window), that the buffer holds plain events only, and that an error on the
wire means finalized. `WireStep` reduces every action to the kinds of pieces
it appends, so that this is argued once and not per action.
`HeadInv` ties the response head to committed, promoted and finalized; `JoinInv` says that once Stop is past its mark the session
is stopped, and Start refuses. For the order of events, `OrderInv` says what promotion hands over: ahead of
it the buffer holds writes 1 to n of this attempt and the wire none; behind it the wire is numbered
without a gap and complete as long as no write has failed.

**Streams** (`SSEWriterProofs`). `Leads(K, p, s, q)` says that `s` may stand in an event stream behind `p` and ends
at `q`; it composes (`LeadsConcat`), and from the beginning it means `WellFormed` (`LeadsWellFormed`). `At(w, q)` ties the
writer's fields to the place. Then each operation of the writer leads from a place that fits the writer before to one that fits the writer after (`Yields`), and
none but through the open gate to a tool call.

**Streaming request** (`MessageExchangeProofs`). `StoryInv`: what the session has accepted leads from the beginning to some place, and
`todo`, the operations still to be run, from there to where the writer stands, or to the closing event that is meant. So a heartbeat, a
disconnect or an error between two operations changes nothing. It holds as long as no write has failed; then only the
beginning stays, which is all the property claims. `ControlInv` says where the handler can be with
which session state, `GateInv` that the gate opens only for a response that shows something. `EmptyTurnWithheld` is about what the gate can know: it
excepts a placeholder behind white space that the gate does not trim (section 5, 4), and turns that are blank, the mere beginning of a
placeholder or wholly empty, which the code delivers on purpose.

**Orchestrator** (`OrchestratorProofs`). `MessageInv` is `StoryInv` over rounds, and only for visible searches: `BlockInv` is
what hidden ones break (section 5, 2). `WriterInv`: what is not on the wire
holds no tool call and no search of any round, though every round begins its accumulator anew (`RetryDropsNothing`). `CountInv`: each search shown has its result but for those planned. `QueryInv`: what was executed in
a visible run is on the wire, so the retry cannot start its budget over. `OwedInv`: a result not yet sent to the
model means a further call, the last round, or an error.

**Non-streaming request** (`BufferedExchangeProofs`). `Holds(sent, tool)`: the accumulator has exactly the call of the last
run of frames. `FrameHeld` keeps it; `FrameTells` and `EndTells` say that a frame completes the calls that are over with it and
the end of the body the rest, so that nothing but nobody's frames goes untold. `CallsInv` says that what is recorded was told by the
frames so far, and that every call that is over is recorded or intercepted unless the response was stopped; `Deduplicated` carries
that over to what is built. `StopInv` relates `acc.tool`, `calls`, `called` and the round: a single round's stop
reason is decided by the very calls it holds. `AnsweredInv`: nothing is written ahead of the end, a response is judged
when its body has ended, and built only if usable. `BufferedTypeInv` needs that a round spends a unit of some
budget (`SearchSpends`), or the rounds would not stay within their bound.
`Owner`, `Inputs`, `Only` and the deduplication are recursive functions. The library states induction with an operator
parameter, which the provers cannot instantiate; `Induction` states it for a set, from the well-founded order of the numbers, and `Recursion` and
`SameRecursion` derive from it that such a function exists and satisfies its equations.

**Response text** (`ResponseTextProofs`). Two algorithms are shown to compute what they are for. `DeltaIsNews`: the failure
function gives the longest border of every prefix, the matcher therefore the longest overlap of two chunks, so that the delta is what
the definition `News` says a chunk adds. `ParseOn`: reading a text in pieces, with the end that may begin a tag held
back, finds the same text and thinking as reading it at once; nothing of what was read but the held end can reach into what follows.
`TextInv` then says that while the response runs, the accumulator is where the parser stands that has read all that was sent
at once; that text delivered is a beginning of the text in it; that what is held back for
the stop sequences (`HoldsBack`) is one character shorter than the longest of them as soon as anything has been delivered, so that a
match never reaches back into what the client has; and that the estimate stays within the budget. A local stop
leaves the first part and keeps the others up to the end of the stream; findings 3, 7 and 8 of section 5 are what lies outside of them.
The matcher and the parser are recursive functions; their equations follow as for the deduplication, by `StrongInduction`.

**Pages** (`PageCacheProofs`). `CacheOK`: the list has each key of the index once, no other, and is not longer than allowed;
each list operation keeps it. `Downloads`: a download under way is not older than the client's timeout, from which the age of a page served follows.

**Credentials and clients** (`AuthManagerProofs`). `FlightOK`: the flight has credentials in its last two stages only. `ClockOK`: it
is not older than its deadline and what it found outlives that. `AskedOK`: what is cached or in flight was looked up
after the invalidations made while nothing was in flight. `ServingSteps` names the two steps that serve a
caller. `BudgetInv`: a call that backs off or refreshes has an attempt left, unless it is the MCP client's, which checks behind the refresh.

**Only model-checked**: liveness under fairness (and whatever needs ENABLED), which the proof system does not handle;
and the three properties of `Conversation`. Its passes are compositions of `SelectSeq`, whose definition the proof system cannot expand, of
`FlattenSeq`, and of `FoldLeft`: each would need a recursive definition of its own and a lemma that it is well-founded.

## 5. Where the code and its documentation disagree

The first three are runs that TLC ends with a counterexample; PROJECT.json quotes the lines.

1. `upstream_rejected`: after a 403 the refresher may return the rejected token,
   because the database still holds it and its expiry is far enough (`auth/refresh.go:187`).
2. `orchestrator_unclosed`: with hidden searches, `ResetAccumulator` forgets an
   open block without closing it (`respconv/streaming.go:443`).
3. `text_stop`: text held back for a thinking tag is delivered behind the stop
   that ended the response (`respconv/accumulator.go:202`).
The others are properties defined in the modules but listed in no run. TLC finds each violated
when it is checked with the constants of the run in parentheses.

4. `PlaceholderNeverPromotes` (`exchange`): `respconv/streaming.go:381-382` says "A stream that completes as a bare
   placeholder never promotes, which is what lets the caller discard it". Behind white space that
   `MayBeSyntheticEmptyEcho` does not trim (`anthropic/synthetic.go:66`) and `IsSyntheticEmptyEcho` does (line 39: U+3000, NBSP,
   `\v`, `\f`), an echoed placeholder is promoted before it can be recognised, cannot be retried
   (`response.go:143`, `toolsearch.go:347`) and is delivered as an empty turn.
5. `QueriesWithinBudget` (`orchestrator_rounds`): README.md:534 says "at most 3 extra Kiro round-trips and 10
   queries per client request". With hidden searches, the retry of an empty turn starts
   the query budget over (`app/messages/toolsearch.go:203`).
6. `ResultsReachModel` (`orchestrator_rounds`): `toolsearch.go:27-29` says "the loop has to allow for the worst case of each
   being exhausted in turn". When every round spends one unit of one budget, the
   last search's result is never sent to the model (`toolsearch.go:205`).
7. `MaxTokensEnforced` (`text_split`): README.md:419 says `max_tokens` is enforced. When thinking uses the budget
   up, the text behind it in the same frame is delivered uncounted (`respconv/event_processor.go:30`).
8. `NoStopSequenceDelivered` (`text_split`): of two stop sequences in one frame the first of the
   list is taken, and an earlier one in the text is delivered (`respconv/stop_sequence.go:14`).
9. `ImageSetsExpireTogether` (`conversation`): `reqconv/images.go:46-49` and README.md:207-210 say that what belongs to a
   turn expires together. The window begins behind the start of the turn that leaves it, so that
   the images its tool results brought stay for one turn more (`images.go:202-214`).
10. `SearchBlobsSkipped` (`conversation`): `reqconv/history.go:35-37` says blobs attributed to a server_tool_use are
   skipped. In the round that follows the search its result is the current one, the call counts
   as answered, and the blob is replayed (`history.go:83-90`).

Noticed while reading, and excluded from the models' inputs or visible in their operators:
`kmpOverlap`'s comment says a full match is an overlap of `len(b)` where the code goes on with its border
(`chunk_delta.go:64-66`), so that a chunk which only repeats the end of the last one is delivered again;
a filler or a result turned into text counts as a turn the user typed (`images.go:174-197`);
a `tool_search_tool_result` replayed in an assistant's message is dropped from the history while its call stays.

What holds in spite of them is stated beside them: `VisibleMessageWellFormed`,
`VisibleQueriesWithinBudget`,
`ResultsReachModelInTime`, `WithinMaxTokens`, `StopSequenceWithheld`, `ImagesOfTheWindow`.

## 6. What is not modelled, and the plan

Left out because nothing in it is hard in this sense: the model catalogue and
configuration (tables loaded once), the HTTP server (one condition each), API
types (declarations), capture, logging and tracing (they observe), request text
and schemas (string and JSON rewriting), ranking of tools, HTML extraction,
token counting (an external tokenizer), usage numbers, scripts.
Request conversion is partly modelled: tool definitions, the shortening of their names and the translation
of server tools are per-request tables. Of web search, the choice of results and their text are data.
The tools a search promotes and the usage counts summed over rounds are left out of `Orchestrator` and
`BufferedExchange`: neither decides where the loop goes.

Theorems to prove next: `WordsInOrder`, `ResultsAnswerCalls` and `ImagesOfTheWindow` of `Conversation`, pass by pass, with its
filters as recursive functions and the induction of `ResponseTextProofs`; that `Orchestrator`'s writer is one `StreamSession!Spec` allows.

## 7. Running it

    tlc -config StreamSession.cfg MCStreamSession
    tlc -config MessageExchange.cfg MCMessageExchange
    tlc -config AuthManager_tokens.cfg AuthManager
    tlc -config UpstreamClient_calls.cfg UpstreamClient
    tlc -config Orchestrator_rounds.cfg MCOrchestrator
    tlc -config ResponseText_split.cfg MCResponseText
    tlc -config BufferedExchange.cfg MCBufferedExchange
    tlc -config Conversation.cfg MCConversation
    tlc -config PageCache.cfg PageCache
    tlapm StreamSessionProofs.tla
    tlapm SSEWriterProofs.tla
    tlapm MessageExchangeProofs.tla
    tlapm OrchestratorProofs.tla
    tlapm BufferedExchangeProofs.tla
    tlapm ResponseTextProofs.tla
    tlapm PageCacheProofs.tla
    tlapm AuthManagerProofs.tla

PROJECT.json names the remaining runs, the mutants and the source lines behind every definition.
