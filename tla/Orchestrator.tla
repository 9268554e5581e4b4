---------------------------- MODULE Orchestrator ----------------------------
(***************************************************************************)
(* The streaming round loop behind tool search and web search              *)
(* (toolSearchOrchestrator, app/messages/toolsearch.go and websearch.go).  *)
(* One client request becomes a run of upstream calls; the searches the    *)
(* model asks for are executed by the proxy and their results sent with    *)
(* the next call, while one SSEWriter writes one message for the client.   *)
(*                                                                         *)
(* The stream session is what StreamSession shows it to be: events are     *)
(* buffered (out, with promoted FALSE) until they are promoted, and may be *)
(* discarded until then.  A failing session, a failing write and a gone    *)
(* client are the action Break.                                            *)
(***************************************************************************)
EXTENDS SSEWriter, FiniteSets

CONSTANTS
  maxToolSearchRounds, maxWebSearchRounds,
  maxQueries,   \* maxWebSearchQueries, or the client's lower max_uses
  Queries,      \* the queries a model may ask for
  MaxFrames     \* bound: frames of one upstream response

ASSUME OrchestratorAssumption ==
  /\ {maxToolSearchRounds, maxWebSearchRounds, maxQueries, MaxFrames} \subseteq Nat
  /\ IsFiniteSet(Queries)

maxOrchestratorRounds == maxToolSearchRounds + maxWebSearchRounds

VARIABLES
  visible,   \* searches are shown to the client (-web-search-visible)
  drains,    \* the model drains after a local stop
  opc,       \* what the orchestrator does next
  run,       \* 1, or 2 for the retry
  round,     \* rounds completed in this run
  budget,    \* roundBudget
  frames,    \* frames of this response
  caught,    \* the intercepted tool calls of this response, in order, by the tool they call
  plan,      \* roundPlan: what is left to execute
  sw, acc,   \* the SSEWriter and its accumulator
  out,       \* the message: operations since the last discard
  promoted,  \* they are on the wire
  answer,    \* how the request ended
  searched,  \* web queries executed for this request
  owed       \* results in the history that no upstream call has carried yet

config   == <<visible, drains>>
stream   == <<sw, acc, out, promoted>>
orchVars == <<visible, drains, opc, run, round, budget, frames, caught, plan, sw, acc, out,
              promoted, answer, searched, owed>>

\* A tool call: its queries are empty if web_search input has none or cannot be decoded;
\* ToolSearch input only has to be decodable.
Interceptions == [name : {"ToolSearch"}, ok : BOOLEAN, queries : {{}}]
                   \cup [name : {"web_search"}, ok : {TRUE}, queries : SUBSET Queries]

newRoundBudget == [toolSearch |-> 0, webSearchRounds |-> 0, webSearchQueries |-> 0]
NothingCaught  == [tools |-> <<>>, web |-> <<>>]
NoPlan         == [web |-> {}, shown |-> {}, tools |-> <<>>]

Min(a, b) == IF a <= b THEN a ELSE b

-----------------------------------------------------------------------------
(* Writing *)

\* Operations of the writer reach the session one after the other.
Emit(r) ==
  /\ sw' = r.w /\ acc' = r.acc
  /\ out' = out \o r.ops
  /\ promoted' = (promoted \/ \E i \in 1..Len(r.ops) : r.ops[i] = "promote")

\* The request ends; what is local to the run is gone.
Leave(how) ==
  /\ answer' = how /\ opc' = "done"
  /\ frames' = 0 /\ caught' = NothingCaught /\ plan' = NoPlan
  /\ sw' = NewWriter /\ acc' = NewAccumulator

\* WriteFinalError: into a promoted stream, or in place of everything buffered.
FinalError ==
  /\ out' = IF promoted THEN out \o WriteError(sw) ELSE <<>>
  /\ Leave("error")
  /\ UNCHANGED <<config, run, round, budget, promoted, searched, owed>>

\* The session, a write or the client's connection fails.
Break ==
  /\ opc # "done"
  /\ Leave("broken")
  /\ UNCHANGED <<config, run, round, budget, out, promoted, searched, owed>>

-----------------------------------------------------------------------------
(* A round: the upstream call and its response *)

\* The payload cannot be built, the call fails, or the response breaks or carries an error.
UpstreamFails == opc \in {"call", "parse"} /\ FinalError

CallSucceeds ==
  /\ opc = "call"
  /\ IF round > 0 THEN sw' = ResetAccumulator(sw) /\ acc' = NewAccumulator ELSE UNCHANGED <<sw, acc>>
  /\ owed' = 0
  /\ opc' = "parse"
  /\ UNCHANGED <<config, run, round, budget, frames, caught, plan, out, promoted, answer, searched>>

\* A frame ahead of the first interception is forwarded; a local stop ends the response.
Frame ==
  /\ opc = "parse" /\ caught = NothingCaught /\ frames < MaxFrames
  /\ frames' = frames + 1
  /\ \E r \in HandleEvent(sw, acc, drains) :
       Emit(r) /\ opc' = IF r.local THEN "deliver" ELSE "parse"
  /\ UNCHANGED <<config, run, round, budget, caught, plan, answer, searched, owed>>

\* A complete call of a tool the proxy executes itself, also while draining a stop.
Intercept(i) ==
  /\ opc = "parse" /\ frames < MaxFrames
  /\ frames' = frames + 1
  /\ caught' = IF i.name = "ToolSearch" THEN [caught EXCEPT !.tools = Append(@, i)]
                                      ELSE [caught EXCEPT !.web = Append(@, i)]
  /\ UNCHANGED <<config, opc, run, round, budget, plan, stream, answer, searched, owed>>

\* Any other frame behind it is dropped, but for its reasoning.
TailFrame(stop) ==
  /\ opc = "parse" /\ caught # NothingCaught /\ frames < MaxFrames
  /\ frames' = frames + 1
  /\ acc' = RecordTail(acc, stop)
  /\ UNCHANGED <<config, opc, run, round, budget, caught, plan, sw, out, promoted, answer, searched,
                 owed>>

EndOfStream ==
  /\ opc = "parse"
  /\ opc' = "plan"
  /\ UNCHANGED <<config, run, round, budget, frames, caught, plan, stream, answer, searched, owed>>

-----------------------------------------------------------------------------
(* planRound *)

\* As many tool searches as the budget still holds.
allowToolSearch ==
  SubSeq(caught.tools, 1, Min(Len(caught.tools), maxToolSearchRounds - budget.toolSearch))

allowWebSearchRound ==
  /\ caught.web # <<>>
  /\ budget.webSearchRounds < maxWebSearchRounds /\ budget.webSearchQueries < maxQueries

Asked      == UNION {caught.web[i].queries : i \in DOMAIN caught.web}
ParseError == \E i \in DOMAIN caught.web : caught.web[i].queries = {}

\* The fan-out of a round is not clamped.
takeQueries_Unlimited(n) == n

takeQueries(n) == Min(n, maxQueries - budget.webSearchQueries)

\* An undecodable web search aborts the request.
PlanFails == opc = "plan" /\ allowWebSearchRound /\ ParseError /\ FinalError

\* The frames and what was caught are local to the round.
PlanRound ==
  /\ opc = "plan" /\ ~(allowWebSearchRound /\ ParseError)
  /\ \E granted \in SUBSET Asked :
       /\ IF allowWebSearchRound THEN Cardinality(granted) = takeQueries(Cardinality(Asked))
                                 ELSE granted = {}
       /\ plan' = [web |-> granted, shown |-> {}, tools |-> allowToolSearch]
       /\ budget' = [toolSearch |-> budget.toolSearch + Len(allowToolSearch),
                     webSearchRounds |-> budget.webSearchRounds + (IF allowWebSearchRound THEN 1 ELSE 0),
                     webSearchQueries |-> budget.webSearchQueries + Cardinality(granted)]
  /\ frames' = 0 /\ caught' = NothingCaught
  /\ opc' = IF plan'.web = {} /\ plan'.tools = <<>> THEN "finish" ELSE "execute"
  /\ UNCHANGED <<config, run, round, stream, answer, searched, owed>>

-----------------------------------------------------------------------------
(* Executing the plan *)

\* Before the searches run the client is shown all of them.
ShowSearch ==
  /\ opc = "execute" /\ visible /\ plan.shown # plan.web
  /\ \E q \in plan.web \ plan.shown : plan' = [plan EXCEPT !.shown = @ \cup {q}]
  /\ Emit(WriteServerToolUse(sw, acc))
  /\ UNCHANGED <<config, opc, run, round, budget, frames, caught, answer, searched, owed>>

\* The searches run concurrently and are all awaited; each has a result, if only an error.
executeWebSearches ==
  /\ opc = "execute" /\ plan.web # {} /\ (visible => plan.shown = plan.web)
  /\ searched' = searched + Cardinality(plan.web)
  /\ opc' = "results"
  /\ UNCHANGED <<config, run, round, budget, frames, caught, plan, stream, answer, owed>>

WebSearchResult ==
  /\ opc = "results" /\ plan.web # {}
  /\ \E q \in plan.web : plan' = [plan EXCEPT !.web = @ \ {q}, !.shown = @ \ {q}]
  /\ owed' = owed + 1
  /\ IF visible THEN Emit(WriteSearchResult(sw, acc)) ELSE UNCHANGED stream
  /\ UNCHANGED <<config, opc, run, round, budget, frames, caught, answer, searched>>

ToolSearchFails ==
  /\ opc \in {"execute", "results"} /\ plan.web = {}
  /\ plan.tools # <<>> /\ ~plan.tools[1].ok
  /\ FinalError

ToolSearch ==
  /\ opc \in {"execute", "results"} /\ plan.web = {}
  /\ plan.tools # <<>> /\ plan.tools[1].ok
  /\ LET use == WriteServerToolUse(sw, acc) IN Emit(Then(use, WriteSearchResult(use.w, acc)))
  /\ plan' = [plan EXCEPT !.tools = SubSeq(@, 2, Len(@))]
  /\ owed' = owed + 1
  /\ UNCHANGED <<config, opc, run, round, budget, frames, caught, answer, searched>>

\* The loop gives up one round early.
NextRound_Early ==
  /\ opc \in {"execute", "results"} /\ plan = NoPlan
  /\ round' = round + 1
  /\ opc' = IF round' + 1 < maxOrchestratorRounds THEN "call" ELSE "exhausted"
  /\ UNCHANGED <<config, run, budget, frames, caught, plan, stream, answer, searched, owed>>

NextRound ==
  /\ opc \in {"execute", "results"} /\ plan = NoPlan
  /\ round' = round + 1
  /\ opc' = IF round' < maxOrchestratorRounds THEN "call" ELSE "exhausted"
  /\ UNCHANGED <<config, run, budget, frames, caught, plan, stream, answer, searched, owed>>

-----------------------------------------------------------------------------
(* The end of a run *)

\* The last round's response is final, or no round is left.
FinishMessage ==
  /\ opc \in {"finish", "exhausted"}
  /\ \E r \in Finish(sw, acc) : Emit(r)
  /\ opc' = IF opc = "finish" THEN "finished" ELSE "deliver"
  /\ UNCHANGED <<config, run, round, budget, frames, caught, plan, answer, searched, owed>>

\* A run that shows the client nothing is discarded, unless it is on the wire already.
EmptyVisible == IsEmptyVisibleEndTurn(acc) /\ ~promoted

\* What no visible output promoted stays in the buffer.
Deliver_Buffered ==
  /\ opc = "deliver" \/ (opc = "finished" /\ ~EmptyVisible)
  /\ Leave("message")
  /\ UNCHANGED <<config, run, round, budget, out, promoted, searched, owed>>

Deliver ==
  /\ opc = "deliver" \/ (opc = "finished" /\ ~EmptyVisible)
  /\ promoted' = TRUE
  /\ Leave("message")
  /\ UNCHANGED <<config, run, round, budget, out, searched, owed>>

\* Every empty run is started over.
Retry_Unbounded ==
  /\ opc = "finished" /\ EmptyVisible
  /\ run' = 2 /\ round' = 0 /\ budget' = newRoundBudget
  /\ sw' = NewWriter /\ acc' = NewAccumulator /\ out' = <<>>
  /\ opc' = "call"
  /\ UNCHANGED <<config, frames, caught, plan, promoted, answer, searched, owed>>

\* The orchestrator starts over, with everything fresh.
Retry ==
  /\ opc = "finished" /\ EmptyVisible /\ run = 1
  /\ run' = 2 /\ round' = 0 /\ budget' = newRoundBudget
  /\ sw' = NewWriter /\ acc' = NewAccumulator /\ out' = <<>>
  /\ opc' = "call"
  /\ UNCHANGED <<config, frames, caught, plan, promoted, answer, searched, owed>>

RetryEmpty == opc = "finished" /\ EmptyVisible /\ run = 2 /\ FinalError

-----------------------------------------------------------------------------
OrchInit ==
  /\ visible \in BOOLEAN /\ drains \in BOOLEAN
  /\ opc = "call" /\ run = 1 /\ round = 0 /\ budget = newRoundBudget
  /\ frames = 0 /\ caught = NothingCaught /\ plan = NoPlan
  /\ sw = NewWriter /\ acc = NewAccumulator /\ out = <<>> /\ promoted = FALSE
  /\ answer = "none" /\ searched = 0 /\ owed = 0

OrchStep ==
  \/ UpstreamFails \/ CallSucceeds \/ Frame \/ EndOfStream
  \/ \E i \in Interceptions : Intercept(i)
  \/ \E stop \in BOOLEAN : TailFrame(stop)
  \/ PlanFails \/ PlanRound \/ ShowSearch \/ executeWebSearches \/ WebSearchResult
  \/ ToolSearchFails \/ ToolSearch \/ NextRound
  \/ FinishMessage \/ Deliver \/ Retry \/ RetryEmpty

OrchDone == opc = "done" /\ UNCHANGED orchVars

OrchNext == OrchStep \/ Break \/ OrchDone

OrchSpec == OrchInit /\ [][OrchNext]_orchVars

\* The handler runs, upstream responses end and searches return: all have deadlines.  This is
\* the weak fairness of OrchStep, spelled out by what no other step does.
OrchFairSpec ==
  /\ OrchSpec
  /\ []<>(opc = "done" \/ ~ENABLED <<OrchStep>>_orchVars) \/ []<><<answer' # "broken">>_orchVars

-----------------------------------------------------------------------------
(* Properties *)

\* The types of the orchestrator's state.
OrchTypeOK ==
  /\ visible \in BOOLEAN /\ drains \in BOOLEAN
  /\ opc \in {"call", "parse", "plan", "execute", "results", "finish", "exhausted", "finished",
              "deliver", "done"}
  /\ run \in 1..2 /\ round \in 0..maxOrchestratorRounds
  /\ budget \in [toolSearch : 0..maxToolSearchRounds, webSearchRounds : 0..maxWebSearchRounds,
                 webSearchQueries : 0..maxQueries]
  /\ frames \in 0..MaxFrames /\ caught \in [tools : Seq(Interceptions), web : Seq(Interceptions)]
  /\ plan \in [web : SUBSET Queries, shown : SUBSET Queries, tools : Seq(Interceptions)]
  /\ sw \in Writers /\ acc \in Accumulators /\ out \in Seq(Operations) /\ promoted \in BOOLEAN
  /\ answer \in {"none", "message", "error", "broken"} /\ searched \in Nat /\ owed \in Nat

\* The message is a well-formed Anthropic event stream at every moment, across its rounds,
\* their searches, a retry and an error.
MessageWellFormed == WellFormed(out)

\* It is, if searches are visible.
VisibleMessageWellFormed == visible => MessageWellFormed

Count(ev) == Cardinality({i \in 1..Len(out) : out[i] = ev})

\* A request that is not cut off is answered in full: with a message on the wire that runs to
\* message_stop and shows the result of every search it shows, or with an error and, unless
\* it stands in that message, nothing else.
AnsweredInFull ==
  /\ answer = "message" => /\ promoted /\ EndsIn(out, {"message_stop"})
                           /\ Count("server_tool_use_start") = Count("search_result_start")
  /\ answer = "error" => IF promoted THEN EndsIn(out, {"error"}) ELSE out = <<>>

\* What a retry throws away holds no tool call and no search, of any round.  Whether a run is empty
\* is asked of the accumulator, which each round begins anew: that an earlier round called a tool or
\* showed a search is remembered only by the gate it opened.
RetryDropsNothingShown ==
  [][run' # run =>
       \A shown \in {"tool_use", "server_tool_use", "search_result"} : Count(StartOf[shown]) = 0]_orchVars

\* A request spends no more web queries than its budget, retry included.
QueriesWithinBudget == searched <= maxQueries

\* It does not, if searches are visible.
VisibleQueriesWithinBudget == visible => QueriesWithinBudget

\* The model is sent the result of every search it asked for and that was executed.
ResultsReachModel == answer = "message" => owed = 0

\* Every search result but those of a full last round reaches the model.
ResultsReachModelInTime == answer = "message" /\ round < maxOrchestratorRounds => owed = 0

\* Every request ends.
OrchEnds == <>(opc = "done")

=============================================================================
