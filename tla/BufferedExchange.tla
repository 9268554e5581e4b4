-------------------------- MODULE BufferedExchange --------------------------
(***************************************************************************)
(* One non-streaming /v1/messages request: executeRetry, callAndHandle and *)
(* handleNonStreamingResponse (app/messages/execute.go, response.go), or,  *)
(* with tool search or web search, the loop of handleNonStreaming          *)
(* (toolsearch.go).  A response is collected event by event in an          *)
(* accumulator (respconv/nonstreaming.go) and answered in one piece, so    *)
(* that a failing attempt leaves no trace; what the client gets is decided *)
(* behind the last event.                                                  *)
(*                                                                         *)
(* The accumulator is SSEWriter's, with the tool calls it records.  The    *)
(* query budget of web searches is Orchestrator's subject; here a search   *)
(* that uses it up uses up the web search rounds.                          *)
(***************************************************************************)
EXTENDS EventStream, SSEWriter

CONSTANTS
  maxToolSearchRounds, maxWebSearchRounds,
  Intercepted,       \* the names of the tools the proxy executes itself
  normalizeJSON(_)   \* an input as json.Marshal writes it, without white space

ASSUME BufferedAssumption ==
  {maxToolSearchRounds, maxWebSearchRounds} \subseteq Nat /\ Intercepted \subseteq {"ToolSearch", "web_search"}

VARIABLES
  searching,  \* the request needs the round loop
  hpc,        \* what the handler does next
  attempt,    \* 1, or 2 for the retry
  acc,        \* the accumulator
  calls,      \* its ToolCalls
  caught,     \* names of the intercepted calls of this response
  round, budget,
  called,     \* the message so far holds a tool_use block
  replies     \* what was written to the client

bufferedVars == <<searching, hpc, attempt, acc, calls, caught, round, budget, called, replies>>
allVars      == <<streamVars, bufferedVars>>

maxRounds == maxToolSearchRounds + maxWebSearchRounds

newRoundBudget == [tools |-> 0, web |-> 0]

\* The response's own state is gone.
Forget == Open /\ acc' = NewAccumulator /\ calls' = <<>> /\ caught' = <<>>

\* How the last response ended is kept for the properties.
Reply(kind, stop) ==
  /\ replies' = Append(replies, [kind |-> kind, stop |-> stop])
  /\ hpc' = "done"
  /\ tool' = NoTool /\ read' = 0 /\ sent' = <<>> /\ calls' = <<>>
  /\ UNCHANGED <<body, acc, caught>>

ReplyError ==
  /\ Reply("error", "")
  /\ UNCHANGED <<searching, attempt, round, budget, called>>

-----------------------------------------------------------------------------
(* The upstream call and its response *)

\* The payload cannot be built or the call fails.
CallFails == hpc = "call" /\ ReplyError

CallSucceeds ==
  /\ hpc = "call"
  /\ Forget
  /\ hpc' = "parse"
  /\ UNCHANGED <<searching, attempt, round, budget, called, replies>>

\* Text and reasoning, recorded or held back; or a frame that adds nothing to the response.
ContentFrame ==
  /\ hpc = "parse"
  /\ OtherFrame
  /\ \/ UNCHANGED acc
     \/ \E stop \in BOOLEAN : \E d \in Deltas(NewWriter, acc, stop) :
          d.acc.tool = acc.tool /\ acc' = [d.acc EXCEPT !.stopped = @ \/ stop]
  /\ UNCHANGED <<searching, hpc, attempt, calls, caught, round, budget, called, replies>>

isIntercepted(c) == searching /\ c.name \in Intercepted

\* DropToolNames: the calls the proxy executes itself are not recorded.
Dropped(c) == isIntercepted(c)

\* A stopped response takes no more calls, and each call it records may exhaust max_tokens.
Taken(events) ==
  IF acc.stopped
    THEN {[events |-> <<>>, stop |-> FALSE]}
    ELSE {[events |-> events, stop |-> FALSE]}
           \cup {[events |-> SubSeq(events, 1, k), stop |-> TRUE] :
                   k \in {i \in DOMAIN events : ~Dropped(events[i])}}

Members(s) == {s[i] : i \in DOMAIN s}

\* The members of s that are in T, in their order.
Only(s, T) ==
  LET only[n \in 0..Len(s)] ==
        IF n = 0 THEN <<>>
        ELSE IF s[n] \in T THEN Append(only[n - 1], s[n]) ELSE only[n - 1]
  IN only[Len(s)]

Found(events) == Only(events, {c \in Members(events) : isIntercepted(c)})
Own(events)   == Only(events, {c \in Members(events) : ~Dropped(c)})

\* A search counts as the response's own tool use.
HasToolUse_Any(events) == events # <<>>

HasToolUse(events) == Own(events) # <<>>

\* The completed calls reach the callback one after the other.
processToolUseEvents(events) ==
  /\ \E t \in Taken(events) :
       LET found == Found(t.events)
       IN /\ calls' = calls \o Own(t.events)
          /\ acc' = [acc EXCEPT !.tool = @ \/ HasToolUse(t.events), !.stopped = @ \/ t.stop]
          /\ caught' = caught \o [i \in DOMAIN found |-> found[i].name]
  /\ UNCHANGED <<searching, attempt, round, budget, called, replies>>

ToolUseFrame(f) ==
  /\ hpc = "parse"
  /\ ToolFrame(f)
  /\ processToolUseEvents(update(tool, f).events)
  /\ UNCHANGED hpc

ErrorFrame ==
  /\ hpc = "parse"
  /\ ErrorEvent
  /\ hpc' = "judge"
  /\ UNCHANGED <<searching, attempt, acc, calls, caught, round, budget, called, replies>>

ResponseEnds(ending) ==
  /\ hpc = "parse"
  /\ BodyEnds(ending)
  /\ processToolUseEvents(IF Failed(ending) THEN <<>> ELSE flush(tool))
  /\ hpc' = "judge"

-----------------------------------------------------------------------------
(* BuildResponse *)

SameCall(c, d) == c.name = d.name /\ normalizeJSON(c.input) = normalizeJSON(d.input)

\* The first of the calls with one id keeps its place, the longest stands there.
KeepLongest(kept, c) ==
  IF \A k \in DOMAIN kept : kept[k].id # c.id
    THEN Append(kept, c)
    ELSE [k \in DOMAIN kept |->
            IF kept[k].id = c.id /\ Len(c.input) > Len(kept[k].input) THEN c ELSE kept[k]]

KeepFirst(kept, c) == IF \E k \in DOMAIN kept : SameCall(kept[k], c) THEN kept ELSE Append(kept, c)

OnePerID(s) ==
  LET byID[n \in 0..Len(s)] == IF n = 0 THEN <<>> ELSE KeepLongest(byID[n - 1], s[n])
  IN byID[Len(s)]

OnePerInput(s) ==
  LET result[n \in 0..Len(s)] == IF n = 0 THEN <<>> ELSE KeepFirst(result[n - 1], s[n])
  IN result[Len(s)]

DeduplicateToolCalls(s) == IF Len(s) <= 1 THEN s ELSE OnePerInput(OnePerID(s))

resolveStopReason(a) == IF a.stopped THEN "stopped" ELSE IF a.tool THEN "tool_use" ELSE "end_turn"

\* The round loop goes on with what it caught, also when the response broke off.
Usable ==
  \/ body # "stopped" /\ ~Failed(body)
  \/ searching /\ caught # <<>>

BuildResponse ==
  /\ hpc = "judge" /\ Usable
  /\ calls' = DeduplicateToolCalls(calls)
  /\ \E d \in Flushed(NewWriter, acc), stop \in BOOLEAN : acc' = AfterFinalize(d.acc, stop)
  /\ called' = (called \/ calls' # <<>>)
  /\ hpc' = "built"
  /\ UNCHANGED <<streamVars, searching, attempt, caught, round, budget, replies>>

ResponseFails == hpc = "judge" /\ ~Usable /\ ReplyError

\* An invalid state with a retryable reason.
RetryableState ==
  /\ hpc = "judge" /\ body = "stopped" /\ ~searching
  /\ hpc' = "retry"
  /\ Forget
  /\ UNCHANGED <<searching, attempt, round, budget, called, replies>>

-----------------------------------------------------------------------------
(* planRound *)

Count(name) == Cardinality({i \in DOMAIN caught : caught[i] = name})

\* Tool searches the budget still allows.
allowToolSearch ==
  LET left == maxToolSearchRounds - budget.tools
  IN IF Count("ToolSearch") <= left THEN Count("ToolSearch") ELSE left

allowWebSearchRound ==
  Count("web_search") > 0 /\ budget.web < maxWebSearchRounds

Planned == allowToolSearch > 0 \/ allowWebSearchRound

\* An undecodable input of a search that would run.
PlanFails == hpc = "built" /\ Planned /\ ReplyError

\* The searches run, and their blocks follow the round's own.
Search ==
  /\ hpc = "built" /\ Planned
  /\ \E web \in IF allowWebSearchRound THEN {budget.web + 1, maxWebSearchRounds} ELSE {budget.web} :
       budget' = [tools |-> budget.tools + allowToolSearch, web |-> web]
  /\ round' = round + 1
  /\ IF round' < maxRounds
       THEN hpc' = "call" /\ Forget /\ UNCHANGED replies
       ELSE Reply("message", resolveStopReason(acc))
  /\ UNCHANGED <<searching, attempt, called>>

-----------------------------------------------------------------------------
(* The answer *)

\* A response that shows nothing is thrown away.
DiscardEmpty ==
  /\ hpc = "built" /\ ~Planned /\ IsEmptyVisibleEndTurn(acc)
  /\ hpc' = "retry"
  /\ Forget
  /\ UNCHANGED <<searching, attempt, round, budget, called, replies>>

Deliver ==
  /\ hpc = "built" /\ ~Planned /\ ~IsEmptyVisibleEndTurn(acc)
  /\ Reply("message", resolveStopReason(acc))
  /\ UNCHANGED <<searching, attempt, round, budget, called>>

\* Every reason to retry is followed.
Retry_Unbounded ==
  /\ hpc = "retry"
  /\ attempt' = 2 /\ hpc' = "call"
  /\ round' = 0 /\ budget' = newRoundBudget /\ called' = FALSE
  /\ UNCHANGED <<streamVars, searching, acc, calls, caught, replies>>

\* One retry, from the start; a second reason is the client's error.
Retry ==
  /\ hpc = "retry" /\ attempt = 1
  /\ attempt' = 2 /\ hpc' = "call"
  /\ round' = 0 /\ budget' = newRoundBudget /\ called' = FALSE
  /\ UNCHANGED <<streamVars, searching, acc, calls, caught, replies>>

RetryFails == hpc = "retry" /\ attempt = 2 /\ ReplyError

-----------------------------------------------------------------------------
BufferedInit ==
  /\ tool = NoTool /\ read = 0 /\ sent = <<>> /\ body = "open"
  /\ searching \in BOOLEAN
  /\ hpc = "call" /\ attempt = 1 /\ acc = NewAccumulator /\ calls = <<>> /\ caught = <<>>
  /\ round = 0 /\ budget = newRoundBudget /\ called = FALSE /\ replies = <<>>

BufferedStep ==
  \/ CallFails \/ CallSucceeds
  \/ ContentFrame \/ (\E f \in ToolFrames : ToolUseFrame(f)) \/ ErrorFrame
  \/ \E ending \in Endings : ResponseEnds(ending)
  \/ BuildResponse \/ ResponseFails \/ RetryableState
  \/ PlanFails \/ Search \/ DiscardEmpty \/ Deliver \/ Retry \/ RetryFails

BufferedDone == hpc = "done" /\ UNCHANGED allVars

BufferedNext == BufferedStep \/ BufferedDone

BufferedSpec == BufferedInit /\ [][BufferedNext]_allVars

\* The handler runs, and a body that falls silent ends at its read deadline.  This is the weak
\* fairness of BufferedStep, spelled out: a handler that is not done always has a step.
BufferedFairSpec == BufferedSpec /\ ([]<>(hpc = "done") \/ []<><<TRUE>>_allVars)

-----------------------------------------------------------------------------
(* Properties *)

\* The types of the request's state.
BufferedTypeOK ==
  /\ searching \in BOOLEAN /\ called \in BOOLEAN
  /\ hpc \in {"call", "parse", "judge", "built", "retry", "done"} /\ attempt \in 1..2
  /\ read \in 0..MaxFrames /\ sent \in Seq(ToolFrames)
  /\ body \in {"open", "stopped"} \cup Endings
  /\ acc \in Accumulators
  /\ caught \in Seq(Intercepted)
  /\ round \in 0..(maxRounds)
  /\ budget \in [tools : 0..maxToolSearchRounds, web : 0..maxWebSearchRounds]

Whole == ~acc.stopped /\ ~Failed(body) /\ body # "stopped"

\* A response names each tool call once, with exactly the input its own frames carried, and
\* with the longest of them if the upstream repeats the call for the client.
CallsFaithful ==
  hpc = "built" =>
  LET told == SentCalls(sent) IN
    /\ \A i, j \in DOMAIN calls : calls[i].id = calls[j].id => i = j
    /\ \A i \in DOMAIN calls :
         /\ calls[i] \in told
         /\ Whole => \A c \in told :
                        c.id = calls[i].id /\ c.id # 0 /\ ~Dropped(c)
                          => Len(c.input) <= Len(calls[i].input)

\* No call of a whole response is lost: it is delivered, executed by the proxy, or told twice,
\* also when its stop frame is missing or the next call begins ahead of it.  Frames with
\* neither id nor name that no call precedes (id 0) are no call.
NoCallLost ==
  hpc = "built" /\ Whole =>
  LET told == SentCalls(sent) IN
    \A c \in told :
      \/ c.id = 0
      \/ \E i \in DOMAIN caught : isIntercepted(c) /\ caught[i] = c.name
      \/ \E d \in told : d # c /\ d.id = c.id /\ Len(d.input) >= Len(c.input)
      \/ \E i \in DOMAIN calls : calls[i] = c \/ SameCall(calls[i], c)

\* The client is answered exactly once, at the end.  A message is only made of a response that
\* was not broken, or that asked for searches before it broke, and it shows something unless
\* the rounds are used up.
AnsweredOnce ==
  /\ Len(replies) = (IF hpc = "done" THEN 1 ELSE 0)
  /\ hpc = "done" /\ replies[1].kind = "message" =>
       /\ body \in {"eof", "cut"} \/ caught # <<>>
       /\ round < maxRounds => ~IsEmptyVisibleEndTurn(acc)

\* A message that tells the client to run tools holds a call, and one that holds a call and
\* was neither stopped nor collected over several rounds says so.
StopReasonTrue ==
  hpc = "done" /\ replies[1].kind = "message" =>
    /\ replies[1].stop = "tool_use" => called
    /\ round = 0 /\ ~acc.stopped /\ called => replies[1].stop = "tool_use"

\* Every request is answered.
BufferedEnds == <>(hpc = "done")

=============================================================================
