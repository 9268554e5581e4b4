---------------------------- MODULE Conversation ----------------------------
(***************************************************************************)
(* BuildPayload (internal/reqconv): the conversation a client sends, whole *)
(* with every request, turned into what the upstream takes: a history of   *)
(* alternating roles without images, whose tool results answer the calls   *)
(* of the entry before them, and a current message that carries all images.*)
(* Inside one request the round loop extends the conversation by the       *)
(* searches it runs (app/messages/toolsearch.go, websearch.go).            *)
(*                                                                         *)
(* A message is [role, blocks]; a string is one text block.  A block is    *)
(* [type, id, images]: the id is a text's words, a call's id, the id of    *)
(* the call a result answers, or a blob; the images are an image block's   *)
(* own or those nested in a result.  "web_search" stands for both blocks   *)
(* of a visible web search.                                                *)
(***************************************************************************)
EXTENDS Naturals, SequencesExt, FiniteSetsExt

CONSTANTS
  Said(_),     \* the messages a client may send at a place of its conversation
  Windows,     \* values of -history-image-turns
  Unlimited,   \* the one that stands for a negative number
  MaxMessages  \* bound: messages of the client

ASSUME ConversationAssumption ==
  MaxMessages \in Nat /\ Unlimited \notin Nat /\ Windows \subseteq Nat \cup {Unlimited}

VARIABLES
  messages,  \* the conversation as the client sends it
  searches,  \* what the round loop has added to it
  options,   \* hasTools, a system prompt, and HistoryImageTurns
  payload    \* the payload built last

conversationVars == <<messages, searches, options, payload>>

Block(type, id, images) == [type |-> type, id |-> id, images |-> images]
Text(words) == Block("text", words, <<>>)
Message(role, blocks) == [role |-> role, blocks |-> blocks]

SyntheticEmpty == <<"no content">>
Continue       == <<"Continue">>
Note(n)        == <<"note", n>>

IsToolUse(b)    == b.type \in {"tool_use", "server_tool_use"}
IsToolResult(b) == b.type \in {"tool_result", "tool_search_tool_result"}

IDs(bs) == [k \in DOMAIN bs |-> bs[k].id]

extractToolUseIDs(m) == IDs(SelectSeq(m.blocks, IsToolUse))

\* The blocks of every message, each replaced by a sequence of blocks.
ReplaceBlocks(m, As(_)) ==
  [m EXCEPT !.blocks = FlattenSeq([k \in DOMAIN @ |-> As(@[k])])]

-----------------------------------------------------------------------------
(* Normalize *)

textualizeWebSearchBlocks(ms) ==
  [i \in DOMAIN ms |->
     ReplaceBlocks(ms[i], LAMBDA b : <<IF b.type = "web_search" THEN Text(b.id) ELSE b>>)]

nestedImageBlocks(b) == [k \in DOMAIN b.images |-> Block("image", <<>>, <<b.images[k]>>)]

\* A result becomes text, and its images blocks of their own.
ResultAsText(b) == <<Text(<<"result", b.id>>)>> \o nestedImageBlocks(b)

textualizeAllToolContent(ms) ==
  [i \in DOMAIN ms |->
     ReplaceBlocks(ms[i], LAMBDA b : IF IsToolUse(b) THEN <<Text(<<"call", b.id>>)>>
                                     ELSE IF IsToolResult(b) THEN ResultAsText(b) ELSE <<b>>)]

\* A result that no call of the message right before it asks for.
IsOrphan(ms, i, b) ==
  /\ IsToolResult(b)
  /\ ~(i > 1 /\ ms[i - 1].role = "assistant" /\ Contains(extractToolUseIDs(ms[i - 1]), b.id))

\* A call anywhere before the result will do.
textualizeOrphanToolResults_AnyCall(ms) ==
  [i \in DOMAIN ms |->
     IF ms[i].role # "user" THEN ms[i]
     ELSE ReplaceBlocks(ms[i], LAMBDA b : IF IsToolResult(b) /\ (\A j \in 1..i : IsOrphan(ms, j, b))
                                            THEN ResultAsText(b) ELSE <<b>>)]

textualizeOrphanToolResults(ms) ==
  [i \in DOMAIN ms |->
     IF ms[i].role # "user" THEN ms[i]
     ELSE ReplaceBlocks(ms[i], LAMBDA b : IF IsOrphan(ms, i, b) THEN ResultAsText(b) ELSE <<b>>)]

textualizeToolContent(ms, hasTools) ==
  IF hasTools THEN textualizeOrphanToolResults(ms) ELSE textualizeAllToolContent(ms)

normalizeRoles(ms) ==
  [i \in DOMAIN ms |-> [ms[i] EXCEPT !.role = IF @ = "assistant" THEN @ ELSE "user"]]

isPlainTextContent(m) == \A k \in DOMAIN m.blocks : m.blocks[k].type = "text"

\* Every run of plain messages of one role becomes one message.
mergeAdjacentSameRole(ms) ==
  FoldLeft(LAMBDA done, m :
             IF /\ done # <<>> /\ Last(done).role = m.role
                /\ isPlainTextContent(m) /\ isPlainTextContent(Last(done))
               THEN Append(Front(done), Message(m.role, Last(done).blocks \o m.blocks))
               ELSE Append(done, m),
           <<>>, ms)

ensureStartsWithUser(ms) ==
  IF ms # <<>> /\ ms[1].role # "user" THEN <<Message("user", <<Text(SyntheticEmpty)>>)>> \o ms ELSE ms

ensureAlternatingRoles(ms) ==
  FoldLeft(LAMBDA done, m :
             IF done # <<>> /\ Last(done).role = m.role
               THEN done \o <<Message(IF m.role = "user" THEN "assistant" ELSE "user",
                                      <<Text(SyntheticEmpty)>>), m>>
               ELSE Append(done, m),
           <<>>, ms)

\* Roles are only settled once fillers stand between them.
Normalize_RolesLast(ms, hasTools) ==
  LET inText == textualizeToolContent(textualizeWebSearchBlocks(ms), hasTools)
  IN normalizeRoles(ensureAlternatingRoles(ensureStartsWithUser(mergeAdjacentSameRole(inText))))

Normalize(ms, hasTools) ==
  LET inText == textualizeToolContent(textualizeWebSearchBlocks(ms), hasTools)
  IN ensureAlternatingRoles(ensureStartsWithUser(mergeAdjacentSameRole(normalizeRoles(inText))))

\* History and current message.
splitMessages(ms) ==
  IF Last(ms).role = "assistant"
    THEN [history |-> ms, last |-> Message("user", <<Text(Continue)>>)]
    ELSE [history |-> Front(ms), last |-> Last(ms)]

-----------------------------------------------------------------------------
(* The parts of a payload *)

ExtractTextContent(m) == IDs(SelectSeq(m.blocks, LAMBDA b : b.type = "text"))

ExtractToolResults(m) == SelectSeq(m.blocks, IsToolResult)

\* Images over the size limit are skipped.
ExtractImages(m) ==
  LET carrying == SelectSeq(m.blocks, LAMBDA b : b.type = "image" \/ IsToolResult(b))
      images == FlattenSeq([k \in DOMAIN carrying |-> carrying[k].images])
  IN SelectSeq(images, LAMBDA image : ~image.large)

\* In the order of the calls, the last result of each; then the results nobody called for.
ReorderToolResults(results, ids) ==
  IF Len(results) <= 1 \/ ids = <<>> THEN results
  ELSE LET at(id) == {k \in DOMAIN results : results[k].id = id}
           called == SelectSeq(ids, LAMBDA id : at(id) # {})
       IN [k \in DOMAIN called |-> results[Max(at(called[k]))]]
            \o SelectSeq(results, LAMBDA r : ~Contains(called, r.id))

NoBlob == <<>>

\* The call a blob belongs to: the nearest behind it, or else the nearest before it.
CallOfBlob(blocks, i) ==
  LET calls == {j \in DOMAIN blocks : IsToolUse(blocks[j])}
      behind == {j \in calls : j > i}
  IN IF behind # {} THEN {Min(behind)} ELSE IF calls # {} THEN {Max(calls)} ELSE {}

extractReplayableRedactedThinking(m, answered) ==
  LET replayable == {i \in DOMAIN m.blocks :
        /\ m.blocks[i].type = "redacted_thinking"
        /\ \E j \in CallOfBlob(m.blocks, i) : Contains(answered, m.blocks[j].id)}
  IN IF replayable = {} THEN NoBlob ELSE <<m.blocks[Max(replayable)].id>>

Entry(role, text, calls, results, blob) ==
  [role |-> role, text |-> text, calls |-> calls, results |-> results, blob |-> blob]

buildHistory(h, answered) ==
  [i \in DOMAIN h |->
     LET ids == extractToolUseIDs(h[i])
         inFlight == i = Len(h) /\ \E id \in ToSet(ids) : Contains(answered, id)
         before == IF i > 1 /\ h[i - 1].role = "assistant" THEN extractToolUseIDs(h[i - 1]) ELSE <<>>
     IN IF h[i].role = "user"
          THEN Entry("user", ExtractTextContent(h[i]), <<>>,
                     ReorderToolResults(ExtractToolResults(h[i]), before), NoBlob)
          ELSE Entry("assistant", ExtractTextContent(h[i]), ids, <<>>,
                     IF inFlight THEN extractReplayableRedactedThinking(h[i], answered) ELSE NoBlob)]

SystemPair == <<Entry("user", <<<<"system">>>>, <<>>, <<>>, NoBlob),
                Entry("assistant", <<<<"ack">>>>, <<>>, <<>>, NoBlob)>>

placeSystemPrompt(system, history) == IF system THEN SystemPair \o history ELSE history

\* A message the user typed, and not only results.
isUserTurnStart(m) == m.role = "user" /\ \E k \in DOMAIN m.blocks : ~IsToolResult(m.blocks[k])

TurnStarts(h) == {i \in DOMAIN h : isUserTurnStart(h[i])}

After(S, i) == Cardinality({j \in S : j > i})

\* One turn too few.
historyImageWindowStart_OneTurnLess(h, turns) ==
  LET outside == {i \in TurnStarts(h) : After(TurnStarts(h), i) >= turns - 1}
  IN IF outside = {} THEN 1 ELSE Max(outside) + 1

\* Right behind the start of the newest turn outside the window.
historyImageWindowStart(h, turns) ==
  LET outside == {i \in TurnStarts(h) : After(TurnStarts(h), i) >= turns}
  IN IF outside = {} THEN 1 ELSE Max(outside) + 1

AllImages(ms) == FlattenSeq([i \in DOMAIN ms |-> ExtractImages(ms[i])])

collectHistoryImages(h, turns) ==
  IF turns = 0 THEN <<>>
  ELSE AllImages(SubSeq(h, IF turns = Unlimited THEN 1 ELSE historyImageWindowStart(h, turns), Len(h)))

buildCurrentMessage(last, before, historyImages) ==
  LET results == ReorderToolResults(ExtractToolResults(last), before)
      text == ExtractTextContent(last)
      content == IF text = <<>> /\ results = <<>> THEN <<Continue>> ELSE text
  IN [text |-> IF historyImages = <<>> THEN content ELSE Append(content, Note(Len(historyImages))),
      results |-> results,
      images |-> historyImages \o ExtractImages(last)]

BuildPayload(ms) ==
  LET split == splitMessages(Normalize(ms, options.hasTools))
      before == IF split.history = <<>> THEN <<>> ELSE extractToolUseIDs(Last(split.history))
  IN [history |-> placeSystemPrompt(options.system,
                    buildHistory(split.history, IDs(ExtractToolResults(split.last)))),
      current |-> buildCurrentMessage(split.last, before,
                    collectHistoryImages(split.history, options.turns))]

-----------------------------------------------------------------------------
(* Requests and the rounds of their searches *)

\* The client's next request: its conversation, one message longer.
Request ==
  /\ Len(messages) < MaxMessages
  /\ \E m \in Said(Len(messages) + 1) : messages' = Append(messages, m)
  /\ searches' = <<>>
  /\ payload' = BuildPayload(messages')
  /\ UNCHANGED options

Answering(assistant, results) ==
  /\ messages # <<>> /\ searches = <<>>
  /\ searches' = <<Message("assistant", assistant), Message("user", results)>>
  /\ payload' = BuildPayload(messages \o searches')
  /\ UNCHANGED <<messages, options>>

SearchID(k) == <<"search", k>>

SearchBlob == <<"search blob">>

\* Tool searches are told as server_tool_use, with the round's reasoning in front.
appendSearchMessages ==
  /\ options.hasTools
  /\ \E blobs \in {<<>>, <<Block("redacted_thinking", SearchBlob, <<>>)>>} :
       Answering(blobs \o <<Block("server_tool_use", SearchID(1), <<>>)>>,
                 <<Block("tool_result", SearchID(1), <<>>)>>)

\* The web searches of a round are told as ordinary calls behind its text.
appendWebSearchMessages ==
  /\ options.hasTools
  /\ \E preamble \in {<<>>, <<Text(<<"said", MaxMessages + 1>>)>>} :
       Answering(preamble \o <<Block("tool_use", SearchID(1), <<>>), Block("tool_use", SearchID(2), <<>>)>>,
                 <<Block("tool_result", SearchID(1), <<>>), Block("tool_result", SearchID(2), <<>>)>>)

ConversationInit ==
  /\ messages = <<>> /\ searches = <<>>
  /\ options \in [hasTools : BOOLEAN, system : BOOLEAN, turns : Windows]
  /\ payload = [history |-> <<>>, current |-> [text |-> <<Continue>>, results |-> <<>>, images |-> <<>>]]

ConversationNext == Request \/ appendSearchMessages \/ appendWebSearchMessages

ConversationSpec == ConversationInit /\ [][ConversationNext]_conversationVars

-----------------------------------------------------------------------------
(* Properties *)

Conversed == messages \o searches

Texts == FlattenSeq([i \in DOMAIN payload.history |-> payload.history[i].text]) \o payload.current.text

Spoken(words) == words[1] = "said"

\* The upstream gets a user and an assistant in turn, up to the current message, with every
\* word of the conversation once and in order, whatever roles follow each other in it.
WordsInOrder ==
  /\ Len(payload.history) % 2 = 0
  /\ \A i \in DOMAIN payload.history : payload.history[i].role = "user" <=> i % 2 = 1
  /\ SelectSeq(Texts, Spoken) =
       FlattenSeq([i \in DOMAIN Conversed |->
                     IDs(SelectSeq(Conversed[i].blocks,
                           LAMBDA b : b.type \in {"text", "web_search"} /\ Spoken(b.id)))])

InOrderOf(results, calls) ==
  \A j, k \in DOMAIN results : j < k =>
    \E x, y \in DOMAIN calls : x < y /\ calls[x] = results[j].id /\ calls[y] = results[k].id

\* Results answer calls of the entry right before them, each call once and in the order of the
\* calls; and a result the user sent that cannot is told as text.
ResultsAnswerCalls ==
  LET n == Len(payload.history)
      results(i) == IF i > n THEN payload.current.results ELSE payload.history[i].results
      calls(i) == IF i < 1 THEN <<>> ELSE payload.history[i].calls
  IN /\ \A i \in 1..(n + 1) :
          /\ \A k \in DOMAIN results(i) : Contains(calls(i - 1), results(i)[k].id)
          /\ InOrderOf(results(i), calls(i - 1))
     /\ \A m \in ToSet(Conversed) : m.role = "user" =>
          \A b \in ToSet(ExtractToolResults(m)) :
            \/ Contains(Texts, <<"result", b.id>>)
            \/ \E i \in 1..(n + 1) : Contains(IDs(results(i)), b.id)

\* The images attached to the current message are its own, behind those of the newest turns in
\* the window, oldest first; the note counts exactly those that are not its own, and nothing
\* of a turn before the one that has just left the window is attached.
ImagesOfTheWindow ==
  messages # <<>> =>
    LET split == splitMessages(Normalize(Conversed, options.hasTools))
        noted == LET notes == {w \in ToSet(payload.current.text) : w[1] = "note"}
                 IN IF notes = {} THEN 0 ELSE (CHOOSE w \in notes : TRUE)[2]
        own == IF Last(Conversed).role = "assistant" THEN <<>> ELSE ExtractImages(Last(Conversed))
        replayed == SubSeq(payload.current.images, 1, noted)
        age(i) == 1 + After(TurnStarts(split.history), i)
    IN /\ payload.current.images = replayed \o own
       /\ replayed = SelectSeq(AllImages(Conversed), LAMBDA image : Contains(replayed, image))
       /\ \A i \in DOMAIN split.history : \A image \in ToSet(ExtractImages(split.history[i])) :
            /\ options.turns = Unlimited \/ age(i) <= options.turns => Contains(replayed, image)
            /\ options.turns = 0 => ~Contains(replayed, image)
            /\ options.turns # Unlimited /\ age(i) > options.turns + 1 => ~Contains(replayed, image)

\* The images of a turn, those its tool results brought included, leave the window together
\* (images.go:46-49).  The code keeps those of the results for one turn more.
ImageSetsExpireTogether ==
  messages # <<>> =>
    LET h == splitMessages(Normalize(Conversed, options.hasTools)).history
        turn(i) == After(TurnStarts(h), i)
    IN \A i, j \in DOMAIN h : i < j /\ i \in TurnStarts(h) /\ turn(i) = turn(j) =>
         \A one \in ToSet(ExtractImages(h[i])), other \in ToSet(ExtractImages(h[j])) :
           Contains(payload.current.images, one) <=> Contains(payload.current.images, other)

\* A blob that belongs to a search the proxy ran is not replayed (history.go:35-37).  The code
\* replays it in the round that follows the search.
SearchBlobsSkipped ==
  \A i \in DOMAIN payload.history : payload.history[i].blob # <<SearchBlob>>

=============================================================================
