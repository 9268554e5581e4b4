---------------------------- MODULE ResponseText ----------------------------
(***************************************************************************)
(* What becomes of the text and the reasoning of one upstream response:    *)
(* the news are read off each cumulative chunk (chunk_delta.go), thinking  *)
(* tags are cut out of the text, stop sequences and the max_tokens budget  *)
(* end it (responseAccumulator: respconv/event_processor.go,               *)
(* thinking_tags.go, stop_sequence.go, token_budget.go, FinalizeStream).   *)
(*                                                                         *)
(* The upstream cuts its text into frames wherever it likes, so tags and   *)
(* stop sequences may be split over frames; the outcome must not depend    *)
(* on where.  Characters are the members of Chars, one byte each.          *)
(***************************************************************************)
EXTENDS Integers, SequencesExt

CONSTANTS
  Chars,          \* the characters of the text
  OpenTag, CloseTag,
  StopSequences,  \* the request's stop sequences, in its order, without empty ones
  maxTokens,      \* the request's max_tokens, above 0
  RunesPerToken,  \* the estimate of token_budget.go: 4 runes make a token
  MaxDelta,       \* bound: characters a frame adds
  MaxContent,     \* bound: characters of the response's text
  Thoughts        \* the reasoning the upstream may have sent so far

ASSUME TextAssumption ==
  /\ {OpenTag, CloseTag} \subseteq Seq(Chars) \ {<<>>}
  /\ StopSequences \in Seq(Seq(Chars) \ {<<>>}) /\ Thoughts \subseteq Seq(Chars)
  /\ {maxTokens, RunesPerToken} \subseteq Nat \ {0} /\ {MaxDelta, MaxContent} \subseteq Nat

VARIABLES
  content, thought,  \* the chunks received last (lastContent, lastThinking)
  sent, reasoned,    \* history: what the chunks meant, and the reasoning ahead of a tag
  acc,               \* the accumulator
  finished           \* FinalizeStream was called

textVars == <<content, thought, sent, reasoned, acc, finished>>

\* The stop sequence matched is given by its place in the list.
newAccumulator == [tagBuf |-> <<>>, inside |-> FALSE, suppressReasoning |-> FALSE,
                   pending |-> <<>>, text |-> <<>>, thinking |-> <<>>, runes |-> 0,
                   stop |-> "none", matched |-> 0]

LocalStop(a) == a.stop # "none"

First(s, n) == SubSeq(s, 1, n)
From(s, n)  == SubSeq(s, n, Len(s))
Occurs(s, t) == s \in SubSeqs(t)

-----------------------------------------------------------------------------
(* Chunks are cumulative, or windows that overlap *)

\* The state of the matcher that has seen b's first k characters, behind character c.
Step(b, fail, k, c) ==
  LET next[j \in 0..k] == IF b[j + 1] = c THEN j + 1 ELSE IF j = 0 THEN 0 ELSE next[fail[j]]
  IN next[k]

\* The failure function: the longest border of every prefix of b.
Failure(b) ==
  LET fail[i \in 1..Len(b)] == IF i = 1 THEN 0 ELSE Step(b, fail, fail[i - 1], b[i])
  IN fail

\* The state behind each prefix of a.  A match of all of b counts as one of its border.
kmpOverlap(a, b) ==
  LET fail == Failure(b)
      seen[n \in 0..Len(a)] ==
        IF n = 0 THEN 0
        ELSE LET k == Step(b, fail, seen[n - 1], a[n]) IN IF k = Len(b) THEN fail[k] ELSE k
  IN seen[Len(a)]

ComputeDelta(chunk, previous) ==
  IF IsPrefix(previous, chunk) THEN From(chunk, Len(previous) + 1)
  ELSE IF IsPrefix(chunk, previous) THEN <<>>
  ELSE From(chunk, kmpOverlap(previous, chunk) + 1)

-----------------------------------------------------------------------------
(* Thinking tags *)

\* A tag split over two frames is not looked for.
partialTagSuffix_None(s, tag) == 0

\* The longest suffix of s that a next frame may complete to the tag.
partialTagSuffix(s, tag) ==
  CHOOSE n \in 0..Len(s) :
    /\ n < Len(tag) /\ From(s, Len(s) - n + 1) = First(tag, n)
    /\ \A m \in n + 1..Len(s) : m < Len(tag) => From(s, Len(s) - m + 1) # First(tag, m)

\* A stretch of the buffer goes to the thinking or to the text.
Routed(inside, s, r) ==
  IF inside THEN [r EXCEPT !.thinking = s \o @] ELSE [r EXCEPT !.text = s \o @]

\* The text and the thinking of a buffer, read inside a tag or outside, and what stays in it.
parseThinkingTags[buf \in Seq(Chars)] ==
  [inside \in BOOLEAN |->
     LET tag == IF inside THEN CloseTag ELSE OpenTag IN
     IF Occurs(tag, buf)
       THEN LET i == IndexFirstSubSeq(tag, buf)
                rest == parseThinkingTags[From(buf, i + Len(tag))][~inside]
            IN Routed(inside, First(buf, i - 1), [rest EXCEPT !.opened = @ \/ ~inside])
       ELSE LET kept == Len(buf) - partialTagSuffix(buf, tag)
            IN Routed(inside, First(buf, kept),
                      [text |-> <<>>, thinking |-> <<>>, tagBuf |-> From(buf, kept + 1),
                       inside |-> inside, opened |-> FALSE])]

-----------------------------------------------------------------------------
(* The max_tokens budget *)

\* The delta that reaches the budget is delivered whole.
applyMaxTokensBudget_Uncut(a, delta) == delta

\* The part of delta that fits.
applyMaxTokensBudget(a, delta) ==
  IF (a.runes + Len(delta)) \div RunesPerToken < maxTokens THEN delta
  ELSE LET remaining == maxTokens * RunesPerToken - a.runes
       IN IF remaining <= 0 THEN <<>> ELSE IF Len(delta) <= remaining THEN delta ELSE First(delta, remaining)

\* The accumulator behind it: the budget stops it once it is used up.
Counted(a, delta) ==
  LET out == applyMaxTokensBudget(a, delta)
      runes == a.runes + Len(out)
  IN [a EXCEPT !.runes = runes,
               !.stop = IF (a.runes + Len(delta)) \div RunesPerToken >= maxTokens THEN "max_tokens" ELSE @]

accumulateThinking(a, delta) ==
  IF delta = <<>> THEN a
  ELSE [Counted(a, delta) EXCEPT !.thinking = @ \o applyMaxTokensBudget(a, delta)]

AddText(a, s) ==
  IF s = <<>> THEN a ELSE [Counted(a, s) EXCEPT !.text = @ \o applyMaxTokensBudget(a, s)]

-----------------------------------------------------------------------------
(* Stop sequences *)

\* Too little of the text is kept pending.
stopSeqMaxKeep_Short == Max({0} \cup {(Len(s) - 1) \div 2 : s \in ToSet(StopSequences)})

\* A match can begin in at most this many characters at the end of the text so far.
stopSeqMaxKeep == Max({0} \cup {Len(s) - 1 : s \in ToSet(StopSequences)})

\* The first of the list that occurs counts.  What is ahead of it comes out as it is, past the
\* budget; without a match the end is kept pending.
applyStopSequenceFilter(a, delta) ==
  LET all == a.pending \o delta
      kept == IF Len(all) <= stopSeqMaxKeep THEN 0 ELSE Len(all) - stopSeqMaxKeep
      found == {i \in DOMAIN StopSequences : Occurs(StopSequences[i], all)}
  IN IF found # {}
       THEN [a EXCEPT !.pending = <<>>, !.stop = "stop_sequence", !.matched = Min(found),
                      !.text = @ \o First(all, IndexFirstSubSeq(StopSequences[Min(found)], all) - 1)]
       ELSE LET b == [a EXCEPT !.pending = From(all, kept + 1)]
            IN IF LocalStop(a) THEN [b EXCEPT !.text = @ \o First(all, kept)]
                               ELSE AddText(b, First(all, kept))

accumulateText(a, s) == IF s = <<>> THEN a ELSE applyStopSequenceFilter(a, s)

-----------------------------------------------------------------------------
(* One frame, and the end of the stream *)

assistantResponseEvent(a, delta) ==
  IF LocalStop(a) THEN a
  ELSE LET r == parseThinkingTags[a.tagBuf \o delta][a.inside]
           b == [a EXCEPT !.tagBuf = r.tagBuf, !.inside = r.inside,
                          !.suppressReasoning = @ \/ r.opened]
       IN accumulateText(accumulateThinking(b, r.thinking), r.text)

FinalizeStream(a) ==
  LET b == [a EXCEPT !.tagBuf = <<>>]
      c == IF a.inside THEN accumulateThinking(b, a.tagBuf) ELSE accumulateText(b, a.tagBuf)
      d == [c EXCEPT !.pending = <<>>]
  IN IF LocalStop(c) THEN d ELSE AddText(d, c.pending)

\* Once a tag was opened the reasoning frames only repeat it.
reasoningContentEvent(a, delta) ==
  IF a.suppressReasoning \/ LocalStop(a) THEN a ELSE accumulateThinking(a, delta)

\* The upstream repeats or extends its text, or sends a window of it: the end of the last chunk
\* and something new, unless that reads like the beginning of the last chunk.
Chunks ==
  {content \o new : new \in SeqOf(Chars, MaxDelta)}
    \cup {chunk \in {From(content, i) \o new : i \in 2..Len(content), new \in SeqOf(Chars, 1) \ {<<>>}} :
            ~IsPrefix(chunk, content)}

\* What is new in a chunk: all behind its longest beginning that ends the last chunk.
News(chunk, last) ==
  LET overlaps == {n \in 0..Len(last) : n < Len(chunk) /\ IsSuffix(First(chunk, n), last)}
  IN IF IsPrefix(last, chunk) THEN From(chunk, Len(last) + 1) ELSE From(chunk, Max(overlaps) + 1)

Frame(chunk) ==
  /\ ~finished
  /\ sent' = sent \o News(chunk, content) /\ Len(sent') <= MaxContent
  /\ content' = chunk
  /\ acc' = assistantResponseEvent(acc, ComputeDelta(chunk, content))
  /\ UNCHANGED <<thought, reasoned, finished>>

Reason(chunk) ==
  /\ ~finished /\ IsStrictPrefix(thought, chunk)
  /\ thought' = chunk
  /\ acc' = reasoningContentEvent(acc, ComputeDelta(chunk, thought))
  /\ reasoned' = IF acc.suppressReasoning THEN reasoned ELSE chunk
  /\ UNCHANGED <<content, sent, finished>>

\* At the end of the stream, or at once when the accumulator has stopped.
Finish ==
  /\ ~finished
  /\ finished' = TRUE
  /\ acc' = FinalizeStream(acc)
  /\ UNCHANGED <<content, thought, sent, reasoned>>

TextInit ==
  /\ content = <<>> /\ thought = <<>> /\ sent = <<>> /\ reasoned = <<>>
  /\ acc = newAccumulator /\ finished = FALSE

TextNext ==
  \/ \E chunk \in Chunks : Frame(chunk)
  \/ \E chunk \in Thoughts : Reason(chunk)
  \/ Finish

TextSpec == TextInit /\ [][TextNext]_textVars

-----------------------------------------------------------------------------
(* Properties *)

\* The types of the accumulator.
TextTypeOK ==
  /\ {content, thought, sent, reasoned} \subseteq Seq(Chars) /\ finished \in BOOLEAN
  /\ acc \in [tagBuf : Seq(Chars), inside : BOOLEAN, suppressReasoning : BOOLEAN, pending : Seq(Chars),
              text : Seq(Chars), thinking : Seq(Chars), runes : 0..maxTokens * RunesPerToken,
              stop : {"none", "stop_sequence", "max_tokens"}, matched : 0..Len(StopSequences)]

\* The text and thinking of the whole response, read at once.
Whole == LET r == parseThinkingTags[sent][FALSE]
         IN [text |-> IF r.inside THEN r.text ELSE r.text \o r.tagBuf,
             thinking |-> reasoned \o (IF r.inside THEN r.thinking \o r.tagBuf ELSE r.thinking)]

\* However the response is cut into chunks, repeated or sent in overlapping windows, one that
\* runs to its end is delivered whole: no character is lost, doubled, or taken for thinking,
\* and reasoning that comes as frames and in tags is not told twice.
NothingLost ==
  finished /\ ~LocalStop(acc) => acc.text = Whole.text /\ acc.thinking = Whole.thinking

\* While the stream runs, the client has a prefix of the text, and in it no stop sequence; once
\* one has ended the text, neither that one nor one ahead of it in the list.
StopSequenceWithheld ==
  ~finished =>
    /\ IsPrefix(acc.text, Whole.text)
    /\ \A i \in DOMAIN StopSequences :
         acc.stop # "stop_sequence" \/ i <= acc.matched => ~Occurs(StopSequences[i], acc.text)

\* While the stream runs all that was delivered was counted, and no more than max_tokens of it,
\* by the estimate.  Not counted is the text ahead of a stop sequence, and the text that follows
\* in the frame whose thinking used the budget up.
WithinMaxTokens ==
  ~finished /\ acc.stop # "stop_sequence" =>
    /\ acc.runes <= maxTokens * RunesPerToken
    /\ \/ Len(acc.text) + Len(acc.thinking) = acc.runes
       \/ /\ acc.stop = "max_tokens" /\ acc.suppressReasoning
          /\ acc.runes = maxTokens * RunesPerToken /\ Len(acc.thinking) <= acc.runes

\* A stop sequence or the budget ends the response: nothing is added to its text any more.
StopIsFinal == [][LocalStop(acc) => acc'.text = acc.text]_textVars

\* max_tokens is enforced on all that is delivered (README.md:419).  The code lets text pass
\* behind thinking that used the budget up in the same frame.
MaxTokensEnforced ==
  ~finished /\ acc.stop # "stop_sequence" =>
    Len(acc.text) + Len(acc.thinking) <= maxTokens * RunesPerToken

\* The text ends at the stop sequence that comes first in it (README.md:419).  The code lets the
\* order of the list decide between two of one frame.
NoStopSequenceDelivered ==
  ~finished => \A i \in DOMAIN StopSequences : ~Occurs(StopSequences[i], acc.text)

=============================================================================
