----------------------------- MODULE LlmClient -----------------------------
(***************************************************************************)
(* The wrapper around the model (app/llm/client.py, app/llm/cost.py): what *)
(* a call returns or raises, which log line accounts for it, the loop that *)
(* runs tools for the model, streams, and the vectors of an ingestion.     *)
(*                                                                         *)
(* Each operator takes what the API sends, as a script: the SDK's retries  *)
(* are part of the API here, texts and messages are left out.              *)
(***************************************************************************)
EXTENDS Ordered, SequencesExt, FiniteSetsExt

CONSTANT EmbedBatch       \* _EMBED_BATCH: texts in one embedding call

ASSUME LlmClientAssumption == EmbedBatch \in Nat \ {0}

MaxRounds == 3            \* default of complete_with_tools

Raised        == <<"raised">>
Result(value) == <<"result", value>>
HasResult(r)  == r # Raised

\* _PRICES, in hundredths of a dollar for a million tokens.
Prices == [mini      |-> [input |-> 15,  output |-> 60],
           full      |-> [input |-> 250, output |-> 1000],
           embedding |-> [input |-> 2,   output |-> 0]]

\* cost_usd; only ratios of costs matter, so nothing is divided by a million.
CostUsd(model, tokens) ==
  tokens.prompt * Prices[model].input + tokens.completion * Prices[model].output

Tokens(prompt, completion) == [prompt |-> prompt, completion |-> completion]
NoUsage    == [absent |-> TRUE]
Counted(u) == IF u = NoUsage THEN Tokens(0, 0) ELSE u
Plus(u, v) == Tokens(u.prompt + v.prompt, u.completion + v.completion)

\* _log_usage: the one line of a call, and the record persisted for it.
LogLine(model, tokens) ==
  [model |-> model, tokens |-> tokens, cost |-> CostUsd(model, tokens)]

\* complete_structured: refusals carry the usage that was logged, an unusable
\* reply none; an answer without a choice is nobody's error.
CompleteStructured(model, reply) ==
  LET line == LogLine(model, Counted(reply.usage))
      Ends(outcome, log) == [outcome |-> outcome, log |-> log]
  IN CASE reply.status \in {"truncated", "filtered", "invalid"} -> Ends("LlmOutputError", <<>>)
       [] reply.status = "failed"    -> Ends("LlmCallError", <<>>)
       [] reply.status = "no_choice" -> Ends("IndexError", <<line>>)
       [] reply.status = "refused"   -> Ends("LlmOutputError", <<line>>)
       [] reply.status = "parsed"    -> Ends("returned", <<line>>)

\* complete: the same without a schema; any text will do.
Complete(model, reply) ==
  CompleteStructured(model, IF reply.status \in {"truncated", "filtered", "invalid", "refused"}
                            THEN [reply EXCEPT !.status = "parsed"] ELSE reply)

\* One request for a tool, of the kinds the loop tells apart.
ToolKinds == {"served", "unsupported", "unregistered", "malformed", "llm_error", "error"}
CallTool(run, call) ==
  CASE run.outcome # "going" -> run
    [] run.outcome = "going" /\ call \in {"unsupported", "unregistered", "malformed"} ->
         [run EXCEPT !.outcome = "LlmOutputError"]
    [] run.outcome = "going" /\ call \in {"served", "llm_error", "error"} ->
         [run EXCEPT !.handled = Append(@, call),
                     !.outcome = IF call = "served" THEN @ ELSE "LlmError"]

\* Mutant of Round: the usage of the last round is taken for that of the call.
RoundAlone(model, run, reply) ==
  IF run.outcome # "going" THEN run
  ELSE LET asked == [run EXCEPT !.asked = @ + 1]
           spent == Counted(reply.usage)
       IN CASE reply.status = "failed"    -> [asked EXCEPT !.outcome = "LlmCallError"]
            [] reply.status = "no_choice" -> [asked EXCEPT !.outcome = "LlmOutputError"]
            [] reply.status = "parsed" /\ reply.calls = <<>> ->
                 [asked EXCEPT !.outcome = "returned", !.log = <<LogLine(model, spent)>>]
            [] reply.status = "parsed" /\ reply.calls # <<>> ->
                 FoldLeft(CallTool, [asked EXCEPT !.spent = spent], reply.calls)

\* One turn of the loop of complete_with_tools.
Round(model, run, reply) ==
  IF run.outcome # "going" THEN run
  ELSE LET asked == [run EXCEPT !.asked = @ + 1]
           spent == Plus(run.spent, Counted(reply.usage))
       IN CASE reply.status = "failed"    -> [asked EXCEPT !.outcome = "LlmCallError"]
            [] reply.status = "no_choice" -> [asked EXCEPT !.outcome = "LlmOutputError"]
            [] reply.status = "parsed" /\ reply.calls = <<>> ->
                 [asked EXCEPT !.outcome = "returned", !.log = <<LogLine(model, spent)>>]
            [] reply.status = "parsed" /\ reply.calls # <<>> ->
                 FoldLeft(CallTool, [asked EXCEPT !.spent = spent], reply.calls)

Started == [outcome |-> "going", asked |-> 0, spent |-> Tokens(0, 0), handled |-> <<>>,
            log |-> <<>>]

\* complete_with_tools on the replies of its rounds.
CompleteWithTools(model, replies) ==
  LET run == FoldLeft(LAMBDA r, reply : Round(model, r, reply), Started,
                      SubSeq(replies, 1, Min({MaxRounds, Len(replies)})))
  IN IF run.outcome = "going" THEN [run EXCEPT !.outcome = "LlmOutputError"] ELSE run

\* stream_complete: a chunk may carry a delta, the usage, or break the stream;
\* the consumer leaves at the delta with which it has enough.
StreamComplete(model, chunks, enough) ==
  LET Take1(s, c) ==
        CASE s.outcome # "open" -> s
          [] s.outcome = "open" /\ c = "failed" -> [s EXCEPT !.outcome = "LlmCallError"]
          [] s.outcome = "open" /\ c = "delta"  ->
               [s EXCEPT !.deltas = @ + 1,
                         !.outcome = IF s.deltas + 1 = enough THEN "left" ELSE @]
          [] s.outcome = "open" /\ c = "usage"  -> [s EXCEPT !.tokens = Tokens(1, 1)]
      end == FoldLeft(Take1, [outcome |-> "open", deltas |-> 0, tokens |-> Tokens(0, 0)], chunks)
  IN [outcome |-> IF end.outcome = "open" THEN "returned" ELSE end.outcome,
      deltas  |-> end.deltas,
      log     |-> IF end.outcome = "open" THEN <<LogLine(model, end.tokens)>> ELSE <<>>,
      warned  |-> end.outcome # "open"]

\* Mutant of Embed: the vectors as the wire brought them.
EmbedAsSent(data) == data

\* embed: one vector per text, by the index the API sends with each.  A vector
\* stands for the text it belongs to, its index counts from zero.
Embed(data) ==
  LET order == SortedBy(DOMAIN data, {p \in (DOMAIN data) \X (DOMAIN data) :
                 \/ data[p[1]] < data[p[2]]
                 \/ data[p[1]] = data[p[2]] /\ p[1] < p[2]})
  IN [k \in DOMAIN order |-> data[order[k]]]

\* _embed_chunk_texts over the answers to its batches: vectors are numbered
\* through the texts, those of batch b follow those before it.
EmbedChunkTexts(answers) ==
  FlattenSeq([b \in DOMAIN answers |->
    LET vectors == Embed(answers[b])
    IN [k \in DOMAIN vectors |-> (b - 1) * EmbedBatch + vectors[k] + 1]])

\* replace_with_embeddings: a row for each text, or nothing at all.
ReplaceWithEmbeddings(texts, vectors) ==
  IF Len(vectors) # texts THEN Raised ELSE Result(vectors)
-----------------------------------------------------------------------------
(* What it promises                                                        *)

\* client.py: "`max_rounds` bounds the loop", handlers run in the order asked
\* for and never behind a request that fails, and "one `llm call` line per call":
\* an answer is accounted for with every round it took, at the sum of their costs.
ToolLoopAccounted(model, replies) ==
  LET run     == CompleteWithTools(model, replies)
      fails(c)  == c # "served"
      first(calls) == Min({i \in DOMAIN calls : fails(calls[i])} \cup {Len(calls)})
      ends(i) == \/ replies[i].status # "parsed"
                 \/ replies[i].calls = <<>>
                 \/ \E c \in ToSet(replies[i].calls) : fails(c)
      rounds  == Min({i \in DOMAIN replies : ends(i)} \cup {MaxRounds})
      asked   == FlattenSeq([i \in 1..rounds |->
                   IF replies[i].status # "parsed" THEN <<>>
                   ELSE SubSeq(replies[i].calls, 1, first(replies[i].calls))])
      answered == replies[rounds].status = "parsed" /\ replies[rounds].calls = <<>>
      sum(f(_)) == SumFunction([i \in 1..rounds |-> f(Counted(replies[i].usage))])
      prompt(u) == u.prompt
      cost(u)   == CostUsd(model, u)
  IN /\ run.asked = rounds /\ rounds <= MaxRounds
     /\ run.handled = Selected(asked, {k \in DOMAIN asked :
                         asked[k] \in {"served", "llm_error", "error"}})
     /\ (run.outcome = "returned") = answered
     /\ Len(run.log) = (IF answered THEN 1 ELSE 0)
     /\ answered => run.log[1].tokens.prompt = sum(prompt) /\ run.log[1].cost = sum(cost)

\* client.py: "the one `llm call` line per call contract": a loop whose model asks for no tool costs
\* and ends as the plain call with the same reply does.
PlainLoopIsComplete(model, reply) ==
  reply.status \in {"parsed", "failed"} /\ reply.calls = <<>> =>
    LET run == CompleteWithTools(model, <<reply>>)
    IN <<run.outcome, run.log>> = <<Complete(model, reply).outcome, Complete(model, reply).log>>

\* client.py: "an abort is logged as unaccountable instead of silently dropping
\* the call": a stream leaves its log line or the warning, and the line only if
\* the consumer had everything.
StreamAccounted(model, chunks, enough) ==
  LET run    == StreamComplete(model, chunks, enough)
      broken == Min({i \in DOMAIN chunks : chunks[i] = "failed"} \cup {Len(chunks) + 1})
      deltas == {i \in 1..(broken - 1) : chunks[i] = "delta"}
      whole  == broken > Len(chunks) /\ Cardinality(deltas) < enough
  IN /\ run.deltas = Min({enough, Cardinality(deltas)})
     /\ run.warned # (run.log # <<>>) /\ (run.log # <<>>) = whole
     /\ whole => run.log[1].tokens.prompt =
                   (IF "usage" \in ToSet(chunks) THEN 1 ELSE 0)

\* client.py: "result.vectors[i] always corresponds to texts[i]", through the
\* batches and into the table: a chunk that is stored has the vector of its own
\* text, whatever the order and however short the answers.
VectorsBelongToTexts(texts, answers) ==
  LET stored == ReplaceWithEmbeddings(texts, EmbedChunkTexts(answers))
  IN HasResult(stored) => stored[2] = [k \in 1..texts |-> k]
=============================================================================
