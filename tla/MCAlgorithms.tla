---------------------------- MODULE MCAlgorithms ---------------------------
(***************************************************************************)
(* A bench for the operators of the pipeline: a state is one operation on  *)
(* one input, and every input of a small range is reached.  Beside it the  *)
(* rotation of a worker turns, while the bench is empty.                   *)
(***************************************************************************)
EXTENDS Chunking, Metrics, WorkerRotation, Accounting

VARIABLES task, input

vars == <<task, input, workerVars>>

UpTo(n, S) == UNION {[1..k -> S] : k \in 0..n}
\* Sequences without repetition over a subset of S.
Arrangements(S) == UNION {SetToSeqs(T) : T \in SUBSET S}

(* Parsing and chunking: blocks of a few characters, with and without pages. *)
Bodies == {<<"c">>, <<"c", "s", "c">>, <<"c", "c", "c", "n", "c">>, <<"c", "n", "n", "n", "c">>,
           <<"c", "c", "c", "s", "c", "n", "c", "c">>,
           <<"c", "c", "c", "c", "c", "c", "c", "c", "c">>,
           <<"c", "c", "c", "c", "s", "s", "s", "c", "c", "c", "c", "c", "c", "c">>}
Entries(bodies, pages) == [kind : {"heading", "paragraph"}, text : bodies, page : pages]
ParserOutputs ==
  {e \in UpTo(3, Entries(Bodies, {NoPage})) \cup UpTo(3, Entries({<<"c">>, <<"c", "s", "c">>}, {1, 2}))
     : Parsed(e)}

(* Diffing: numbers written with and without a zero, a heading, prose.     *)
Number(value, zeros) == Numbered(<<[value |-> value, zeros |-> zeros]>>)
Paragraph(line, text) == [line |-> line, text |-> text]
VersionParagraphs ==
  {Paragraph(Plain, "a"), Paragraph(Plain, "b"), Paragraph(Number(1, 0), "a"),
   Paragraph(Number(1, 1), "a"), Paragraph(Number(2, 0), "a"),
   Paragraph(Capitals("term"), "a")}

(* Answers of the model.                                                   *)
Usage == Tokens(3, 1)
Reply(status, usage, calls) == [status |-> status, usage |-> usage, calls |-> calls]
ToolCalls == UpTo(2, {"served", "unregistered", "llm_error"}) \ {<<>>}
RoundReplies ==
  {Reply("failed", NoUsage, <<>>), Reply("no_choice", Usage, <<>>),
   Reply("parsed", Usage, <<>>), Reply("parsed", NoUsage, <<>>)}
  \cup {Reply("parsed", Usage, c) : c \in ToolCalls}

Text  == <<"c", "s", "n">>
Spans == {<<0, 3>>, <<0, 1>>, <<1, 1>>, <<2, 1>>, <<-3, -1>>, <<-1, 2>>, <<1, 4>>}
Pair(clause, owner, shouted) == [clause |-> clause, owner |-> owner, shouted |-> shouted]
Items == [list : {"obligation", "defined_term"}, span : Spans, pair : {Pair("1", "a", FALSE)}]
CallResults(n) == {Raised} \cup {Result(items) : items \in UpTo(n, Items)}

Mapping(index, tenths) == [index |-> index, confidence |-> tenths]
Mappings == {Mapping(-1, 5), Mapping(0, 17), Mapping(0, 5), Mapping(1, 5), Mapping(2, -3)}

(* Impact scores: changes of two clauses, two obligations.                 *)
Clause1 == Paragraph(Number(1, 0), "a")
Graded == UpTo(2, {Clause1, Paragraph(Number(1, 0), "b"), Paragraph(Number(2, 0), "a")})
GradedChanges == {DetectChanges(base, amended) : base, amended \in Graded}
KindsOfChange == [kind : {"added", "removed", "modified"}, clause : {ClauseKey(Clause1.line)}]
Obligations == <<Pair("1", "a", FALSE), Pair("2", "a", FALSE)>>
Answers == {<<>>, <<Mapping(0, 5)>>, <<Mapping(1, 5)>>, <<Mapping(5, 5)>>}

(* Usage rows.                                                             *)
Row(kind, job, cost) == [kind |-> kind, job |-> job, cost |-> cost]
Rows == {Row("extraction", "j1", 2), Row("extraction", "j2", 3), Row("ingestion", "j3", 0),
         Row("search", NoJob, 1)}
-----------------------------------------------------------------------------
Ready == task = "none" /\ WorkerInit
Call(name, in) == task' = name /\ input' = in /\ UNCHANGED workerVars

Parse   == Ready /\ \E entries \in ParserOutputs : Call("parse", entries)
Diff    == Ready /\ \E base \in UpTo(3, VersionParagraphs), amended \in UpTo(3, VersionParagraphs) :
             Call("diff", <<base, amended>>)
Tools   == Ready /\ \E replies \in [1..MaxRounds -> RoundReplies] :
             Call("tools", Append(replies, Reply("parsed", Usage, <<>>)))
Stream  == Ready /\ \E chunks \in UpTo(4, {"delta", "usage", "failed"}), enough \in 1..3 :
             /\ Cardinality({i \in DOMAIN chunks : chunks[i] = "usage"}) <= 1
             /\ Call("stream", <<chunks, enough>>)
Vectors == Ready /\ \E texts \in 0..5 :
             LET batches == (texts + EmbedBatch - 1) \div EmbedBatch
                 batch(b) == 0..(Min({EmbedBatch, texts - (b - 1) * EmbedBatch}) - 1)
             IN \E answers \in [1..batches -> Arrangements(0..(EmbedBatch - 1))] :
                  /\ \A b \in 1..batches : ToSet(answers[b]) \subseteq batch(b)
                  /\ Call("embed", <<texts, answers>>)
Extract == Ready /\ \E first \in CallResults(1), second \in CallResults(2) :
             Call("extract", <<first, second>>)
Explain == Ready /\ \E changes \in 0..3, indices \in UpTo(4, -1..3) :
             Call("explain", <<changes, indices>>)
Search  == Ready /\ \E byVector, byText \in Arrangements({"c1", "c2", "c3", "c4"}), limit \in 1..2 :
             Call("search", <<byVector, byText, limit>>)
Impact  == Ready /\ \E obligations \in UpTo(3, {<<0, 2>>, <<1, 4>>, <<5, 7>>}),
             chunks \in UpTo(2, {<<0, 2>>, <<2, 5>>, <<4, 6>>}), reply \in UpTo(2, Mappings) :
             Call("impact", <<obligations, chunks, reply>>)
Measure == Ready /\ \E expected, actual \in UpTo(3, {"k1", "k2", "k3"}) :
             Call("score", <<expected, actual>>)
Recall  == Ready /\ \E expected \in SUBSET {"c1", "c2", "c3"},
             byVector, byText \in Arrangements({"c1", "c2", "c3"}) :
             Call("recall", <<expected, byVector, byText>>)
Grade   == Ready /\ \E changes \in GradedChanges, wanted \in UpTo(1, {Obligations[1]}) :
             \E answer \in [DOMAIN changes -> Answers] :
               Call("grade", <<changes, wanted, answer>>)
Account == Ready /\ \E rows \in UpTo(3, Rows), meanwhile \in UpTo(1, Rows) :
             Call("spend", <<rows, meanwhile>>)
Return  == task # "none" /\ task' = "none" /\ input' = <<>> /\ UNCHANGED workerVars
Work    == task = "none" /\ WorkerNext /\ UNCHANGED <<task, input>>

Init == task = "none" /\ input = <<>> /\ WorkerInit
Next == \/ Parse \/ Diff \/ Tools \/ Stream \/ Vectors \/ Extract \/ Explain \/ Search
        \/ Impact \/ Measure \/ Recall \/ Grade \/ Work \/ Account \/ Return
Spec == Init /\ [][Next]_vars
-----------------------------------------------------------------------------
\* parsing.py, diffing.py: the canonical text is its blocks and nothing else,
\* its pages share it without a gap, and splitting it again never joins blocks.
CanonicalText ==
  task = "parse" => ParagraphsAreBlocks(input) /\ PagesPartitionText(input)

\* chunking.py: chunks lose no character that is not white space, keep the
\* budget, go forward and stay in their clause.
ChunksFit == task = "parse" => ChunksHoldText(input) /\ ChunksInOrder(input)

\* diffing.py: each clause is accounted for once, with repeated numbers aligned
\* by occurrence, and a number that is only rewritten stays one clause.
DiffIsFaithful ==
  task = "diff" => /\ AlignmentIsByOccurrence(input[1], input[2])
                   /\ ClausesKeepTheirNumber(input[1], input[2])

\* diffing.py: read backwards, additions are removals.
DiffIsMirrored == task = "diff" => DiffMirrors(input[1], input[2])

\* search.py: fusion follows the agreement of the engines, and fills the page.
FusionAgrees == task = "search" => HitsFused(input[1], input[2], input[3])

\* impact.py: impacts are candidates, candidates overlap what was retrieved, and
\* the limit cuts the least relevant.
ImpactsFollowRetrieval ==
  task = "impact" => ImpactsGrounded(input[1], input[2], input[3])

\* extraction.py: what an extraction returns cites the text.
ExtractionCites == task = "extract" => ExtractionGrounded(input, Text)

\* change_report.py: each change is explained by an explanation of its own.
ExplanationsFit == task = "explain" => EveryChangeExplained(input[1], input[2])

\* client.py: every call is accounted for once, with all its rounds, or the
\* stream it was is reported as lost.
CallsAccounted ==
  /\ task = "tools"  => ToolLoopAccounted("mini", input) /\ PlainLoopIsComplete("mini", input[1])
  /\ task = "stream" => StreamAccounted("mini", input[1], input[2])

\* client.py, document_chunks.py: a chunk is stored with the vector of its text.
VectorsAligned == task = "embed" => VectorsBelongToTexts(input[1], input[2])

\* metrics.py, harness.py: scores are perfect exactly where the answers are.
ScoresExact ==
  /\ task = "score"   => PerfectIsExact(input[1], input[2])
  /\ task = "recall"  => RecallGrows(input[1], input[2], input[3], {1, 2})
  /\ task = "extract" => TripwireIsSilent(input, Len(Text))
  /\ task = "grade"   =>
       LET changes == input[1]
           golden  == [k \in {Kind(changes[i]) : i \in DOMAIN changes} \cap KindsOfChange
                         |-> input[2]]
       IN ImpactScoreExact(golden, Obligations, changes, input[3])

\* usage.py: the spend report adds up.
SpendAddsUp == task = "spend" => SpendReportAddsUp(input[1], input[2])
=============================================================================
