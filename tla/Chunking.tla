------------------------------ MODULE Chunking -----------------------------
(***************************************************************************)
(* Cutting a parsed document into chunks for the embedding model           *)
(* (app/services/chunking.py): a chunk per clause, and windows with an     *)
(* overlap where a clause, or a text without headings, is too long.        *)
(***************************************************************************)
EXTENDS Parsing, FiniteSetsExt

CONSTANTS MaxChunk,   \* MAX_CHUNK_CHARS, 8000
          Overlap     \* _OVERLAP_CHARS, 200

\* Of the two constants of the code only this is used.
ASSUME ChunkingAssumption ==
  MaxChunk \in Nat /\ Overlap \in Nat /\ 0 < Overlap /\ Overlap < MaxChunk \div 2

\* The last white space in [floor, limit) past floor, or limit.
SnapBackward(text, limit, floor) ==
  LET cuts == {i \in (floor + 1)..(limit - 1) : At(text, i) \in Space}
  IN IF cuts = {} THEN limit ELSE Max(cuts)

\* The first character from pos on that is not white space, or the end.
SnapForward(text, pos) ==
  LET found == {i \in pos..(Len(text) - 1) : At(text, i) \notin Space}
  IN IF found = {} THEN Len(text) ELSE Min(found)

\* Where the window that begins at pos stops, when it cannot take all the rest.
Stop(text, pos, bounds) ==
  LET budget == pos + MaxChunk
      stops  == {b \in bounds : b <= budget /\ b - pos >= MaxChunk \div 2}
  IN IF stops # {} THEN Max(stops) ELSE SnapBackward(text, budget, pos)

\* Where the window after one that took [pos, stop) begins.
NextStart(text, pos, stop) ==
  Max({Min({SnapForward(text, Max({stop - Overlap, pos + 1})), stop}), pos + 1})

SplitRange(text, start, end, bounds) ==
  LET windows[pos \in start..end] ==
        IF pos = end THEN <<>>
        ELSE IF end - pos <= MaxChunk THEN <<<<pos, end>>>>
        ELSE LET stop == Stop(text, pos, bounds)
             IN <<<<pos, stop>>>> \o windows[NextStart(text, pos, stop)]
  IN windows[start]

\* Mutant of ClauseSpans: a clause reaches up to the next heading's end.
ClauseSpansLate(blocks) ==
  LET n == Len(blocks)
      heads == {i \in 1..n : i = 1 \/ blocks[i].kind = "heading"}
  IN [k \in 1..Cardinality(heads) |->
        LET i == CHOOSE h \in heads : Cardinality({g \in heads : g <= h}) = k
            j == Min({h \in heads : h > i} \cup {n})
        IN <<blocks[i].start, blocks[j].end>>]

\* _clause_spans: from each heading, or the first block, to the last block
\* before the next heading.
ClauseSpans(blocks) ==
  LET n == Len(blocks)
      heads == {i \in 1..n : i = 1 \/ blocks[i].kind = "heading"}
  IN [k \in 1..Cardinality(heads) |->
        LET i == CHOOSE h \in heads : Cardinality({g \in heads : g <= h}) = k
            j == Min({h \in heads : h > i} \cup {n + 1}) - 1
        IN <<blocks[i].start, blocks[j].end>>]

\* The ends of blocks inside a clause, where a window may stop.
Bounds(blocks, clause) ==
  {b.end : b \in {b \in ToSet(blocks) : clause[1] <= b.start /\ b.end <= clause[2]}}

Chunks(doc) ==
  IF doc.blocks = <<>> THEN <<>>
  ELSE IF \E b \in ToSet(doc.blocks) : b.kind = "heading"
  THEN LET clauses == ClauseSpans(doc.blocks)
       IN FlattenSeq([k \in DOMAIN clauses |->
            SplitRange(doc.text, clauses[k][1], clauses[k][2],
                       Bounds(doc.blocks, clauses[k]))])
  ELSE SplitRange(doc.text, 0, Len(doc.text), {})
-----------------------------------------------------------------------------
(* What it promises                                                        *)

\* chunking.py: "no context is lost": every character that is not white space
\* is in a chunk, and no chunk is empty or beyond the embedding model's budget.
ChunksHoldText(entries) ==
  LET doc == Build(entries)
      chunks == ToSet(Chunks(doc))
  IN /\ \A w \in chunks : 0 <= w[1] /\ w[1] < w[2] /\ w[2] <= Len(doc.text)
                          /\ w[2] - w[1] <= MaxChunk
     /\ \A i \in 0..(Len(doc.text) - 1) : At(doc.text, i) \notin Space =>
          \E w \in chunks : w[1] <= i /\ i < w[2]

\* Consecutive windows go forward, and share at most the overlap; a chunk of a
\* document with headings never reaches into the next clause.
ChunksInOrder(entries) ==
  LET doc == Build(entries)
      chunks == Chunks(doc)
      headings == {b \in ToSet(doc.blocks) : b.kind = "heading"}
  IN /\ \A k \in 1..(Len(chunks) - 1) :
          /\ chunks[k][1] < chunks[k + 1][1]
          /\ chunks[k][2] - chunks[k + 1][1] <= Overlap
     /\ \A w \in ToSet(chunks), h \in headings : ~ (w[1] < h.start /\ h.start < w[2])
=============================================================================
