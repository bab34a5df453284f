------------------------------ MODULE Parsing ------------------------------
(***************************************************************************)
(* From the blocks a parser finds to the canonical text every citation     *)
(* points into (app/services/parsing.py), and back from that text to its   *)
(* paragraphs (app/services/diffing.py).                                   *)
(*                                                                         *)
(* A character is one of "c" (any that is not white space), "s" (a space)  *)
(* and "n" (a newline): spans are cut at white space, and nothing looks    *)
(* further into a text.  Offsets count from zero and a span excludes its   *)
(* end, as in the code; At translates an offset.                           *)
(***************************************************************************)
EXTENDS Integers, Sequences, SequencesExt

Space     == {"s", "n"}
Separator == <<"n", "n">>
NoPage    == 0

\* What a parser hands on: stripped and not empty.  A paragraph of a DOCX may
\* hold an empty line, a line of a PDF or a part of a plain text does not.
\* Pages count up; DOCX and plain text have none.
IsEntry(e) ==
  Len(e.text) > 0 /\ e.text[1] \notin Space /\ e.text[Len(e.text)] \notin Space
HasEmptyLine(e) == \E i \in 1..(Len(e.text) - 1) : e.text[i] = "n" /\ e.text[i + 1] = "n"
Parsed(entries) ==
  /\ \A i \in DOMAIN entries : IsEntry(entries[i])
  /\ \A i, j \in DOMAIN entries : i <= j => entries[i].page <= entries[j].page
  /\ (\E i \in DOMAIN entries : entries[i].page = NoPage) =>
       \A i \in DOMAIN entries : entries[i].page = NoPage

At(text, i)          == text[i + 1]
Slice(text, from, to) == SubSeq(text, from + 1, to)

Empty == [text |-> <<>>, blocks |-> <<>>, pages |-> <<>>]

\* Ends the page that is open, if one is.
ClosePage(pages, end) ==
  IF pages = <<>> THEN pages ELSE [pages EXCEPT ![Len(pages)].end = end]

\* Mutant of Append1: a page is ended where its last block ends, so that the
\* separator between two pages belongs to neither.
Append1Gap(doc, entry) ==
  LET start == IF doc.blocks = <<>> THEN 0 ELSE Len(doc.text) + 2
      end   == start + Len(entry.text)
      opens == /\ entry.page # NoPage
               /\ doc.pages = <<>> \/ Last(doc.pages).page # entry.page
  IN [text   |-> IF doc.blocks = <<>> THEN entry.text
                 ELSE doc.text \o Separator \o entry.text,
      blocks |-> Append(doc.blocks, [kind |-> entry.kind, start |-> start, end |-> end,
                                     page |-> entry.page]),
      pages  |-> IF opens
                 THEN Append(ClosePage(doc.pages, Len(doc.text)),
                             [page |-> entry.page, start |-> start, end |-> start])
                 ELSE doc.pages]

\* One turn of the loop of _build.
Append1(doc, entry) ==
  LET start == IF doc.blocks = <<>> THEN 0 ELSE Len(doc.text) + 2
      end   == start + Len(entry.text)
      opens == /\ entry.page # NoPage
               /\ doc.pages = <<>> \/ Last(doc.pages).page # entry.page
  IN [text   |-> IF doc.blocks = <<>> THEN entry.text
                 ELSE doc.text \o Separator \o entry.text,
      blocks |-> Append(doc.blocks, [kind |-> entry.kind, start |-> start, end |-> end,
                                     page |-> entry.page]),
      pages  |-> IF opens
                 THEN Append(ClosePage(doc.pages, start),
                             [page |-> entry.page, start |-> start, end |-> start])
                 ELSE doc.pages]

Build(entries) ==
  LET doc == FoldLeft(Append1, Empty, entries)
  IN [doc EXCEPT !.pages = ClosePage(@, Len(doc.text))]

\* text.find(Separator, pos), or the end of the text.
SeparatorFrom(text, pos) ==
  LET found == {i \in pos..(Len(text) - 2) : Slice(text, i, i + 2) = Separator}
  IN IF found = {} THEN Len(text) ELSE CHOOSE i \in found : \A j \in found : i <= j

\* _paragraphs: the spans between separators that are not blank.
Paragraphs(text) ==
  LET from[pos \in 0..(Len(text) + 2)] ==
        IF pos >= Len(text) THEN <<>>
        ELSE LET end  == SeparatorFrom(text, pos)
                 rest == from[end + 2]
             IN IF \E i \in pos..(end - 1) : At(text, i) \notin Space
                THEN <<<<pos, end>>>> \o rest ELSE rest
  IN from[0]
-----------------------------------------------------------------------------
(* What it promises                                                        *)

\* Canonical text: each block is at the offsets recorded for it, no paragraph
\* reaches over the end of its block, and where no block has an empty line inside
\* the paragraphs are the blocks.
ParagraphsAreBlocks(entries) ==
  LET doc == Build(entries)
      spans == [i \in DOMAIN doc.blocks |-> <<doc.blocks[i].start, doc.blocks[i].end>>]
  IN
    /\ \A p \in ToSet(Paragraphs(doc.text)) : \E b \in ToSet(spans) : b[1] <= p[1] /\ p[2] <= b[2]
    /\ (~ \E i \in DOMAIN entries : HasEmptyLine(entries[i])) => Paragraphs(doc.text) = spans
    /\ \A i \in DOMAIN entries :
         Slice(doc.text, doc.blocks[i].start, doc.blocks[i].end) = entries[i].text

\* page_map: ascending pages that share the whole text between them without
\* gap or overlap, each block on its own page.
PagesPartitionText(entries) ==
  LET doc == Build(entries)
      map == doc.pages
  IN (entries # <<>> /\ entries[1].page # NoPage) =>
       /\ map[1].start = 0 /\ Last(map).end = Len(doc.text)
       /\ \A i \in 1..(Len(map) - 1) :
            map[i].page < map[i + 1].page /\ map[i].end = map[i + 1].start
       /\ \A b \in ToSet(doc.blocks) : \E p \in ToSet(map) :
            p.page = b.page /\ p.start <= b.start /\ b.end <= p.end
=============================================================================
