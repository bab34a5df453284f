------------------------------ MODULE Diffing ------------------------------
(***************************************************************************)
(* The changes between two versions of an agreement                        *)
(* (app/services/diffing.py): paragraphs grouped into clauses, clauses     *)
(* aligned by their key, aligned clauses compared as they are.             *)
(*                                                                         *)
(* A version is a sequence of paragraphs, each a record of its first line  *)
(* and its wording; spans are ranges of paragraph indices.  A line is a    *)
(* number with the zeros it is written with, a short heading in capitals,  *)
(* or prose; two lines that differ only in zeros are different wordings of *)
(* one key.                                                                *)
(***************************************************************************)
EXTENDS Ordered, SequencesExt

Prose == "prose"
NoKey == [preamble |-> TRUE]

\* Lines, as far as _clause_key tells them apart: the parts of a dotted number,
\* each its value and its leading zeros; the words of a heading in capitals.
Numbered(parts) == [form |-> "numbered", parts |-> parts]
Capitals(words) == [form |-> "capitals", words |-> words]
Plain           == [form |-> Prose]

Values(parts) == [i \in DOMAIN parts |-> parts[i].value]

\* Mutant of ClauseKey: numbers are compared as they are written.
ClauseKeyVerbatim(line) ==
  CASE line.form = "numbered" -> [number |-> line.parts]
    [] line.form = "capitals" -> [words |-> line.words]
    [] OTHER                  -> NoKey

\* _clause_key: leading zeros strip, headings casefold, prose has no key.
ClauseKey(line) ==
  CASE line.form = "numbered" -> [number |-> Values(line.parts)]
    [] line.form = "capitals" -> [words |-> line.words]
    [] OTHER                  -> NoKey

\* _sections: a paragraph with a key opens a section, any other extends the
\* one before it; the first opens one in any case.
Sections(version) ==
  LET starts == Ascending({i \in DOMAIN version : i = 1 \/ ClauseKey(version[i].line) # NoKey})
  IN [k \in DOMAIN starts |->
        [key  |-> ClauseKey(version[starts[k]].line),
         span |-> <<starts[k],
                    IF k < Len(starts) THEN starts[k + 1] - 1 ELSE Len(version)>>]]

Wording(version, section) == SubSeq(version, section.span[1], section.span[2])

NoSpan == <<>>
Change(kind, key, base, amended) ==
  [kind |-> kind, clause |-> key, base |-> base, amended |-> amended]

\* Mutant of Match: any section with the key will do, consumed or not.
MatchAgain(section, amended, consumed) ==
  {i \in DOMAIN amended : amended[i].key = section.key
                          /\ \A j \in 1..(i - 1) : amended[j].key # section.key}

\* The amended section a base section is aligned with: the first of its key
\* that no other took.
Match(section, amended, consumed) ==
  LET open == {i \in DOMAIN amended \ consumed : amended[i].key = section.key}
  IN {i \in open : \A j \in open : i <= j}

\* One turn of the first loop of detect_changes, over the base sections.
Align(base, amended, found, section) ==
  LET others == Sections(amended)
      match  == Match(section, others, found.consumed)
  IN IF match = {}
     THEN [found EXCEPT !.changes =
             Append(@, Change("removed", section.key, section.span, NoSpan))]
     ELSE LET other == others[CHOOSE i \in match : TRUE] IN
          [consumed |-> found.consumed \cup match,
           changes  |-> IF Wording(base, section) = Wording(amended, other)
                        THEN found.changes
                        ELSE Append(found.changes,
                                    Change("modified", section.key, section.span, other.span))]

DetectChanges(base, amended) ==
  LET aligned == FoldLeft(LAMBDA found, section : Align(base, amended, found, section),
                          [changes |-> <<>>, consumed |-> {}], Sections(base))
      others  == Sections(amended)
      added   == Ascending(DOMAIN others \ aligned.consumed)
  IN aligned.changes \o
       [k \in DOMAIN added |->
          Change("added", others[added[k]].key, NoSpan, others[added[k]].span)]
-----------------------------------------------------------------------------
(* What it promises                                                        *)

\* The how-manieth section of its key a section is.
Occurrence(sections, i) == Cardinality({j \in 1..i : sections[j].key = sections[i].key})

\* The same changes without a loop: the n-th section of a key in one version
\* belongs to the n-th of that key in the other.
Counterparts(one, i, other) ==
  {j \in DOMAIN other : other[j].key = one[i].key
                        /\ Occurrence(other, j) = Occurrence(one, i)}

ChangesByOccurrence(base, amended) ==
  LET b == Sections(base)
      a == Sections(amended)
  IN {Change("removed", b[i].key, b[i].span, NoSpan) :
        i \in {i \in DOMAIN b : Counterparts(b, i, a) = {}}}
     \cup
     {Change("added", a[j].key, NoSpan, a[j].span) :
        j \in {j \in DOMAIN a : Counterparts(a, j, b) = {}}}
     \cup
     {Change("modified", b[p[1]].key, b[p[1]].span, a[p[2]].span) :
        p \in {p \in (DOMAIN b) \X (DOMAIN a) :
                 /\ p[2] \in Counterparts(b, p[1], a)
                 /\ Wording(base, b[p[1]]) # Wording(amended, a[p[2]])}}

\* diffing.py: "Align the two versions' clauses and diff each matched pair":
\* each clause of either version is accounted for once, also where a number
\* comes twice, and the changes come in the order the docstring gives.
AlignmentIsByOccurrence(base, amended) ==
  LET changes == DetectChanges(base, amended)
      rank(c) == IF c.kind = "added" THEN <<2, c.amended[1]>> ELSE <<1, c.base[1]>>
  IN /\ ToSet(changes) = ChangesByOccurrence(base, amended)
     /\ \A i, j \in DOMAIN changes : i < j =>
          LET p == rank(changes[i])
              q == rank(changes[j])
          IN p[1] < q[1] \/ (p[1] = q[1] /\ p[2] < q[2])

\* Read backwards, additions are removals and the rest is the same: nothing
\* depends on which version is called the base.
Reversed(c) ==
  Change(CASE c.kind = "added" -> "removed" [] c.kind = "removed" -> "added"
           [] OTHER -> c.kind, c.clause, c.amended, c.base)
DiffMirrors(base, amended) ==
  {Reversed(c) : c \in ToSet(DetectChanges(base, amended))}
    = ToSet(DetectChanges(amended, base))

\* diffing.py: clause_ref "is None only for the unnumbered preamble", of which
\* a version has one at most; and "8.02" and "8.2" are one clause: rewriting the
\* number is never a removal together with an addition.
SameNumber(l, m) ==
  l.form = "numbered" /\ m.form = "numbered" /\ Values(l.parts) = Values(m.parts)
ClausesKeepTheirNumber(base, amended) ==
  LET changes == ToSet(DetectChanges(base, amended)) IN
    /\ \A c \in changes : c.clause = NoKey =>
         c.base \in {NoSpan} \cup {<<1, n>> : n \in DOMAIN base}
    /\ \A c, d \in changes : c.kind = "removed" /\ d.kind = "added" =>
         ~ SameNumber(base[c.base[1]].line, amended[d.amended[1]].line)
=============================================================================
