--------------------------------- MODULE Texts ---------------------------------
(***************************************************************************)
(* The pure algorithms a program's text passes through, from its file to   *)
(* the paragraph of a document (ListUtils, ProgramTemplates, Paragraph),   *)
(* on texts over a few alphabets: each state is a text, and a step writes  *)
(* one more symbol.                                                        *)
(***************************************************************************)
EXTENDS ProgramTemplates, Paragraph

CONSTANT Alphabet  \* records of a set of symbols and the length of its texts

VARIABLE text  \* a program template as it stands in its file

Symbols == {text[i] : i \in DOMAIN text}

Init == text = <<>>

Write(c) ==
  /\ \E a \in Alphabet : Symbols \cup {c} \subseteq a.symbols /\ Len(text) < a.length
  /\ text' = Append(text, c)

Next == \E c \in UNION {a.symbols : a \in Alphabet} : Write(c)
Spec == Init /\ [][Next]_text

Lines    == SplitByNewline(text)
Template == ParseProgramTemplate(text)

Marker == GroupMarker \cup {"%excluded", "%hidden"}

\* The gaps of a line are what searching from left to right without overlap must
\* find: each is a gap, they follow one another, and any other candidate overlaps
\* one that begins before it.
GapsAreLeftmost ==
  \A n \in DOMAIN Lines :
    LET s == NormalizeLine(Lines[n]).content
        R == FindAll(s)
    IN /\ \A k \in DOMAIN R : IsGap(s, R[k].begin, R[k].end)
       /\ \A k \in 1 .. Len(R) - 1 : R[k].end < R[k + 1].begin
       /\ \A i, j \in DOMAIN s : IsGap(s, i, j) =>
            \E k \in DOMAIN R : R[k].begin <= i /\ i <= R[k].end

\* A parsed line still is the line: its texts and its gaps, with their markers put
\* back, spell the content, and begin and end with a text.
NodesSpellLine ==
  \A n \in DOMAIN Lines :
    LET nodes == Template[n].nodes
        Spell(node) == IF node.type = "gap"
                         THEN Underscores(2) \o node.content \o Underscores(2) ELSE node.content
    IN /\ FlattenSeq([i \in DOMAIN nodes |-> Spell(nodes[i])]) = NormalizeLine(Lines[n]).content
       /\ \A i \in DOMAIN nodes : nodes[i].type = IF i % 2 = 0 THEN "gap" ELSE "text"

\* The students' and the teacher's source have the same shape, line by line: a
\* program is too high or too wide for its placeholder in both documents or in none.
SameShape ==
  \A g \in GroupMarker :
    LET student == RealizeProgramTemplate(Template, "STUDENT", g)
        teacher == RealizeProgramTemplate(Template, "TEACHER", g)
    IN /\ Len(student) = Len(teacher)
       /\ \A i \in DOMAIN student : Len(student[i]) = Len(teacher[i])

\* A line of one text as the students must see it: no marker of a gap, and an
\* underscore for each symbol between the markers.
Hidden(s) ==
  LET R == FindAll(s)
      InGap(i)    == \E k \in DOMAIN R : R[k].begin + 2 <= i /\ i <= R[k].end - 2
      InMarker(i) == ~InGap(i) /\ \E k \in DOMAIN R : R[k].begin <= i /\ i <= R[k].end
  IN FlattenSeq([i \in DOMAIN s |->
       IF InMarker(i) THEN <<>> ELSE IF InGap(i) THEN <<Underscore>> ELSE <<s[i]>>])

\* Students see no symbol of an answer, and everything else of the line.
StudentSeesNoAnswer ==
  \A n \in DOMAIN Lines :
    LET line == [Template[n] EXCEPT !.kind = "NORMAL"]
    IN RealizeLineTemplateNodes(line, "STUDENT") = Hidden(NormalizeLine(Lines[n]).content)

\* A line of content s with markers written behind it, kind before group.
Marked(s, kind, group, space) ==
  s \o (CASE kind = "EXCLUDED" -> space \o <<"%excluded">>
          [] kind = "HIDDEN"   -> space \o <<"%hidden">>
          [] OTHER             -> <<>>)
    \o (IF group = NoGroup THEN <<>> ELSE space \o <<group>>)

\* A text that is one line and does not end in a marker of its own.
IsUnmarked == /\ ~Contains(text, LineEnd)
              /\ \A m \in Marker : ~EndsWith(text, m)

\* With these markers behind it the text reaches whom they say among the readers of group
\* h, and no marker stays in the line.
Reaches(kind, group, h, space) ==
  LET template == ParseProgramTemplate(Marked(text, kind, group, space) \o space)
      Has(variant) == RealizeProgramTemplate(template, variant, h) # <<>>
  IN /\ Has("COMPILER") <=> kind # "EXCLUDED" /\ group \in {NoGroup, h}
     /\ \A variant \in {"STUDENT", "TEACHER"} :
          Has(variant) <=> kind # "HIDDEN" /\ group \in {NoGroup, h}
     /\ kind # "NORMAL" \/ group # NoGroup =>
          template[1].nodes = ParseNormalizedLine(TrimEnd(text))

\* Markers written in that order decide whom a line reaches, with and without white
\* space: what is hidden is compiled and never shown, what is excluded is shown and
\* never compiled, another group's line is neither; and no marker stays in the line.
MarkersDecide ==
  IsUnmarked =>
    \A kind \in LineKind, group \in GroupMarker \cup {NoGroup}, h \in GroupMarker,
       space \in {<<>>, <<" ">>} : Reaches(kind, group, h, space)

\* Of these files, by number, the first n are loaded, each as the program of its own
\* number, and n is the last number allowed or the next file is missing.
LoadedInARow(files) ==
  \E n \in 0 .. MAX_CODE_TEMPLATES_COUNT :
    /\ 1 .. n \subseteq DOMAIN files
    /\ n < MAX_CODE_TEMPLATES_COUNT => n + 1 \notin DOMAIN files
    /\ LoadProgramTemplates(files) = [i \in 1 .. n |-> ParseProgramTemplate(files[i])]

\* Whatever numbers have a file, one of them with the text and the others empty, the
\* loop loads the programs from one up to the first hole, each from its own file, and
\* nothing from behind the hole, although it stops there without a word.
LoadedWithoutHoles ==
  \A numbers \in SUBSET (0 .. MAX_CODE_TEMPLATES_COUNT + 1) :
    \A k \in numbers \cup {0} : LoadedInARow([n \in numbers |-> IF n = k THEN text ELSE <<>>])

-----------------------------------------------------------------------------
Nodes == LineStringToParagraph(Lines)

\* What the format leaves of a node (an assumption on those who read a document, not
\* code): of a row of spaces in a text the first one alone; elements stay as they are.
Shown(node) ==
  CASE node.type = "text"   ->
         LET data == node.data
             Dropped(k) == k > 1 /\ data[k] = Space /\ data[k - 1] = Space
         IN FlattenSeq([k \in DOMAIN data |-> IF Dropped(k) THEN <<>> ELSE <<data[k]>>])
    [] node.type = "spaces" -> [i \in 1 .. node.count |-> Space]
    [] OTHER                -> <<LineEnd>>

\* The first node is a text that begins with a space.
SpaceInFront(nodes) == nodes # <<>> /\ nodes[1].type = "text" /\ nodes[1].data[1] = Space

\* What a reader sees of a paragraph: its nodes, without a space of a text at its very
\* beginning, which the format drops too. A space behind a line break is kept, and one at
\* the end of the paragraph, where nobody sees it, counts as kept.
ShownParagraph(nodes) ==
  LET shown == FlattenSeq([i \in DOMAIN nodes |-> Shown(nodes[i])])
  IN IF SpaceInFront(nodes) THEN Tail(shown) ELSE shown

\* A reader sees every line of a text, none more or less, and every space of every
\* indentation but one: a space that is the first symbol of the text is left in the
\* first node, where the format drops it, and the first line moves to the left by one.
ParagraphShowsLines ==
  ShownParagraph(Nodes) =
    IF text # <<>> /\ text[1] = Space THEN Tail(text) ELSE text
=============================================================================
