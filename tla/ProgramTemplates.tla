--------------------------- MODULE ProgramTemplates ---------------------------
(***************************************************************************)
(* Program templates: how the text of a file 01.cpp, 02.cpp, ... becomes    *)
(* lines with gaps, a kind and a group (ProgramTemplateLoading,            *)
(* ProgramTemplateParsing, LineTemplateParsing), and what of them is       *)
(* compiled, shown to the students and shown to the teacher                *)
(* (ProgramTemplateRealization).                                           *)
(*                                                                         *)
(* A text is a sequence of symbols: the underscore, white space, the end   *)
(* of a line, and any other character; a marker such as %hidden or %a is   *)
(* one symbol, since its letters matter to nothing but the patterns that   *)
(* look for it as a whole.                                                 *)
(***************************************************************************)
EXTENDS ListUtils, FiniteSets, FiniteSetsExt

CONSTANTS
  GroupMarker,             \* the symbols %a, %b, ...; a group is named by its marker
  MAX_CODE_TEMPLATES_COUNT

ASSUME TemplatesAssumption ==
  /\ MAX_CODE_TEMPLATES_COUNT \in Nat
  /\ {"none", "%excluded", "%hidden", "_", " ", "\n"} \cap GroupMarker = {}

Underscore     == "_"
LineEnd        == "\n"
NoGroup        == "none"
LineKind       == {"NORMAL", "HIDDEN", "EXCLUDED"}
ProgramVariant == {"COMPILER", "STUDENT", "TEACHER"}

IsWhiteSpace(c) == c = " "
LastSolid(s)    == SelectLastInSeq(s, LAMBDA c : ~IsWhiteSpace(c))
TrimEnd(s)      == SubSeq(s, 1, LastSolid(s))

-----------------------------------------------------------------------------
(***************************************************************************)
(* LineTemplateParsing: the markers at the end of a line.                  *)
(***************************************************************************)

\* The patterns of the markers match at the end of the line only.
EndsWith(s, marker) == LastSolid(s) > 0 /\ s[LastSolid(s)] = marker

\* Mutation: the white space before the marker stays.
RemoveMarker_KeepSpace(s) == SubSeq(s, 1, LastSolid(s) - 1)

\* removeFirst of such a pattern takes the white space around the marker, too.
RemoveMarker(s) == TrimEnd(SubSeq(s, 1, LastSolid(s) - 1))

GroupOf(s) == IF \E g \in GroupMarker : EndsWith(s, g) THEN s[LastSolid(s)] ELSE NoGroup

KindOf(s) ==
  CASE EndsWith(s, "%excluded") -> "EXCLUDED"
    [] EndsWith(s, "%hidden")   -> "HIDDEN"
    [] OTHER                    -> "NORMAL"

\* Mutation: the kind is looked for before the group marker is gone.
NormalizeLine_KindFirst(s) ==
  LET group == GroupOf(s)
      inner == IF group = NoGroup THEN s ELSE RemoveMarker(s)
      kind  == KindOf(s)
  IN [content |-> IF kind = "NORMAL" THEN inner ELSE RemoveMarker(inner),
      kind |-> kind, group |-> group]

\* normalizeLine: first the group, then, in what is left, the kind.
NormalizeLine(s) ==
  LET group == GroupOf(s)
      inner == IF group = NoGroup THEN s ELSE RemoveMarker(s)
      kind  == KindOf(inner)
  IN [content |-> IF kind = "NORMAL" THEN inner ELSE RemoveMarker(inner),
      kind |-> kind, group |-> group]

-----------------------------------------------------------------------------
(***************************************************************************)
(* LineTemplateParsing: the gaps, matches of the pattern __([^_]+)__.      *)
(***************************************************************************)
GapRange(i, j) == [begin |-> i, end |-> j]

\* Positions i to j of s are a gap with its markers.
IsGap(s, i, j) ==
  /\ j - i >= 4
  /\ \A k \in {i, i + 1, j - 1, j} : s[k] = Underscore
  /\ \A k \in i + 2 .. j - 2 : s[k] # Underscore

\* Mutation: the search goes on at the second marker of a gap.
FindAll_Overlapping(s) ==
  LET from[i \in 1 .. Len(s) + 2] ==
        IF i > Len(s) THEN <<>>
        ELSE IF \E j \in i .. Len(s) : IsGap(s, i, j)
          THEN LET j == CHOOSE k \in i .. Len(s) : IsGap(s, i, k)
               IN <<GapRange(i, j)>> \o from[j - 1]
          ELSE from[i + 1]
  IN from[1]

\* RegexUtils.findAll: from left to right, each search where the last match ended.
FindAll(s) ==
  LET from[i \in 1 .. Len(s) + 1] ==
        IF i > Len(s) THEN <<>>
        ELSE IF \E j \in i .. Len(s) : IsGap(s, i, j)
          THEN LET j == CHOOSE k \in i .. Len(s) : IsGap(s, i, k)
               IN <<GapRange(i, j)>> \o from[j + 1]
          ELSE from[i + 1]
  IN from[1]

TextNode(content) == [type |-> "text", content |-> content]
GapNode(content)  == [type |-> "gap", content |-> content]

\* parseNormalizedLine: a vertex of the path is a gap, an edge the text between two.
ParseNormalizedLine(s) ==
  LET path == MapPath(FindAll(s), GapRange(0, 0), GapRange(Len(s) + 1, 0))
      Vertex(v)  == GapNode(SubSeq(s, v.begin + 2, v.end - 2))
      Edge(u, v) == TextNode(SubSeq(s, u.end + 1, v.begin - 1))
  IN [i \in DOMAIN path |->
       IF Len(path[i]) = 1 THEN Vertex(path[i][1]) ELSE Edge(path[i][1], path[i][2])]

ParseLineTemplate(s) ==
  LET line == NormalizeLine(s)
  IN [nodes |-> ParseNormalizedLine(line.content), kind |-> line.kind, group |-> line.group]

-----------------------------------------------------------------------------
(***************************************************************************)
(* ProgramTemplateParsing and ProgramTemplateLoading.                      *)
(***************************************************************************)

\* The lines of a text and one more character.
AddToLines(lines, c) ==
  IF c = LineEnd THEN Append(lines, <<>>)
                 ELSE [lines EXCEPT ![Len(lines)] = Append(@, c)]

\* Mutation: an empty last line is dropped, as stringToLines does.
SplitByNewline_DropLast(str) ==
  LET lines[i \in 0 .. Len(str)] ==
        IF i = 0 THEN << <<>> >> ELSE AddToLines(lines[i - 1], str[i])
      all == lines[Len(str)]
  IN IF Last(all) = <<>> THEN Front(all) ELSE all

\* splitByNewline keeps every line, also the empty one behind a last line end.
SplitByNewline(str) ==
  LET lines[i \in 0 .. Len(str)] ==
        IF i = 0 THEN << <<>> >> ELSE AddToLines(lines[i - 1], str[i])
  IN lines[Len(str)]

ParseProgramTemplate(str) ==
  LET lines == SplitByNewline(str)
  IN [i \in DOMAIN lines |-> ParseLineTemplate(lines[i])]

\* Mutation: programs are numbered from zero.
FromIndex_Zero(index) == index

\* ProgramId.fromIndex.
FromIndex(index) == index + 1

\* HashMap.put.
Put(map, key, value) ==
  [k \in DOMAIN map \cup {key} |-> IF k = key THEN value ELSE map[k]]

\* Mutation: a missing file is passed over.
LoadTurn_Continue(loop, id, files) ==
  IF id \in DOMAIN files
    THEN [loop EXCEPT !.templates = Put(@, id, ParseProgramTemplate(files[id]))]
    ELSE loop

\* A turn of the loop of loadProgramTemplates: the file of that number is read and put
\* into the map, or there is none and the loop breaks; there are no turns behind that.
LoadTurn(loop, id, files) ==
  IF loop.status = "looping" /\ id \in DOMAIN files
    THEN [loop EXCEPT !.templates = Put(@, id, ParseProgramTemplate(files[id]))]
    ELSE [loop EXCEPT !.status = "broken"]

\* loadProgramTemplates, of the readable files by number.
LoadProgramTemplates(files) ==
  LET loop[i \in 0 .. MAX_CODE_TEMPLATES_COUNT] ==
        IF i = 0 THEN [templates |-> <<>>, status |-> "looping"]
                 ELSE LoadTurn(loop[i - 1], FromIndex(i - 1), files)
  IN loop[MAX_CODE_TEMPLATES_COUNT].templates

-----------------------------------------------------------------------------
(***************************************************************************)
(* ProgramTemplateRealization.                                             *)
(***************************************************************************)
Underscores(n) == [i \in 1 .. n |-> Underscore]

\* Mutation: a gap has the length of its markers, whatever the answer.
RealizeNode_FixedLength(node, variant) ==
  IF node.type = "gap" /\ variant = "STUDENT" THEN Underscores(4) ELSE node.content

\* Mutation: gaps are only left in what is compiled.
RealizeNode_Compiler(node, variant) ==
  IF node.type = "gap" /\ variant = "COMPILER"
    THEN Underscores(Len(node.content)) ELSE node.content

\* realizeNode: students see as many underscores as the answer has characters.
RealizeNode(node, variant) ==
  IF node.type = "gap" /\ variant = "STUDENT"
    THEN Underscores(Len(node.content)) ELSE node.content

RealizeLineTemplateNodes(line, variant) ==
  FlattenSeq([i \in DOMAIN line.nodes |-> RealizeNode(line.nodes[i], variant)])

\* Mutation: a line of the other kind is left out.
IsRealized_Swapped(line, variant, group) ==
  /\ line.group \in {NoGroup, group}
  /\ variant = "COMPILER" => line.kind # "HIDDEN"
  /\ variant # "COMPILER" => line.kind # "EXCLUDED"

\* Whether the line is in the variant of the group at all.
IsRealized(line, variant, group) ==
  /\ line.group \in {NoGroup, group}
  /\ variant = "COMPILER" => line.kind # "EXCLUDED"
  /\ variant # "COMPILER" => line.kind # "HIDDEN"

\* realizeProgramTemplate: each line gives a line, or none.
RealizeProgramTemplate(template, variant, group) ==
  FlattenSeq([i \in DOMAIN template |->
    IF IsRealized(template[i], variant, group)
      THEN <<RealizeLineTemplateNodes(template[i], variant)>> ELSE <<>>])
=============================================================================
