------------------------------- MODULE Paragraph -------------------------------
(***************************************************************************)
(* How lines of a program become nodes of the document                     *)
(* (ExamTemplateRealization.lineStringToParagraph): the format keeps one   *)
(* space of a row of spaces in its text, so the others have to become      *)
(* elements that count them; a line end becomes a line break element.      *)
(***************************************************************************)
EXTENDS ListUtils

Space     == " "
Text(s)   == [type |-> "text", data |-> s]
Spaces(n) == [type |-> "spaces", count |-> n]
LineBreak == [type |-> "lineBreak"]

ChangeLast(nodes, node) == Append(Front(nodes), node)
LastIs(nodes, type)     == nodes # <<>> /\ Last(nodes).type = type

\* Mutation: a space behind counted spaces is not counted.
CombineNodesWithChar_OneSpace(nodes, c) ==
  CASE c = Space /\ LastIs(nodes, "text") /\ Last(Last(nodes).data) = Space ->
         Append(nodes, Spaces(1))
    [] c = Space /\ LastIs(nodes, "spaces") -> nodes
    [] LastIs(nodes, "text") -> ChangeLast(nodes, Text(Append(Last(nodes).data, c)))
    [] OTHER -> Append(nodes, Text(<<c>>))

\* Mutation: spaces are kept in the text.
CombineNodesWithChar_TextOnly(nodes, c) ==
  IF LastIs(nodes, "text") THEN ChangeLast(nodes, Text(Append(Last(nodes).data, c)))
                           ELSE Append(nodes, Text(<<c>>))

\* combineNodesWithChar: one more character of the line.
CombineNodesWithChar(nodes, c) ==
  CASE c = Space /\ LastIs(nodes, "text") /\ Last(Last(nodes).data) = Space ->
         Append(nodes, Spaces(1))
    [] c = Space /\ LastIs(nodes, "spaces") ->
         ChangeLast(nodes, Spaces(Last(nodes).count + 1))
    [] LastIs(nodes, "text") /\ (c = Space => Last(Last(nodes).data) # Space) ->
         ChangeLast(nodes, Text(Append(Last(nodes).data, c)))
    [] OTHER -> Append(nodes, Text(<<c>>))

LineToNodes(line) ==
  LET nodes[i \in 0 .. Len(line)] ==
        IF i = 0 THEN <<>> ELSE CombineNodesWithChar(nodes[i - 1], line[i])
  IN nodes[Len(line)]

LineStringToParagraph(lines) ==
  Join([i \in DOMAIN lines |-> LineToNodes(lines[i])], <<LineBreak>>)
=============================================================================
