----------------------------- MODULE ContentTree -----------------------------
(***************************************************************************)
(* The nodes of a document: finding the cells that hold a placeholder      *)
(* (ExamTemplateLoading.findPlaceholders, a descent from the root that     *)
(* stops at what it finds), and putting a paragraph in the place of all    *)
(* that such a cell holds (fillPlaceholderWithContent, DomUtils).  What    *)
(* the paragraph says is left to ExamDocument, to which a document is no   *)
(* more than the sequence of its cells.                                    *)
(*                                                                         *)
(* The nodes of a template are numbered in the order of the document, 1 is *)
(* the root.  A node is a cell, a paragraph, a piece of text or any other  *)
(* element; paragraphs and texts have text of their own.                   *)
(***************************************************************************)
EXTENDS Naturals, SequencesExt

CONSTANT Template  \* sequences of [kind, text, parent]

Root == 1

\* Pieces of text: the beginning of a placeholder with its symbol and index, a
\* hyphen of its, and anything else.
Piece == {"#01", "-", "x"}

NodeRecord == [kind : {"cell", "p", "text", "other"}, text : Seq(Piece), parent : Nat]

\* The nodes of a tree in the order of the document: each behind the one it is a child
\* of, and between the two only what is below that one.
InDocumentOrder(t) ==
  /\ t # <<>> /\ t[Root].parent = 0
  /\ \A n \in DOMAIN t \ {Root} :
       /\ t[n].parent \in 1 .. n - 1
       /\ \A m \in t[n].parent + 1 .. n - 1 : t[m].parent >= t[n].parent

ASSUME TemplateAssumption ==
  \A t \in Template : t \in Seq(NodeRecord) /\ InDocumentOrder(t)

\* isMatrixPlaceholder and isLinePlaceholder, of the pieces one after another.
IsPlaceholder(s) == s # <<>> /\ s[1] = "#01" /\ \A i \in 2 .. Len(s) : s[i] = "-"

VARIABLES
  stage,     \* "find", "fill" or "over"
  template,  \* the nodes of the template
  children,  \* the children of each of them, in order
  refs,      \* PlaceholderRefs: cell, paragraph whose style it takes, text
  at         \* the placeholder to fill next

vars == <<stage, template, children, refs, at>>

Node == DOMAIN template

\* The paragraph made for a placeholder is a new node.
Paragraph(i) == Len(template) + i

\* The child nodes that a node has in the template.
ChildNodes(n) == FlattenSeq([m \in Node |-> IF template[m].parent = n THEN <<m>> ELSE <<>>])

-----------------------------------------------------------------------------
(***************************************************************************)
(* Finding the placeholders.                                               *)
(***************************************************************************)

\* Node.getTextContent: the text of the node and of all nodes below it.
TextContent ==
  LET content[n \in Node] ==
        template[n].text \o FlattenSeq([i \in DOMAIN children[n] |-> content[children[n][i]]])
  IN content

\* Mutation: the text is looked for in any element.
HoldsPlaceholder_AnyElement(n) ==
  /\ IsPlaceholder(TextContent[n])
  /\ children[n] # <<>> /\ template[children[n][1]].kind = "p"

\* The negation of isNotLineOrMatrixPlaceholder.
HoldsPlaceholder(n) ==
  /\ IsPlaceholder(TextContent[n])
  /\ template[n].kind = "cell"
  /\ children[n] # <<>> /\ template[children[n][1]].kind = "p"

PlaceholderRef(n) == [cell |-> n, style |-> children[n][1], text |-> TextContent[n]]

\* Mutation: what is below a cell that was found is searched, too.
FindPlaceholders_Inside ==
  LET find[n \in Node] ==
        (IF HoldsPlaceholder(n) THEN <<PlaceholderRef(n)>> ELSE <<>>)
          \o FlattenSeq([i \in DOMAIN children[n] |-> find[children[n][i]]])
  IN find[Root]

\* findPlaceholders of the root element.
FindPlaceholders ==
  LET find[n \in Node] ==
        IF HoldsPlaceholder(n) THEN <<PlaceholderRef(n)>>
        ELSE FlattenSeq([i \in DOMAIN children[n] |-> find[children[n][i]]])
  IN find[Root]

Find ==
  /\ stage = "find"
  /\ refs' = FindPlaceholders
  /\ stage' = "fill"
  /\ UNCHANGED <<template, children, at>>

-----------------------------------------------------------------------------
(***************************************************************************)
(* Filling them.                                                           *)
(***************************************************************************)
Cell == refs[at].cell

\* DomUtils.removeAllChildren, one turn of its loop.
RemoveFirstChild ==
  /\ stage = "fill" /\ at <= Len(refs)
  /\ children[Cell] # <<>>
  /\ children' = [children EXCEPT ![Cell] = Tail(@)]
  /\ UNCHANGED <<stage, template, refs, at>>

\* Mutation: one child is removed where there may be several.
AppendParagraph_IfForWhile ==
  /\ stage = "fill" /\ at <= Len(refs)
  /\ Len(children[Cell]) < Len(ChildNodes(Cell))
  /\ children' = [children EXCEPT ![Cell] = Append(@, Paragraph(at))]
  /\ at' = at + 1
  /\ UNCHANGED <<stage, template, refs>>

\* The rest of fillPlaceholderWithContent, once the loop has ended.
AppendParagraph ==
  /\ stage = "fill" /\ at <= Len(refs)
  /\ children[Cell] = <<>>
  /\ children' = [children EXCEPT ![Cell] = <<Paragraph(at)>>]
  /\ at' = at + 1
  /\ UNCHANGED <<stage, template, refs>>

FilledAll ==
  /\ stage = "fill" /\ at > Len(refs)
  /\ stage' = "over"
  /\ UNCHANGED <<template, children, refs, at>>

-----------------------------------------------------------------------------
Init ==
  /\ stage = "find"
  /\ template \in Template
  /\ children = [n \in Node |-> ChildNodes(n)]
  /\ refs = <<>> /\ at = 1

Next == Find \/ RemoveFirstChild \/ AppendParagraph \/ FilledAll

Spec == Init /\ [][Next]_vars

-----------------------------------------------------------------------------
(***************************************************************************)
(* Properties.                                                             *)
(***************************************************************************)

\* The nodes above each node of a template.
AboveIn(t) ==
  LET above[n \in DOMAIN t] == IF n = Root THEN {} ELSE {t[n].parent} \cup above[t[n].parent]
  IN above

Above == AboveIn(template)

\* What a cell reads in the template: the texts of it and below it, in order.
Reads(n) ==
  FlattenSeq([m \in Node |-> IF m = n \/ n \in Above[m] THEN template[m].text ELSE <<>>])

\* A cell of the template that is to be filled, were it the only one.
ForFilling(n) ==
  /\ template[n].kind = "cell" /\ IsPlaceholder(Reads(n))
  /\ n + 1 \in Node /\ template[n + 1].parent = n /\ template[n + 1].kind = "p"

\* The nodes of the template that are in the document: they and all above them are
\* still among the children of what is above them.
InDocument ==
  {n \in Node : \A m \in Above[n] \cup {n} :
     m = Root \/ \E i \in DOMAIN children[template[m].parent] : children[template[m].parent][i] = m}

\* The placeholders found are the outermost cells for filling, each once and in the
\* order of the document: a table inside such a cell is not searched, and no other
\* text, cell or table hides one.
FoundAreOutermost ==
  stage # "find" =>
    /\ \A i, j \in DOMAIN refs : i < j => refs[i].cell < refs[j].cell
    /\ {refs[i].cell : i \in DOMAIN refs} =
         {n \in Node : ForFilling(n) /\ \A m \in Above[n] : ~ForFilling(m)}
    /\ \A i \in DOMAIN refs : refs[i].text = Reads(refs[i].cell)

\* Filling a placeholder does not take another one out of the document: every cell
\* that is still to be filled, and the one at hand, are in the document.
NoneIsLost ==
  stage = "fill" => \A i \in at .. Len(refs) : refs[i].cell \in InDocument

\* In the end the document has, in the place of all that each cell held, a paragraph
\* in the style of the first one there, and everything else as it was.
DocumentIsFilled ==
  stage = "over" =>
    /\ InDocument = {n \in Node : \A i \in DOMAIN refs : refs[i].cell \notin Above[n]}
    /\ \A i \in DOMAIN refs : /\ children[refs[i].cell] = <<Paragraph(i)>>
                              /\ refs[i].style = refs[i].cell + 1
    /\ \A n \in InDocument : (\A i \in DOMAIN refs : refs[i].cell # n) =>
         children[n] = ChildNodes(n)

\* The inductive invariant: while the placeholders before at are filled, what is not
\* one of their cells has the children it had.
Inv ==
  /\ template \in Template /\ stage \in {"find", "fill", "over"} /\ at \in Nat \ {0}
  /\ stage = "find" => children = [n \in Node |-> ChildNodes(n)] /\ at = 1
  /\ stage # "find" =>
       /\ refs \in Seq([cell : Node, style : Nat, text : Seq(Piece)]) /\ at <= Len(refs) + 1
       /\ DOMAIN children = Node
       /\ \A i \in DOMAIN refs : refs[i].style = refs[i].cell + 1
       /\ \A n \in Node : (\A i \in DOMAIN refs : refs[i].cell # n) => children[n] = ChildNodes(n)
       /\ \A i \in 1 .. at - 1 : children[refs[i].cell] = <<Paragraph(i)>>
  /\ stage = "over" => at > Len(refs)
  /\ FoundAreOutermost
=============================================================================
