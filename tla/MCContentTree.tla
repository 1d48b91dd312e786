---------------------------- MODULE MCContentTree ----------------------------
(***************************************************************************)
(* ContentTree for every template of so many nodes that a text document    *)
(* can be: text and spans in paragraphs, paragraphs, lists and tables in   *)
(* cells, cells in tables.                                                 *)
(***************************************************************************)
EXTENDS ContentTree

CONSTANT Nodes

\* What a node of a kind may hold.
May(outer, inner) ==
  <<outer, inner>> \in
    {<<"cell", "p">>, <<"cell", "text">>, <<"cell", "other">>, <<"p", "other">>, <<"p", "text">>,
     <<"other", "cell">>, <<"other", "p">>, <<"other", "text">>, <<"other", "other">>}

Texts(kind) ==
  CASE kind = "p" -> {<<>>} \cup {<<piece>> : piece \in Piece}
    [] kind = "text" -> {<<piece>> : piece \in Piece}
    [] OTHER -> {<<>>}

\* Whether a node may be the next one of a template: it is below the node that is the
\* last one, or below one that this is below of.
MayFollow(node, t) ==
  /\ node.parent \in {Len(t)} \cup AboveIn(t)[Len(t)]
  /\ May(t[node.parent].kind, node.kind)
  /\ node.text \in Texts(node.kind)

MCNodeRecord ==
  [kind : {"cell", "p", "text", "other"}, text : {<<>>} \cup {<<piece>> : piece \in Piece},
   parent : 1 .. Nodes - 1]

MCTemplate ==
  LET templates[n \in 1 .. Nodes] ==
        IF n = 1 THEN {<<[kind |-> "other", text |-> <<>>, parent |-> 0]>>}
        ELSE {Append(tn[1], tn[2]) :
                tn \in {tn \in templates[n - 1] \X MCNodeRecord : MayFollow(tn[2], tn[1])}}
  IN templates[Nodes]

=============================================================================
