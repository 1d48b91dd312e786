------------------------------- MODULE ListUtils -------------------------------
(***************************************************************************)
(* The list algorithms of util/ListUtils.java on which the parser of       *)
(* program lines (mapPath) and the paragraphs of the document (join) rest, *)
(* each written as its loop: what one turn adds to the result.             *)
(***************************************************************************)
EXTENDS Naturals, Sequences, SequencesExt

\* Mutation: sandwich without its tail.
Sandwich_Open(head, xs, tail) == <<head>> \o xs

\* sandwich, by concat of three lists.
Sandwich(head, xs, tail) == <<head>> \o xs \o <<tail>>

\* mapPath, before its mappers: each turn adds the vertex it starts from, but not
\* the ghost, and the edge to the next vertex, a pair.
MapPath(xs, beginGhost, endGhost) ==
  LET xs1 == Sandwich(beginGhost, xs, endGhost)
  IN FlattenSeq([i \in 1 .. Len(xs1) - 1 |->
       (IF i > 1 THEN << <<xs1[i]>> >> ELSE <<>>) \o << <<xs1[i], xs1[i + 1]>> >>])

\* Mutation: join puts a separator behind the last list too.
Join_Trailing(xs, sep) == FlattenSeq([i \in DOMAIN xs |-> xs[i] \o sep])

\* join: each turn adds a list and, unless it is the last, the separator.
Join(xs, sep) ==
  FlattenSeq([i \in DOMAIN xs |-> IF i # Len(xs) THEN xs[i] \o sep ELSE xs[i]])
=============================================================================
