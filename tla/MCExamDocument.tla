---------------------------- MODULE MCExamDocument ----------------------------
(***************************************************************************)
(* ExamDocument for every template of at most MaxCells cells out of a few  *)
(* and every exam with at most two programs out of a few.                  *)
(***************************************************************************)
EXTENDS ExamDocument

CONSTANT MaxCells

\* Code of small and of larger size; outputs and secrets with a line that programs
\* have, may have, or never have, and without a line number.
MCCells ==
  {Plain, Line("$G"), Line("$KIND"), Line("$g")}
  \cup {Matrix("#", 1, NoLine, size, size) : size \in {0, 2}}
  \cup {Matrix("!", 1, line, 0, 0) : line \in {NoLine, 1, 2}}
  \cup {Matrix("?", index, 2, 1, 0) : index \in {1, 2}}
  \cup {Matrix("?", 1, NoLine, 0, 0)}

MCTemplate == UNION {[1 .. n -> MCCells] : n \in 1 .. MaxCells}

MCProgram == [lengths : {<<>>, <<3>>, <<4, 0>>, <<2, 2, 2, 2>>}, output : {0, 2}]
MCExam    == UNION {[1 .. n -> MCProgram] : n \in 0 .. 1}
               \cup {[i \in 1 .. 2 |-> [lengths |-> <<3>>, output |-> i]]}
=============================================================================
