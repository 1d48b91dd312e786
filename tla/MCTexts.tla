-------------------------------- MODULE MCTexts --------------------------------
(***************************************************************************)
(* Texts for every text of bounded length over three alphabets.            *)
(***************************************************************************)
EXTENDS Texts

\* Gaps in one line; markers, line ends and white space; rows of spaces in lines.
MCAlphabet ==
  {[symbols |-> {"_", "x"}, length |-> 11],
   [symbols |-> {"x", " ", "\n", "%a", "%excluded", "%hidden"}, length |-> 5],
   [symbols |-> {"x", " ", "\n"}, length |-> 7]}
=============================================================================
