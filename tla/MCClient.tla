------------------------------ MODULE MCClient ------------------------------
(* A hidden file by itself, two files together, and a directory with one hidden file  *)
(* left out and another padded; two seeds, two adds and two removes, of which three   *)
(* are made, or four with at most one seed, and two overlap.                          *)
EXTENDS Client, TLC
File(name, hidden, bytes) == [depth |-> 1, name |-> name, hidden |-> hidden, bytes |-> bytes]
Input(kind, name, files, align, ignoreHidden) ==
  [kind |-> kind, name |-> name, files |-> files, align |-> align, ignoreHidden |-> ignoreHidden]
MCInputs ==
  {Input("single", "file", <<File(1, TRUE, <<1, 2, 3>>)>>, FALSE, TRUE),
   Input("array", "", <<File(1, FALSE, <<4, 5, 6>>), File(2, FALSE, <<7>>)>>, FALSE, FALSE),
   Input("directory", "dir", <<File(1, TRUE, <<7>>), File(2, FALSE, <<8>>), File(3, FALSE, <<9>>)>>,
         TRUE, TRUE)}

Symmetry == Permutations(Seeds) \cup Permutations(Adds) \cup Permutations(Removes)
MCMixes == {made \in SUBSET Calls :
  Cardinality(made) + Cardinality(made \cap Seeds) <= 5}
MCKnown == {i \in MCInputs : i.kind = "single"}
=============================================================================
