------------------------------- MODULE MCIdentity ------------------------------
(***************************************************************************)
(* Small drives for TLC to run module Identity on.                         *)
(***************************************************************************)
EXTENDS Identity, TLC

\* Two large bodies that agree in every sampled block, and a small one.
Bodies  == {"x1", "x2", "s1"}
AllLengths == [b \in Bodies |-> IF b = "s1" THEN 1 ELSE 2]
AllSamples == [b \in Bodies |-> IF b = "s1" THEN "samples" ELSE "samplex"]
Small   == {0, 1}

\* Only the two that have to be told apart by a full hash.
Twins       == {"x1", "x2"}
TwinLengths == [b \in Twins |-> 2]
TwinSamples == [b \in Twins |-> "samplex"]

\* Two copies of a large file and one that differs between the samples, and
\* two copies of a small file.
ThreeLarge == [f \in {"f", "g", "h"} |-> IF f = "g" THEN "x2" ELSE "x1"]
TwoSmall   == [f \in {"f", "g", "h"} |-> IF f = "h" THEN "x1" ELSE "s1"]
LargeOrSmall == {ThreeLarge, TwoSmall}

TwoTwins  == {[f \in {"f", "g"} |-> IF f = "g" THEN "x2" ELSE "x1"]}
TwoCopies == {[f \in {"f", "g"} |-> "x1"]}

Trio == {"f", "g", "h"}
Pair == {"f", "g"}

EveryRoot == {File}
OneRootToo == {File, {"f", "g"}}

Programs == Permutations(Proc)
=============================================================================
