------------------------------- MODULE MCDelta --------------------------------
(***************************************************************************)
(* A small volume for TLC: the scope root holds a directory "a", which     *)
(* holds "b" with a file "g" and may hold "c" with a file "h".  "b" can be *)
(* renamed to "c" and back.                                                *)
(***************************************************************************)
EXTENDS Delta

MCNode   == {"root", "a", "b", "c", "g", "h"}
MCDir    == {"root", "a", "b", "c"}
MCParent == [n \in MCNode \ {"root"} |->
               CASE n = "a" -> "root" [] n \in {"b", "c"} -> "a" [] n = "g" -> "b" [] n = "h" -> "c"]
MCAbove  == [n \in MCNode |->
               CASE n = "root" -> {} [] n = "a" -> {"root"} [] n \in {"b", "c"} -> {"root", "a"}
                 [] n = "g" -> {"root", "a", "b"} [] n = "h" -> {"root", "a", "c"}]
MCName   == [n \in MCNode \ {"root"} |-> IF n \in {"g", "h"} THEN "file" ELSE n]
MCContent == [n \in MCNode \ {"root"} |->
               CASE n \in {"a", "b"} -> "dir" [] n = "g" -> "v1" [] OTHER -> "absent"]
MCMoves == [m \in {<<"b", "c">>, <<"c", "b">>} |->
               IF m[1] = "b" THEN [n \in {"g"} |-> "h"] ELSE [n \in {"h"} |-> "g"]]
=============================================================================
