--------------------------------- MODULE MCScan --------------------------------
(***************************************************************************)
(* Small trees for TLC.  The root holds a directory "a" and a file "f";    *)
(* "a" holds a file "g".                                                   *)
(***************************************************************************)
EXTENDS Scan

SmallNodes == {"root", "a", "f", "g"}
SmallDirs  == {"root", "a"}
TinyDirs == SmallDirs
SmallParent == [n \in {"a", "f", "g"} |-> IF n = "g" THEN "a" ELSE "root"]
SmallAbove ==
    [n \in SmallNodes |-> CASE n = "root" -> {}
                            [] n = "g"    -> {"root", "a"}
                            [] OTHER      -> {"root"}]
SmallDisk == [n \in {"a", "f", "g"} |-> IF n = "a" THEN "dir" ELSE "v1"]

TinyNodes  == {"root", "a", "g"}
TinyParent == [n \in {"a", "g"} |-> IF n = "g" THEN "a" ELSE "root"]
TinyAbove  == [n \in TinyNodes |-> SmallAbove[n]]
TinyDisk   == [n \in {"a", "g"} |-> SmallDisk[n]]

OneStamp   == {"v1"}
TwoStamps  == {"v1", "v2"}
NoExcludes == {{}}
ExcludeA   == {{}, {"a"}}
=============================================================================
