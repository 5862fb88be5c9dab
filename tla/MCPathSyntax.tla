---------------------------- MODULE MCPathSyntax ----------------------------
(***************************************************************************)
(* Segments with every feature Normalize looks at: empty, plain, ended by  *)
(* a blank, all blank, a wildcard, a wildcard that a blank disguises.      *)
(***************************************************************************)
EXTENDS PathSyntax

MCSegment == {"", "a", "a ", " ", "*", "**", "* ", "a*"}
MCStarred == {"*", "**", "* ", "a*"}
MCTrimBlanks == [s \in MCSegment |->
    CASE s = "a " -> "a" [] s = " " -> "" [] s = "* " -> "*" [] OTHER -> s]
MCBytes == [s \in MCSegment |->
    CASE s = "" -> 0 [] s \in {"a", "*", " "} -> 1 [] OTHER -> 2]
=============================================================================
