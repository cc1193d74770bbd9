------------------------------- MODULE MCCrew -------------------------------
(***************************************************************************)
(* Two jobs for a crew: a directory with a file and another directory, which *)
(* holds a file, and a single file.                                          *)
(***************************************************************************)
EXTENDS Crew

MCRoot == [c \in Client |-> IF c = "first" THEN "top" ELSE "file"]

MCEntries == [p \in {"top", "sub", "file", "a", "b"} |->
                CASE p = "top" -> {"sub", "a"}
                  [] p = "sub" -> {"b"}
                  [] OTHER     -> {}]
=============================================================================
