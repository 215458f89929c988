---------------------------- MODULE MCPathStore ----------------------------
(* One collector at a time, over a session's main transcript and one of    *)
(* its subagents', or over those of two sessions.                          *)
EXTENDS PathStore

(* Directory 1 is a repository; directory 2 is part of it, or of none. *)
MCTrees == {[d \in Dir |-> IF d = 1 THEN 1 ELSE x] : x \in {1, NoRepo}}

(* Sessions are interchangeable: the first file's may be any one of them. *)
OneNaming == sessionOf[CHOOSE f \in File : TRUE] = CHOOSE s \in Session : TRUE

(* Two sessions share the git roots only: a line in each, or two in one. *)
FewLines == (\E f, g \in File : sessionOf[f] # sessionOf[g]) => LineCount <= 2
=============================================================================
