----------------------------- MODULE MCProcess ------------------------------
(* Process for TLC: one handler of a signal, a pass or two of the loops. *)
EXTENDS Process

OneHandler == [c \in {"main", "entry", "exit", "maint"} |->
                 CASE c = "entry" -> 3 [] c = "main" -> 2 [] OTHER -> 1]
=============================================================================
