------------------------------- MODULE MCSettings -------------------------------
(* Settings for TLC: the administrators reach every server.                 *)
EXTENDS Settings

EachItsOwn == [c \in Client |-> IF c = "c1" THEN {"new"} ELSE {"zero"}]

OnEvery == [c \in Client |-> Instance]
=============================================================================
