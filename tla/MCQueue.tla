------------------------------ MODULE MCQueue ------------------------------
(* Small instances of SendQueue: three messages of three, two and no chunks *)
(* over two sockets, with chunks of two bytes.                              *)
EXTENDS SendQueue

CONSTANTS k1, k2

MCSocketOf == [m \in Messages |-> IF m = 2 THEN k2 ELSE k1]
MCSize == [m \in Messages |-> CASE m = 1 -> 5 [] m = 2 -> 3 [] OTHER -> 0]

\* The application sends from callbacks; callbacks and listeners throw.
CarefulLiberties == {<<"send", "done">>, <<"throw", "sent">>, <<"throw", "done">>}
=============================================================================
