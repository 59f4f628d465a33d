---------------------------- MODULE MCReporting ----------------------------
(* Small instances of Reporting, with chunks of two bytes: a message of     *)
(* three chunks and one of one, which is a two-byte character, over one     *)
(* socket, and an empty one over another.                                   *)
EXTENDS Reporting

CONSTANTS k1, k2

MCSocketOf == [m \in Messages |-> IF m = 3 THEN k2 ELSE k1]
MCWidths == [m \in Messages |-> CASE m = 1 -> <<1, 1, 1, 1, 1>>
                                  [] m = 2 -> <<2>>
                                  [] OTHER -> <<>>]
MCSize == [m \in Messages |-> CASE m = 1 -> 5 [] m = 2 -> 2 [] OTHER -> 0]

SendsFromCallback == {<<"send", "done">>}

\* The instance is one of those the theorems about Reporting are about.
ASSUME InstanceFits == R!Uncut /\ Narrow
=============================================================================
