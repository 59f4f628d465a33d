----------------------------- MODULE MCTransfer -----------------------------
(* Small instances of Transfer, with chunks of two bytes.                   *)
EXTENDS Transfer

\* Seven one-byte characters, in four chunks; a two-byte character that fills
\* a chunk; and a message of one chunk.
WholeCharacters == [m \in Messages |-> CASE m = 1 -> <<1, 1, 1, 1, 1, 1, 1>>
                                         [] m = 2 -> <<2, 1>>
                                         [] OTHER -> <<1>>]

\* The proofs need that no chunk cuts a character.
ASSUME UncutAssumption == Uncut
=============================================================================
