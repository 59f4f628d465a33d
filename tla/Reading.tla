------------------------------ MODULE Reading ------------------------------
(***************************************************************************)
(* Framing and Codec together: the stream carries the texts of messages,   *)
(* some of this library and some that others made, and the read loop hands *)
(* each match to parseMessage.                                             *)
(***************************************************************************)
EXTENDS Framing, Codec

CONSTANTS
  Written,  \* of each message, the set of what this library encoded, or {}
  Text,     \* the text of each message, as the read loop cuts it
  Parsed    \* what parseMessage makes of it

\* The match of the read loop: up to the first end line of the transaction ID,
\* with any flag.
MatchedLines(text) ==
  SubSeq(text, 1,
         SelectInSeq(text, LAMBDA l : l.type = "end" /\ l.name = text[1].name))

\* The transaction ID that newTID finds begins no end line of the body.  Only
\* messages for which parseMessage returns something can be parsed.
ASSUME ReadingAssumption ==
  /\ \A m \in Messages : \A r \in Written[m] :
       /\ Outgoing(r) /\ Text[m] = MatchedLines(Encode(r))
       /\ Quoted(r, r.tid) =>
            /\ NewTid(r) \in Tids
            /\ \A line \in ToSet(r.body) : ~IsEndOf(line, NewTid(r))
  /\ \A m \in Messages : Text[m] = MatchedLines(Text[m])
  /\ \A m \in Messages : Parsed[m] = ParseMessage(Text[m])
  /\ Parsable = {m \in Messages : Parsed[m] # {}}

\* A body that encode can send: if a line of it looks like the end of the
\* message, encode sees that and takes another transaction ID.  It does not see
\* the last line, one with another flag, or one of a longer ID.
Sendable(r) ==
  (\E line \in ToSet(r.body) : IsEndOf(line, r.tid)) => Quoted(r, r.tid)

\* What one party with this library encodes, a chunk, an abort, a report or a
\* response, the other handles as what was meant, whatever surrounds it in the
\* stream: if encode sees every line of the body that looks like the end, it is
\* never discarded and not cut short.
HandledIsMeant ==
  \A m \in Messages : \A r \in Written[m] :
    Sendable(r) /\ ~reading /\ End[m] <= arrived =>
      /\ handled[m] = 1
      /\ \E p \in Parsed[m] : Means(p, r)
=============================================================================
