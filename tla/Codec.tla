------------------------------- MODULE Codec -------------------------------
(***************************************************************************)
(* Messages as text: what encode writes (Message.js) of the requests and   *)
(* responses this library sends, and what parseMessage reads (Parser.js).  *)
(*                                                                         *)
(* A text is a sequence of lines, each with its type, a name and a value:  *)
(*   first   MSRP, the transaction ID, and a method or a status            *)
(*   header  its name and its value                                        *)
(*   bare    a line without a colon where a header is expected             *)
(*   blank   between the headers and the body                              *)
(*   text    of a body                                                     *)
(*   end     seven hyphens, a transaction ID, its name, and a flag         *)
(* A header's value is a tuple, <<>> one its parser does not accept.  In a *)
(* Byte-Range a number n is {n} and an asterisk {}.  Bodies have no colon. *)
(***************************************************************************)
EXTENDS Integers, SequencesExt

CONSTANTS
  Tids,      \* transaction IDs
  Begins,    \* pairs of IDs, the first of which is a beginning of the second
  BodyLines  \* lines of bodies

ASSUME BeginsAssumption == \A t \in Tids : <<t, t>> \in Begins

Line(type, name, value) == [type |-> type, name |-> name, value |-> value]

\* A body may have lines that look like the end line of a message.
ASSUME BodyAssumption ==
  \A l \in BodyLines : l.type \in {"text", "end"} /\ l = Line(l.type, l.name, l.value)

FirstLine(tid, what) == Line("first", tid, <<what>>)
Header(name, value) == Line("header", name, value)
Blank == Line("blank", "", <<>>)
EndLine(tid, flag) == Line("end", tid, <<flag>>)

Statuses == {"200", "413", "481"}
None == <<>>   \* null

-----------------------------------------------------------------------------
(* Messages to send.                                                       *)

\* A chunk: ChunkSender.getNextChunk.
SendRequest(tid, range, body, flag, reports) ==
  [tid |-> tid, what |-> "SEND", toPath |-> <<"b">>, fromPath |-> <<"a">>,
   headers |-> <<Header("Message-ID", <<"m">>), Header("Success-Report", <<reports>>),
                 Header("Failure-Report", <<reports>>)>>
               \o (IF range # None /\ range[1] = 1 /\ body # None
                   THEN <<Header("Content-Disposition", <<"inline">>)>> ELSE <<>>),
   byteRange |-> range, body |-> body, flag |-> flag]

\* A report: sendReport.
ReportRequest(tid, range, status) ==
  [tid |-> tid, what |-> "REPORT", toPath |-> <<"a">>, fromPath |-> <<"b">>,
   headers |-> <<Header("Message-ID", <<"m">>), Header("Status", <<status>>)>>,
   byteRange |-> range, body |-> None, flag |-> "$"]

\* The response goes to the last hop of a SEND, to the sender of a REPORT.
ResponseTo(request, localUri, status) ==
  [tid |-> request.tid, what |-> status,
   toPath |-> IF request.what = "SEND" THEN SubSeq(request.fromPath, 1, 1)
              ELSE request.fromPath,
   fromPath |-> <<localUri>>,
   headers |-> <<>>, byteRange |-> None, body |-> None, flag |-> "$"]

\* Start, end and total, which is -1 if it is not known.
Ranges == Nat \X Nat \X (Nat \cup {-1})

\* What this library encodes.  A response to a SEND goes to one hop, as if it
\* were one to a REPORT from there.
Outgoing(r) ==
  /\ r.tid \in Tids /\ r.body \in Seq(BodyLines) /\ r.byteRange \in Ranges \cup {None}
  /\ \/ \E reports \in {"yes", "no"} :
          r = SendRequest(r.tid, r.byteRange, r.body, r.flag, reports)
     \/ \E status \in Statuses : r = ReportRequest(r.tid, r.byteRange, status)
     \/ \E status \in Statuses :
          r = ResponseTo([tid |-> r.tid, what |-> "REPORT", fromPath |-> r.toPath],
                         r.fromPath[1], status)

-----------------------------------------------------------------------------
(* encode.                                                                 *)

\* The transaction ID stays whatever the body is.
KeptTid(r) == r.tid

\* Does the body contain the end line?  encode looks for it with the CRLF at
\* its end, which the last line of the body has not got yet.
Quoted(r, tid) ==
  \E i \in 1 .. Len(r.body) - 1 : r.body[i] = EndLine(tid, r.flag)

\* newTID is called until it is not quoted.
NewTid(r) == CHOOSE t \in Tids : ~Quoted(r, t)

EncodedTid(r) == IF Quoted(r, r.tid) THEN NewTid(r) ELSE r.tid

Number(n) == IF n < 0 THEN {} ELSE {n}

\* start-end/total, with an asterisk for an unknown total.
EncodedRange(range) ==
  IF range = None THEN <<>>
  ELSE <<Header("Byte-Range", <<{range[1]}, {range[2]}, Number(range[3])>>)>>

EncodedBody(r) ==
  IF r.body = None THEN <<>>
  ELSE <<Header("Content-Type", <<"text/plain">>), Blank>> \o r.body

Encode(r) ==
  LET tid == EncodedTid(r)
  IN <<FirstLine(tid, r.what), Header("To-Path", r.toPath), Header("From-Path", r.fromPath)>>
     \o r.headers \o EncodedRange(r.byteRange) \o EncodedBody(r)
     \o <<EndLine(tid, r.flag)>>

-----------------------------------------------------------------------------
(* parseMessage: a set, empty where the code returns null.                 *)

\* Only the hyphens and the transaction ID are compared, so the end line of a
\* longer ID is taken for one, and so is one with another flag.
IsEndOf(line, tid) == line.type = "end" /\ <<tid, line.name>> \in Begins

\* The index of the line that ends the headers, or 0.
HeadersEnd(text) ==
  SelectInSeq(text, LAMBDA l : l.type = "blank" \/ IsEndOf(l, text[1].name))

\* A line without a colon is taken together with a later one that has a
\* colon, and without such a line the message is not parsed.
ReadableHeader(text, i) ==
  \/ text[i].type = "header" /\ text[i].name # ""
  \/ text[i].type # "header" /\ \E j \in i + 1 .. Len(text) : text[j].type = "header"

\* addHeader and getHeader: the lines with a header's values.
Named(text, name) ==
  {i \in 2 .. HeadersEnd(text) - 1 : text[i].type = "header" /\ text[i].name = name}

\* To-Path, From-Path and Content-Type: the last one counts.
LastValue(text, name) ==
  IF Named(text, name) = {} THEN None ELSE text[Max(Named(text, name))].value

FirstValue(text, name) ==
  IF Named(text, name) = {} THEN None ELSE text[Min(Named(text, name))].value

IsResponse(text) == text[1].value[1] \in Statuses

RequestOnly == {"Status", "Content-Disposition"}
KnownHeaders ==
  {"Message-ID", "Failure-Report", "Byte-Range", "Use-Path",
   "Expires", "Min-Expires", "Max-Expires"} \cup RequestOnly

\* parseKnownHeaders: at most one of each, and one that makes sense.  Headers
\* of authentication, which this library does not read, are left out.
KnownHeadersOK(text) ==
  \A name \in KnownHeaders :
    \/ IsResponse(text) /\ name \in RequestOnly
    \/ \A i, j \in Named(text, name) : i = j /\ text[i].value # <<>>

DecodedNumber(n) == IF n = {} THEN -1 ELSE CHOOSE k \in n : TRUE

\* parseByteRange, or the default of an IncomingRequest.
DecodedRange(text) ==
  LET v == FirstValue(text, "Byte-Range")
  IN IF v # None THEN [i \in 1..3 |-> DecodedNumber(v[i])]
     ELSE IF IsResponse(text) THEN None ELSE <<1, -1, -1>>

\* Where the end line stands, or 0.  It is looked for with the CRLF before it,
\* so it is not found in the first line of the body.
BodyEnd(text) ==
  LET ends == {i \in HeadersEnd(text) + 2 .. Len(text) : IsEndOf(text[i], text[1].name)}
  IN IF ends = {} THEN 0 ELSE Min(ends)

MessageEnd(text) ==
  IF text[HeadersEnd(text)].type = "blank" THEN BodyEnd(text) ELSE HeadersEnd(text)

\* The character behind the transaction ID: if the ID of the line is longer, one
\* of that ID.
ContinuationFlag(text) ==
  LET line == text[MessageEnd(text)]
  IN IF line.name = text[1].name THEN line.value[1] ELSE "other"

IsParsed(text) ==
  /\ text[1].type = "first"
  /\ HeadersEnd(text) # 0
  /\ \A i \in 2 .. HeadersEnd(text) - 1 : ReadableHeader(text, i)
  /\ KnownHeadersOK(text)
  /\ MessageEnd(text) # 0

ParseMessage(text) ==
  IF ~IsParsed(text) THEN {}
  ELSE {[tid |-> text[1].name, what |-> text[1].value[1],
         toPath |-> LastValue(text, "To-Path"), fromPath |-> LastValue(text, "From-Path"),
         messageId |-> FirstValue(text, "Message-ID"),
         reports |-> FirstValue(text, "Failure-Report"),
         status |-> IF IsResponse(text) THEN None ELSE FirstValue(text, "Status"),
         byteRange |-> DecodedRange(text),
         body |-> SubSeq(text, HeadersEnd(text) + 1, MessageEnd(text) - 1),
         flag |-> ContinuationFlag(text)]}

-----------------------------------------------------------------------------
(* What the receiver is meant to make of a message.                        *)

Sent(r, name) ==
  LET i == SelectInSeq(r.headers, LAMBDA h : h.name = name)
  IN IF i = 0 THEN None ELSE r.headers[i].value

Means(p, r) ==
  /\ p.what = r.what /\ p.toPath = r.toPath /\ p.fromPath = r.fromPath
  /\ p.messageId = Sent(r, "Message-ID")
  /\ p.reports = Sent(r, "Failure-Report")
  /\ p.status = Sent(r, "Status")
  /\ p.body = r.body /\ p.flag = r.flag
  /\ r.byteRange # None => p.byteRange = r.byteRange
=============================================================================
