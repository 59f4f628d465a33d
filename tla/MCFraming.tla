----------------------------- MODULE MCFraming -----------------------------
(* A stream of chunks with every kind of body, range and flag, of reports   *)
(* and of responses, and between them texts of others, most of which cannot *)
(* be parsed.  Some bodies have lines that look like the end of the message, *)
(* and what follows the end the read loop sees is meaningless.  A message   *)
(* takes one or two characters; something meaningless stands behind every   *)
(* other one.                                                               *)
EXTENDS Reading

hello == Line("text", "", <<"hello">>)
Quoting(tid, flag) == <<hello, EndLine(tid, flag), hello>>
Chunk(range, body, flag, reports) == SendRequest("t1", range, body, flag, reports)
Whole == Chunk(<<1, 2, 2>>, <<hello>>, "$", "yes")
Report == ReportRequest("t3", <<1, 0, 0>>, "200")
Response(r, status) ==
  ResponseTo(CHOOSE p \in ParseMessage(Encode(r)) : TRUE, "b", status)

\* Messages of this library and of others.
Ours(r) == [by |-> {r}, text |-> MatchedLines(Encode(r))]
Other(text) == [by |-> {}, text |-> text]
OtherWith(what, lines) ==
  Other(<<FirstLine("t4", what), Header("To-Path", <<"b">>)>> \o lines \o <<EndLine("t4", "$")>>)

Items == <<
  Ours(Whole),
  Other(<<Line("other", "t4", <<>>), EndLine("t4", "$")>>),
  Ours(Response(Whole, "200")),
  OtherWith("SEND", <<Header("Byte-Range", <<>>)>>),
  Ours(Report),
  OtherWith("SEND", <<Header("Message-ID", <<"m">>), Header("Message-ID", <<"n">>)>>),
  OtherWith("SEND", <<Line("bare", "", <<>>)>>),
  Ours(Chunk(<<1, 2, 5>>, Quoting("t2", "+"), "+", "no")),
  Ours(Chunk(<<1, 2, 5>>, <<hello, EndLine("t1", "+")>>, "+", "yes")),
  Ours(Chunk(<<3, 4, -1>>, Quoting("t1", "+"), "+", "yes")),
  OtherWith("SEND", <<Blank>>),
  OtherWith("SEND", <<Blank, hello, EndLine("t4x", "$"), hello>>),
  Ours(Chunk(<<3, 4, 5>>, <<EndLine("t1", "+"), hello, EndLine("t1", "+")>>, "+", "no")),
  OtherWith("SEND", <<Header("", <<"v">>)>>),
  Ours(Chunk(<<5, 5, 5>>, Quoting("t1", "$"), "$", "yes")),
  Ours(Chunk(<<5, 5, 5>>, <<EndLine("t1", "$")>>, "$", "yes")),
  OtherWith("REPORT", <<Header("Status", <<>>)>>),
  Ours(ReportRequest("t3", <<3, 4, -1>>, "413")),
  OtherWith("200", <<Header("Status", <<>>)>>),
  Ours(Chunk(<<1, 0, 0>>, None, "$", "no")),
  Ours(Chunk(<<1, 2, 2>>, Quoting("t1x", "$"), "$", "yes")),
  Ours(Chunk(<<1, 2, 2>>, Quoting("t1", "+"), "$", "yes")),
  OtherWith("SEND", <<Line("bare", "", <<>>), Header("X", <<"v">>)>>),
  Ours(Chunk(None, None, "#", "yes")),
  Ours(Response(Report, "481"))>>

MCMessages == DOMAIN Items
MCBodyLines == {hello} \cup {EndLine(t, flag) : t \in Tids \cup {"t1x"}, flag \in {"+", "$"}}
MCBegins == {<<t, t>> : t \in Tids \cup {"t4"}} \cup {<<"t1", "t1x">>, <<"t4", "t4x">>}
MCWritten == [m \in MCMessages |-> Items[m].by]
MCText == [m \in MCMessages |-> Items[m].text]
MCParsed == [m \in MCMessages |-> ParseMessage(Items[m].text)]
MCParsable == {m \in MCMessages : MCParsed[m] # {}}
MCStart == [m \in MCMessages |-> 2 * m - 1]
MCEnd == [m \in MCMessages |-> 2 * m + (m % 2)]
MCLength == 2 * Len(Items) + 1
=============================================================================
