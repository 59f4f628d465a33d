------------------------------- MODULE MCSdp -------------------------------
(* Descriptions for Sdp: every one this library can write for three lists   *)
(* of types and three roles, and those of other software that differ from   *)
(* a usual one in the lines before the media and in a first medium of up to *)
(* four lines, which may be followed by a second.                           *)
EXTENDS Sdp

MCWords ==
  {"", "accept-types", "setup", "path", "sendonly", "TCP/MSRP", "TCP/TLS/MSRP", "RTP/AVP",
   "short", "text", "plain", "image", "*", "active", "passive", "actpass", "msrp", "msrps"}

text == <<"text", "plain">>
MCLocals ==
  [acceptTypes : {<<text>>, <<text, <<"image", "*">>>>, <<<<"*", "">>>>},
   setup : {<<s, "">> : s \in {"active", "passive", "actpass"}},
   path : {<<"msrp", "">>}]

Start == <<Plain("v"), Plain("o"), Plain("s")>>
Beginnings ==
  {Start \o <<Plain("t")>>,
   Start \o <<Plain("c"), Plain("t"), Plain("r"), Plain("t"), Plain("k")>>,
   Start \o <<Plain("t"), Attribute("sendonly", <<>>)>>,
   Start \o <<Plain("t"), Plain("k"), Plain("t")>>,
   Start \o <<Plain("k"), Plain("t")>>,
   Start \o <<Plain("c")>>,
   <<Plain("v"), Plain("s"), Plain("t")>>,
   Start}

MediaLines ==
  {Plain("c"), Plain("x"), Attribute("sendonly", <<>>),
   Attribute("accept-types", <<text>>), Attribute("accept-types", <<<<"image", "*">>>>),
   Attribute("path", <<<<"msrp", "">>>>)}

Sequences(n) == UNION {[1..k -> MediaLines] : k \in 0..n}

Audio == <<Line("m", "RTP/AVP", <<>>), Attribute("sendonly", <<>>)>>
Second == <<Line("m", "TCP/MSRP", <<>>), Attribute("path", <<<<"msrps", "">>>>)>>

MCForeign ==
  {Start \o <<Plain("t"), Line("m", "TCP/MSRP", <<>>)>> \o s : s \in Sequences(4)}
  \cup {p \o m \o <<Line("m", proto, <<>>)>> \o s \o e :
          p \in Beginnings, m \in {<<>>, Audio}, proto \in {"TCP/TLS/MSRP", "short"},
          s \in Sequences(2), e \in {<<>>, Second}}
  \cup Beginnings
=============================================================================
