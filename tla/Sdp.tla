-------------------------------- MODULE Sdp --------------------------------
(***************************************************************************)
(* Session descriptions: what getDescription writes (Sdp.Session.toString, *)
(* Session.js:139-190), how a description is read (Sdp.Session.parse,      *)
(* Sdp.Media.parse), what setDescription takes from it (Session.js:244-256)*)
(* and what sendMessage then allows (Session.js:56-84).                    *)
(*                                                                         *)
(* A description is a sequence of lines, a line is a record of its type,   *)
(* its name (of an attribute; the protocol of an m-line) and the values    *)
(* after the colon.  A type "x" stands for any the parser does not expect, *)
(* the protocol "short" for an m-line of fewer than four words.  The text  *)
(* of the other lines is left out: nothing depends on it.  A value is a    *)
(* pair, so that the two halves of a content type can be compared.         *)
(***************************************************************************)
EXTENDS Naturals, FiniteSets, SequencesExt

CONSTANTS
  Words,    \* the names of attributes and protocols, the halves of values
  Locals,   \* what getDescription may be asked to describe
  Foreign   \* descriptions of other software: sequences of lines

\* The types of lines, but for "m", with which the lines of a medium begin.
NotMedia == {"v", "o", "s", "i", "u", "e", "p", "c", "b", "t", "r", "z", "k", "a", "x"}
Values == Words \X Words
Lines == [type : NotMedia \cup {"m"}, name : Words, value : Seq(Values)]

\* A description that is parsed is not the empty string.
ASSUME DescriptionAssumption ==
  /\ {"", "accept-types", "setup", "path", "TCP/MSRP"} \subseteq Words
  /\ Locals \subseteq [acceptTypes : Seq(Values), setup : Values, path : Values]
  /\ Foreign \subseteq Seq(Lines) \ {<<>>}

Line(type, name, value) == [type |-> type, name |-> name, value |-> value]
Plain(type) == Line(type, "", <<>>)
Attribute(name, value) == Line("a", name, value)

VARIABLES
  input,    \* the description that is read
  local,    \* what it describes, if this library wrote it
  lines,    \* the lines that are left
  part,     \* the part of parse that is reached
  media,    \* media of the session read so far
  outcome,  \* what setDescription does with the result
  remote    \* remoteSdp.attributes

vars == <<input, local, lines, part, media, outcome, remote>>

-----------------------------------------------------------------------------
(* Attributes: a function from the names that occur.                       *)

NoAttributes == [n \in {} |-> <<>>]

\* A later line replaces the values of an earlier one.
AddAttributeOnce(attributes, line) ==
  [n \in DOMAIN attributes \cup {line.name} |->
     IF n = line.name THEN line.value ELSE attributes[n]]

\* The values of a later line are added; a flag has none.
AddAttribute(attributes, line) ==
  [n \in DOMAIN attributes \cup {line.name} |->
     IF n # line.name THEN attributes[n]
     ELSE IF n \in DOMAIN attributes THEN attributes[n] \o line.value
     ELSE line.value]

\* Of the lines that belong to a medium, the attributes are kept.
AddLine(attributes, line) ==
  IF line.type = "a" THEN AddAttribute(attributes, line) ELSE attributes

-----------------------------------------------------------------------------
(* Writing.                                                                *)

\* The attributes come before the media, where RFC 4566 puts them.
WrittenInOrder(d) ==
  <<Plain("v"), Plain("o"), Plain("s"), Plain("c"), Plain("t")>>
  \o <<Attribute("accept-types", d.acceptTypes), Attribute("setup", <<d.setup>>),
       Attribute("path", <<d.path>>), Line("m", "TCP/MSRP", <<>>)>>

\* The session's attributes come last, so that they belong to the media.
Written(d) ==
  <<Plain("v"), Plain("o"), Plain("s"), Plain("c"), Plain("t"), Line("m", "TCP/MSRP", <<>>)>>
  \o <<Attribute("accept-types", d.acceptTypes), Attribute("setup", <<d.setup>>),
       Attribute("path", <<d.path>>)>>

-----------------------------------------------------------------------------
(* Reading.                                                                *)

MediaTypes == {"i", "c", "b", "k", "a"}
PreTimingTypes == {"i", "u", "e", "p", "c", "b"}
PreMediaTypes == {"z", "k", "a"}

\* The lines up to the first whose type is not among these.
UpTo(s, types) ==
  LET ends == {i \in DOMAIN s : s[i].type \notin types}
  IN IF ends = {} THEN s ELSE SubSeq(s, 1, Min(ends) - 1)

After(s, types) == SubSeq(s, Len(UpTo(s, types)) + 1, Len(s))

\* Sdp.Media of an m-line and the lines up to the next.  A line that is not
\* expected ends the reading; the caller does not learn of it, since "new"
\* returns the object all the same.  A short m-line leaves the defaults.
ReadMedia(mline, rest) ==
  IF mline.name = "short"
  THEN [proto |-> "TCP/MSRP", attributes |-> NoAttributes]
  ELSE [proto |-> mline.name,
        attributes |-> FoldLeft(AddLine, NoAttributes, UpTo(rest, MediaTypes))]

Reads(p) == outcome = "none" /\ part = p
Keep == UNCHANGED <<input, local, media, outcome, remote>>

\* The lines for the version, the origin and the name, in this order.
FixedLine(type, next) ==
  /\ Reads(type)
  /\ part' = IF lines[1].type = type /\ (type = "v" => Len(lines) >= 4)
             THEN next ELSE "rejected"
  /\ lines' = Tail(lines)
  /\ Keep

PreTimingLine ==
  /\ Reads("preTiming")
  /\ lines # <<>> /\ lines[1].type # "t"
  /\ part' = IF lines[1].type \in PreTimingTypes THEN part ELSE "rejected"
  /\ lines' = Tail(lines)
  /\ Keep

PreTimingEnds ==
  /\ Reads("preTiming")
  /\ lines # <<>> => lines[1].type = "t"
  /\ part' = IF lines = <<>> THEN "rejected" ELSE "timing"
  /\ UNCHANGED lines
  /\ Keep

\* A t-line with the r-lines behind it.
Timing ==
  /\ Reads("timing") /\ lines # <<>> /\ lines[1].type = "t"
  /\ lines' = After(Tail(lines), {"r"})
  /\ UNCHANGED part
  /\ Keep

TimingEnds ==
  /\ Reads("timing")
  /\ lines # <<>> => lines[1].type # "t"
  /\ part' = "preMedia"
  /\ UNCHANGED lines
  /\ Keep

\* The session's own attributes are read, but setDescription replaces them.
PreMediaLine ==
  /\ Reads("preMedia")
  /\ lines # <<>> /\ lines[1].type # "m"
  /\ part' = IF lines[1].type \in PreMediaTypes THEN part ELSE "rejected"
  /\ lines' = Tail(lines)
  /\ Keep

PreMediaEnds ==
  /\ Reads("preMedia")
  /\ lines # <<>> => lines[1].type = "m"
  /\ part' = "media"
  /\ UNCHANGED lines
  /\ Keep

MediaSection ==
  /\ Reads("media") /\ lines # <<>>
  /\ media' = Append(media, ReadMedia(lines[1], UpTo(Tail(lines), NotMedia)))
  /\ lines' = After(Tail(lines), NotMedia)
  /\ UNCHANGED <<input, local, part, outcome, remote>>

-----------------------------------------------------------------------------
(* setDescription.                                                         *)

MsrpProtocols == {"TCP/MSRP", "TCP/TLS/MSRP"}
Msrp(m) == m.proto \in MsrpProtocols

\* The index of the first MSRP medium, or 0.
Chosen(ms) == SelectInSeq(ms, Msrp)

\* A rejected description has no media either, and reading the attributes of
\* none is a TypeError: neither callback is called.
NoMedia ==
  /\ outcome = "none"
  /\ part = "rejected" \/ (part = "media" /\ lines = <<>>)
  /\ Chosen(media) = 0
  /\ outcome' = "threw"
  /\ UNCHANGED <<input, local, lines, part, media, remote>>

SetDescription ==
  /\ outcome = "none"
  /\ part = "media" /\ lines = <<>> /\ Chosen(media) # 0
  /\ LET attributes == media[Chosen(media)].attributes IN
     IF "path" \in DOMAIN attributes
     THEN outcome' = "success" /\ remote' = attributes
     ELSE outcome' = "failure" /\ UNCHANGED remote
  /\ UNCHANGED <<input, local, lines, part, media>>

-----------------------------------------------------------------------------
Init ==
  /\ \/ \E d \in Locals : local = {d} /\ input = Written(d)
     \/ local = {} /\ input \in Foreign
  /\ lines = input /\ part = "v" /\ media = <<>>
  /\ outcome = "none" /\ remote = NoAttributes

Next ==
  \/ FixedLine("v", "o") \/ FixedLine("o", "s") \/ FixedLine("s", "preTiming")
  \/ PreTimingLine \/ PreTimingEnds
  \/ Timing \/ TimingEnds
  \/ PreMediaLine \/ PreMediaEnds
  \/ MediaSection
  \/ NoMedia \/ SetDescription

Spec == Init /\ [][Next]_vars

-----------------------------------------------------------------------------
(* What sendMessage allows of a session with the remote description.       *)

\* Any wildcard accepts any type.
AcceptsAnyWildcard(accepted, type) ==
  accepted = type \/ accepted = <<"*", "">> \/ accepted[2] = "*"

Accepts(accepted, type) ==
  \/ accepted = type
  \/ accepted = <<"*", "">>
  \/ accepted[1] = type[1] /\ accepted[2] = "*"

\* The directions are looked up in the attributes and in the first medium.
Silenced(attributes) ==
  \/ {"sendonly", "inactive"} \cap DOMAIN attributes # {}
  \/ {"sendonly", "inactive"} \cap DOMAIN media[1].attributes # {}

CanSend(type) ==
  /\ \E accepted \in ToSet(remote["accept-types"]) : Accepts(accepted, type)
  /\ ~Silenced(remote)

-----------------------------------------------------------------------------
(* Properties.                                                             *)

\* Two parties with this library understand each other: what one describes is
\* what the other has as remoteSdp after setDescription, although one writes
\* its attributes as the session's and the other reads them as the medium's.
DescribedIsRead ==
  \A d \in local : outcome # "none" =>
    /\ outcome = "success"
    /\ remote = [n \in {"accept-types", "setup", "path"} |->
                   CASE n = "accept-types" -> d.acceptTypes
                     [] n = "setup" -> <<d.setup>>
                     [] n = "path" -> <<d.path>>]

\* The sections of a description: where an m-line is and where the next.
Sections ==
  {i \in DOMAIN input : input[i].type = "m"}
SectionEnd(i) == Min({j \in Sections : j > i} \cup {Len(input) + 1}) - 1

Section(i) == i + 1 .. SectionEnd(i)

\* Are all its lines of types RFC 4566 allows there?
AllExpected(i) == \A j \in Section(i) : input[j].type \in MediaTypes

\* The lines of a section before one that is unexpected, where reading ends.
Counts(i, j) ==
  /\ j \in Section(i)
  /\ \A k \in i + 1 .. j : input[k].type \in MediaTypes

FirstMsrp ==
  IF \E i \in Sections : input[i].name \in MsrpProtocols \cup {"short"}
  THEN Min({i \in Sections : input[i].name \in MsrpProtocols \cup {"short"}}) ELSE 0

\* The attribute is given before an unexpected line of the section.
Has(i, name) ==
  /\ input[i].name # "short"
  /\ \E j \in DOMAIN input :
       Counts(i, j) /\ input[j].type = "a" /\ input[j].name = name

\* Is the part before the first m-line what RFC 4566 prescribes?
PrefixOK ==
  LET m == Min(Sections \cup {Len(input) + 1})
      types(s) == \A i \in DOMAIN s : s[i].type \in {"t", "r"} \cup PreMediaTypes
      timings == {t \in 4..m - 1 : input[t].type = "t"}
  IN /\ m > 4 /\ \A i \in 1..3 : input[i].type = <<"v", "o", "s">>[i]
     /\ timings # {}
     /\ \A i \in 4 .. Min(timings) - 1 : input[i].type \in PreTimingTypes
     /\ types(SubSeq(input, Min(timings), m - 1))
     /\ \A i \in Min(timings) .. m - 1 : input[i].type \in {"t", "r"} =>
          input[i - 1].type \in {"t", "r"} \/ i = Min(timings)

\* A description is accepted if and only if it is well formed up to the media
\* and its first MSRP medium has a path before any line that is not expected
\* there; and if no line of that medium is unexpected, all it says of an
\* attribute has been read, from one line or from several.  What stands behind
\* an unexpected line is lost without an error (Sdp.js:526).
AcceptedIsRead ==
  outcome # "none" =>
    /\ outcome = "success" <=> PrefixOK /\ FirstMsrp # 0 /\ Has(FirstMsrp, "path")
    /\ outcome = "success" /\ AllExpected(FirstMsrp) =>
         \A j \in Section(FirstMsrp) : input[j].type = "a" =>
           /\ input[j].name \in DOMAIN remote
           /\ ToSet(input[j].value) \subseteq ToSet(remote[input[j].name])

\* A message is sent only if the chosen medium lists its type, or a wildcard
\* for it; and, if no line of that medium is unexpected, only if none of its
\* lines refuses to receive.  Two refusals are not seen, and not claimed: one
\* behind an unexpected line and one given for the whole session, before the
\* media, since the attributes of the session are replaced (Session.js:250).
ContentTypes == {<<"text", "plain">>, <<"image", "png">>}
NothingUnaccepted ==
  outcome = "success" /\ "accept-types" \in DOMAIN remote =>
    \A type \in ContentTypes : CanSend(type) =>
      /\ \E j \in Section(FirstMsrp) :
           /\ input[j].name = "accept-types"
           /\ {type, <<"*", "">>, <<type[1], "*">>} \cap ToSet(input[j].value) # {}
      /\ AllExpected(FirstMsrp) =>
           \A j \in Section(FirstMsrp) : input[j].type = "a" =>
             input[j].name \notin {"sendonly", "inactive"}
=============================================================================
