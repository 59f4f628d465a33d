# msrp-node-lib: models, checks and proofs

TLA+ models of the MSRP library in `src/src/` (a Node.js implementation of
RFC 4975), model-checked with TLC and, in part, proved with TLAPS.
References such as `Session.js:387` are lines of `src/src/`; `README:338` is a
line of the library's own README.

## 1. Inventory

One Node.js process runs the library. A handler runs to its end before the next
one starts, so what interleaves is: calls of the application, `data`, `connect`
and `close` events of sockets, timers, the completion of one `await`
(`getAssignedPort` in `getDescription`), and the callbacks and listeners of the
application, which run in the middle of handlers and may call the library back.

| Component | State | Operations | Interacts with |
|---|---|---|---|
| **Session** (`Session.js`) | local and remote SDP, `sdpState`, `updated`, `socket`, `ended`, connect timer, heartbeat intervals and `heartbeatsTransIds` | `getDescription`, `setDescription`, `setupConnection`, `setSocket`, `closeSocket`, `end`, `sendMessage`, heartbeats | dials sockets; takes dangling ones from Server; asks SessionController who shares its socket; sends through `socket.sendMessage` of SocketHandler |
| **SessionController** | registry `sessions` | `createSession`, `removeSession`, lookups by id and by remote address | `removeSession` calls `session.end`; forwards session events |
| **Server** | `danglingSockets` and a timeout for each | on connection: find a session by address or let the socket dangle; on timeout: end it | `session.setSocket` |
| **SocketHandler** | per process: `chunkReceivers`, `chunkSenders`, `activeSenders`, the receiver poll; per socket: `read_buffer` | framing, requests, responses, REPORTs, the sending loop, the poll | everything; shared by all sessions and sockets |
| **ChunkSender** | `sentBytes`, `ackedBytes`, early reports, abort flags | next chunk, `processReport`, `abort`, `resume` | driven by the sending loop and by REPORTs |
| **ChunkReceiver** | joined and unjoined bytes, early chunks, total, aborted | `processChunk`, `abort`, `isComplete` | driven by SEND requests and by the poll |
| **Message**, **Parser** | none | `encode` and the constructors; `parseMessage` | called by the senders and by the read loop |
| **Sdp** | none | `Session.parse`, `Media.parse`, `toString` | `getDescription` writes, `setDescription` reads, `sendMessage` asks |
| URI, ContentType, Util, User, Status, Exceptions | none | parsing, formatting, constants | pure |
| MsrpSdk | the merged configuration | loading | constants of the models |

What is hard here, and what makes each part correct:

- **Connections.** Three parties hand out sockets (the session's own connect, the
  server, an inbound request), two take them away (`closeSocket`, the dangling
  timeout), and sockets may be shared. Correct: no socket in use is ended, a
  dangling one is nobody's, no two sessions are given one connection unless
  sharing is switched on, a session talks to the remote party of its last
  description only, and one that has nobody to talk to is told.
- **Negotiation.** `updateSdpState` only counts calls, the role is chosen before
  an `await` and used after it. Correct: answered means both descriptions, and the
  roles complement each other. The code does so only as far as no description
  comes during the await.
- **Requests before the socket.** They wait in listeners. Correct: handled once,
  in order, none left behind, and nothing throws out of the event loop.
- **The sending loop.** One queue for the process, and application code in the
  middle of it. Correct: each message's chunks follow each other, each callback is
  called once and truly, nothing is lost, the loop ends.
- **Delivery reports and reassembly.** Anything may be reordered or missing.
  Correct: reports tell the truth and are not withheld; a message is delivered
  whole, once, or never.
- **The stream.** TCP cuts it anywhere, the buffer is searched again at every read,
  and some of it cannot be parsed. Correct: each message that can be parsed is
  handled once, in order and at once, and what this library writes is cut out of
  the stream as it was written and can be parsed.
- **Both ends together.** The receiver gives up, refuses and reassembles; reports
  are made from the request of each chunk. Correct: what the sender is told of a
  message is what has become of it, and it is told.
- **Descriptions.** Session attributes are written behind the media and read as the
  medium's; a parse error leaves half an object. Correct: what one party describes
  the other reads, and what is accepted has been read completely, unless it has
  lines the parser does not expect.
- **Heartbeats.** Two periods, a record, late answers. Correct: no timeout for a
  heartbeat that was answered, and a silent peer noticed in bounded time.

`PROJECT.json` lists the hazards line by line with the properties that cover them.

## 2. Modules

| Module | Models | Lines |
|---|---|---|
| `MsrpSession` | negotiation, connections, server, registry, the head of `handleIncomingRequest` | `Session.js` 28-43, 130-420, 464-660; `Server.js` 44-79; `SessionController.js` 19-62; `SocketHandler.js` 136-225 |
| `SendQueue` | `sendMessage`, the loop `sendRequests`, `ChunkSender`, `incomingReport` | `SocketHandler.js` 87-126, 377-423, 498-549; `ChunkSender.js` |
| `Delivery` | what the receiving side promises: a message whole and once, or never, and never after STOP_SENDING | abstract |
| `Transfer` | chunks on the wire, SEND requests, `ChunkReceiver`, the poll | `ChunkReceiver.js`; `SocketHandler.js` 232-312, 596-618; `ChunkSender.js` 65-112 |
| `Outcome` | what reports promise from one end to the other: success only for what was delivered, failure only for what never will be | abstract |
| `Reporting` | both ends: extends `SendQueue`, instantiates `Transfer`, and adds two queues per connection, answers and REPORTs | `SocketHandler.js` 433-483, 572-592, and what the composed modules map |
| `Stream` | what reading a socket promises: each message that can be parsed handled once, in order, after it has arrived | abstract |
| `Framing` | the `data` handler | `SocketHandler.js` 29-56 |
| `Codec` | `encode`, `parseMessage` | `Message.js` 23-69, 133-179, 229-246; `Parser.js` 2-101, 127-167, 238-276, 312-455; `ChunkSender.js` 65-112; `SocketHandler.js` 433-483 |
| `Reading` | Framing and Codec: the stream carries texts | |
| `Sdp` | descriptions written, read, taken over and obeyed | `Sdp.js` 17-262, 446-532; `Session.js` 57-83, 240-257 |
| `Heartbeat` | the two heartbeat timers, the record, responses | `Session.js` 425-459, 585-602; `SocketHandler.js` 324-369 |
| `MCSession`, `MCQueue`, `MCTransfer`, `MCReporting`, `MCFraming`, `MCSdp` | small instances for TLC | |
| `MsrpSession_proofs`, `SendQueue_proofs`, `Transfer_proofs`, `Reporting_proofs`, `Sdp_proofs`, `Heartbeat_proofs`, `Framing_proofs` | theorems | |
| `SequenceLemmas` | lemmas about numbers and the community modules' operators | |

### MsrpSession

A variable stands for a field: `socket[s]` for `session.socket`, `sdpState`,
`localSetup` and `remoteSdp` for the descriptions (a description is its address,
`a=setup`, direction and whether it accepts heartbeats), `dangling` and
`danglingTimers` for the server, `sockState` for what Node.js knows of a socket.
`listeners[u][s]` counts the close listeners `setSocket` has added to `u` for `s`:
it adds one each time and removes none. `offerer`, `told`, `processed`, `calls`
and `received` record history or bound the model and are in no field, and so is
`overtaken`: the sessions whose remote description came during the await of a
`getDescription`.

Each handler is one action: `GetDescription` is `getDescription` up to its await
and `DescriptionReady` the rest, which includes `updateSdpState` and
`setupConnection`; `SetDescription` is the whole of `setDescription`, which may come during the await
as well, since the code does not look; `Connection`
the server's connection handler; `ConnectDone` the callback of a connect; `Close`
all close listeners of a socket; `Request` what a request does before its method
matters; and one action per timer. `SetSocket` contains the handling of the
requests that wait for `socketSet`. `Reused` counts as `closeSocket` does, over
the registry at that moment, which is why `End` takes the registry as a parameter.

Behaviours of the application and of peers beyond a plain negotiation are named in
the constant `Liberties`, so that a run and a theorem say which of them they
assume: removing a session, ending one without removing it, doing so while it is
busy, calling out of turn, callbacks that throw, early requests.

### SendQueue

The queue and the loop. Since the loop calls the application, a running loop is a
frame on the stack `frames`, with the point it has reached; `SendMessage` from a
callback pushes a frame, `Throw` pops the innermost. The loop's head after a
callback is read afresh, as in the code, so `Shift` may remove another sender than
the one the turn began with. Reports and destroyed sockets come between loops.
`acked` and `reported` are history.

### Transfer and Delivery

A body is a sequence of bytes that know their character, so that cutting between
bytes, conversion to a string and back (`Recode`) and `Buffer.from` of an array of
buffers (`Overlapping`) are modelled by what they do. `Receive` is the SEND branch
of `handleIncomingRequest`, with one disjunct per outcome. `Delivery` is the
promise; `inbox` and `refused` are common, `Body` is computed from the widths of
the characters.

### Reporting and Outcome

`Reporting` extends `SendQueue`, which is one process, and instantiates `Transfer`
for the other; each keeps its variables, and a step of one leaves those of the other
alone. The chunks on a connection are those `SendQueue` has written to it: `taken` is
the place in `written` of the last one read from a socket, so `Read(k)` and
`Unread(k)` are the two parts and no variable repeats them. A chunk is handled by
`Transfer`'s `ArriveWith` and its `Answer` joins `owed`; the write callback of the
answer (`ResponseWritten`) sends the REPORT, which waits in `back` until the sender
handles it (`ReportArrives`, which is `SendQueue`'s `Report` or `Refusal`). The body
the report is counted from is `BodyLater`, what `request.body` is when the callback
runs. `StringLength` counts characters, as the code does.

`Outcome` is the promise. A message is delivered if it is in the inbox and lost if
it is in `refused`; what was heard is read off `reported` and `aborted`. That the
receiver gives `SendQueue` only reports for what was written, and refusals only for
what is no longer queued, is the assumption under which `queue_core` checks the
queue; `KeepsToSendQueue` shows that the other end fulfils it.

### Framing, Stream, Codec and Reading

`Framing` knows only where the messages of the stream lie, so that a read may end
at any character and the regular expression is a search by position: it finds a
message once the line feed of its end line is there. `regIndex` and `lastIndex` are
positions in the stream instead of in `read_buffer`, which begins at `kept`.
`Stream` is the promise.

`Codec` has no state. A text is a sequence of lines; a line knows its kind, its
name and its value, and a value is what its parser makes of it, or nothing. An
outgoing message is what `ChunkSender`, `sendReport` or `sendResponse` hand to
`encode`, which takes another transaction ID when it finds the end line in the body:
with the message's own flag and the CRLF behind it (`Quoted`), so not when it is the
body's last line, although the read loop (`MatchedLines`, any flag) and the parser
(`IsEndOf`, any flag, and the end line of a longer ID too) end the message there.
`Begins` holds the pairs of IDs of which one is a beginning of the other. `Outgoing`
says which messages there are: any ID, range and body lines with what the constructors
add to them. `ParseMessage` gives a set with one message, or the empty set for null; it finds
the headers of a name by the indices of their lines (`Named`).

`Reading` puts texts at the positions of the stream: the messages `Framing` may
handle are those `ParseMessage` reads, and `HandledIsMeant` compares what is handed
on with what was encoded, of messages whose bodies `encode` can send (`Sendable`): if
some line looks like the end of the message, `encode` sees one and changes the ID.

### Sdp

A run of the model reads one description, line by line, as `Session.parse` does
with its position in the list: one action for each of its loops and one for leaving
each. `Media.parse` is the operator `ReadMedia`. `NoMedia` and `SetDescription` are
what `setDescription` does with the outcome, and `CanSend` what `sendMessage` asks.
The properties describe well-formed descriptions from the grammar, by positions in
the text, not by the automaton. They claim that a medium is read completely, and its
refusal to receive obeyed, only if none of its lines is unexpected (`AllExpected`):
what stands behind such a line the code loses, and it never looks at a direction that
stands before the media. The words that lines are made of are a constant,
`Words`, of which nothing is assumed but that it has the five that `getDescription`
writes; what is described and what other software sends are constants too.

### Heartbeat

One tick is one second, the monitor's period. A heartbeat is known by its age.
Timers are punctual: what is due at a tick runs before the next one. The interval
and the timeout are constants.

## 3. Runs

Deadlock is not checked: the application and the peers may stop, and the bounds
end every model.

| Run | Question | Result |
|---|---|---|
| `session_core` | one session, any order of calls, throwing callbacks, removing and ending it at any moment, two remote parties, one accepted connection, requests: does it talk only to the party of its last description, are waiting requests handled once and in order, does nothing throw? | holds |
| `session_pair` | two sessions, one address: does each connection go to one session and is none ended while used? | holds |
| `session_shared` | two sessions share a connection through `useInboundMessageForSocketSetup`, end or negotiate again | holds |
| `session_live` | one passive session, every remote role: complete negotiations, and complementary ones unless a description came during the await; under fairness, connected or told, lost connections told | holds |
| `session_remove_shared` | `removeSession` of one of two sessions sharing a connection | violated: finding 1 |
| `queue_core` | three messages (3, 2 and 1 chunks), two sockets, nested loops, exceptions, reports in any order | holds |
| `transfer_core` | three messages (4, 2 and 1 chunks) interleaved, reordered, repeated before a gap is closed, lost, aborted, expired; implements `Delivery` | holds |
| `transfer_duplicate` | a chunk arrives twice | violated: finding 2 |
| `heartbeat_core` | interval 5, timeout 10 (the defaults), any pattern of answers | holds |
| `framing_core` | a stream of fifteen messages this library encodes and ten of others, cut in every way: does the read loop implement `Stream`, hold nothing back, and hand on what was meant of every message that `encode` can send? | holds |
| `report_core` | three messages over two connections, both ends modelled: is the sender told the truth of each message (`Outcome`), and told at all? | holds |
| `sdp_core` | 4324 descriptions: does one party read what the other describes, is a description accepted exactly if it is well formed up to its media and has a path, and is a well-formed medium read completely and obeyed? | holds |

**Properties.** `SocketOfPeer`, `DanglingUnassigned`, `SocketExclusive`,
`NeverEndsUsedSocket`, `NoneLeftBehind`, `HandledInOrder`, `AnsweredComplete`,
`RolesComplement`, `NoCrash`, `PassiveResolved`, `ReconnectTold` (MsrpSession);
`ChunksFollow`, `NeverDropped`, `CalledBackOnce`, `SentIsWritten`,
`ReportedIsAcked`, `LoopTerminates` (SendQueue); `AllArrivedDelivered`,
`AbortedNotDelivered`, `DeliveredIntact`, `ReceiverReleased` and the refinement
`ImplementsDelivery` (Transfer); `TimeoutMeansSilence`, `SilenceIsTold`
(Heartbeat); `NothingHeldBack`, `ArrivedHandled` and the refinement
`ImplementsStream` (Framing); `HandledIsMeant` (Reading); `SentIsHeard`, the
refinement `ImplementsOutcome` and `KeepsToSendQueue` (Reporting);
`DescribedIsRead`, `AcceptedIsRead`, `NothingUnaccepted` (Sdp). Each module with
state of its own but Sdp has one type invariant. Each property is stated in words
above its definition, and each is violated by at least one plausible mutant of the
code (definitions with names such as `UndangleForgotten`, which stand beside the
ones they distort), so none holds whatever the code does. `AbortStopsSending` of
SendQueue is checked by no run: see the disagreements below.

**Bounds.** MsrpSession: a renegotiation takes four descriptions, hence
`MaxCalls = 4`; a second session is what makes sharing and competition possible;
three sockets give a connection, its replacement and an accepted one; two requests
are the least that can change order. The descriptions of `session_core` have each
kind that `setupConnection` distinguishes, and two addresses, so that a socket can be
one of an older description; it leaves heartbeats and the connect timeout out, which
none of its properties is about (2.2 million states; `session_pair` and `session_live`
have heartbeats). `session_live` gives the remote party
every role but "active" and "none", which are answered with "passive" as
"actpass" is, and two accepted connections so that a lost one can be replaced. SendQueue: chunks of two
bytes, a limit of one early report instead of 16, four reports, enough to fill the
gap list, rewind, and complete a message. Transfer: four chunks, so that two early
chunks wait for one gap; a buffer of three bytes, so that it is flushed both
because it is full and because the message is complete; totals known and unknown.
Framing: twenty-five messages of one or two characters, so that a read can end within
a message and its end line, with something meaningless between some of them, and
unparsable messages alone and one after another; every kind of message the library
encodes occurs, with each form of range and flag, and bodies with an end line in the
middle, as the last line, as the only one, with another flag, of another ID and of a
longer one; four of them `encode` does not see, and these the run cuts short. Any two
positions are the ends of some two reads. Reporting: three chunks, so that the
first, a middle and the last are reported by different rules; a message of one wide
character; an empty one; a session that may be
removed on one connection and not on the other. Sdp: all descriptions of this
library for three lists of types and three roles, and for those of others every
medium of up to four lines out of six, and every medium of up to two lines behind
eight beginnings, another medium, two kinds of m-line, and before a second medium.

**Fairness.** MsrpSession: timers fire, a close event follows a destruction, a
connect ends, the lookup of a free port answers. Nothing is assumed of the
application and of the peers. SendQueue: a running loop goes on, since nothing
else runs in the process; listeners return. Transfer: the poll's interval fires and
30 seconds pass. Framing: a running `data` handler goes on; nothing is assumed of
the network. Reporting: the sending loop goes on, and TCP delivers what was written
to a connection that holds: a chunk is read (`Request`), the callback of a write is
called, a report arrives. Fairness of `Request` is written out with its enabling
condition, because TLC takes long to evaluate ENABLED of it. No fairness is assumed
of what the application decides. All of it is what the event loop and the operating system give.

### Findings

1. `removeSession` takes the session out of the registry before `end` calls
   `closeSocket`, which counts registered sessions (`SessionController.js:59`,
   `Session.js:387`): the connection of a remaining session is ended.
2. A repeated chunk turns the body into a few meaningless bytes
   (`ChunkReceiver.js:147`).

Other disagreements, met while modelling. Those of the first list are in the
models; the constants that show them are named, but no run is kept for them:

- with `useInboundMessageForSocketSetup` a request that comes before the remote
  description reads `remoteSdp.attributes` of null (`SocketHandler.js:217`; the
  liberty `early`; `NoCrash` claims nothing with that option);
- a refused message that is still queued gets another chunk written, and the
  sender behind it is shifted out of the queue (`SocketHandler.js:507`, 542;
  `EarlyRefusal`, and a throwing `messageSent` listener so that something is
  queued: `AbortStopsSending` fails);
- a character cut by the end of a chunk becomes replacement characters; the
  message is not completed (`ChunkSender.js:98`; `Widths` of `<<1, 2, 1>>`:
  `AllArrivedDelivered` fails);
- the end of a reported range counts the characters of the body, and only that of
  the last chunk is taken from the request; the code only logs that the two do not
  match (`SocketHandler.js:465-474`); a sender whose earlier chunks have a wide
  character is never told (`Widths` of `<<2, 1>>`: `SentIsHeard` fails);
- the write callback of a response makes the report also for a request answered
  481, and for a session removed meanwhile; there is no session and a TypeError
  leaves the callback (`SocketHandler.js:584`; `crashed`, an exception in
  `SentIsHeard`);
- a rejected description has no media, and `setDescription` reads the attributes of
  none: the TypeError is caught and logged, and neither callback is called
  (`Session.js:250`, 292; the outcome "threw");
- the constructors of Sdp return null on a parse error, which `new` ignores, as
  `sdp.test.js:51` knows: a line the media does not expect silently
  drops the rest of its section (`Sdp.js:526`), a refusal to receive or a path as
  well, and an m-line that is too short leaves the default protocol, so the medium may
  be chosen. `AcceptedIsRead` and `NothingUnaccepted` speak of the completeness of a
  medium only if it has no such line (`AllExpected`); without that they fail in
  `sdp_core`;
- directions of a description that stand before its m-line are read and never
  looked at (`Session.js:250`), so a message may be sent to a party that refuses all;
- `encode` looks for the end line in the body as it will write it: "If the body
  contains the end-line, change the transaction ID" (`Message.js:139`). A body whose
  last line it is has no CRLF there yet, and one with another flag or a longer ID is
  not what it looks for, yet the read loop takes any flag (`SocketHandler.js:36`) and
  the parser any line that begins so (`Parser.js:82`, 133): the body is cut, or the
  message discarded. `framing_core` has the cases; `HandledIsMeant` without `Sendable`
  fails there;
- a description that comes while `getDescription` waits for a port does not change the
  role that was chosen before: both sides may take the same, or a role that answers an
  older offer (`Session.js:180`, 240; `overtaken`, without which `RolesComplement`
  fails in `session_live`);
- every renegotiation closes the connection, because path arrays are compared by
  identity (`Session.js:194`, 262);
- a session ended while its connect is pending gets a socket (`Session.js:503`;
  the liberty `busy`) and starts its heartbeats, and one ended but left registered gets
  one from the server or a request (the liberty `end`). `session_core` has both; no
  property says that an ended session stays quiet, because it does not;
- two descriptions of the same side count as an answered negotiation
  (`Session.js:614`; the liberty `outOfTurn`), and a callback that is missing or
  throws keeps the negotiation back (`Session.js:214`, 284; README:280 shows a
  call without it);
- the connect timeout needs a logger with `warning`, which console, the default, lacks:
  its timer throws out of the event loop (`Session.js:570`; `WarningLogger`;
  `NoCrash` claims nothing with a connect timeout);
- a listener of `messageSent` that sends makes the outer turn complete its sender
  a second time (`SocketHandler.js:536`), and a failure callback that sends again
  finds the failed entry first (`SocketHandler.js:519`);
- `resume` rewinds a sender that is no longer in the queue (`ChunkSender.js:137`);
- a rejected heartbeat stays recorded and leads to a timeout as well
  (`SocketHandler.js:355`);
- the callback of `sendMessage` gets `(msg)` or `(null, error)`, while README:338
  shows `(error)`.

Not in the models:

- with `requestReports` off the entry in `chunkSenders` is never deleted;
- an empty body that was sent arrives as no body, and a message whose end line
  follows its blank line at once is rejected (`Parser.js:82`);
- a read ends a line at a bare line feed too (`SocketHandler.js:36`, `\r?\n`), so an
  end line of a body without its CR ends a message that `encode` found free of it; and
  the ID of the read loop's expression may be a beginning of the ID of the message if
  no end line of the whole one follows;
- an unparsable message stays in `read_buffer` until a later one is handled, and is
  parsed and logged again at each read;
- an exception that leaves a handler skips the trimming of the buffer
  (`SocketHandler.js:56`), so what was handled is handled again;
- a failed active connect is only logged (`Session.js:485`).

## 4. Proofs

All theorems hold for every value of the constants that the named assumptions of the
modules allow; the bounds of the models (`MaxCalls`, `MaxAccepted`, `MaxRequests`,
`MaxReports`) are any numbers. Where a theorem needs more, the hypothesis is in its
statement, and is listed here with what happens without it.

| Theorem | Property | Hypotheses | Without them |
|---|---|---|---|
| `MsrpSession_proofs!TypeCorrect` | `TypeOK` | none | |
| `DanglingSafe` | `DanglingUnassigned` | none | |
| `Exclusive` | `SocketExclusive` | `UseInbound = FALSE` | sharing is what the option is for |
| `TalksToPeer` | `SocketOfPeer` | `UseInbound = FALSE` | a session takes the socket a request came over |
| `UsedSocketsStay` | `NeverEndsUsedSocket` | no sharing, or nothing removed | finding 1 |
| `CompleteAnswer` | `AnsweredComplete` | descriptions in turn | two of one side count as an answer |
| `RolesOpposite` | `RolesComplement` | descriptions in turn, callbacks do not throw; of sessions that are not `overtaken`, in the property | a thrown callback leaves `updateSdpState` out; `Session.js:180` |
| `NobodyLeftBehind` | `NoneLeftBehind` | none | |
| `InTheirOrder` | `HandledInOrder` | none | |
| `NeverCrashes` | `NoCrash` | none; the property itself is about the default configuration, without a connect timeout and without `useInboundMessageForSocketSetup` | `Session.js:570`; `SocketHandler.js:217` |
| `SendQueue_proofs!TypeCorrect` | `TypeOK` | none | |
| `Following` | `ChunksFollow` | none | |
| `ReportsTellTheTruth` | `ReportedIsAcked` | none | |
| `NothingDropped`, `ToldOnce`, `ToldTruly` | `NeverDropped`, `CalledBackOnce`, `SentIsWritten` | `Careful` | a message is told twice or shifted out: `SocketHandler.js:507`, 519, 536 |
| `Transfer_proofs!TypeCorrect` | `TypeOK` | none | |
| `DeliveryImplemented` | `ImplementsDelivery` | `Uncut`; nothing repeated after it was joined | finding 2; `ChunkSender.js:98` |
| `WholeBodies` | `DeliveredIntact` | the same | finding 2 |
| `NotHeldBack` | `AllArrivedDelivered` | the same | a cut message is never delivered |
| `AbortIsFinal` | `AbortedNotDelivered` | the same | |
| `Reporting_proofs!BothTypesKept` | `BothTypeOK` | `Fitting` | |
| `KeptToSendQueue` | `KeepsToSendQueue` | `Fitting` | a report names bytes that were not written: `SocketHandler.js:465-474` |
| `OutcomeImplemented` | `ImplementsOutcome` | `Fitting` | a cut message is never delivered, yet reported: `ChunkSender.js:98` |
| `Sdp_proofs!DescribedIsUnderstood` | `DescribedIsRead` | none | |
| `AcceptedOnlyIfRead` | `AcceptedIsRead` | none; completeness, in the property, of media without unexpected lines | `Sdp.js:526` |
| `OnlyAcceptedIsSent` | `NothingUnaccepted` | none; the refusal, in the property, of media without unexpected lines | `Sdp.js:526`; `Session.js:250` |
| `Heartbeat_proofs!TypeCorrect`, `NoFalseAlarm`, `ToldInTime` | `TypeOK`, `TimeoutMeansSilence`, `SilenceIsTold` | none | |
| `Framing_proofs!TypeCorrect`, `NothingWaits`, `Refines` | `TypeOK`, `NothingHeldBack`, `ImplementsStream` | none | |
| `EncodedIsHandled` | `HandledIsMeant` | `ReadingAssumption`; of messages that are `Sendable`, in the property | a body with an end line that `encode` does not see ends early: `Message.js:140` |

Every hypothesis holds of the constants of the run that checks the property
(`MCTransfer` and `MCReporting` state `Uncut` and `Narrow` as assumptions, and
`queue_core` and `report_core` are instances of `Careful`), so the run is an instance
of the theorem.

### MsrpSession

`TypeCorrect` has one lemma per helper that changes state (`SetSocket`,
`SetupConnection`, `Described`), then one step per action. The steps of a session are
described once by `SessionShape`, an abstraction of what any of them may do to
sockets, so that the safety proofs deal with one shape instead of nine actions;
`InboundShape` is the same for requests and `Negotiates` for descriptions.

- `DanglingUnassigned` is not inductive alone: `SocketInv` adds that neither a
  session's socket nor a dangling one is unused or still connecting, so that the
  socket a connection or a connect hands out is nobody's. `SocketExclusive` needs it
  too.
- `SocketOfPeer` is kept by the two halves of the code together: whatever brings a
  socket, a connect, the server or the list of dangling ones, compares its remote
  address with the description of that moment (`setSocket`, `SocketKeepsPeer`), and a
  description that replaces another closes the socket first (`SessionKeepsPeer`).
  `SocketInv` is needed for the address of a socket to stay (`AddressesStay`): a new
  socket is never one that a session has.
- `NeverEndsUsedSocket` is an action property with two arguments. Without sharing it
  follows from `SocketExclusive` and `DanglingUnassigned`: the socket a step ends is
  that of the session itself, or dangling. With sharing, `AllCounted` says that no
  session has left the registry, so `closeSocket` counts all that use the socket.
- `NegotiationInv` ties `sdpState` to what has been described and by whom, which the
  code's counter does not know; a suspended `getDescription` is that of an answer.
  `RolesInv` adds that it keeps the role it has chosen for the description that is
  there, however long the lookup of a port takes, unless another comes meanwhile.
- `Steady` is all that `NoCrash` needs: without a connect timeout its timer is never
  started (`TimersStayAway`), and without `useInboundMessageForSocketSetup` a request
  of a session without a socket waits instead of being handled.
- `WaitingInv`: requests wait only for sessions without a socket and without
  `useInboundMessageForSocketSetup`. `OrderInv` says that what was handled followed
  by what waits is in the order of arrival, for each socket, and numbers each request
  once.

### SendQueue

The first part holds whatever the application does in its callbacks. `IInv` ties each
sender's position to what is written: what lies before it has been written, also
after `resume` has rewound, and what has been written lies before it unless it has
(`Position`); acknowledged bytes are covered by reports, kept reports are beyond the
gap (`Acknowledged`); and the count of kept reports is never below their number
(`Counted`), without which `TypeOK` is not inductive. `MergedFacts` says what the
merging of kept reports computes.

The second part, for applications that keep to `Careful` (they send only from the
callback of a complete message, and throw from there or from a `messageSent`
listener; peers refuse no message that is still queued): `QueueShape`, `FramesShape`
and `ToldShape` tie each frame to the head of the queue. Every loop but the innermost
is in the callback of a message that has left the queue, so what `shift` removes in
the middle of a turn is the sender the turn began with, however deep the loops nest.

### Transfer

`PhaseInv` says that each message is in one of four phases: untouched; being
received, with the joined and buffered bytes a prefix of the body that ends with some
chunk, the next chunk not there yet, and the chunks that came early kept; delivered,
with the receiver gone; or given up. `ProcessHolds` says what `processChunk` makes of
a receiver that waits for chunk p + 1 when chunk i comes, in each of its branches. The
lemmas under it say what `AllKeptAppended` computes, a fold over a set. They do
without the library's induction theorems, which this prover cannot instantiate:
`Induction` in `SequenceLemmas` is derived from the well-foundedness of the numbers,
and the existence of the recursive functions behind the folds from it.

### Reporting

`Fitting` is `Careful` for the sender, `Uncut` for the receiver, and `Narrow`: no
character wider than a byte begins in any chunk but the last. `Narrow` is needed
because `sendReport` counts the characters of a body and not its bytes, except for
the last chunk; with it, `EndNamed` says that a report names the range of its chunk,
also when the body is that of the joined message. Nothing is assumed of the order of
steps, of how many messages and sockets there are, or of which sessions are removed.

`BothInv` has a part for each place a message can be in.

- The sender: `IInv` and `CarefulInv` of `SendQueue_proofs`, and `SendInv`, which
  `SendQueue` alone does not have. Only the chunks a message is cut into are written
  (`WholeChunks`), because a sender in the queue stands between two of them
  (`Placed`); no loop is left by an exception, so nothing is queued when none runs
  (`Emptied`), and that is why a refusal never meets a queued message.
- The receiver: TCP keeps the order, so each message is untouched, being received
  with its first chunks there and none kept for later, delivered, or given up
  (`Phase`). `HandleNext` says what the next chunk does in each phase, and what the
  answer to it is.
- The connections: what has been read has arrived (`ReadArrives`), so the first chunk
  that is unread is the next one of its message: by `ChunksFollow` every byte before
  it lies in a chunk before it, and those have been read (`NextOfMessage`). Each
  waiting answer and report names its chunk, says 413 only of a refused message, and
  speaks of the last chunk only after the delivery (`Answers`, `Notices`). An answer
  481 waits only where the session has been removed, and makes no report.

A report that comes is then one `SendQueue` allows, which is `KeptToSendQueue`: the
theorems about `SendQueue` hold of the sender in this composition. For
`OutcomeImplemented`, a message whose bytes are all acknowledged has had its last
byte acknowledged by a report of its last chunk (`CompleteMeansDelivered`), also when
that chunk is empty.

### Heartbeat and Framing

`TypeCorrect` of Heartbeat has `Looked`: after a look of the monitor nothing recorded
is past the timeout. The invariant of `ToldInTime`, `OneIsOut`, is a disjunction:
while heartbeats are sent without news, either the first is still to come, or one is
recorded that was sent at most an interval after the last news.

The theorems of Framing hold for any stream, any positions of the messages in it and
any reads, and rest on one inductive invariant, `ReadInv`: `lastIndex` is never behind
`regIndex`; what can be parsed and ends before `lastIndex` has been handled once, what
begins behind it has not, and no message that can be parsed lies between `lastIndex`
and `regIndex` or across either. That a message found again after a trim is a new one,
and that skipping an unparsable one skips nothing else, both follow from it. The only
assumption is that messages are numbered by their positions and do not overlap.

`EncodedIsHandled` adds to `ReadInv` what a text is (`ParsedAs`): for every outgoing
message, with any number of body lines, `ParseMessage(Encode(r))` is one message and
means `r`, if `r` is `Sendable`. `ReadingAssumption` asks what the code relies on: the
ID that `newTID` finds begins no end line in the body, as it is drawn at random; and the
stream carries what the read loop matches. For a `Sendable` message either no body line
looks like the end, or the ID is changed, so the one it is encoded with is fresh
(`Fresh`), and the match is the whole text (`CutAtTheEnd`). The text is five pieces one after the other (`EncodedText`). Its
headers each have a name of their own and a value where the parser demands one
(`Titled`), and this is kept as a piece is added (`MoreHeaders`); so the headers end
where the encoder ended them (`HeadersEndAt`), looking one up gives what was put in,
whether the first or the last of its name is taken (`HeaderFound`), and no header is
refused. The ID that `EncodedTid` takes makes the first end line behind the headers the
last line of the text (`NoEarlyEnd`, `MessageEndAt`), and what lies between is the
body. A message that is parsed is one the read loop may not leave behind.

### Sdp

The theorems hold for any words, any local descriptions, and any descriptions of other
software but the empty one; `DescriptionAssumption` says no more than that.

`SdpInv` says where the reader is. `PrefixInv` has one part per loop of the parser:
what the lines behind the reader's position must have been for it to be there, with
the line where the times begin and the one where they end named. `PrefixMeaning`
names the same two lines in `PrefixOK`, so that what the loops have seen, and the line
that made one of them give up, decide whether the grammar is kept. `MediaInv` says that
the media are the first sections of the text in their order: `ReadAt` gives the m-line
of each. From this follows which section `setDescription` chooses (`ChosenIsFirst`).

What `ReadMedia` makes of a section is a fold over its lines, so the prover needs the
function behind it: `LineByLine` derives it from the definition of the community
module. `AllCollected` then says that each attribute holds the values of all lines
that name it and no others, and `CountedLines` that those are the lines that the
properties count. Of the lines this library writes, `WrittenAttributes` says what is
read, value by value and in order.

### Only model-checked

All liveness (`PassiveResolved`, `ReconnectTold`, `LoopTerminates`,
`ReceiverReleased`, `ArrivedHandled`, `SentIsHeard`), which is beyond the prover. Every
safety property and every refinement that a passing run checks has a theorem.

## 5. Assumptions and omissions

- Handlers are atomic, as in Node.js. A session has at most one pending
  `getDescription`.
- Each socket is used once and gets the next identity. A destroyed accepted socket
  keeps its remote address, which the connection handler has read
  (`Server.js:45-49`).
- Events that only log or forward (`timeout`, `error`, tracing) are left out.
- In Transfer the peer runs the same sender, its first chunk arrives first, and a
  retransmission is of a later chunk. A chunk that comes again while it still waits
  for an earlier one is harmless (`transfer_core`), one that has been joined already
  is not (`transfer_duplicate`). A first chunk that carries the abort flag
  starts a new receiver and is answered 200; no property speaks of the answer.
- In Heartbeat `canSend` stands for what `sendMessage` checks of socket and SDP; a
  remote description without `accept-types` makes the check itself throw
  (`Session.js:57`) and is left out.
- In Framing no message quotes another complete one, and handling a message does
  not throw. In Codec a body has no colon in its lines, header values are well formed
  or not at all, and a status is one of three.
- In Reporting every message asks for reports, a socket carries one session of the
  receiver, and what is written to a connection that does not break arrives.
- In Sdp the text of lines other than attributes and m-lines is left out, as nothing
  reads it; a content type is a pair of halves.
- Not modelled: the idle timeout of a socket (it emits an event), the answers 400
  and 501, the choice of a path in `Session.sendMessage`, `Server.listen` and
  `stop`; `Media.toString`, `removeAttribute`, `replaceAttribute` and the file
  attributes of Sdp, which the library does not call; ArrayBuffer and Blob input;
  the WWW-Authenticate header and the parameters of Content-Disposition; and URI,
  ContentType, Util, User, Status, Exceptions and MsrpSdk, which are pure formatting,
  constants or loading.

## 6. Plan

The order is that of importance: connections first, since every other part hangs
on a session's socket; then sending, receiving, heartbeats. These four are done.

Then came the stream (`Framing`, `Codec`), both ends together (`Reporting`) and the
descriptions (`Sdp`), each with the promise it keeps.

Left to extend: heartbeats and messages of one session over a connection that is
replaced, a composition of MsrpSession and Heartbeat through `canSend`.

Every safety property is proved; what is extended next will bring its own to prove.
