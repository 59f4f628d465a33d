----------------------------- MODULE SendQueue -----------------------------
(***************************************************************************)
(* Sending: the queue of active senders that every session of the process  *)
(* shares and the loop that empties it (SocketHandler: sendMessage,        *)
(* sendRequests), the chunks a sender produces (ChunkSender.getNextChunk), *)
(* and the delivery reports it receives (SocketHandler.incomingReport,     *)
(* ChunkSender.processReport).                                             *)
(*                                                                         *)
(* The loop runs to the end of the queue without giving way, except that   *)
(* it calls the application: the listeners of "messageSent" and the        *)
(* callback of sendMessage.  There the application may send again, which   *)
(* runs a second loop inside the first, or throw, which leaves the loop    *)
(* with the queue as it stands.  A running loop is a frame; frames nest.   *)
(***************************************************************************)
EXTENDS Naturals, FiniteSets, SequencesExt

CONSTANTS
  Messages,    \* messages, in the order they are sent
  Sockets,     \* TCP sockets
  SocketOf,    \* the socket each message is sent over
  Size,        \* the number of bytes of each message
  ChunkSize,   \* bytes of a full chunk: 2048 in the code
  IncontiguousLimit,  \* reports kept for later: 16 in the code
  Liberties,   \* what the application does, and where; see below
  EarlyRefusal,  \* a peer refuses a message that is still queued
  MaxReports   \* bound: delivery reports received

(***************************************************************************)
(* The loop calls the application when it has sent a chunk ("sent"), when  *)
(* a message is complete ("done") and when the socket is gone ("failed").  *)
(* Liberties says at which of these points it may "send" or "throw".       *)
(***************************************************************************)
Calls == {"sent", "done", "failed"}

ASSUME MessagesAssumption ==
  /\ Messages \subseteq Nat
  /\ SocketOf \in [Messages -> Sockets]
  /\ Size \in [Messages -> Nat]
ASSUME LimitsAssumption ==
  /\ ChunkSize \in Nat \ {0}
  /\ {IncontiguousLimit, MaxReports} \subseteq Nat
ASSUME LibertiesAssumption ==
  /\ Liberties \subseteq {"send", "throw"} \X Calls
  /\ EarlyRefusal \in BOOLEAN

VARIABLES
  queue,      \* activeSenders
  frames,     \* the running calls of sendRequests, the innermost last
  senders,    \* chunkSenders: messages whose reports are awaited
  sentBytes,  \* ChunkSender.sentBytes
  ackedBytes, \* ChunkSender.ackedBytes
  incontiguous, \* ChunkSender.incontiguousReports, at most one for a start
  incontiguousCount,  \* ChunkSender.incontiguousReportCount
  aborted,    \* messages with ChunkSender.aborted, always set with remoteAbort
  down,       \* destroyed sockets
  sent,       \* messages given to sendMessage (history)
  written,    \* chunks written, in order (history)
  told,       \* what the callback of each message was told (history)
  acked,      \* ranges reported with 200 for each message (history)
  resumed,    \* messages ChunkSender.resume was called for (history)
  reported,   \* messages whose "report" event was emitted (history)
  reports     \* number of reports received so far

senderVars == <<sentBytes, aborted>>
reportVars == <<ackedBytes, incontiguous, incontiguousCount, acked, resumed,
                reported, reports>>
vars == <<queue, frames, senders, senderVars, down, sent, written, told, reportVars>>

Init ==
  /\ queue = <<>> /\ frames = <<>> /\ senders = {}
  /\ sentBytes = [m \in Messages |-> 0]
  /\ ackedBytes = [m \in Messages |-> 0]
  /\ incontiguous = [m \in Messages |-> {}]
  /\ incontiguousCount = [m \in Messages |-> 0]
  /\ aborted = {} /\ down = {} /\ sent = {} /\ written = <<>>
  /\ told = [m \in Messages |-> <<>>]
  /\ acked = [m \in Messages |-> {}]
  /\ resumed = {} /\ reported = {} /\ reports = 0

-----------------------------------------------------------------------------
(* The loop.                                                               *)

Idle == frames = <<>>
Running(at) == frames # <<>> /\ Last(frames).at = at
Current == Last(frames).msg   \* the sender the innermost loop has taken

GoTo(at, m) == frames' = Append(Front(frames), [at |-> at, msg |-> m])

\* The entry stays where it is.
ShiftForgotten(q) == q

\* Array.shift: the head goes; an empty array stays empty.
Shift(q) == IF q = <<>> THEN q ELSE Tail(q)

\* One chunk short of the end counts as complete.
IsSendCompleteEarly(m) == m \in aborted \/ sentBytes[m] + ChunkSize >= Size[m]

IsSendComplete(m) == m \in aborted \/ sentBytes[m] >= Size[m]

\* The end of a chunk is not capped at the size of the message.
NextEndUncapped(m) == sentBytes[m] + ChunkSize

NextEnd(m) == Min({sentBytes[m] + ChunkSize, Size[m]})

\* ChunkSender.getNextChunk; an abort chunk has no byte range.
NextChunk(m) ==
  IF m \in aborted
  THEN [msg |-> m, start |-> 0, end |-> 0, flag |-> "abort"]
  ELSE [msg |-> m, start |-> sentBytes[m] + 1, end |-> NextEnd(m),
        flag |-> IF NextEnd(m) < Size[m] THEN "continued" ELSE "end"]

GetNextChunk(m) ==
  sentBytes' = IF m \in aborted THEN sentBytes
               ELSE [sentBytes EXCEPT ![m] = NextEnd(m)]

\* Every head leaves the queue before its chunk is sent.
WithoutHead == Tail(queue)

\* The queue once an aborted head has left it.
WithoutAborted == IF Head(queue) \in aborted THEN Tail(queue) ELSE queue

\* Is the application called at a point where it has this liberty?
May(what) == \E at \in Calls : Running(at) /\ <<what, at>> \in Liberties

\* The session whose message it is calls sendMessage; inside a loop, if the
\* application may send at that point.
SendMessage(m) ==
  /\ m \notin sent
  /\ \A n \in Messages \ sent : m <= n
  /\ Idle \/ May("send")
  /\ sent' = sent \cup {m}
  /\ queue' = Append(queue, m)
  /\ senders' = senders \cup {m}
  /\ frames' = Append(frames, [at |-> "loop", msg |-> m])
  /\ UNCHANGED <<senderVars, down, written, told, reportVars>>

\* The loop waits for the reports, too.
LoopEndsWhenAcked ==
  /\ Running("loop") /\ queue = <<>> /\ senders = {}
  /\ frames' = Front(frames)
  /\ UNCHANGED <<queue, senders, senderVars, down, sent, written, told, reportVars>>

LoopEnds ==
  /\ Running("loop") /\ queue = <<>>
  /\ frames' = Front(frames)
  /\ UNCHANGED <<queue, senders, senderVars, down, sent, written, told, reportVars>>

\* One turn of the loop up to the "messageSent" event.  An aborted sender has
\* left the queue, yet its chunk is produced and written.
SendChunk ==
  /\ Running("loop") /\ queue # <<>>
  /\ LET m == Head(queue) IN
     /\ SocketOf[m] \notin down
     /\ queue' = WithoutAborted
     /\ GetNextChunk(m)
     /\ written' = Append(written, NextChunk(m))
     /\ GoTo("sent", m)
  /\ UNCHANGED <<senders, aborted, down, sent, told, reportVars>>

\* The socket is gone: the callback is told before the entry leaves the queue.
SocketUnavailable ==
  /\ Running("loop") /\ queue # <<>>
  /\ LET m == Head(queue) IN
     /\ SocketOf[m] \in down
     /\ queue' = WithoutAborted
     /\ GetNextChunk(m)
     /\ told' = [told EXCEPT ![m] = Append(@, "failed")]
     /\ GoTo("failed", m)
  /\ UNCHANGED <<senders, aborted, down, sent, written, reportVars>>

FailedReturns ==
  /\ Running("failed")
  /\ queue' = Shift(queue)
  /\ GoTo("loop", Current)
  /\ UNCHANGED <<senders, senderVars, down, sent, written, told, reportVars>>

\* The rest of a turn once the listeners have returned: a complete sender
\* leaves the queue and its callback is told, another one goes to its end.
ChunkSent ==
  /\ Running("sent")
  /\ IF IsSendComplete(Current)
     THEN /\ queue' = Shift(queue)
          /\ told' = [told EXCEPT ![Current] = Append(@, "sent")]
          /\ GoTo("done", Current)
     ELSE /\ queue' = IF Len(queue) > 1 THEN Append(Tail(queue), Head(queue)) ELSE queue
          /\ GoTo("loop", Current)
          /\ UNCHANGED told
  /\ UNCHANGED <<senders, senderVars, down, sent, written, reportVars>>

CallbackReturns ==
  /\ Running("done")
  /\ GoTo("loop", Current)
  /\ UNCHANGED <<queue, senders, senderVars, down, sent, written, told, reportVars>>

\* A listener or a callback throws: the innermost loop is left as it is.  The
\* application catches the exception where it called sendMessage.
Throw ==
  /\ May("throw")
  /\ frames' = Front(frames)
  /\ UNCHANGED <<queue, senders, senderVars, down, sent, written, told, reportVars>>

-----------------------------------------------------------------------------
(* What the network and the peers do, while no loop runs.                  *)

Destroy(k) ==
  /\ Idle /\ k \notin down
  /\ down' = down \cup {k}
  /\ UNCHANGED <<queue, frames, senders, senderVars, sent, written, told, reportVars>>

\* Only the reports next to the new one are merged; gaps do not matter.
MergedOnce(from, ranges) ==
  Max({from} \cup {r.end : r \in {p \in ranges : p.start <= from + 1}})

\* The contiguous bytes acknowledged, once every kept report that has become
\* contiguous is merged.
Merged(from, ranges) ==
  LET closed(n) == \A r \in ranges : r.start <= n + 1 => r.end <= n
  IN Min({n \in {from} \cup {r.end : r \in ranges} : n >= from /\ closed(n)})

\* The places of the chunks of a message on the wire.
ChunksOf(m) == {i \in DOMAIN written : written[i].msg = m /\ written[i].flag # "abort"}

\* Reports name a range the sender has written.
ChunkRanges(m) ==
  {[start |-> written[i].start, end |-> written[i].end] : i \in ChunksOf(m)}

\* ChunkSender.isComplete
IsComplete(m) == m \in aborted' \/ ackedBytes'[m] >= Size[m]

\* incomingReport after processReport: a complete sender is forgotten and its
\* session gets the "report" event.
Notify(m) ==
  IF IsComplete(m)
  THEN senders' = senders \ {m} /\ reported' = reported \cup {m}
  ELSE UNCHANGED <<senders, reported>>

MayReport(m) == Idle /\ m \in senders /\ reports < MaxReports

ContiguousReport(m, r) ==
  LET reached == Merged(Max({ackedBytes[m], r.end}), incontiguous[m])
      merged == {p \in incontiguous[m] : p.start <= reached + 1}
  IN /\ r.start <= ackedBytes[m] + 1
     /\ ackedBytes' = [ackedBytes EXCEPT ![m] = reached]
     /\ incontiguous' = [incontiguous EXCEPT ![m] = @ \ merged]
     /\ incontiguousCount' = [incontiguousCount EXCEPT ![m] = @ - Cardinality(merged)]
     /\ UNCHANGED <<sentBytes, resumed>>

\* Too many reports are kept already: ChunkSender.resume.
TooManyReports(m, r) ==
  /\ r.start > ackedBytes[m] + 1
  /\ incontiguousCount[m] > IncontiguousLimit
  /\ sentBytes' = [sentBytes EXCEPT ![m] = ackedBytes[m]]
  /\ incontiguous' = [incontiguous EXCEPT ![m] = {}]
  /\ incontiguousCount' = [incontiguousCount EXCEPT ![m] = 0]
  /\ resumed' = resumed \cup {m}
  /\ UNCHANGED ackedBytes

\* The kept report is not counted.
IncontiguousUncounted(m, r) ==
  /\ r.start > ackedBytes[m] + 1
  /\ incontiguous' = [incontiguous EXCEPT ![m] = {p \in @ : p.start # r.start} \cup {r}]
  /\ UNCHANGED <<ackedBytes, sentBytes, resumed, incontiguousCount>>

IncontiguousReport(m, r) ==
  /\ r.start > ackedBytes[m] + 1
  /\ incontiguousCount[m] <= IncontiguousLimit
  /\ incontiguous' = [incontiguous EXCEPT ![m] = {p \in @ : p.start # r.start} \cup {r}]
  /\ incontiguousCount' = [incontiguousCount EXCEPT ![m] = @ + 1]
  /\ UNCHANGED <<ackedBytes, sentBytes, resumed>>

\* A REPORT with status 200 for a range of bytes.
Report(m, r) ==
  /\ MayReport(m)
  /\ reports' = reports + 1
  /\ acked' = [acked EXCEPT ![m] = @ \cup {r}]
  /\ \/ ContiguousReport(m, r)
     \/ TooManyReports(m, r)
     \/ IncontiguousReport(m, r)
  /\ UNCHANGED aborted
  /\ Notify(m)
  /\ UNCHANGED <<queue, frames, down, sent, written, told>>

\* A REPORT with another status aborts the message.
Refusal(m) ==
  /\ MayReport(m)
  /\ ChunkRanges(m) # {}
  /\ m \in ToSet(queue) => EarlyRefusal
  /\ reports' = reports + 1
  /\ aborted' = aborted \cup {m}
  /\ UNCHANGED <<ackedBytes, incontiguous, incontiguousCount, sentBytes, acked, resumed>>
  /\ Notify(m)
  /\ UNCHANGED <<queue, frames, down, sent, written, told>>

-----------------------------------------------------------------------------
LoopStep ==
  \/ LoopEnds
  \/ SendChunk
  \/ SocketUnavailable
  \/ FailedReturns
  \/ ChunkSent
  \/ CallbackReturns

Next ==
  \/ LoopStep
  \/ Throw
  \/ \E m \in Messages : SendMessage(m)
  \/ \E k \in Sockets : Destroy(k)
  \/ \E m \in Messages : Refusal(m) \/ \E r \in ChunkRanges(m) : Report(m, r)

Spec == Init /\ [][Next]_vars

\* A running loop goes on: nothing else runs in the process meanwhile, and
\* listeners and callbacks return.
FairSpec == Spec /\ WF_vars(LoopStep)

-----------------------------------------------------------------------------
(* Properties.                                                             *)

Flags == {"continued", "end", "abort"}
Ranges == [start : Nat, end : Nat]

\* Every variable keeps the type its JavaScript counterpart has.
TypeOK ==
  /\ queue \in Seq(Messages)
  /\ frames \in Seq([at : Calls \cup {"loop"}, msg : Messages])
  /\ senders \subseteq Messages
  /\ sentBytes \in [Messages -> Nat] /\ ackedBytes \in [Messages -> Nat]
  /\ incontiguous \in [Messages -> SUBSET Ranges]
  /\ incontiguousCount \in [Messages -> Nat]
  /\ aborted \subseteq Messages /\ sent \subseteq Messages
  /\ down \subseteq Sockets
  /\ written \in Seq([msg : Messages, start : Nat, end : Nat, flag : Flags])
  /\ told \in [Messages -> Seq({"sent", "failed"})]
  /\ acked \in [Messages -> SUBSET Ranges]
  /\ resumed \subseteq Messages /\ reported \subseteq Messages
  /\ reports \in Nat

Bytes(r) == r.start..r.end

\* The chunks of a message follow each other byte for byte, whatever other
\* messages the shared queue interleaves and wherever a loop was left: no byte
\* is passed over, also after resume has rewound, none is written twice unless
\* it has, and none lies outside the message.
ChunksFollow ==
  \A m \in Messages : \A i \in ChunksOf(m) :
    LET before == {j \in ChunksOf(m) : j < i} IN
    /\ Bytes(written[i]) \subseteq 1..Size[m]
    /\ \A b \in 1..written[i].start - 1 : \E j \in before : b \in Bytes(written[j])
    /\ m \notin resumed =>
         \A j \in before : Bytes(written[j]) \cap Bytes(written[i]) = {}

\* No message is lost: it leaves the queue with its callback told or because
\* the peer has refused it, although the loop shifts whatever is first.
NeverDropped ==
  \A m \in sent \ aborted : m \in ToSet(queue) \/ told[m] # <<>>

\* The callback of a message is called once, also when it sends the next
\* message or a listener throws.
CalledBackOnce == \A m \in Messages : Len(told[m]) <= 1

\* A callback without an error means that the last byte has been written.
SentIsWritten ==
  \A m \in Messages \ aborted :
    "sent" \in ToSet(told[m]) =>
      \E i \in DOMAIN written : written[i].msg = m /\ written[i].flag = "end"

Covered(m) == \A b \in 1..Size[m] : \E r \in acked[m] : b \in Bytes(r)

\* The "report" event tells the application that the peer has acknowledged
\* every byte, in whatever order the reports came, or has refused the message.
\* And it is not withheld: with every byte acknowledged the message is
\* complete, unless reports were thrown away by resume.
ReportedIsAcked ==
  /\ \A m \in reported \ aborted : Covered(m)
  /\ \A m \in sent \ resumed : Size[m] > 0 /\ Covered(m) => m \in reported

\* A running loop ends with nothing left to send, unless it is left by an
\* exception: it cannot spin on an entry that never leaves the queue.
LoopTerminates == frames # <<>> ~> frames = <<>>

\* Once a peer has refused a message, no chunk of it is written.
AbortStopsSending ==
  [][\A m \in aborted :
       Len(SelectSeq(written', LAMBDA c : c.msg = m))
         = Len(SelectSeq(written, LAMBDA c : c.msg = m))]_vars
=============================================================================
