----------------------------- MODULE Reporting -----------------------------
(***************************************************************************)
(* Delivery reports from one end to the other.  Two processes run the      *)
(* library: the sender (SendQueue) writes the chunks of its messages to    *)
(* sockets, the receiver (Transfer) answers each chunk, and the callback   *)
(* of the answer's write sends a REPORT back (SocketHandler: sendResponse, *)
(* sendReport), which the sender handles (incomingReport).                 *)
(*                                                                         *)
(* TCP keeps the order of each direction of a connection, so a connection  *)
(* is a pair of queues.  Every chunk asks for reports (requestReports is   *)
(* on).  Each socket carries one session of the receiver, which its        *)
(* application may remove.                                                 *)
(***************************************************************************)
EXTENDS SendQueue, Integers

CONSTANTS
  Widths, BufferSize, NoReceiver,   \* see Transfer
  Removable  \* sockets whose session the receiver may remove

VARIABLES
  \* the receiver: see Transfer
  left, cut, receivers, stale, polling, inbox, refused, expired,
  \* the connections
  taken,    \* the place in written of the last chunk read from each socket
  owed,     \* answers whose write callback is pending, in order
  back,     \* REPORTs on their way to the sender
  removed,  \* sockets whose session the receiver has removed
  crashed   \* an exception has left a callback of the receiver

receiveVars == <<left, cut, receivers, stale, polling, inbox, refused, expired>>
wireVars == <<taken, owed, back, removed, crashed>>
bothVars == <<vars, receiveVars, wireVars>>

R == INSTANCE Transfer WITH Liberties <- {}

ASSUME ReceiverAssumption == R!TransferAssumption /\ R!NullAssumption
ASSUME SizeAssumption == Size = [m \in Messages |-> Len(R!Body[m])]

BothInit ==
  /\ Init /\ R!Init
  /\ taken = [k \in Sockets |-> 0]
  /\ owed = [k \in Sockets |-> <<>>]
  /\ back = [k \in Sockets |-> <<>>]
  /\ removed = {} /\ crashed = FALSE

-----------------------------------------------------------------------------
(* The sender on its own.                                                  *)

SenderStep ==
  /\ \/ LoopStep
     \/ \E m \in Messages : SendMessage(m)
     \/ \E k \in Sockets : Destroy(k)
  /\ UNCHANGED <<receiveVars, wireVars>>

-----------------------------------------------------------------------------
(* The receiver.                                                           *)

\* The places in written of the chunks a socket carries: those that have been
\* read, and those that are still on their way.
Read(k) == {i \in 1..taken[k] : SocketOf[written[i].msg] = k}
Unread(k) == {i \in DOMAIN written : i > taken[k] /\ SocketOf[written[i].msg] = k}

Index(c) == (c.start - 1) \div ChunkSize + 1

Parsed(c) == R!Chunk(c.msg, Index(c), Size[c.msg])

\* String.length: characters, not bytes; three bytes of garbage are the one
\* character U+FFFD.
StringLength(bytes) ==
  Cardinality({j \in DOMAIN bytes : bytes[j].char > 0 /\ bytes[j].at = 1})
    + Cardinality({j \in DOMAIN bytes : bytes[j] = R!Garbage}) \div 3

\* The body a request has when its answer has been written: that of the last
\* chunk has been replaced by the whole message.
BodyLater(c) ==
  LET m == c.msg
      r == R!ProcessChunk(receivers[m], Parsed(c))
  IN IF c.start > 1 /\ R!IsComplete(r) THEN r.buffer ELSE Parsed(c).body

\* 413 for a chunk of an unknown or an aborted message.
StopSending(c) ==
  /\ c.start > 1
  /\ receivers[c.msg] = NoReceiver \/ R!Fails(receivers[c.msg], Parsed(c))

\* The answer to a request of a session.
Answer(c) ==
  IF StopSending(c) THEN [chunk |-> c, body |-> Parsed(c).body, status |-> 413]
  ELSE [chunk |-> c, body |-> BodyLater(c), status |-> 200]

NoSession(c) == [chunk |-> c, body |-> <<>>, status |-> 481]

\* A request is handled: without its session the answer is 481.
Handle(k, c) ==
  IF k \in removed
  THEN /\ owed' = [owed EXCEPT ![k] = Append(@, NoSession(c))]
       /\ UNCHANGED receiveVars
  ELSE /\ R!ArriveWith(c.msg, Index(c), Size[c.msg])
       /\ owed' = [owed EXCEPT ![k] = Append(@, Answer(c))]

MayRead(k) == ~crashed /\ Unread(k) # {}

Request(k) ==
  /\ MayRead(k)
  /\ taken' = [taken EXCEPT ![k] = Min(Unread(k))]
  /\ Handle(k, written[Min(Unread(k))])
  /\ UNCHANGED <<vars, back, removed, crashed>>

\* The end of the reported range is not taken from the request.
ReportEndOfBody(a) ==
  IF a.body = <<>> THEN 0
  ELSE a.chunk.start + StringLength(a.body) - 1

\* sendReport does not trust the end of the request's range, except that of
\* the last chunk.
ReportEnd(a) ==
  IF a.body = <<>> THEN 0
  ELSE IF a.chunk.end = Size[a.chunk.msg] THEN a.chunk.end
  ELSE a.chunk.start + StringLength(a.body) - 1

\* Every report says that the chunk was received.
ReportAlways(a) ==
  [msg |-> a.chunk.msg, start |-> a.chunk.start, end |-> ReportEnd(a), status |-> 200]

ReportFor(a) ==
  [msg |-> a.chunk.msg, start |-> a.chunk.start, end |-> ReportEnd(a), status |-> a.status]

\* The report is sent when the answer is written and again by the callback.
ResponseWrittenTwice(k) ==
  /\ ~crashed /\ owed[k] # <<>>
  /\ back' = [back EXCEPT ![k] = @ \o <<ReportFor(Head(owed[k])), ReportFor(Head(owed[k]))>>]
  /\ owed' = [owed EXCEPT ![k] = Tail(@)]
  /\ UNCHANGED <<vars, receiveVars, taken, removed, crashed>>

\* Only success is reported.
ResponseWrittenSuccess(k) ==
  /\ ~crashed /\ owed[k] # <<>>
  /\ owed' = [owed EXCEPT ![k] = Tail(@)]
  /\ back' = IF Head(owed[k]).status = 200
             THEN [back EXCEPT ![k] = Append(@, ReportFor(Head(owed[k])))] ELSE back
  /\ UNCHANGED <<vars, receiveVars, taken, removed, crashed>>

\* The callback of the answer's write looks the session up again and sends the
\* report for it; without a session that is a TypeError.
ResponseWritten(k) ==
  /\ ~crashed /\ owed[k] # <<>>
  /\ IF k \in removed
     THEN crashed' = TRUE /\ UNCHANGED <<owed, back>>
     ELSE /\ owed' = [owed EXCEPT ![k] = Tail(@)]
          /\ back' = [back EXCEPT ![k] = Append(@, ReportFor(Head(owed[k])))]
          /\ UNCHANGED crashed
  /\ UNCHANGED <<vars, receiveVars, taken, removed>>

ReceiverTimes ==
  /\ ~crashed
  /\ R!Poll \/ \E m \in Messages : R!Wait(m)
  /\ UNCHANGED <<vars, wireVars>>

\* The application removes the session while chunks may be on their way.
RemoveSession(k) ==
  /\ ~crashed /\ k \in Removable \ removed
  /\ removed' = removed \cup {k}
  /\ UNCHANGED <<vars, receiveVars, taken, owed, back, crashed>>

-----------------------------------------------------------------------------
(* A REPORT reaches the sender, unless its socket is destroyed; one for a   *)
(* message that is not awaited is ignored.                                 *)

ReportArrives(k) ==
  /\ Idle /\ k \notin down /\ back[k] # <<>>
  /\ back' = [back EXCEPT ![k] = Tail(@)]
  /\ LET r == Head(back[k]) IN
     IF r.msg \notin senders THEN UNCHANGED vars
     ELSE IF r.status = 200 THEN Report(r.msg, [start |-> r.start, end |-> r.end])
     ELSE Refusal(r.msg)
  /\ UNCHANGED <<receiveVars, taken, owed, removed, crashed>>

-----------------------------------------------------------------------------
BothNext ==
  \/ SenderStep
  \/ ReceiverTimes
  \/ \E k \in Sockets :
       Request(k) \/ ResponseWritten(k) \/ RemoveSession(k) \/ ReportArrives(k)

BothSpec == BothInit /\ [][BothNext]_bothVars

\* The sending loop goes on, and what has been written to a connection is
\* read at its other end.  The formula for Request is weak fairness with the
\* enabling condition written out, which TLC evaluates faster.
FairBothSpec ==
  /\ BothSpec
  /\ WF_bothVars(LoopStep /\ UNCHANGED <<receiveVars, wireVars>>)
  /\ \A k \in Sockets :
       /\ []<>~MayRead(k) \/ []<><<Request(k)>>_bothVars
       /\ WF_bothVars(ResponseWritten(k)) /\ WF_bothVars(ReportArrives(k))

-----------------------------------------------------------------------------
(* Properties.                                                             *)

\* The state of both ends; no more answers and reports are under way, to be
\* written or to arrive, than chunks were read.
BothTypeOK ==
  /\ TypeOK /\ R!TypeOK
  /\ \A k \in Sockets :
       /\ taken[k] \in 0..Len(written)
       /\ Len(owed[k]) + Len(back[k]) <= Cardinality(Read(k))
  /\ removed \subseteq Removable
  /\ crashed \in BOOLEAN

\* No character wider than a byte begins in any chunk but the last: the end of
\* a reported range, which counts characters, is that of the chunk.
Narrow ==
  \A m \in Messages : \A j \in 1..(R!NumChunks(m) - 1) * ChunkSize :
    Widths[m][R!Body[m][j].char] = 1

\* Both ends together implement Outcome: what the sender's application is told
\* of a message by the "report" event is what has become of it at the other
\* end, although one end counts bytes and chunks and the other reassembles,
\* gives up and refuses.
Heard ==
  [m \in Messages |-> IF m \notin reported THEN "nothing"
                      ELSE IF m \in aborted THEN "failure" ELSE "success"]
Promise == INSTANCE Outcome
  WITH delivered <- {m \in Messages : inbox[m] # <<>>}, lost <- refused, heard <- Heard
ImplementsOutcome == Promise!Spec

\* The receiver keeps to what the sender's correctness rests on: reports come
\* for ranges that were written, and refusals for messages not queued.
KeepsToSendQueue == Spec

\* Whoever sends a message hears of it, unless the connection breaks or the
\* process at the other end does.
SentIsHeard ==
  \A m \in Messages :
    (m \in sent) ~> (m \in reported \/ SocketOf[m] \in down \/ crashed)
=============================================================================
