---------------------------- MODULE ArchiveReceiver --------------------------
(***************************************************************************)
(* The archived SSF receiver (archive/pkg/receiver.go): a program that     *)
(* configures a receiver, polls by hand or has a goroutine poll and call   *)
(* it back, asks for or sets the status of its stream, and deletes the     *)
(* receiver; with the transmitter it talks to.  A program that has deleted *)
(* its receiver leaves it alone, but for deleting it again.                *)
(*                                                                         *)
(* The goroutine of the program is "main", the poll loop is "loop"; they   *)
(* meet on the unbuffered channel terminate, which exists only if there is *)
(* a loop.                                                                 *)
(***************************************************************************)
EXTENDS ArchiveEvents, Naturals, FiniteSets

CONSTANTS
  Sets,       \* SETs of the stream, by jti
  Contents,   \* what they may contain: a set of functions on Sets
  Statuses,   \* statuses the program sets: enabled, paused, disabled
  MaxEvents   \* events in an answer (10)

ASSUME ContentsAssumption == Contents \subseteq [Sets -> Content]

ASSUME StatusesAssumption ==
  "enabled" \in Statuses /\ Statuses \subseteq {"enabled", "paused", "disabled"}

ASSUME MaxEventsAssumption == MaxEvents \in Nat

VARIABLES
  callback,    \* the configuration has a PollCallback
  content,     \* content[e]: what SET e contains
  main,        \* where the program's goroutine is
  loop,        \* where the poll loop is
  poll,        \* poll[p]: the PollEvents of goroutine p
  crashed,     \* the process has ended in a panic
  asked,       \* the status the call under way asks for, "any" to be told it
  answer,      \* the transmitter's answer to it
  had,         \* (history) statuses the stream has had since that call began
  givenUp,     \* statuses asked for by requests given up on their way
  result,      \* what the status call returned that has just ended
  stream,      \* the stream at the transmitter
  status,      \* its status
  offered,     \* SETs the transmitter has put on the stream
  acked,       \* SETs it holds for acknowledged
  batches,     \* sets of SETs acknowledged together
  unanswered,  \* SETs acknowledged by a request whose answer was lost
  handed       \* events given to the program, with their types

transmitter == <<stream, status, offered>>
statusCall  == <<asked, answer, had, givenUp, result>>
delivery    == <<acked, batches, unanswered, handed>>
vars == <<callback, content, main, loop, poll, crashed, statusCall, transmitter, delivery>>

Pollers == {"main", "loop"}

NoPoll == [pc |-> "idle", batch |-> {}]

Poll == [pc: {"idle", "requesting", "acking", "parsing"}, batch: SUBSET Sets]

TypeOK ==
  /\ callback \in BOOLEAN
  /\ content \in Contents
  /\ main \in {"start", "creating", "ready", "polling", "asking",
               "terminating", "deleting", "deleted", "failed"}
  /\ loop \in {"none", "selecting", "polling", "calling", "sleeping", "terminating",
               "ended"}
  /\ poll \in [Pollers -> Poll]
  /\ \A p \in Pollers : poll[p].pc \in {"acking", "parsing"} => poll[p].batch # {}
  /\ crashed \in BOOLEAN
  /\ asked \in Statuses \cup {"any", "none"}
  /\ answer \in Statuses \cup {"none", "zero"}
  /\ had \subseteq Statuses
  /\ givenUp \subseteq Statuses
  /\ result \in Statuses \cup {"none", "zero", "error"}
  /\ stream \in {"none", "exists", "gone"}
  /\ status \in Statuses
  /\ offered \subseteq Sets
  /\ acked \subseteq offered
  /\ batches \subseteq SUBSET offered
  /\ unanswered \subseteq offered
  /\ handed \subseteq offered \X EventTypes

Init ==
  /\ callback \in BOOLEAN
  /\ content \in Contents
  /\ main = "start"
  /\ loop = "none"
  /\ poll = [p \in Pollers |-> NoPoll]
  /\ crashed = FALSE
  /\ asked = "none"
  /\ answer = "none"
  /\ had = {}
  /\ givenUp = {}
  /\ result = "none"
  /\ stream = "none"
  /\ status = "enabled"
  /\ offered = {}
  /\ acked = {}
  /\ batches = {}
  /\ unanswered = {}
  /\ handed = {}

At(pc) == main = pc /\ ~ crashed

-----------------------------------------------------------------------------
\* ConfigureSsfReceiver.

\* The configuration is complete, and the transmitter's metadata names the
\* endpoint to create streams at.
MetadataFetched ==
  /\ At("start")
  /\ main' = "creating"
  /\ UNCHANGED <<callback, content, loop, poll, crashed, statusCall, transmitter, delivery>>

ConfigureFails ==
  /\ At("start") \/ At("creating")
  /\ main' = "failed"
  /\ UNCHANGED <<callback, content, loop, poll, crashed, statusCall, transmitter, delivery>>

\* The transmitter creates the stream, or refuses to: the status of its answer
\* is not looked at, and a refusal in JSON leaves an empty stream ID.  The loop
\* starts with the receiver.
StreamCreated ==
  /\ At("creating")
  /\ stream' \in {"none", "exists"}
  /\ main' = "ready"
  /\ loop' = IF callback THEN "selecting" ELSE "none"
  /\ UNCHANGED <<callback, content, poll, crashed, statusCall, status, offered, delivery>>

\* The answer, or its JSON, does not arrive.
CreationUnanswered ==
  /\ At("creating")
  /\ stream' = "exists"
  /\ main' = "failed"
  /\ UNCHANGED <<callback, content, loop, poll, crashed, statusCall, status, offered, delivery>>

-----------------------------------------------------------------------------
\* PollEvents, called by the program or by the loop.

Enters(p) == poll' = [poll EXCEPT ![p].pc = "requesting"]

\* The program gets what PollEvents returns; the loop calls back with it, or
\* panics with its error.
Hand(p, events) ==
  /\ poll' = [poll EXCEPT ![p] = [NoPoll EXCEPT !.batch = IF p = "loop" THEN events ELSE {}]]
  /\ IF p = "loop"
     THEN loop' = "calling" /\ UNCHANGED <<main, handed>>
     ELSE /\ main' = "ready"
          /\ handed' = handed \cup {<<e, ParseSet(content[e])>> : e \in events}
          /\ UNCHANGED loop
  /\ UNCHANGED crashed

\* (mutant) the loop gives up on an error
FailQuietly(p) ==
  /\ poll' = [poll EXCEPT ![p] = NoPoll]
  /\ IF p = "loop"
     THEN loop' = "ended" /\ UNCHANGED <<crashed, main>>
     ELSE main' = "ready" /\ UNCHANGED <<crashed, loop>>
  /\ UNCHANGED handed

Fail(p) ==
  /\ poll' = [poll EXCEPT ![p] = NoPoll]
  /\ IF p = "loop"
     THEN crashed' = TRUE /\ UNCHANGED <<main, loop>>
     ELSE main' = "ready" /\ UNCHANGED <<crashed, loop>>
  /\ UNCHANGED handed

PollPc(p, pc) == poll[p].pc = pc /\ ~ crashed

\* (mutant) an answer without SETs is acknowledged as well
PollAnsweredAny(p) ==
  /\ PollPc(p, "requesting")
  /\ \E batch \in SUBSET (offered \ acked) :
       poll' = [poll EXCEPT ![p] = [pc |-> "acking", batch |-> batch]]
  /\ UNCHANGED <<callback, content, main, loop, crashed, statusCall, transmitter, delivery>>

\* The transmitter answers with SETs that nobody has acknowledged.
PollAnswered(p) ==
  /\ PollPc(p, "requesting")
  /\ \E batch \in SUBSET (offered \ acked) :
       /\ batch # {}
       /\ Cardinality(batch) <= MaxEvents
       /\ poll' = [poll EXCEPT ![p] = [pc |-> "acking", batch |-> batch]]
  /\ UNCHANGED <<callback, content, main, loop, crashed, statusCall, transmitter, delivery>>

\* No SETs; or a status other than 200 and 202, or no JSON, which make none.
PollAnsweredNone(p) ==
  /\ PollPc(p, "requesting")
  /\ Hand(p, {})
  /\ UNCHANGED <<callback, content, statusCall, transmitter, acked, batches, unanswered>>

PollUnanswered(p) ==
  /\ PollPc(p, "requesting")
  /\ Fail(p)
  /\ UNCHANGED <<callback, content, statusCall, transmitter, acked, batches, unanswered>>

\* The SETs are acknowledged before anything is known of them.  The status of
\* the answer is not looked at: the transmitter may have refused.
Ack(p) ==
  /\ PollPc(p, "acking")
  /\ acked' \in {acked, acked \cup poll[p].batch}
  /\ batches' = batches \cup {poll[p].batch}
  /\ poll' = [poll EXCEPT ![p].pc = "parsing"]
  /\ UNCHANGED <<callback, content, main, loop, crashed, statusCall, transmitter,
                 unanswered, handed>>

\* No answer, whether or not the transmitter has acted: PollEvents returns no
\* events and no error.
AckUnanswered(p) ==
  /\ PollPc(p, "acking")
  /\ acked' \in {acked, acked \cup poll[p].batch}
  /\ unanswered' = unanswered \cup poll[p].batch
  /\ Hand(p, {})
  /\ UNCHANGED <<callback, content, statusCall, transmitter, batches>>

\* (mutant) the list of events is overwritten, not appended to
ParsedLast(p) ==
  /\ PollPc(p, "parsing")
  /\ \A e \in poll[p].batch : Parses(content[e])
  /\ \E e \in poll[p].batch : Hand(p, {e})
  /\ UNCHANGED <<callback, content, statusCall, transmitter, acked, batches, unanswered>>

Parsed(p) ==
  /\ PollPc(p, "parsing")
  /\ \A e \in poll[p].batch : Parses(content[e])
  /\ Hand(p, poll[p].batch)
  /\ UNCHANGED <<callback, content, statusCall, transmitter, acked, batches, unanswered>>

\* One SET that cannot be parsed makes an error of the whole answer.
NotParsed(p) ==
  /\ PollPc(p, "parsing")
  /\ \E e \in poll[p].batch : ParseSet(content[e]) = "error"
  /\ Fail(p)
  /\ UNCHANGED <<callback, content, statusCall, transmitter, acked, batches, unanswered>>

\* A SET without events panics, if no other one fails first.
ParsePanics(p) ==
  /\ PollPc(p, "parsing")
  /\ \E e \in poll[p].batch : ParseSet(content[e]) = "panic"
  /\ crashed' = TRUE
  /\ UNCHANGED <<callback, content, main, loop, poll, statusCall, transmitter, delivery>>

PollStep(p) ==
  \/ PollAnswered(p) \/ PollAnsweredNone(p) \/ PollUnanswered(p)
  \/ Ack(p) \/ AckUnanswered(p)
  \/ Parsed(p) \/ NotParsed(p) \/ ParsePanics(p)

-----------------------------------------------------------------------------
\* The loop of InitPollInterval.

\* A send on terminate that is waiting is taken; otherwise the loop polls.
LoopPolls ==
  /\ loop = "selecting" /\ ~ crashed
  /\ main # "terminating"
  /\ Enters("loop")
  /\ loop' = "polling"
  /\ UNCHANGED <<callback, content, main, crashed, statusCall, transmitter, delivery>>

\* The callback returns, or calls DeleteReceiver: that waits for the loop, which
\* waits for the callback.
CallBack ==
  /\ loop = "calling" /\ ~ crashed
  /\ handed' = handed \cup {<<e, ParseSet(content[e])>> : e \in poll["loop"].batch}
  /\ poll' = [poll EXCEPT !["loop"] = NoPoll]
  /\ loop' \in {"sleeping", "terminating"}
  /\ UNCHANGED <<callback, content, main, crashed, statusCall, transmitter,
                 acked, batches, unanswered>>

Wake ==
  /\ loop = "sleeping" /\ ~ crashed
  /\ loop' = "selecting"
  /\ UNCHANGED <<callback, content, main, poll, crashed, statusCall, transmitter, delivery>>

-----------------------------------------------------------------------------
\* The program, when it has a receiver.

PollByHand ==
  /\ At("ready")
  /\ Enters("main")
  /\ main' = "polling"
  /\ result' = "none"
  /\ UNCHANGED <<callback, content, loop, crashed, asked, answer, had, givenUp, transmitter,
                 delivery>>

\* EnableStream, PauseStream, DisableStream and GetStreamStatus send one request
\* each.
AskStatus(want) ==
  /\ At("ready")
  /\ main' = "asking"
  /\ asked' = want
  /\ had' = {status}
  /\ result' = "none"
  /\ UNCHANGED <<callback, content, loop, poll, crashed, answer, givenUp, transmitter, delivery>>

Return(value) ==
  /\ main' = "ready"
  /\ asked' = "none"
  /\ answer' = "none"
  /\ had' = {}
  /\ result' = value
  /\ UNCHANGED <<callback, content, loop, poll, crashed, transmitter, delivery>>

\* (mutant) an update returns what it asked for
ReturnAsked ==
  /\ At("asking")
  /\ answer # "none"
  /\ \E value \in {IF asked = "any" THEN answer ELSE asked, "error"} : Return(value)
  /\ UNCHANGED givenUp

\* The status in the answer is returned; the status of the answer is not looked
\* at.  An answer that breaks off, or is no JSON, is an error.
ReturnStatus ==
  /\ At("asking")
  /\ answer # "none"
  /\ \E value \in {answer, "error"} : Return(value)
  /\ UNCHANGED givenUp

\* No status endpoint, or no answer; what the request asks for may be done yet.
StatusUnanswered ==
  /\ At("asking")
  /\ answer = "none"
  /\ Return("error")
  /\ givenUp' \in {givenUp, givenUp \cup ({asked} \ {"any"})}

\* It may be called again.
DeleteReceiver ==
  /\ At("ready") \/ At("deleted")
  /\ main' = "terminating"
  /\ result' = "none"
  /\ UNCHANGED <<callback, content, loop, poll, crashed, asked, answer, had, givenUp,
                 transmitter, delivery>>

\* (mutant) the channel is buffered
TerminateBuffered ==
  /\ At("terminating")
  /\ callback
  /\ main' = "deleting"
  /\ UNCHANGED <<callback, content, loop, poll, crashed, statusCall, transmitter, delivery>>

\* terminate is unbuffered: the send and the receive are one step.  Without a
\* loop the channel is nil, after the loop nobody receives: the call never ends.
Terminate ==
  /\ At("terminating")
  /\ loop = "selecting"
  /\ main' = "deleting"
  /\ loop' = "ended"
  /\ UNCHANGED <<callback, content, poll, crashed, statusCall, transmitter, delivery>>

\* The status of the answer is not looked at.
Deleted ==
  /\ At("deleting")
  /\ stream' \in {stream, IF stream = "exists" THEN "gone" ELSE stream}
  /\ main' = "deleted"
  /\ UNCHANGED <<callback, content, loop, poll, crashed, statusCall, status, offered, delivery>>

DeletionUnanswered ==
  /\ At("deleting")
  /\ stream' \in {stream, IF stream = "exists" THEN "gone" ELSE stream}
  /\ crashed' = TRUE
  /\ UNCHANGED <<callback, content, main, loop, poll, statusCall, status, offered, delivery>>

-----------------------------------------------------------------------------
\* The transmitter.

Offer(e) ==
  /\ stream = "exists"
  /\ e \notin offered
  /\ offered' = offered \cup {e}
  /\ UNCHANGED <<callback, content, main, loop, poll, crashed, statusCall, stream, status,
                 delivery>>

\* The stream's status is set, or left as it is; the answer tells it, or is JSON
\* without a status (for GetStreamStatus, no JSON at all), which is read as zero.
ServeStatus ==
  /\ main = "asking"
  /\ answer = "none"
  /\ \/ asked # "any" /\ status' = asked
     \/ status' = status
  /\ answer' \in {status', "zero"}
  /\ had' = had \cup {status'}
  /\ UNCHANGED <<callback, content, main, loop, poll, crashed, asked, givenUp, result,
                 stream, offered, delivery>>

\* An update whose caller has given it up is carried out: once or more, as more
\* than one may have asked for the same.
LateUpdate(want) ==
  /\ want \in givenUp
  /\ status' = want
  /\ had' = IF main = "asking" THEN had \cup {want} ELSE had
  /\ UNCHANGED <<callback, content, main, loop, poll, crashed, asked, answer, givenUp, result,
                 stream, offered, delivery>>

\* An acknowledgment whose caller has given it up arrives.
LateAck(e) ==
  /\ e \in unanswered \ acked
  /\ acked' = acked \cup {e}
  /\ UNCHANGED <<callback, content, main, loop, poll, crashed, statusCall, transmitter,
                 batches, unanswered, handed>>

Next ==
  \/ MetadataFetched \/ ConfigureFails \/ StreamCreated \/ CreationUnanswered
  \/ PollByHand \/ DeleteReceiver \/ Terminate
  \/ ServeStatus \/ ReturnStatus \/ StatusUnanswered
  \/ Deleted \/ DeletionUnanswered
  \/ LoopPolls \/ CallBack \/ Wake
  \/ \E p \in Pollers : PollStep(p)
  \/ \E want \in Statuses \cup {"any"} : AskStatus(want)
  \/ \E want \in Statuses : LateUpdate(want)
  \/ \E e \in Sets : Offer(e) \/ LateAck(e)

Spec == Init /\ [][Next]_vars

\* The loop runs and wakes up, a send on terminate that can be taken is taken,
\* and polls and the deletion get an answer or an error in the end.
Fairness ==
  /\ WF_vars(LoopPolls) /\ WF_vars(CallBack) /\ WF_vars(Wake)
  /\ WF_vars(Terminate) /\ WF_vars(Deleted \/ DeletionUnanswered)
  /\ \A p \in Pollers : WF_vars(PollStep(p))

FairSpec == Spec /\ Fairness

-----------------------------------------------------------------------------
\* SETs a goroutine has received and not handed over.
Taken == UNION {poll[p].batch : p \in Pollers}

\* Their events are on their way to the program while it lives.
InHand == IF crashed THEN {} ELSE Taken

LostInPanic == IF crashed THEN Taken ELSE {}

HandedOver == {h[1] : h \in handed}

\* A SET that is acknowledged has its event handed to the program, or is on the
\* way.  It is lost in three cases only, as PollEvents acknowledges first: beside
\* a SET that cannot be parsed; when the answer to the acknowledgment did not
\* come; and when the process ended in a panic, be it of the other goroutine,
\* between the answer to the poll and the handing over.
AckedIsHanded ==
  \A e \in acked \ (HandedOver \cup InHand \cup LostInPanic \cup unanswered) :
    \E b \in batches : e \in b /\ \E x \in b : ~ Parses(content[x])

\* Once DeleteReceiver goes on to delete the stream, and ever after, no loop
\* polls or calls back (InitPollInterval, DeleteReceiver).
DeletedIsQuiet ==
  main \in {"deleting", "deleted"} => loop = "ended" /\ poll["loop"].pc = "idle"

\* The first DeleteReceiver of a receiver that polls by itself returns, whatever
\* the loop is doing when it is called, unless the loop's panic ends the process
\* or the callback calls DeleteReceiver, too (DeleteReceiver, InitPollInterval).
DeleteReturns ==
  callback /\ main = "terminating" /\ loop # "ended" ~>
    main = "deleted" \/ crashed \/ loop = "terminating"

\* A status that is returned is one the stream has had since the call began: no
\* refusal, lost answer or late update of an earlier call makes a call report a
\* status the stream did not have (sendStatusUpdateRequest, GetStreamStatus).
StatusHadDuringCall ==
  [][result' # result /\ result' \in Statuses => result' \in had]_vars
=============================================================================
