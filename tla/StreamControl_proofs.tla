------------------------- MODULE StreamControl_proofs ------------------------
(***************************************************************************)
(* Proofs about a stream object with all its operations, for any           *)
(* goroutines, events, delivery endpoints, subjects and programs: what is  *)
(* proved of PollStream holds of it, polls go where the stream is polled,  *)
(* and the copy of the configuration is the transmitter's.                 *)
(***************************************************************************)
EXTENDS StreamControl, PollStream_proofs

-----------------------------------------------------------------------------
\* Every step of the whole object is a step of PollStream or leaves it alone.

LEMMA CallerStep ==
  ASSUME NEW c \in Callers,
         \/ Pass(c) \/ DoPoll(c) \/ DoAcknowledge(c) \/ DoAutoAcknowledge(c)
         \/ Return(c) \/ PollServed(c) \/ PollGivenUp(c)
         \/ Ask(c) \/ Served(c) \/ NotServed(c) \/ GivenUp(c) \/ Attempt(c)
         \/ Configured(c) \/ Succeeded(c) \/ Failed(c)
  PROVE  [Next]_vars
<1>1. CASE DoPoll(c) \/ DoAcknowledge(c) \/ DoAutoAcknowledge(c) \/ Return(c)
  <2>1. Operation(c)
    BY <1>1 DEF DoPoll, DoAcknowledge, DoAutoAcknowledge, Return, Operation
  <2> QED
    BY <2>1 DEF Next
<1>2. CASE PollServed(c) \/ PollGivenUp(c)
  <2>1. ServeOk(c) \/ ServeNotOk(c) \/ GiveUp(c) \/ Loop(c)
    BY <1>2 DEF PollServed, PollGivenUp
  <2> QED
    BY <2>1 DEF Next
<1>3. CASE \/ Pass(c) \/ Ask(c) \/ Served(c) \/ NotServed(c) \/ GivenUp(c) \/ Attempt(c)
           \/ Configured(c) \/ Succeeded(c) \/ Failed(c)
  <2>1. UNCHANGED vars
    BY <1>3 DEF Pass, Ask, Served, NotServed, GivenUp, Attempt, Configured, Succeeded,
                Failed, End
  <2> QED
    BY <2>1
<1> QED
  BY <1>1, <1>2, <1>3

LEMMA ControlStep == [ControlNext]_<<vars, ctlVars>> => [Next]_vars
<1> SUFFICES ASSUME [ControlNext]_<<vars, ctlVars>>
             PROVE  [Next]_vars
  OBVIOUS
<1>1. ASSUME NEW e \in Events, Arrives(e)
      PROVE  [Next]_vars
  BY <1>1 DEF Arrives, Next
<1>2. ASSUME NEW cmd \in late, ServedLate(cmd)
      PROVE  [Next]_vars
  BY <1>2 DEF ServedLate
<1>3. CASE ControlRestart
  BY <1>3 DEF ControlRestart, Next
<1>4. CASE UNCHANGED <<vars, ctlVars>>
  BY <1>4
<1> QED
  BY <1>1, <1>2, <1>3, <1>4, CallerStep DEF ControlNext

\* A stream object with all its operations implements PollStream: the operations
\* that command the transmitter, and the guards and the endpoints of the copy of
\* the configuration, never make it poll or acknowledge in a way of their own
\* (ssfreceiver/stream/operations.go).
THEOREM ControlImplements == ControlSpec => Spec
<1>1. ControlInit => Init
  BY DEF ControlInit
<1> QED
  BY <1>1, ControlStep, PTL DEF ControlSpec, Spec

\* No event is lost among all the operations of a stream object (doPoll,
\* doAcknowledge).
THEOREM ControlLosesNothing == ControlSpec => []NothingLost
  BY ControlImplements, PollLosesNothing, PTL

\* So what a program is promised of its events holds beside all the other
\* operations (doPoll, doAcknowledge).
THEOREM ControlKeepsEvents == ControlSpec => EventsKept
  BY ControlImplements, PollImplements, PTL

-----------------------------------------------------------------------------
\* The invariant: what a goroutine on its way to send a poll knows of the copy of
\* the configuration, what a command whose request has succeeded has done, and
\* when the copy is the transmitter's configuration.

\* c is about to send, or has sent, a poll or an acknowledgment.
Entered(c) == gate[c].op # "none" \/ call[c].op # "none"

GateOK(c) ==
  /\ Entered(c) => gate[c] # NoGate /\ (config \in PollPlaces \/ gate[c].moved)
  /\ call[c].op # "none" => gate[c].place \in PollPlaces \/ gate[c].moved

\* What the transmitter has done for a command that it says it has carried out.
Effective(c) ==
  /\ command[c].carried
  /\ command[c].op = "configure" => command[c].got \in Places
  /\ command[c].op = "setstatus" => command[c].cmd.arg \in command[c].held
  /\ command[c].op = "getstatus" => command[c].got \in command[c].held

CommandOK(c) ==
  /\ command[c].op = command[c].cmd.op
  /\ command[c].op = "none" => ctlRequest[c] = NoRequest
  /\ command[c].op # "none" => command[c].result = "none"
  /\ command[c].op # "none" /\ ctlRequest[c].answer = "ok" => Effective(c)

\* An update by itself is answered with what the stream is until it returns.
AloneOK(c) ==
  UnderWay(c, "configure") /\ command[c].alone =>
    /\ \A d \in Callers \ {c} : ~ UnderWay(d, "configure")
    /\ ctlRequest[c].answer = "ok" => command[c].got = remote.place

CopyOK ==
  ~ unsure /\ (\A c \in Callers : UnderWay(c, "configure") => ~ command[c].carried) =>
    config = remote.place

GatesOK == \A c \in Callers : GateOK(c)
CommandsOK == \A c \in Callers : CommandOK(c)
UpdatesOK == (\A c \in Callers : AloneOK(c)) /\ CopyOK

ControlInv == ControlTypeOK /\ GatesOK /\ CommandsOK /\ UpdatesOK

-----------------------------------------------------------------------------
\* Records.

LEMMA NoGateType == NoGate \in Gate /\ NoGate.op = "none"
  BY DEF NoGate, Gate

LEMMA NoCommandType ==
  /\ NoCommand \in Command
  /\ NoCommand.op = "none" /\ NoCommand.cmd = NoOp /\ NoOp.op = "none"
  /\ NoCommand.result = "none" /\ NoCommand.alone = FALSE
  BY DEF NoCommand, Command, NoOp

\* A command with an operation is one a program may ask for.
LEMMA CommandFields ==
  ASSUME NEW m \in Command
  PROVE  /\ m.cmd \in Commands \cup {NoOp} /\ m.result \in {"none", "ok", "error"}
         /\ m.got \in Places \cup Statuses \cup {"none"}
         /\ m.carried \in BOOLEAN /\ m.held \subseteq Statuses /\ m.alone \in BOOLEAN
         /\ m.op = m.cmd.op /\ m.op # "none" => m.cmd \in Commands
  BY DEF Command, NoOp

\* What a command makes of the stream.
LEMMA EffectOf ==
  ASSUME remote \in Remote, NEW cmd \in Commands, NEW r \in Effects(cmd)
  PROVE  /\ r \in Remote
         /\ cmd.op # "configure" => r.place = remote.place
         /\ cmd.op = "setstatus" => r.status = cmd.arg
<1>1. CASE cmd.op = "configure"
  <2>1. PICK p \in Places : r = [remote EXCEPT !.place = p]
    BY <1>1 DEF Effects, Commands, Places, Statuses
  <2> QED
    BY <1>1, <2>1 DEF Remote
<1>2. CASE cmd.op = "setstatus"
  <2>1. cmd.arg \in Statuses /\ r = [remote EXCEPT !.status = cmd.arg]
    BY <1>2 DEF Effects, Commands
  <2> QED
    BY <1>2, <2>1 DEF Remote
<1>3. CASE cmd.op \in {"add", "remove"}
  <2>1. cmd.arg \in Subjects
    BY <1>3 DEF Commands
  <2>2. r \in {[remote EXCEPT !.subjects = @ \cup {cmd.arg}],
               [remote EXCEPT !.subjects = @ \ {cmd.arg}]}
    BY <1>3 DEF Effects
  <2> QED
    BY <1>3, <2>1, <2>2 DEF Remote
<1>4. CASE cmd.op = "delete"
  <2>1. r = [remote EXCEPT !.exists = FALSE]
    BY <1>4 DEF Effects
  <2> QED
    BY <1>4, <2>1 DEF Remote
<1>5. CASE cmd.op \in {"getstatus", "verify"}
  BY <1>5 DEF Effects
<1>6. cmd.op \in {"configure", "setstatus", "add", "remove", "delete", "getstatus", "verify"}
  BY DEF Commands
<1> QED
  BY <1>1, <1>2, <1>3, <1>4, <1>5, <1>6

\* A command under way is one a program may ask for.
LEMMA SentIsCommand ==
  ASSUME ControlInv, NEW c \in Callers, ctlRequest[c].st # "idle"
  PROVE  command[c].op # "none" /\ command[c].cmd \in Commands
<1>1. command[c] \in Command /\ CommandOK(c)
  BY DEF ControlInv, ControlTypeOK, CommandsOK
<1>2. NoRequest.st = "idle"
  BY DEF NoRequest
<1> QED
  BY <1>1, <1>2, CommandFields DEF CommandOK

\* The retry loop of a command, which is the one of Requests.
LEMMA ControlRequestType ==
  C!RequestsTypeOK <=> ctlRequest \in [Callers -> Request]
  BY DEF C!RequestsTypeOK, C!Request, Request

LEMMA SameLoop ==
  ASSUME NEW q
  PROVE  C!NextAttempt(q) = NextAttempt(q) /\ C!Fault(q) = Fault(q)
  BY DEF C!NextAttempt, C!Fault, NextAttempt, Fault

\* The request of c becomes q, the others stay.
OnlyControl(c, q) == q \in Request /\ ctlRequest' = [ctlRequest EXCEPT ![c] = q]

\* No step of the loop itself makes a success.
LEMMA ControlLoopKeeps ==
  ASSUME ControlInv, NEW c \in Callers,
         C!LoopStep(c) \/ C!Interrupted(c) \/ C!Cancelled(c)
  PROVE  /\ ctlRequest[c].st # "idle"
         /\ \E q : OnlyControl(c, q) /\ (q.answer = "ok" => ctlRequest[c].answer = "ok")
<1> DEFINE old == ctlRequest[c]
<1>0. old.st # "idle"
  BY DEF C!LoopStep, C!Interrupted, C!Cancelled, C!Unsent, C!BodySpent, C!Answered,
         C!AnswerLost, C!Sending
<1> SUFFICES \E q : OnlyControl(c, q) /\ (q.answer = "ok" => ctlRequest[c].answer = "ok")
  BY <1>0
<1>1. old \in Request
  BY ControlRequestType DEF ControlInv, ControlTypeOK
<1>2. CASE C!Unsent(c) \/ C!AnswerLost(c)
  <2>1. ctlRequest' = [ctlRequest EXCEPT ![c] = Fault(old)]
    BY <1>2, SameLoop DEF C!Unsent, C!AnswerLost
  <2> QED
    BY <1>1, <2>1, FaultType DEF OnlyControl
<1>3. CASE C!BodySpent(c)
  <2>1. ctlRequest' = [ctlRequest EXCEPT ![c] = NextAttempt(old)]
    BY <1>3, SameLoop DEF C!BodySpent
  <2> QED
    BY <1>1, <2>1, NextAttemptType DEF OnlyControl
<1>4. CASE C!Interrupted(c)
  <2> DEFINE read == [old EXCEPT !.spent = TRUE]
  <2>1. read \in Request
    BY <1>1 DEF Request
  <2>2. ctlRequest' = [ctlRequest EXCEPT ![c] = Fault(read)]
    BY <1>4, SameLoop DEF C!Interrupted
  <2> QED
    BY <2>1, <2>2, FaultType DEF OnlyControl
<1>5. CASE C!Cancelled(c)
  <2> DEFINE q == [[old EXCEPT !.st = "done"] EXCEPT !.answer = "cancelled"]
  <2>1. q \in Request /\ q.answer = "cancelled"
    BY <1>1 DEF Request
  <2>2. ctlRequest' = [ctlRequest EXCEPT ![c] = q]
    BY <1>1, <1>5, ControlRequestType DEF C!Cancelled, ControlInv, ControlTypeOK
  <2> QED
    BY <2>1, <2>2 DEF OnlyControl
<1>6. CASE C!Answered(c)
  <2>1. CASE old.answer = "again"
    <3>1. ctlRequest' = [ctlRequest EXCEPT ![c] = Fault(old)]
      BY <1>6, <2>1, SameLoop DEF C!Answered
    <3> QED
      BY <1>1, <3>1, FaultType DEF OnlyControl
  <2>2. CASE old.answer # "again"
    <3> DEFINE q == [old EXCEPT !.st = "done"]
    <3>1. q \in Request /\ q.answer = old.answer
      BY <1>1 DEF Request
    <3>2. ctlRequest' = [ctlRequest EXCEPT ![c] = q]
      BY <1>6, <2>2 DEF C!Answered
    <3> QED
      BY <3>1, <3>2 DEF OnlyControl
  <2> QED
    BY <2>1, <2>2
<1> QED
  BY <1>2, <1>3, <1>4, <1>5, <1>6 DEF C!LoopStep

LEMMA ControlServedKeeps ==
  ASSUME ControlInv, NEW c \in Callers, NEW answer \in {"ok", "refused", "again"},
         C!ServedWith(c, answer)
  PROVE  /\ ctlRequest[c].st # "idle"
         /\ \E q : OnlyControl(c, q) /\ q.answer = answer
<1> DEFINE q == [[[ctlRequest[c] EXCEPT !.st = "answering"] EXCEPT !.answer = answer]
                   EXCEPT !.spent = TRUE]
<1>1. ctlRequest \in [Callers -> Request]
  BY ControlRequestType DEF ControlInv, ControlTypeOK
<1>2. q \in Request /\ q.answer = answer
  BY <1>1 DEF Request
<1>3. ctlRequest' = [ctlRequest EXCEPT ![c] = q]
  BY <1>1 DEF C!ServedWith
<1>4. ctlRequest[c].st # "idle"
  BY DEF C!ServedWith, C!Sending
<1> QED
  BY <1>2, <1>3, <1>4 DEF OnlyControl

LEMMA OnlyControlType ==
  ASSUME ControlInv, NEW c \in Callers, NEW q, OnlyControl(c, q)
  PROVE  /\ (C!RequestsTypeOK)'
         /\ ctlRequest'[c] = q
         /\ \A d \in Callers \ {c} : ctlRequest'[d] = ctlRequest[d]
<1>1. ctlRequest \in [Callers -> Request]
  BY ControlRequestType DEF ControlInv, ControlTypeOK
<1>2. ctlRequest' \in [Callers -> Request]
  BY <1>1 DEF OnlyControl
<1> QED
  BY <1>1, <1>2 DEF OnlyControl, C!RequestsTypeOK, C!Request, Request

-----------------------------------------------------------------------------
\* Polls and acknowledgments: no more than the gates change.

OffCommands == <<program, config, remote, command, ctlRequest, late, unsure>>

LEMMA PollSideKeeps ==
  ASSUME ControlInv, UNCHANGED OffCommands, gate' \in [Callers -> Gate], GatesOK'
  PROVE  ControlInv'
<1>1. ControlTypeOK'
  BY DEF ControlInv, ControlTypeOK, OffCommands, C!RequestsTypeOK
<1>2. CommandsOK'
  BY DEF ControlInv, CommandsOK, CommandOK, Effective, OffCommands
<1>3. UpdatesOK'
  BY DEF ControlInv, UpdatesOK, AloneOK, CopyOK, UnderWay, OffCommands
<1> QED
  BY <1>1, <1>2, <1>3 DEF ControlInv

LEMMA GateOfOne ==
  ASSUME ControlInv, UNCHANGED OffCommands, NEW c \in Callers, NEW g \in Gate,
         gate' = [gate EXCEPT ![c] = g],
         \A d \in Callers \ {c} : call'[d].op = call[d].op,
         gate'[c] = g => GateOK(c)'
  PROVE  ControlInv'
<1>1. gate \in [Callers -> Gate]
  BY DEF ControlInv, ControlTypeOK
<1>2. gate' \in [Callers -> Gate] /\ gate'[c] = g
  BY <1>1
<1>3. ASSUME NEW d \in Callers \ {c}
      PROVE  GateOK(d)'
  BY <1>1, <1>3 DEF ControlInv, GatesOK, GateOK, Entered, OffCommands
<1>4. GatesOK'
  BY <1>2, <1>3 DEF GatesOK
<1> QED
  BY <1>2, <1>4, PollSideKeeps

LEMMA SameGates ==
  ASSUME ControlInv, UNCHANGED ctlVars, \A d \in Callers : call'[d].op = call[d].op
  PROVE  ControlInv'
<1>1. gate' \in [Callers -> Gate]
  BY DEF ControlInv, ControlTypeOK, ctlVars
<1>2. GatesOK'
  BY DEF ControlInv, GatesOK, GateOK, Entered, ctlVars
<1> QED
  BY <1>1, <1>2, PollSideKeeps DEF ctlVars, OffCommands

LEMMA PassKeeps ==
  ASSUME ControlInv, NEW c \in Callers, Pass(c)
  PROVE  ControlInv'
<1>1. PICK do \in Deliveries : gate' = [gate EXCEPT ![c].op = do.op]
  BY DEF Pass
<1> DEFINE g == [gate[c] EXCEPT !.op = do.op]
<1>2. do.op \in {"polling", "acknowledging"}
  BY DEF Deliveries
<1>3. gate[c] \in Gate
  BY DEF ControlInv, ControlTypeOK
<1>4. g \in Gate /\ g.op = do.op
  BY <1>2, <1>3 DEF Gate
<1>5. gate' = [gate EXCEPT ![c] = g]
  BY <1>1
<1> HIDE DEF g
<1>6. gate'[c] = g => GateOK(c)'
  BY <1>2, <1>4, NoGateType DEF Pass, Idle, IsPollDelivery, GateOK, Entered, vars
<1> QED
  BY <1>4, <1>5, <1>6, GateOfOne DEF Pass, OffCommands, vars

LEMMA AddressKeeps ==
  ASSUME ControlInv, NEW c \in Callers, Address(c), Entered(c),
         \A d \in Callers \ {c} : call'[d].op = call[d].op
  PROVE  ControlInv'
<1> DEFINE g == [[gate[c] EXCEPT !.op = "none"] EXCEPT !.place = config]
<1>1. gate \in [Callers -> Gate] /\ config \in Places
  BY DEF ControlInv, ControlTypeOK
<1>2. g \in Gate /\ g.op = "none" /\ g.place = config /\ g.moved = gate[c].moved
  BY <1>1 DEF Gate
<1>3. gate' = [gate EXCEPT ![c] = g]
  BY <1>1 DEF Address
<1>4. config \in PollPlaces \/ gate[c].moved
  BY DEF ControlInv, GatesOK, GateOK
<1> HIDE DEF g
<1>5. g # NoGate
  BY <1>1, <1>2, <1>4, PlacesAssumption DEF NoGate, Places, Gate
<1>6. gate'[c] = g => GateOK(c)'
  BY <1>2, <1>4, <1>5 DEF Address, GateOK, Entered
<1> QED
  BY <1>2, <1>3, <1>6, GateOfOne DEF Address, OffCommands

LEMMA SendKeeps ==
  ASSUME ControlInv, TypeOK, NEW c \in Callers,
         DoPoll(c) \/ DoAcknowledge(c) \/ DoAutoAcknowledge(c)
  PROVE  ControlInv'
<1>1. Address(c) /\ Entered(c)
  BY DEF DoPoll, DoAcknowledge, DoAutoAcknowledge, Entered, PolledToAcknowledge
<1>2. \A d \in Callers \ {c} : call'[d].op = call[d].op
  BY DEF DoPoll, DoAcknowledge, DoAutoAcknowledge, PolledToAcknowledge, Poll, Acknowledge,
         Begin, TypeOK
<1> QED
  BY <1>1, <1>2, AddressKeeps

LEMMA ReturnKeeps ==
  ASSUME ControlInv, TypeOK, NEW c \in Callers, Return(c)
  PROVE  ControlInv'
<1>1. \E events, result : Finish(c, events, result)
  BY DEF Return, Polled, PollFailed, AutoAcknowledged, AutoAckFailed, Acknowledged,
         AcknowledgeFailed
<1>2. \A d \in Callers \ {c} : call'[d].op = call[d].op
  BY <1>1 DEF Finish, TypeOK
<1>3. call'[c].op = "none"
  BY <1>1 DEF Finish, TypeOK, Call
<1>4. gate'[c] = NoGate => GateOK(c)'
  BY <1>3, NoGateType DEF GateOK, Entered
<1> QED
  BY <1>2, <1>4, NoGateType, GateOfOne DEF Return, OffCommands

LEMMA PollAnswerKeeps ==
  ASSUME ControlInv, TypeOK, NEW c \in Callers, PollServed(c) \/ PollGivenUp(c)
  PROVE  ControlInv'
<1>1. UNCHANGED ctlVars
  BY DEF PollServed, PollGivenUp
<1>2. CASE UNCHANGED call
  BY <1>1, <1>2, SameGates
<1>3. CASE \E events : call' = [call EXCEPT ![c].got = events]
  <2>1. \A d \in Callers : call'[d].op = call[d].op
    BY <1>3 DEF TypeOK, Call
  <2> QED
    BY <1>1, <2>1, SameGates
<1>4. UNCHANGED call \/ \E events : call' = [call EXCEPT ![c].got = events]
  BY DEF PollServed, PollGivenUp, ServeOk, ServeNotOk, GiveUp, Loop
<1> QED
  BY <1>2, <1>3, <1>4

LEMMA ArrivesKeeps ==
  ASSUME ControlInv, NEW e \in Events, Arrives(e)
  PROVE  ControlInv'
  BY SameGates DEF Arrives, Offer, ServeLate

-----------------------------------------------------------------------------
\* Commands.

\* The command of d stays, but for what happens around it.
SameCommand(d) ==
  /\ command'[d] \in Command
  /\ command'[d].op = command[d].op /\ command'[d].cmd = command[d].cmd
  /\ command'[d].result = command[d].result
  /\ command[d].held \subseteq command'[d].held
  /\ command'[d].alone => command[d].alone

\* Its answer stays as well.
SameAnswer(d) ==
  /\ SameCommand(d)
  /\ command'[d].got = command[d].got /\ command'[d].carried = command[d].carried

LEMMA SameAnswerOK ==
  ASSUME ControlInv, NEW d \in Callers, SameAnswer(d),
         ctlRequest'[d].answer = "ok" => ctlRequest[d].answer = "ok",
         command[d].op = "none" => ctlRequest'[d] = ctlRequest[d]
  PROVE  CommandOK(d)'
<1>1. CommandOK(d)
  BY DEF ControlInv, CommandsOK
<1> QED
  BY <1>1 DEF CommandOK, Effective, SameAnswer, SameCommand

LEMMA UnchangedAnswer ==
  ASSUME ControlInv, UNCHANGED command, NEW d \in Callers
  PROVE  SameAnswer(d)
  BY DEF SameAnswer, SameCommand, ControlInv, ControlTypeOK

LEMMA GatesUnmoved ==
  ASSUME ControlInv, UNCHANGED <<gate, config>>, UNCHANGED vars
  PROVE  GatesOK' /\ gate' \in [Callers -> Gate] /\ config' \in Places
  BY DEF ControlInv, ControlTypeOK, GatesOK, GateOK, Entered, vars

\* The request of a command goes on, and nothing comes of it.
LEMMA RequestOnly ==
  ASSUME ControlInv, NEW c \in Callers, NEW q, OnlyControl(c, q),
         q.answer = "ok" => ctlRequest[c].answer = "ok",
         ctlRequest[c].st # "idle",
         late' \subseteq Commands,
         UNCHANGED <<program, config, remote, gate, command, unsure>>, UNCHANGED vars
  PROVE  ControlInv'
<1>1. /\ (C!RequestsTypeOK)' /\ ctlRequest'[c] = q
      /\ \A d \in Callers \ {c} : ctlRequest'[d] = ctlRequest[d]
  BY OnlyControlType
<1>2. ControlTypeOK'
  BY <1>1 DEF ControlInv, ControlTypeOK
<1>3. CommandsOK'
  BY <1>1, SentIsCommand, SameAnswerOK, UnchangedAnswer DEF CommandsOK
<1>4. UpdatesOK'
  BY <1>1 DEF ControlInv, UpdatesOK, AloneOK, CopyOK, UnderWay
<1> QED
  BY <1>2, <1>3, <1>4, GatesUnmoved DEF ControlInv

LEMMA AttemptKeeps ==
  ASSUME ControlInv, NEW c \in Callers, Attempt(c) \/ GivenUp(c)
  PROVE  ControlInv'
<1>1. C!LoopStep(c) \/ C!Interrupted(c) \/ C!Cancelled(c)
  BY DEF Attempt, GivenUp
<1>2. PICK q : OnlyControl(c, q) /\ (q.answer = "ok" => ctlRequest[c].answer = "ok")
  BY <1>1, ControlLoopKeeps
<1>3. ctlRequest[c].st # "idle"
  BY <1>1, ControlLoopKeeps
<1>4. late' \subseteq Commands
  BY <1>3, SentIsCommand DEF Attempt, GivenUp, Abandoned, ControlInv, ControlTypeOK
<1>5. UNCHANGED <<program, config, remote, gate, command, unsure>> /\ UNCHANGED vars
  BY DEF Attempt, GivenUp
<1> QED
  BY <1>2, <1>3, <1>4, <1>5, RequestOnly

\* The transmitter carries out the command of c, and answers it with "ok" or not.
LEMMA CarriedOut ==
  ASSUME ControlInv, NEW c \in Callers, NEW q, OnlyControl(c, q),
         remote' \in Remote,
         command[c].op # "configure" => remote'.place = remote.place,
         command' = [d \in Callers |-> command'[d]],
         \A d \in Callers \ {c} : SameAnswer(d),
         SameCommand(c), command'[c].alone = command[c].alone,
         command[c].op # "none", command'[c].carried,
         q.answer = "ok" =>
           Effective(c)' /\ (UnderWay(c, "configure") => command'[c].got = remote'.place),
         UNCHANGED <<program, config, gate, late, unsure>>, UNCHANGED vars
  PROVE  ControlInv'
<1>1. /\ (C!RequestsTypeOK)' /\ ctlRequest'[c] = q
      /\ \A d \in Callers \ {c} : ctlRequest'[d] = ctlRequest[d]
  BY OnlyControlType
<1>2. ControlTypeOK'
  <2>1. command' \in [Callers -> Command]
    BY DEF SameAnswer, SameCommand
  <2> QED
    BY <1>1, <2>1 DEF ControlInv, ControlTypeOK
<1>3. CommandsOK'
  <2>1. CommandOK(c)'
    <3>1. CommandOK(c)
      BY DEF ControlInv, CommandsOK
    <3> QED
      BY <1>1, <3>1 DEF CommandOK, SameCommand
  <2> QED
    BY <1>1, <2>1, SameAnswerOK DEF CommandsOK
<1>4. ASSUME NEW d \in Callers
      PROVE  AloneOK(d)'
  <2>1. AloneOK(d) /\ AloneOK(c)
    BY DEF ControlInv, UpdatesOK
  <2>2. /\ \A e \in Callers : UnderWay(e, "configure")' <=> UnderWay(e, "configure")
        /\ command'[d].alone => command[d].alone
    BY DEF UnderWay, SameAnswer, SameCommand
  <2>3. CASE d = c
    BY <1>1, <2>1, <2>2, <2>3 DEF AloneOK
  <2>4. CASE d # c
    <3>1. SameAnswer(d) /\ ctlRequest'[d] = ctlRequest[d]
      BY <1>1, <2>4
    <3> SUFFICES ASSUME UnderWay(d, "configure"), command[d].alone
                 PROVE  AloneOK(d)'
      BY <2>2 DEF AloneOK
    <3>2. command[c].op # "configure"
      BY <2>1, <2>4 DEF AloneOK, UnderWay
    <3> QED
      BY <2>1, <2>2, <3>1, <3>2 DEF AloneOK, SameAnswer
  <2> QED
    BY <2>3, <2>4
<1>5. CopyOK'
  <2>1. CASE command[c].op = "configure"
    BY <2>1 DEF CopyOK, UnderWay, SameCommand
  <2>2. CASE command[c].op # "configure"
    <3>1. \A d \in Callers : UnderWay(d, "configure") =>
            UnderWay(d, "configure")' /\ command'[d].carried = command[d].carried
      BY <2>2 DEF UnderWay, SameAnswer, SameCommand
    <3>2. CopyOK
      BY DEF ControlInv, UpdatesOK
    <3> QED
      BY <2>2, <3>1, <3>2 DEF CopyOK
  <2> QED
    BY <2>1, <2>2
<1> QED
  BY <1>2, <1>3, <1>4, <1>5, GatesUnmoved DEF ControlInv, UpdatesOK

\* What carrying a command out does to the commands under way.
LEMMA HeldType ==
  ASSUME ControlInv, NEW d \in Callers, NEW r \in Remote
  PROVE  /\ Held(d, r) \subseteq Statuses
         /\ command[d].held \subseteq Held(d, r)
         /\ command[d].op # "none" => r.status \in Held(d, r)
<1>1. command[d].held \subseteq Statuses
  BY CommandFields DEF ControlInv, ControlTypeOK
<1> QED
  BY <1>1 DEF Held, Remote

LEMMA CommandServedKeeps ==
  ASSUME ControlInv, NEW c \in Callers, Served(c)
  PROVE  ControlInv'
<1> DEFINE cmd == command[c].cmd
           answered(d) == [[[command[d] EXCEPT !.held = Held(d, remote')]
                              EXCEPT !.carried = command[d].carried \/ d = c]
                              EXCEPT !.got = IF d = c THEN AnswerTo(cmd, remote') ELSE command[d].got]
<1>1. PICK q : OnlyControl(c, q) /\ q.answer = "ok"
  BY ControlServedKeeps DEF Served
<1>2. command[c].op # "none" /\ cmd \in Commands
  BY ControlServedKeeps, SentIsCommand DEF Served
<1>3. command[c].op = cmd.op
  BY DEF ControlInv, CommandsOK, CommandOK
<1>4. /\ remote' \in Remote
      /\ cmd.op # "configure" => remote'.place = remote.place
      /\ cmd.op = "setstatus" => remote'.status = cmd.arg
  BY <1>2, EffectOf DEF Served, ControlInv, ControlTypeOK
<1>5. command \in [Callers -> Command]
  BY DEF ControlInv, ControlTypeOK
<1>6. AnswerTo(cmd, remote') \in Places \cup Statuses \cup {"none"}
  BY <1>4 DEF AnswerTo, Remote
<1>7. command' = [d \in Callers |-> answered(d)]
  BY DEF Served
<1>8. ASSUME NEW d \in Callers
      PROVE  /\ answered(d) \in Command
             /\ answered(d).op = command[d].op /\ answered(d).cmd = command[d].cmd
             /\ answered(d).result = command[d].result /\ answered(d).alone = command[d].alone
             /\ answered(d).held = Held(d, remote')
             /\ answered(d).carried = (command[d].carried \/ d = c)
             /\ answered(d).got = IF d = c THEN AnswerTo(cmd, remote') ELSE command[d].got
  <2>1. Held(d, remote') \subseteq Statuses
    BY <1>4, HeldType
  <2> QED
    BY <1>5, <1>6, <2>1 DEF Command
<1> HIDE DEF answered
<1>9. \A d \in Callers : SameCommand(d)
  BY <1>4, <1>7, <1>8, HeldType DEF SameCommand
<1>10. \A d \in Callers \ {c} : SameAnswer(d)
  <2>1. \A d \in Callers : command[d].carried \in BOOLEAN
    BY <1>5, CommandFields
  <2> QED
    BY <1>7, <1>8, <1>9, <2>1 DEF SameAnswer
<1>11. /\ command'[c].carried /\ command'[c].alone = command[c].alone
       /\ command'[c].got = AnswerTo(cmd, remote')
       /\ command'[c].op = cmd.op /\ command'[c].cmd = cmd
       /\ remote'.status \in command'[c].held
  BY <1>2, <1>3, <1>4, <1>7, <1>8, HeldType
<1>12. /\ cmd.op = "configure" => AnswerTo(cmd, remote') = remote'.place
       /\ cmd.op = "getstatus" => AnswerTo(cmd, remote') = remote'.status
  BY DEF AnswerTo
<1>13. Effective(c)' /\ (UnderWay(c, "configure") => command'[c].got = remote'.place)
  <2>1. remote'.place \in Places
    BY <1>4 DEF Remote
  <2> QED
    BY <1>3, <1>4, <1>11, <1>12, <2>1 DEF Effective, UnderWay
<1>14. UNCHANGED <<program, config, gate, late, unsure>> /\ UNCHANGED vars
  BY DEF Served
<1>15. command' = [d \in Callers |-> command'[d]]
  BY <1>7
<1> QED
  BY <1>1, <1>2, <1>3, <1>4, <1>9, <1>10, <1>11, <1>13, <1>14, <1>15, CarriedOut

LEMMA NotServedKeeps ==
  ASSUME ControlInv, NEW c \in Callers, NotServed(c)
  PROVE  ControlInv'
<1>1. CASE UNCHANGED <<remote, command>>
  <2>1. PICK answer \in {"refused", "again"} : C!ServedWith(c, answer)
    BY DEF NotServed
  <2>2. ctlRequest[c].st # "idle"
    BY <2>1, ControlServedKeeps
  <2>3. PICK q : OnlyControl(c, q) /\ q.answer = answer
    BY <2>1, ControlServedKeeps
  <2>4. late' \subseteq Commands
    BY DEF NotServed, ControlInv, ControlTypeOK
  <2> QED
    BY <1>1, <2>2, <2>3, <2>4, RequestOnly DEF NotServed
<1>2. CASE /\ C!ServedWith(c, "again")
           /\ remote' \in Effects(command[c].cmd)
           /\ command' = [d \in Callers |-> [command[d] EXCEPT !.held = Held(d, remote'),
                                                               !.carried = @ \/ d = c]]
  <2> DEFINE carried(d) == [[command[d] EXCEPT !.held = Held(d, remote')]
                              EXCEPT !.carried = command[d].carried \/ d = c]
  <2>1. PICK q : OnlyControl(c, q) /\ q.answer = "again"
    BY <1>2, ControlServedKeeps
  <2>2. command[c].op # "none" /\ command[c].cmd \in Commands
    BY <1>2, ControlServedKeeps, SentIsCommand
  <2>3. command[c].op = command[c].cmd.op
    BY DEF ControlInv, CommandsOK, CommandOK
  <2>4. /\ remote' \in Remote
        /\ command[c].op # "configure" => remote'.place = remote.place
    BY <1>2, <2>2, <2>3, EffectOf DEF ControlInv, ControlTypeOK
  <2>5. command \in [Callers -> Command]
    BY DEF ControlInv, ControlTypeOK
  <2>6. command' = [d \in Callers |-> carried(d)]
    BY <1>2
  <2>7. ASSUME NEW d \in Callers
        PROVE  /\ carried(d) \in Command
               /\ carried(d).op = command[d].op /\ carried(d).cmd = command[d].cmd
               /\ carried(d).result = command[d].result /\ carried(d).alone = command[d].alone
               /\ carried(d).held = Held(d, remote') /\ carried(d).got = command[d].got
               /\ carried(d).carried = (command[d].carried \/ d = c)
    <3>1. Held(d, remote') \subseteq Statuses
      BY <2>4, HeldType
    <3> QED
      BY <2>5, <3>1 DEF Command
  <2> HIDE DEF carried
  <2>8. \A d \in Callers : SameCommand(d)
    BY <2>4, <2>6, <2>7, HeldType DEF SameCommand
  <2>9. \A d \in Callers \ {c} : SameAnswer(d)
    <3>1. \A d \in Callers : command[d].carried \in BOOLEAN
      BY <2>5, CommandFields
    <3> QED
      BY <2>6, <2>7, <2>8, <3>1 DEF SameAnswer
  <2>10. /\ command'[c].carried /\ command'[c].alone = command[c].alone
         /\ command' = [d \in Callers |-> command'[d]]
    BY <2>6, <2>7
  <2>11. UNCHANGED <<program, config, gate, late, unsure>> /\ UNCHANGED vars
    BY DEF NotServed
  <2> QED
    BY <2>1, <2>2, <2>4, <2>8, <2>9, <2>10, <2>11, CarriedOut
<1> QED
  BY <1>1, <1>2 DEF NotServed

LEMMA AskKeeps ==
  ASSUME ControlInv, NEW c \in Callers, Ask(c)
  PROVE  ControlInv'
<1> DEFINE body(cmd) == cmd.op \notin {"getstatus", "delete"}
           mine(cmd) == [[[[NoCommand EXCEPT !.op = cmd.op] EXCEPT !.cmd = cmd]
                           EXCEPT !.held = {remote.status}] EXCEPT !.alone = (Configuring = {})]
           other(cmd, d) == [command[d] EXCEPT !.alone = command[d].alone /\ cmd.op # "configure"]
<1>1. PICK cmd \in Commands :
        /\ command' = [d \in Callers |-> IF d = c THEN mine(cmd) ELSE other(cmd, d)]
        /\ ctlRequest' = [ctlRequest EXCEPT ![c] = C!Issued(StreamRetries, body(cmd))]
  BY DEF Ask
<1>2. command \in [Callers -> Command] /\ remote \in Remote /\ command[c].op = "none"
  BY DEF ControlInv, ControlTypeOK, Ask, Idle
<1>3. /\ mine(cmd) \in Command
      /\ mine(cmd).op = cmd.op /\ mine(cmd).cmd = cmd /\ mine(cmd).result = "none"
      /\ mine(cmd).alone = (Configuring = {})
      /\ cmd.op # "none"
  <2>1. cmd.op \in {"configure", "setstatus", "getstatus", "add", "remove", "verify", "delete"}
    BY DEF Commands
  <2> QED
    BY <1>2, <2>1 DEF NoCommand, NoOp, Command, Remote
<1>4. ASSUME NEW d \in Callers
      PROVE  /\ other(cmd, d) \in Command
             /\ other(cmd, d).op = command[d].op /\ other(cmd, d).cmd = command[d].cmd
             /\ other(cmd, d).result = command[d].result /\ other(cmd, d).got = command[d].got
             /\ other(cmd, d).carried = command[d].carried /\ other(cmd, d).held = command[d].held
             /\ other(cmd, d).alone = (command[d].alone /\ cmd.op # "configure")
  BY <1>2 DEF Command
<1>5. OnlyControl(c, Issued(StreamRetries, body(cmd))) /\ Issued(StreamRetries, body(cmd)).answer = "none"
  <2>1. StreamRetries \in 0..MaxRetries /\ body(cmd) \in BOOLEAN
    BY RetriesAssumption DEF StreamRetries
  <2>2. C!Issued(StreamRetries, body(cmd)) = Issued(StreamRetries, body(cmd))
    BY DEF C!Issued, Issued, C!NoRequest, NoRequest
  <2> HIDE DEF body
  <2> QED
    BY <1>1, <2>1, <2>2, IssuedType DEF OnlyControl
<1> HIDE DEF mine, other, body
<1>6. /\ (C!RequestsTypeOK)' /\ ctlRequest'[c].answer = "none"
      /\ \A d \in Callers \ {c} : ctlRequest'[d] = ctlRequest[d]
  BY <1>5, OnlyControlType
<1>7. /\ command'[c] = mine(cmd)
      /\ \A d \in Callers \ {c} : command'[d] = other(cmd, d)
  BY <1>1
<1>8. ControlTypeOK'
  <2>1. command' \in [Callers -> Command]
    BY <1>1, <1>3, <1>4
  <2> QED
    BY <1>6, <2>1 DEF ControlInv, ControlTypeOK, Ask
<1>9. CommandsOK'
  <2>1. CommandOK(c)'
    BY <1>3, <1>6, <1>7 DEF CommandOK
  <2>2. \A d \in Callers \ {c} : SameAnswer(d)
    <3>1. \A d \in Callers : command[d].alone \in BOOLEAN
      BY <1>2, CommandFields
    <3> QED
      BY <1>4, <1>7, <3>1 DEF SameAnswer, SameCommand
  <2> QED
    BY <1>6, <2>1, <2>2, SameAnswerOK DEF CommandsOK
<1>10. \A d \in Callers \ {c} :
         /\ UnderWay(d, "configure")' <=> UnderWay(d, "configure")
         /\ command'[d].alone => command[d].alone /\ cmd.op # "configure"
         /\ command'[d].carried = command[d].carried
         /\ command'[d].got = command[d].got
  BY <1>4, <1>7 DEF UnderWay
<1>11. AloneOK(c)'
  BY <1>3, <1>6, <1>7, <1>10 DEF AloneOK, UnderWay, Configuring
<1>12. ASSUME NEW d \in Callers \ {c}
       PROVE  AloneOK(d)'
  <2>1. AloneOK(d)
    BY DEF ControlInv, UpdatesOK
  <2>2. remote' = remote /\ (UnderWay(c, "configure")' <=> cmd.op = "configure")
    BY <1>3, <1>7 DEF Ask, UnderWay
  <2> QED
    BY <1>6, <1>10, <2>1, <2>2 DEF AloneOK
<1>13. CopyOK'
  <2>1. ~ UnderWay(c, "configure")
    BY <1>2 DEF UnderWay
  <2>2. CopyOK /\ UNCHANGED <<remote, config, unsure>>
    BY DEF ControlInv, UpdatesOK, Ask
  <2> QED
    BY <1>10, <2>1, <2>2 DEF CopyOK
<1> QED
  BY <1>8, <1>9, <1>11, <1>12, <1>13, GatesUnmoved DEF ControlInv, UpdatesOK, Ask

LEMMA ServedLateKeeps ==
  ASSUME ControlInv, NEW cmd \in late, ServedLate(cmd)
  PROVE  ControlInv'
<1> DEFINE after(d) == [[command[d] EXCEPT !.held = Held(d, remote')]
                          EXCEPT !.alone = command[d].alone /\ cmd.op # "configure"]
<1>1. /\ cmd \in Commands /\ remote \in Remote /\ command \in [Callers -> Command]
      /\ unsure \in BOOLEAN
  BY DEF ControlInv, ControlTypeOK
<1>2. remote' \in Remote /\ (cmd.op # "configure" => remote'.place = remote.place)
  BY <1>1, EffectOf DEF ServedLate
<1>3. command' = [d \in Callers |-> after(d)]
  BY DEF ServedLate
<1>4. ASSUME NEW d \in Callers
      PROVE  /\ after(d) \in Command
             /\ after(d).op = command[d].op /\ after(d).cmd = command[d].cmd
             /\ after(d).result = command[d].result /\ after(d).got = command[d].got
             /\ after(d).carried = command[d].carried /\ after(d).held = Held(d, remote')
             /\ after(d).alone = (command[d].alone /\ cmd.op # "configure")
  <2>1. Held(d, remote') \subseteq Statuses
    BY <1>2, HeldType
  <2> QED
    BY <1>1, <2>1 DEF Command
<1> HIDE DEF after
<1>5. \A d \in Callers : SameAnswer(d)
  BY <1>2, <1>3, <1>4, HeldType DEF SameAnswer, SameCommand
<1>6. /\ late' \subseteq late /\ unsure' = (unsure \/ cmd.op = "configure")
      /\ UNCHANGED <<program, config, gate, ctlRequest>> /\ UNCHANGED vars
  BY DEF ServedLate
<1>7. ControlTypeOK'
  <2>1. command' \in [Callers -> Command]
    BY <1>3, <1>4
  <2> QED
    BY <1>1, <1>2, <1>6, <2>1 DEF ControlInv, ControlTypeOK, C!RequestsTypeOK
<1>8. CommandsOK'
  BY <1>5, <1>6, SameAnswerOK DEF CommandsOK
<1>9. /\ \A d \in Callers : UnderWay(d, "configure")' <=> UnderWay(d, "configure")
      /\ \A d \in Callers : command'[d].alone => command[d].alone /\ cmd.op # "configure"
  BY <1>3, <1>4 DEF UnderWay
<1>10. ASSUME NEW d \in Callers
       PROVE  AloneOK(d)'
  <2>1. AloneOK(d) /\ SameAnswer(d)
    BY <1>5 DEF ControlInv, UpdatesOK
  <2> QED
    BY <1>2, <1>6, <1>9, <2>1 DEF AloneOK, SameAnswer
<1>11. CopyOK'
  <2>1. CASE cmd.op = "configure"
    BY <1>6, <2>1 DEF CopyOK
  <2>2. CASE cmd.op # "configure"
    <3>1. CopyOK /\ \A d \in Callers : command'[d].carried = command[d].carried
      BY <1>5 DEF ControlInv, UpdatesOK, SameAnswer
    <3> QED
      BY <1>2, <1>6, <1>9, <2>2, <3>1 DEF CopyOK
  <2> QED
    BY <2>1, <2>2
<1> QED
  BY <1>6, <1>7, <1>8, <1>10, <1>11, GatesUnmoved DEF ControlInv, UpdatesOK

-----------------------------------------------------------------------------
\* The commands return.

\* The command and the request of c are over; the others stay.
LEMMA EndKeeps ==
  ASSUME ControlInv, NEW c \in Callers, NEW result \in {"ok", "error"}, End(c, result)
  PROVE  /\ command' \in [Callers -> Command] /\ (C!RequestsTypeOK)'
         /\ command'[c].op = "none" /\ command'[c].result = result
         /\ \A d \in Callers \ {c} : command'[d] = command[d]
         /\ CommandsOK' /\ \A d \in Callers : AloneOK(d)'
<1> DEFINE over == [NoCommand EXCEPT !.result = result]
<1>1. command \in [Callers -> Command] /\ ctlRequest \in [Callers -> Request]
  BY ControlRequestType DEF ControlInv, ControlTypeOK
<1>2. /\ over \in Command /\ over.op = "none" /\ over.cmd = NoOp /\ over.result = result
      /\ NoOp.op = "none"
  BY DEF NoCommand, Command, NoOp
<1>3. command' = [command EXCEPT ![c] = over]
  BY DEF End
<1> HIDE DEF over
<1>4. /\ command' \in [Callers -> Command] /\ command'[c] = over
      /\ \A d \in Callers \ {c} : command'[d] = command[d]
  BY <1>1, <1>2, <1>3
<1>5. /\ ctlRequest' \in [Callers -> Request] /\ ctlRequest'[c] = NoRequest
      /\ \A d \in Callers \ {c} : ctlRequest'[d] = ctlRequest[d]
  BY <1>1, NoRequestType DEF End
<1>6. (C!RequestsTypeOK)'
  BY <1>5 DEF C!RequestsTypeOK, C!Request, Request
<1>7. CommandsOK'
  BY <1>2, <1>4, <1>5 DEF ControlInv, CommandsOK, CommandOK, Effective
<1>8. ASSUME NEW d \in Callers
      PROVE  AloneOK(d)'
  <2>1. \A e \in Callers : UnderWay(e, "configure")' => UnderWay(e, "configure")
    BY <1>2, <1>4 DEF UnderWay
  <2>2. CASE d = c
    BY <1>2, <1>4, <2>2 DEF AloneOK, UnderWay
  <2>3. CASE d # c
    <3>1. AloneOK(d) /\ command'[d] = command[d] /\ ctlRequest'[d] = ctlRequest[d]
      BY <1>4, <1>5, <2>3 DEF ControlInv, UpdatesOK
    <3>2. remote' = remote
      BY DEF End
    <3> QED
      BY <2>1, <3>1, <3>2 DEF AloneOK
  <2> QED
    BY <2>2, <2>3
<1> QED
  BY <1>2, <1>4, <1>6, <1>7, <1>8

LEMMA ConfiguredKeeps ==
  ASSUME ControlInv, NEW c \in Callers, Configured(c)
  PROVE  ControlInv'
<1>1. End(c, "ok") /\ UnderWay(c, "configure") /\ ctlRequest[c].answer = "ok"
  BY DEF Configured, C!Done
<1>2. CommandOK(c) /\ AloneOK(c) /\ GatesOK /\ gate \in [Callers -> Gate]
  BY DEF ControlInv, CommandsOK, UpdatesOK, ControlTypeOK
<1>3. config' = command[c].got /\ config' \in Places
  BY <1>1, <1>2 DEF Configured, Replace, CommandOK, Effective, UnderWay
<1>4. GatesOK' /\ gate' \in [Callers -> Gate]
  <2> DEFINE moved(d) == [gate[d] EXCEPT !.moved = gate[d] # NoGate]
  <2>1. gate' = [d \in Callers |-> moved(d)]
    BY DEF Configured, Replace
  <2>2. \A d \in Callers : /\ moved(d) \in Gate
                           /\ moved(d).op = gate[d].op /\ moved(d).place = gate[d].place
                           /\ moved(d).moved = (gate[d] # NoGate)
    BY <1>2 DEF Gate
  <2> HIDE DEF moved
  <2>3. NoGate.moved = FALSE
    BY DEF NoGate
  <2>4. UNCHANGED call
    BY <1>1 DEF End, vars
  <2>5. ASSUME NEW d \in Callers
        PROVE  GateOK(d)'
    <3>1. Entered(d) => gate[d] # NoGate
      BY <1>2 DEF GatesOK, GateOK
    <3>2. Entered(d)' <=> Entered(d)
      BY <2>1, <2>2, <2>4 DEF Entered
    <3>3. Entered(d) => gate'[d].moved /\ gate'[d] # NoGate
      BY <2>1, <2>2, <2>3, <3>1
    <3>4. call'[d].op # "none" => Entered(d)
      BY <2>4 DEF Entered
    <3> QED
      BY <3>2, <3>3, <3>4 DEF GateOK
  <2> QED
    BY <2>1, <2>2, <2>5 DEF GatesOK
<1>5. CopyOK'
  <2>1. ~ unsure' => command[c].alone
    BY DEF Configured
  <2> QED
    BY <1>1, <1>2, <1>3, <2>1 DEF CopyOK, AloneOK, End
<1>6. unsure' \in BOOLEAN
  BY CommandFields DEF Configured, ControlInv, ControlTypeOK
<1>7. ControlTypeOK'
  BY <1>1, <1>3, <1>4, <1>6, EndKeeps DEF ControlInv, ControlTypeOK, End
<1> QED
  BY <1>1, <1>4, <1>5, <1>7, EndKeeps DEF ControlInv, UpdatesOK

LEMMA SucceededKeeps ==
  ASSUME ControlInv, NEW c \in Callers, Succeeded(c)
  PROVE  ControlInv'
<1>1. End(c, "ok") /\ ~ UnderWay(c, "configure") /\ UNCHANGED <<config, gate, unsure>>
  BY DEF Succeeded, UnderWay
<1>2. ControlTypeOK'
  BY <1>1, EndKeeps DEF ControlInv, ControlTypeOK, End
<1>3. CopyOK'
  <2>1. CopyOK /\ \A d \in Callers \ {c} : command'[d] = command[d]
    BY <1>1, EndKeeps DEF ControlInv, UpdatesOK
  <2> QED
    BY <1>1, <2>1 DEF CopyOK, UnderWay, End
<1> QED
  BY <1>1, <1>2, <1>3, EndKeeps, GatesUnmoved DEF ControlInv, UpdatesOK, End

LEMMA FailedKeeps ==
  ASSUME ControlInv, NEW c \in Callers, Failed(c)
  PROVE  ControlInv'
<1>1. /\ End(c, "error") /\ UNCHANGED <<config, gate>>
      /\ unsure' = (unsure \/ (UnderWay(c, "configure") /\ command[c].carried))
  BY DEF Failed
<1>2. ControlTypeOK'
  <2>1. unsure' \in BOOLEAN
    BY <1>1 DEF ControlInv, ControlTypeOK
  <2> QED
    BY <1>1, <2>1, EndKeeps DEF ControlInv, ControlTypeOK, End
<1>3. CopyOK'
  <2>1. CopyOK /\ \A d \in Callers \ {c} : command'[d] = command[d]
    BY <1>1, EndKeeps DEF ControlInv, UpdatesOK
  <2> QED
    BY <1>1, <2>1 DEF CopyOK, UnderWay, End
<1> QED
  BY <1>1, <1>2, <1>3, EndKeeps, GatesUnmoved DEF ControlInv, UpdatesOK, End

LEMMA ControlRestartKeeps ==
  ASSUME ControlInv, ControlRestart
  PROVE  ControlInv'
<1>1. /\ gate' = [c \in Callers |-> NoGate] /\ command' = [c \in Callers |-> NoCommand]
      /\ ctlRequest' = [c \in Callers |-> NoRequest] /\ call' = [c \in Callers |-> NoCall]
      /\ config' = remote.place /\ unsure' = FALSE /\ UNCHANGED <<program, remote>>
  BY DEF ControlRestart, Restart
<1>2. late' \subseteq Commands
  <2>1. ASSUME NEW c \in Callers
        PROVE  Abandoned(c) \subseteq Commands
    BY SentIsCommand DEF Abandoned, C!Sending
  <2> QED
    BY <2>1 DEF ControlRestart, ControlInv, ControlTypeOK
<1>3. (C!RequestsTypeOK)'
  BY <1>1, NoRequestType DEF C!RequestsTypeOK, C!Request, Request
<1>4. remote.place \in Places
  BY DEF ControlInv, ControlTypeOK, Remote
<1>5. ControlTypeOK'
  BY <1>1, <1>2, <1>3, <1>4, NoGateType, NoCommandType DEF ControlInv, ControlTypeOK
<1>6. GatesOK'
  <2>1. NoCall.op = "none"
    BY DEF NoCall
  <2> QED
    BY <1>1, <2>1, NoGateType DEF GatesOK, GateOK, Entered
<1>7. CommandsOK'
  BY <1>1, NoCommandType DEF CommandsOK, CommandOK
<1>8. UpdatesOK'
  BY <1>1, NoCommandType DEF UpdatesOK, AloneOK, CopyOK, UnderWay
<1> QED
  BY <1>5, <1>6, <1>7, <1>8 DEF ControlInv

-----------------------------------------------------------------------------
\* The invariant is one.

LEMMA ControlInitOK == ControlInit => ControlInv
<1> SUFFICES ASSUME ControlInit
             PROVE  ControlInv
  OBVIOUS
<1>1. /\ gate = [c \in Callers |-> NoGate] /\ command = [c \in Callers |-> NoCommand]
      /\ ctlRequest = [c \in Callers |-> NoRequest] /\ call = [c \in Callers |-> NoCall]
      /\ program \in Programs /\ late = {} /\ unsure = FALSE /\ config \in Places
      /\ remote = [place |-> config, status |-> "enabled", subjects |-> {}, exists |-> TRUE]
  BY DEF ControlInit, Init, C!RequestsInit, C!NoRequest, NoRequest, Places
<1>2. C!RequestsTypeOK
  BY <1>1, NoRequestType, ControlRequestType
<1>3. remote \in Remote /\ remote.place = config
  BY <1>1 DEF Remote, Statuses
<1>4. ControlTypeOK
  BY <1>1, <1>2, <1>3, NoGateType, NoCommandType DEF ControlTypeOK
<1>5. GatesOK
  <2>1. NoCall.op = "none"
    BY DEF NoCall
  <2> QED
    BY <1>1, <2>1, NoGateType DEF GatesOK, GateOK, Entered
<1>6. CommandsOK
  BY <1>1, NoCommandType DEF CommandsOK, CommandOK
<1>7. UpdatesOK
  BY <1>1, <1>3, NoCommandType DEF UpdatesOK, AloneOK, CopyOK, UnderWay
<1> QED
  BY <1>4, <1>5, <1>6, <1>7 DEF ControlInv

LEMMA ControlNextOK == ControlInv /\ TypeOK /\ [ControlNext]_<<vars, ctlVars>> => ControlInv'
<1> SUFFICES ASSUME ControlInv, TypeOK, [ControlNext]_<<vars, ctlVars>>
             PROVE  ControlInv'
  OBVIOUS
<1>1. ASSUME NEW c \in Callers, Pass(c)
      PROVE  ControlInv'
  BY <1>1, PassKeeps
<1>2. ASSUME NEW c \in Callers, DoPoll(c) \/ DoAcknowledge(c) \/ DoAutoAcknowledge(c)
      PROVE  ControlInv'
  BY <1>2, SendKeeps
<1>3. ASSUME NEW c \in Callers, Return(c)
      PROVE  ControlInv'
  BY <1>3, ReturnKeeps
<1>4. ASSUME NEW c \in Callers, PollServed(c) \/ PollGivenUp(c)
      PROVE  ControlInv'
  BY <1>4, PollAnswerKeeps
<1>5. ASSUME NEW e \in Events, Arrives(e)
      PROVE  ControlInv'
  BY <1>5, ArrivesKeeps
<1>6. ASSUME NEW c \in Callers, Ask(c)
      PROVE  ControlInv'
  BY <1>6, AskKeeps
<1>7. ASSUME NEW c \in Callers, Served(c)
      PROVE  ControlInv'
  BY <1>7, CommandServedKeeps
<1>8. ASSUME NEW c \in Callers, NotServed(c)
      PROVE  ControlInv'
  BY <1>8, NotServedKeeps
<1>9. ASSUME NEW c \in Callers, GivenUp(c) \/ Attempt(c)
      PROVE  ControlInv'
  BY <1>9, AttemptKeeps
<1>10. ASSUME NEW cmd \in late, ServedLate(cmd)
       PROVE  ControlInv'
  BY <1>10, ServedLateKeeps
<1>11. ASSUME NEW c \in Callers, Configured(c)
       PROVE  ControlInv'
  BY <1>11, ConfiguredKeeps
<1>12. ASSUME NEW c \in Callers, Succeeded(c)
       PROVE  ControlInv'
  BY <1>12, SucceededKeeps
<1>13. ASSUME NEW c \in Callers, Failed(c)
       PROVE  ControlInv'
  BY <1>13, FailedKeeps
<1>14. CASE ControlRestart
  BY <1>14, ControlRestartKeeps
<1>15. CASE UNCHANGED <<vars, ctlVars>>
  <2>1. \A d \in Callers : call'[d].op = call[d].op
    BY <1>15 DEF vars
  <2> QED
    BY <1>15, <2>1, SameGates
<1> QED
  BY <1>1, <1>2, <1>3, <1>4, <1>5, <1>6, <1>7, <1>8, <1>9, <1>10, <1>11, <1>12, <1>13,
     <1>14, <1>15 DEF ControlNext

\* The invariant of a stream object with all its operations.
THEOREM ControlInvariance == ControlSpec => []ControlInv
<1>1. ControlSpec => []TypeOK
  BY ControlImplements, PollTypeCorrect, PTL
<1> QED
  BY <1>1, ControlInitOK, ControlNextOK, PTL DEF ControlSpec

\* The state of a stream object and of the commands under way stays in its type.
THEOREM ControlTypeCorrect == ControlSpec => []ControlTypeOK
<1>1. ControlInv => ControlTypeOK
  BY DEF ControlInv
<1> QED
  BY <1>1, ControlInvariance, PTL

\* Polls and acknowledgments go to an endpoint for polling, unless the copy of
\* the configuration was replaced after their guard (Poll, Acknowledge).
THEOREM PollsGoToPolls == ControlSpec => []PolledWherePolled
<1>1. ControlInv => PolledWherePolled
  BY DEF ControlInv, GatesOK, GateOK, PolledWherePolled
<1> QED
  BY <1>1, ControlInvariance, PTL

\* The copy is the transmitter's configuration when no update is under way, and
\* none has gone wrong since the last one by itself (UpdateConfiguration).
THEOREM CopyKept == ControlSpec => []ConfigurationKept
<1>1. ControlInv => ConfigurationKept
  BY DEF ControlInv, UpdatesOK, CopyOK, ConfigurationKept, Configuring, UnderWay
<1> QED
  BY <1>1, ControlInvariance, PTL

-----------------------------------------------------------------------------
\* What success means.

\* A command under way succeeds only by returning.
LEMMA OnlySuccess ==
  ASSUME ControlInv, ControlNext, NEW c \in Callers,
         command[c].op # "none", command'[c].result = "ok"
  PROVE  Configured(c) \/ Succeeded(c)
<1>1. /\ command \in [Callers -> Command] /\ command[c] \in Command
      /\ command[c].result = "none"
  BY DEF ControlInv, ControlTypeOK, CommandsOK, CommandOK
<1> SUFFICES ASSUME command'[c].result # command[c].result
             PROVE  Configured(c) \/ Succeeded(c)
  BY <1>1
<1>2. ASSUME NEW d \in Callers,
             \/ Pass(d) \/ DoPoll(d) \/ DoAcknowledge(d) \/ DoAutoAcknowledge(d)
             \/ Return(d) \/ PollServed(d) \/ PollGivenUp(d) \/ GivenUp(d) \/ Attempt(d)
      PROVE  FALSE
  BY <1>2 DEF Pass, DoPoll, DoAcknowledge, DoAutoAcknowledge, Address, Return, PollServed,
              PollGivenUp, GivenUp, Attempt, ctlVars
<1>3. ASSUME NEW d \in Callers, Ask(d)
      PROVE  FALSE
  <2>1. d # c
    BY <1>3 DEF Ask, Idle
  <2>2. \E b : command'[c] = [command[c] EXCEPT !.alone = b]
    BY <1>3, <2>1 DEF Ask
  <2> QED
    BY <1>1, <2>2 DEF Command
<1>4. ASSUME NEW d \in Callers, Served(d)
      PROVE  FALSE
  <2>1. \E h, b, g : command'[c] = [[[command[c] EXCEPT !.held = h] EXCEPT !.carried = b]
                                      EXCEPT !.got = g]
    BY <1>4 DEF Served
  <2> QED
    BY <1>1, <2>1 DEF Command
<1>5. ASSUME NEW d \in Callers, NotServed(d)
      PROVE  FALSE
  <2>1. command' = [e \in Callers |-> [command[e] EXCEPT !.held = Held(e, remote'),
                                                        !.carried = @ \/ e = d]]
    BY <1>5 DEF NotServed
  <2>2. \E h, b : command'[c] = [[command[c] EXCEPT !.held = h] EXCEPT !.carried = b]
    BY <2>1
  <2> QED
    BY <1>1, <2>2 DEF Command
<1>6. ASSUME NEW cmd \in late, ServedLate(cmd)
      PROVE  FALSE
  <2>1. \E h, b : command'[c] = [[command[c] EXCEPT !.held = h] EXCEPT !.alone = b]
    BY <1>6 DEF ServedLate
  <2> QED
    BY <1>1, <2>1 DEF Command
<1>7. ASSUME NEW d \in Callers, Configured(d) \/ Succeeded(d) \/ Failed(d)
      PROVE  d = c /\ (Configured(c) \/ Succeeded(c))
  <2>1. PICK result \in {"ok", "error"} : End(d, result) /\ (Failed(d) => result = "error")
    BY <1>7 DEF Configured, Succeeded, Failed
  <2>2. /\ command'[d].result = result
        /\ \A e \in Callers \ {d} : command'[e] = command[e]
    BY <2>1, EndKeeps
  <2>3. d = c
    BY <2>2
  <2> QED
    BY <1>7, <2>1, <2>2, <2>3
<1>8. ASSUME NEW e \in Events, Arrives(e)
      PROVE  FALSE
  BY <1>8 DEF Arrives, ctlVars
<1>9. ~ ControlRestart
  BY <1>1, NoCommandType DEF ControlRestart
<1> QED
  BY <1>2, <1>3, <1>4, <1>5, <1>6, <1>7, <1>8, <1>9 DEF ControlNext

\* An operation that reports success was carried out during the call, and the
\* status it set or reports is one the stream had then (UpdateConfiguration ..
\* Delete).
THEOREM SuccessIsEffect == ControlSpec => SuccessTookEffect
<1> DEFINE took(c) == /\ command[c].carried
                      /\ command[c].cmd.op = "setstatus" => command[c].cmd.arg \in command[c].held
                      /\ command[c].cmd.op = "getstatus" => command[c].got \in command[c].held
<1>1. ASSUME ControlInv, ControlNext, NEW c \in Callers,
             command[c].op # "none", command'[c].result = "ok"
      PROVE  took(c)
  <2>1. ctlRequest[c].answer = "ok"
    BY <1>1, OnlySuccess DEF Configured, Succeeded, C!Done
  <2> QED
    BY <1>1, <2>1 DEF ControlInv, CommandsOK, CommandOK, Effective
<1>2. ControlInv /\ [ControlNext]_<<vars, ctlVars>> =>
        [\A c \in Callers : command[c].op # "none" /\ command'[c].result = "ok" => took(c)]_command
  <2>1. CASE ControlNext
    BY <1>1, <2>1
  <2>2. CASE UNCHANGED <<vars, ctlVars>>
    BY <2>2 DEF ctlVars
  <2> QED
    BY <2>1, <2>2
<1> QED
  BY <1>2, ControlInvariance, PTL DEF ControlSpec, SuccessTookEffect

=============================================================================
