---------------------------- MODULE StreamControl ----------------------------
(***************************************************************************)
(* A stream object of the receiver library with all its operations, shared *)
(* by the goroutines of one program: PollStream, and the operations that   *)
(* change the stream at the transmitter or ask for its status              *)
(* (ssfreceiver/stream/operations.go).  The object keeps a copy of the     *)
(* stream's configuration, read and replaced without a lock; whether it    *)
(* may be polled, and where, is decided by that copy.                      *)
(*                                                                         *)
(* A step of this module is a step of PollStream or leaves it alone.       *)
(***************************************************************************)
EXTENDS PollStream

CONSTANTS
  PollPlaces,  \* delivery endpoints of the transmitter, to poll
  PushPlaces,  \* delivery endpoints of the program, to push to
  Subjects,    \* subjects of the stream
  Programs     \* what the goroutines of a program do: members of Program

ASSUME PlacesAssumption ==
  /\ PollPlaces # {}
  /\ PollPlaces \cap PushPlaces = {}
  /\ "none" \notin PollPlaces \cup PushPlaces

VARIABLES
  program,     \* which operations each goroutine uses, which events occur
  config,      \* s.config: the delivery endpoint it names
  remote,      \* the stream at the transmitter
  gate,        \* gate[c]: how c came to send its poll or acknowledgment
  command,     \* command[c]: the other operation of c
  ctlRequest,  \* ctlRequest[c]: its request
  late,        \* commands given up on their way
  unsure       \* the copy may not be the transmitter's any more (history)

C == INSTANCE Requests WITH request <- ctlRequest

ctlVars == <<program, config, remote, gate, command, ctlRequest, late, unsure>>

Places == PollPlaces \cup PushPlaces

Statuses == {"enabled", "paused", "disabled"}

\* What a program may ask of the transmitter, in requests that are valid.  Where a
\* stream is polled is the transmitter's choice, whatever endpoint is asked for.
Commands ==
  [op: {"configure"}, arg: {"poll"} \cup PushPlaces]
  \cup [op: {"setstatus"}, arg: Statuses]
  \cup [op: {"add", "remove"}, arg: Subjects]
  \cup [op: {"getstatus", "verify", "delete"}, arg: {"none"}]

\* Poll and Acknowledge.
Deliveries == [op: {"polling", "acknowledging"}, arg: {"none"}]

NoOp == [op |-> "none", arg |-> "none"]

Program == [does: [Callers -> SUBSET (Commands \cup Deliveries)], events: SUBSET Events]

ASSUME ProgramsAssumption == Programs \subseteq Program

Remote == [place: Places, status: Statuses, subjects: SUBSET Subjects, exists: BOOLEAN]

\* moved: s.config was replaced after c passed the guard of Poll or Acknowledge.
Gate == [op: {"none", "polling", "acknowledging"}, place: Places \cup {"none"}, moved: BOOLEAN]

NoGate == [op |-> "none", place |-> "none", moved |-> FALSE]

\* carried: the transmitter has carried the command out; held: the statuses the
\* stream had during the call; alone: no other change of the configuration
\* during the call.
Command == [op: {"none", "configure", "setstatus", "getstatus", "add", "remove",
                 "verify", "delete"},
            cmd: Commands \cup {NoOp}, result: {"none", "ok", "error"},
            got: Places \cup Statuses \cup {"none"},
            carried: BOOLEAN, held: SUBSET Statuses, alone: BOOLEAN]

NoCommand == [op |-> "none", cmd |-> NoOp, result |-> "none", got |-> "none",
              carried |-> FALSE, held |-> {}, alone |-> FALSE]

ControlTypeOK ==
  /\ program \in Programs
  /\ config \in Places
  /\ remote \in Remote
  /\ gate \in [Callers -> Gate]
  /\ command \in [Callers -> Command]
  /\ C!RequestsTypeOK
  /\ late \subseteq Commands
  /\ unsure \in BOOLEAN

\* SetupStream has made or found a stream that is polled, and keeps the
\* configuration the transmitter answered with.
ControlInit ==
  /\ Init
  /\ program \in Programs
  /\ config \in PollPlaces
  /\ remote = [place |-> config, status |-> "enabled", subjects |-> {}, exists |-> TRUE]
  /\ gate = [c \in Callers |-> NoGate]
  /\ command = [c \in Callers |-> NoCommand]
  /\ C!RequestsInit
  /\ late = {}
  /\ unsure = FALSE

-----------------------------------------------------------------------------
\* Poll and Acknowledge: the guard on s.config, then another read of s.config
\* for the endpoint of the request.

IsPollDelivery == config \in PollPlaces

Idle(c) ==
  /\ call[c].op = "none"
  /\ gate[c].op = "none"
  /\ command[c].op = "none"

\* (mutant) Acknowledge does not ask whether the stream is polled
PassAcknowledge(c) ==
  /\ Idle(c)
  /\ \E do \in program.does[c] \cap Deliveries :
       /\ do.op = "polling" => IsPollDelivery
       /\ gate' = [gate EXCEPT ![c].op = do.op]
  /\ UNCHANGED <<program, config, remote, command, ctlRequest, late, unsure>>
  /\ UNCHANGED vars

Pass(c) ==
  /\ Idle(c)
  /\ IsPollDelivery
  /\ \E do \in program.does[c] \cap Deliveries : gate' = [gate EXCEPT ![c].op = do.op]
  /\ UNCHANGED <<program, config, remote, command, ctlRequest, late, unsure>>
  /\ UNCHANGED vars

\* The request of c goes to the endpoint s.config names now.
Address(c) ==
  /\ gate' = [gate EXCEPT ![c].op = "none", ![c].place = config]
  /\ UNCHANGED <<program, config, remote, command, ctlRequest, late, unsure>>

DoPoll(c) == gate[c].op = "polling" /\ Poll(c) /\ Address(c)

DoAcknowledge(c) == gate[c].op = "acknowledging" /\ Acknowledge(c) /\ Address(c)

DoAutoAcknowledge(c) == PolledToAcknowledge(c) /\ Address(c)

Return(c) ==
  /\ \/ Polled(c) \/ PollFailed(c) \/ AutoAcknowledged(c) \/ AutoAckFailed(c)
     \/ Acknowledged(c) \/ AcknowledgeFailed(c)
  /\ gate' = [gate EXCEPT ![c] = NoGate]
  /\ UNCHANGED <<program, config, remote, command, ctlRequest, late, unsure>>

\* The transmitter serves the stream at its own endpoint; anything else there
\* refuses the request.  A stream that is not enabled offers nothing.
AtStream(c) == remote.exists /\ gate[c].place = remote.place /\ remote.place \in PollPlaces

PollServed(c) ==
  /\ \/ /\ AtStream(c)
        /\ ServeOk(c)
        /\ remote.status # "enabled" => call'[c].got = {}
     \/ ServeNotOk(c) /\ (~AtStream(c) => UNCHANGED acked)
  /\ UNCHANGED ctlVars

PollGivenUp(c) == (GiveUp(c) \/ Loop(c)) /\ UNCHANGED ctlVars

Arrives(e) ==
  /\ \/ e \in program.events /\ Offer(e)
     \/ ServeLate(e)
  /\ UNCHANGED ctlVars

-----------------------------------------------------------------------------
\* The operations that command the transmitter.

UnderWay(c, op) == command[c].op = op

Configuring == {c \in Callers : UnderWay(c, "configure")}

\* UpdateConfiguration, UpdateStatus (Pause, Resume, Disable), GetStatus,
\* AddSubject, RemoveSubject, Verify, Delete: a request, in a single attempt.
\* None looks at s.config or at the result of another one.
Ask(c) ==
  /\ Idle(c)
  /\ \E cmd \in program.does[c] \cap Commands :
       LET change == cmd.op = "configure"
           alone(d) == command[d].alone /\ ~change
           mine == [NoCommand EXCEPT !.op = cmd.op, !.cmd = cmd, !.held = {remote.status},
                                     !.alone = (Configuring = {})]
       IN /\ command' = [d \in Callers |->
                           IF d = c THEN mine ELSE [command[d] EXCEPT !.alone = alone(d)]]
          /\ ctlRequest' = [ctlRequest EXCEPT
                              ![c] = C!Issued(StreamRetries, cmd.op \notin {"getstatus", "delete"})]
  /\ UNCHANGED <<program, config, remote, gate, late, unsure>>
  /\ UNCHANGED vars

\* What the stream may be once a command is carried out.
Effects(cmd) ==
  CASE cmd.op = "configure" ->
         {[remote EXCEPT !.place = p] : p \in IF cmd.arg = "poll" THEN PollPlaces ELSE {cmd.arg}}
    [] cmd.op = "setstatus" -> {[remote EXCEPT !.status = cmd.arg]}
    [] cmd.op = "add" -> {[remote EXCEPT !.subjects = @ \cup {cmd.arg}]}
    [] cmd.op = "remove" -> {[remote EXCEPT !.subjects = @ \ {cmd.arg}]}
    [] cmd.op = "delete" -> {[remote EXCEPT !.exists = FALSE]}
    [] OTHER -> {remote}

\* The transmitter's answer: the configuration it has now, or the status.
AnswerTo(cmd, r) ==
  CASE cmd.op = "configure" -> r.place
    [] cmd.op = "getstatus" -> r.status
    [] OTHER -> "none"

Held(d, r) ==
  IF command[d].op = "none" THEN command[d].held ELSE command[d].held \cup {r.status}

\* The transmitter carries a command out, for c or long after it was given up.
Served(c) ==
  /\ C!ServedWith(c, "ok")
  /\ remote.exists
  /\ remote' \in Effects(command[c].cmd)
  /\ command' = [d \in Callers |->
                   [command[d] EXCEPT !.held = Held(d, remote'), !.carried = @ \/ d = c,
                                      !.got = IF d = c THEN AnswerTo(command[c].cmd, remote')
                                                       ELSE @]]
  /\ UNCHANGED <<program, config, gate, late, unsure>>
  /\ UNCHANGED vars

NotServed(c) ==
  /\ C!Sending(c)
  /\ \/ C!ServedWith(c, "refused") /\ UNCHANGED <<remote, command>>
     \/ C!ServedWith(c, "again") /\ UNCHANGED <<remote, command>>
     \/ /\ C!ServedWith(c, "again")
        /\ remote.exists
        /\ remote' \in Effects(command[c].cmd)
        /\ command' = [d \in Callers |-> [command[d] EXCEPT !.held = Held(d, remote'),
                                                            !.carried = @ \/ d = c]]
  /\ UNCHANGED <<program, config, gate, late, unsure>>
  /\ UNCHANGED vars

\* A command on its way is carried out later, or never.
Abandoned(c) ==
  IF C!Sending(c) /\ command[c].op \notin {"getstatus", "verify"} THEN {command[c].cmd} ELSE {}

GivenUp(c) ==
  /\ C!Interrupted(c) \/ C!Cancelled(c)
  /\ late' = late \cup Abandoned(c)
  /\ UNCHANGED <<program, config, remote, gate, command, unsure>>
  /\ UNCHANGED vars

ServedLate(cmd) ==
  /\ cmd \in late
  /\ remote.exists
  /\ late' = late \ {cmd}
  /\ remote' \in Effects(cmd)
  /\ command' = [d \in Callers |->
                   [command[d] EXCEPT !.held = Held(d, remote'),
                                      !.alone = @ /\ cmd.op # "configure"]]
  /\ unsure' = (unsure \/ cmd.op = "configure")
  /\ UNCHANGED <<program, config, gate, ctlRequest>>
  /\ UNCHANGED vars

Attempt(c) ==
  /\ C!LoopStep(c)
  /\ UNCHANGED <<program, config, remote, gate, command, late, unsure>>
  /\ UNCHANGED vars

-----------------------------------------------------------------------------
\* The operations return.

End(c, result) ==
  /\ command' = [command EXCEPT ![c] = [NoCommand EXCEPT !.result = result]]
  /\ ctlRequest' = [ctlRequest EXCEPT ![c] = NoRequest]
  /\ UNCHANGED <<program, remote, late>>
  /\ UNCHANGED vars

\* s.config is replaced: whoever passed a guard passed it on the old one.
Replace(place) ==
  /\ config' = place
  /\ gate' = [d \in Callers |-> [gate[d] EXCEPT !.moved = gate[d] # NoGate]]

\* (mutant) what was asked for is kept, not what was answered
ConfiguredAsAsked(c) ==
  /\ UnderWay(c, "configure")
  /\ C!Done(c, {"ok"})
  /\ \E p \in Places :
       /\ IF command[c].cmd.arg = "poll" THEN p \in PollPlaces ELSE p = command[c].cmd.arg
       /\ Replace(p)
  /\ unsure' = ~command[c].alone
  /\ End(c, "ok")

\* (mutant) the status code is not looked at: the body of a refusal decodes to a
\* configuration that names no endpoint
ConfiguredUnchecked(c) ==
  /\ UnderWay(c, "configure")
  /\ C!Done(c, {"ok", "refused"})
  /\ Replace(command[c].got)
  /\ unsure' = ~command[c].alone
  /\ End(c, "ok")

\* The answered configuration replaces the copy.
Configured(c) ==
  /\ UnderWay(c, "configure")
  /\ C!Done(c, {"ok"})
  /\ Replace(command[c].got)
  /\ unsure' = ~command[c].alone
  /\ End(c, "ok")

\* (mutant) the status code of the answer is not looked at
SucceededUnchecked(c) ==
  /\ command[c].op \in {"setstatus", "getstatus", "add", "remove", "verify", "delete"}
  /\ C!Done(c, {"ok", "refused"})
  /\ UNCHANGED <<config, gate, unsure>>
  /\ End(c, "ok")

Succeeded(c) ==
  /\ command[c].op \in {"setstatus", "getstatus", "add", "remove", "verify", "delete"}
  /\ C!Done(c, {"ok"})
  /\ UNCHANGED <<config, gate, unsure>>
  /\ End(c, "ok")

\* A failure, or an answer that is not the configuration or status asked for:
\* what the transmitter carried out the copy does not learn.
Failed(c) ==
  /\ C!Done(c, Failures \cup (IF command[c].op \in {"configure", "getstatus"} THEN {"ok"} ELSE {}))
  /\ unsure' = (unsure \/ (UnderWay(c, "configure") /\ command[c].carried))
  /\ UNCHANGED <<config, gate>>
  /\ End(c, "error")

\* The program ends; another one finds the stream, and its SetupStream reads
\* the configuration.
ControlRestart ==
  /\ Restart
  /\ remote.exists
  /\ late' = late \cup UNION {Abandoned(c) : c \in Callers}
  /\ config' = remote.place
  /\ gate' = [c \in Callers |-> NoGate]
  /\ command' = [c \in Callers |-> NoCommand]
  /\ ctlRequest' = [c \in Callers |-> NoRequest]
  /\ unsure' = FALSE
  /\ UNCHANGED <<program, remote>>

ControlNext ==
  \/ \E c \in Callers :
       \/ Pass(c) \/ DoPoll(c) \/ DoAcknowledge(c) \/ DoAutoAcknowledge(c)
       \/ Return(c) \/ PollServed(c) \/ PollGivenUp(c)
       \/ Ask(c) \/ Served(c) \/ NotServed(c) \/ GivenUp(c) \/ Attempt(c)
       \/ Configured(c) \/ Succeeded(c) \/ Failed(c)
  \/ \E e \in Events : Arrives(e)
  \/ \E cmd \in late : ServedLate(cmd)
  \/ ControlRestart

ControlSpec == ControlInit /\ [][ControlNext]_<<vars, ctlVars>>

-----------------------------------------------------------------------------
\* The copy that decides whether and where the stream is polled is the
\* transmitter's configuration, except while an update is under way and after
\* updates that overlapped, failed once they were carried out, or were given up
\* and carried out late; a later update by itself sets it right again
\* (UpdateConfiguration, s.config).
ConfigurationKept ==
  Configuring = {} /\ ~unsure => config = remote.place

\* A poll or an acknowledgment is only ever sent to an endpoint for polling,
\* unless s.config was replaced between the guard that lets it pass and the
\* read that tells where to send it (Poll, Acknowledge, doPoll, doAcknowledge).
PolledWherePolled ==
  \A c \in Callers :
    call[c].op # "none" => gate[c].place \in PollPlaces \/ gate[c].moved

\* An operation that reports success was carried out by the transmitter during
\* the call, the stream had the status commanded at some moment of the call, and
\* a status that is reported is one it had during the call, whatever other calls,
\* failures and late commands came between (UpdateConfiguration .. Delete).
SuccessTookEffect ==
  [][\A c \in Callers :
      command[c].op # "none" /\ command'[c].result = "ok" =>
      /\ command[c].carried
      /\ command[c].cmd.op = "setstatus" => command[c].cmd.arg \in command[c].held
      /\ command[c].cmd.op = "getstatus" => command[c].got \in command[c].held
    ]_command
=============================================================================
