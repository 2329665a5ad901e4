------------------------------ MODULE PollStream -----------------------------
(***************************************************************************)
(* A poll-based stream of the receiver library (ssfreceiver/stream), used  *)
(* by several goroutines of one program: Poll, with acknowledgments and    *)
(* automatic acknowledgment, and Acknowledge.                              *)
(*                                                                         *)
(* The transmitter (RFC 8936) keeps offering an event until it is          *)
(* acknowledged; an event that is acknowledged is gone.                    *)
(***************************************************************************)
EXTENDS Requests, FiniteSets

CONSTANTS
  Events,    \* events of the stream, by jti
  MaxEvents  \* OperationOptions.MaxEvents

ASSUME MaxEventsAssumption == MaxEvents \in Nat

VARIABLES
  offered,   \* events the transmitter has offered so far
  acked,     \* events it holds for acknowledged
  straying,  \* events in acknowledgments that were given up on their way
  call,      \* call[c]: the operation of goroutine c
  returned,  \* events that some Poll has returned to the program
  forfeited  \* events being acknowledged automatically when a program ended

vars == <<request, offered, acked, straying, call, returned, forfeited>>

\* acks are the jtis sent with the request, got the events of the answer; the
\* result of the last operation stays until the next one.
Call == [op: {"none", "polling", "autoacking", "acknowledging"},
         result: {"none", "ok", "error"},
         auto: BOOLEAN, acks: SUBSET Events, got: SUBSET Events]

NoCall == [op |-> "none", result |-> "none", auto |-> FALSE, acks |-> {}, got |-> {}]

TypeOK ==
  /\ RequestsTypeOK
  /\ offered \subseteq Events
  /\ acked \subseteq offered
  /\ straying \subseteq offered
  /\ call \in [Callers -> Call]
  /\ returned \subseteq offered
  /\ forfeited \subseteq offered

Init ==
  /\ RequestsInit
  /\ offered = {}
  /\ acked = {}
  /\ straying = {}
  /\ call = [c \in Callers |-> NoCall]
  /\ returned = {}
  /\ forfeited = {}

\* NewStream does not store the retry configuration it is given: every request
\* of a stream has a single attempt, and a status that would be retried is an
\* error to the operation.
StreamRetries == 0

-----------------------------------------------------------------------------
\* The operations of the program.  It acknowledges events it was given.

\* (mutant) the stream allows itself a retry the program did not configure
BeginRetrying(c, op, auto, acks) ==
  /\ call[c].op = "none"
  /\ call' = [call EXCEPT ![c] = [NoCall EXCEPT !.op = op, !.auto = auto, !.acks = acks]]
  /\ request' = [request EXCEPT ![c] = Issued(StreamRetries + 1, TRUE)]
  /\ UNCHANGED <<offered, acked, straying, returned, forfeited>>

Begin(c, op, auto, acks) ==
  /\ call[c].op = "none"
  /\ call' = [call EXCEPT ![c] = [NoCall EXCEPT !.op = op, !.auto = auto, !.acks = acks]]
  /\ request' = [request EXCEPT ![c] = Issued(StreamRetries, TRUE)]
  /\ UNCHANGED <<offered, acked, straying, returned, forfeited>>

Poll(c) ==
  \E acks \in SUBSET returned, auto \in BOOLEAN : Begin(c, "polling", auto, acks)

Acknowledge(c) ==
  \E acks \in SUBSET returned : Begin(c, "acknowledging", FALSE, acks)

\* The operation of c returns these events, and an error or none.
Finish(c, events, result) ==
  /\ call' = [call EXCEPT ![c].op = "none", ![c].result = result]
  /\ returned' = returned \cup events
  /\ request' = [request EXCEPT ![c] = NoRequest]
  /\ UNCHANGED <<offered, acked, straying, forfeited>>

Polled(c) ==
  /\ call[c].op = "polling"
  /\ Done(c, {"ok"})
  /\ call[c].auto => call[c].got = {}
  /\ Finish(c, call[c].got, "ok")

\* doPoll acknowledges what it got before it returns it.
PolledToAcknowledge(c) ==
  /\ call[c].op = "polling"
  /\ Done(c, {"ok"})
  /\ call[c].auto
  /\ call[c].got # {}
  /\ call' = [call EXCEPT ![c].op = "autoacking"]
  /\ request' = [request EXCEPT ![c] = Issued(StreamRetries, TRUE)]
  /\ UNCHANGED <<offered, acked, straying, returned, forfeited>>

\* The request failed, or its answer is not what Poll can decode.
PollFailed(c) ==
  /\ call[c].op = "polling"
  /\ Done(c, Failures \cup {"ok"})
  /\ Finish(c, {}, "error")

AutoAcknowledged(c) ==
  /\ call[c].op = "autoacking"
  /\ Done(c, {"ok"})
  /\ Finish(c, call[c].got, "ok")

\* (mutant) an operation that fails returns no events
AutoAckFailedEmpty(c) ==
  /\ call[c].op = "autoacking"
  /\ Done(c, Failures)
  /\ Finish(c, {}, "error")

\* (mutant) what the transmitter refused to take for acknowledged is left to
\* the next poll
AutoAckRefusedEmpty(c) ==
  /\ call[c].op = "autoacking"
  /\ Done(c, Failures)
  /\ Finish(c, IF request[c].answer = "refused" THEN {} ELSE call[c].got, "error")

\* The events are returned beside the error.
AutoAckFailed(c) ==
  /\ call[c].op = "autoacking"
  /\ Done(c, Failures)
  /\ Finish(c, call[c].got, "error")

\* (mutant) the status of the answer is not looked at
AcknowledgedUnchecked(c) ==
  /\ call[c].op = "acknowledging"
  /\ Done(c, {"ok", "refused"})
  /\ Finish(c, {}, "ok")

Acknowledged(c) ==
  /\ call[c].op = "acknowledging"
  /\ Done(c, {"ok"})
  /\ Finish(c, {}, "ok")

AcknowledgeFailed(c) ==
  /\ call[c].op = "acknowledging"
  /\ Done(c, Failures)
  /\ Finish(c, {}, "error")

Operation(c) ==
  \/ Poll(c) \/ Acknowledge(c)
  \/ Polled(c) \/ PolledToAcknowledge(c) \/ PollFailed(c)
  \/ AutoAcknowledged(c) \/ AutoAckFailed(c)
  \/ Acknowledged(c) \/ AcknowledgeFailed(c)

-----------------------------------------------------------------------------
\* The transmitter.

Offer(e) ==
  /\ e \notin offered
  /\ offered' = offered \cup {e}
  /\ UNCHANGED <<request, acked, straying, call, returned, forfeited>>

\* The jtis the request under way of c acknowledges.
Acknowledging(c) ==
  IF call[c].op = "autoacking" THEN call[c].got ELSE call[c].acks

\* The request is carried out; a poll is answered with events that are still
\* offered, the answer to an acknowledgment is not read for any.
ServeOk(c) ==
  /\ ServedWith(c, "ok")
  /\ acked' = acked \cup Acknowledging(c)
  /\ IF call[c].op = "polling"
     THEN \E events \in SUBSET (offered \ acked') :
            /\ Cardinality(events) <= MaxEvents
            /\ call' = [call EXCEPT ![c].got = events]
     ELSE UNCHANGED call
  /\ UNCHANGED <<offered, straying, returned, forfeited>>

\* A failure the transmitter reports: a retryable one may follow the effect.
ServeNotOk(c) ==
  /\ \/ ServedWith(c, "refused") /\ UNCHANGED acked
     \/ ServedWith(c, "again") /\ acked' \in {acked, acked \cup Acknowledging(c)}
  /\ UNCHANGED <<offered, straying, call, returned, forfeited>>

\* The caller gives up, or the connection breaks: what the request acknowledges
\* may still reach the transmitter.
GiveUp(c) ==
  /\ Interrupted(c) \/ Cancelled(c)
  /\ straying' = IF Sending(c) THEN straying \cup Acknowledging(c) ELSE straying
  /\ UNCHANGED <<offered, acked, call, returned, forfeited>>

Loop(c) ==
  /\ LoopStep(c)
  /\ UNCHANGED <<offered, acked, straying, call, returned, forfeited>>

ServeLate(e) ==
  /\ e \in straying \ acked
  /\ acked' = acked \cup {e}
  /\ UNCHANGED <<request, offered, straying, call, returned, forfeited>>

-----------------------------------------------------------------------------
Autoacking == {c \in Callers : call[c].op = "autoacking"}

InHand == UNION {call[c].got : c \in Autoacking}

\* The program ends with its calls, and another one takes up the stream.
Restart ==
  /\ call' = [c \in Callers |-> NoCall]
  /\ request' = [c \in Callers |-> NoRequest]
  /\ straying' = straying \cup UNION {Acknowledging(c) : c \in {d \in Callers : Sending(d)}}
  /\ forfeited' = forfeited \cup InHand
  /\ UNCHANGED <<offered, acked, returned>>

Next ==
  \/ \E c \in Callers : Operation(c) \/ ServeOk(c) \/ ServeNotOk(c)
                       \/ GiveUp(c) \/ Loop(c)
  \/ \E e \in Events : Offer(e) \/ ServeLate(e)
  \/ Restart

Spec == Init /\ [][Next]_vars

-----------------------------------------------------------------------------
\* The transmitter never gives up an event the program has not got: what is
\* acknowledged, or may still be, was returned by a Poll or is in the hands of
\* one that acknowledges automatically, unless the program ended right then
\* (doPoll, doAcknowledge).
NothingLost ==
  acked \cup straying \subseteq returned \cup InHand \cup forfeited

\* An operation that succeeds has acknowledged what it was to acknowledge, at
\* whatever point requests and answers were lost.
SuccessIsAcknowledged ==
  \A c \in Callers :
    call[c].op = "none" /\ call[c].result = "ok" =>
      /\ call[c].acks \subseteq acked
      /\ call[c].auto => call[c].got \subseteq acked \cap returned

\* A polled stream keeps the promise of Delivery: what an automatic
\* acknowledgment holds reaches the program, with or without an error, and
\* nothing else is ever acknowledged that the program has not got (doPoll,
\* doAcknowledge).
Promise ==
  INSTANCE Delivery WITH held <- InHand, given <- returned, dropped <- forfeited

EventsKept == Promise!Spec
=============================================================================
