------------------------------- MODULE Requests ------------------------------
(***************************************************************************)
(* HTTP requests of the receiver library to a transmitter, each made       *)
(* through the retry loop of ssfreceiver/internal/retry/retry.go.  The     *)
(* caller builds one http.Request and the loop passes the same one to      *)
(* http.Client.Do at every attempt: a body that an attempt has read is at  *)
(* its end for the next one.  On a new connection net/http refuses to send *)
(* it; on a reused one its own retry rewinds the body.                     *)
(*                                                                         *)
(* What the transmitter does with a request is the composing module's.     *)
(***************************************************************************)
EXTENDS Naturals

CONSTANTS
  Callers,    \* goroutines that make one request at a time
  MaxRetries  \* RetryConfig.MaxRetries, as the program configures it

ASSUME RetriesAssumption == MaxRetries \in Nat

VARIABLE request  \* request[c]: the loop of caller c

\* "sending": an attempt is about to be made, after the backoff if it is not
\* the first; "answering": the transmitter has acted on it; "done": Do has
\* returned.  An answer is a 2xx status, a status that is final, or one that
\* RetryableStatus lists; "error" and "cancelled" come from the loop itself.
\* faults counts the failures of the connection or of the transmitter.
Request == [st: {"idle", "sending", "answering", "done"},
            answer: {"none", "ok", "refused", "again", "error", "cancelled"},
            attempt: 0..MaxRetries, limit: 0..MaxRetries,
            body: BOOLEAN, spent: BOOLEAN, faults: Nat]

NoRequest == [st |-> "idle", answer |-> "none", attempt |-> 0, limit |-> 0,
              body |-> FALSE, spent |-> FALSE, faults |-> 0]

RequestsTypeOK == request \in [Callers -> Request]

RequestsInit == request = [c \in Callers |-> NoRequest]

-----------------------------------------------------------------------------
Issued(limit, body) ==
  [NoRequest EXCEPT !.st = "sending", !.limit = limit, !.body = body]

\* (mutant) the loop makes one attempt too many
OneAttemptMore(q) ==
  IF q.attempt <= q.limit
  THEN [q EXCEPT !.st = "sending", !.answer = "none", !.attempt = @ + 1]
  ELSE [q EXCEPT !.st = "done", !.answer = "error"]

\* The end of an attempt: the loop goes on while attempt <= MaxRetries.
NextAttempt(q) ==
  IF q.attempt < q.limit
  THEN [q EXCEPT !.st = "sending", !.answer = "none", !.attempt = @ + 1]
  ELSE [q EXCEPT !.st = "done", !.answer = "error"]

Fault(q) == NextAttempt([q EXCEPT !.faults = @ + 1])

Sending(c) == request[c].st = "sending"

\* The transmitter has read the request and answers it.
ServedWith(c, answer) ==
  /\ Sending(c)
  /\ request' = [request EXCEPT ![c].st = "answering", ![c].answer = answer,
                                ![c].spent = TRUE]

\* The connection breaks with the request on its way: the transmitter may act
\* on it later, the caller learns nothing.
Interrupted(c) ==
  /\ Sending(c)
  /\ request' = [request EXCEPT ![c] = Fault([@ EXCEPT !.spent = TRUE])]

\* No connection: nothing is read from the body.
Unsent(c) ==
  /\ Sending(c)
  /\ request' = [request EXCEPT ![c] = Fault(@)]

\* A new connection, and a Content-Length that promises a body already read.
BodySpent(c) ==
  /\ Sending(c)
  /\ request[c].body
  /\ request[c].spent
  /\ request' = [request EXCEPT ![c] = NextAttempt(@)]

Answered(c) ==
  /\ request[c].st = "answering"
  /\ request' = [request EXCEPT ![c] =
                   IF @.answer = "again" THEN Fault(@) ELSE [@ EXCEPT !.st = "done"]]

AnswerLost(c) ==
  /\ request[c].st = "answering"
  /\ request' = [request EXCEPT ![c] = Fault(@)]

\* The caller's context ends, before, between or in attempts.
Cancelled(c) ==
  /\ request[c].st \in {"sending", "answering"}
  /\ request' = [request EXCEPT ![c].st = "done", ![c].answer = "cancelled"]

\* The steps of the loop that nobody else takes part in.
LoopStep(c) == Unsent(c) \/ BodySpent(c) \/ Answered(c) \/ AnswerLost(c)

Done(c, answers) == request[c].st = "done" /\ request[c].answer \in answers

Failures == {"refused", "error", "cancelled"}

-----------------------------------------------------------------------------
\* "Configurable Retry Mechanism: Support for configurable retry mechanism for
\* handling transient failures" (ssfreceiver/README.md): a request is given up
\* with an error only after each of the MaxRetries + 1 attempts it is configured
\* for has met a failure of the connection or the transmitter.
TransientFailuresRetried ==
  \A c \in Callers : Done(c, {"error"}) => request[c].faults = MaxRetries + 1
=============================================================================
