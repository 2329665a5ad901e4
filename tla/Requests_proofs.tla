--------------------------- MODULE Requests_proofs ---------------------------
(***************************************************************************)
(* What the steps of the retry loop do to a request, for the modules that  *)
(* compose it: they keep its type, touch the request of one caller only,   *)
(* and none but the transmitter's answer makes a request succeed.          *)
(***************************************************************************)
EXTENDS Requests, TLAPS

\* The attempts a request may still make.
Left(q) ==
  CASE q.st = "sending" -> MaxRetries + 1 - q.attempt
    [] q.st = "answering" -> MaxRetries - q.attempt
    [] OTHER -> 0

LEMMA LeftBounds ==
  ASSUME NEW q \in Request
  PROVE  /\ Left(q) \in 0..(MaxRetries + 1)
         /\ q.attempt \in 0..MaxRetries
         /\ q.st = "sending" => Left(q) = MaxRetries + 1 - q.attempt
         /\ q.st = "answering" => Left(q) = MaxRetries - q.attempt
         /\ q.st \in {"idle", "done"} => Left(q) = 0
  BY RetriesAssumption DEF Left, Request

LEMMA NoRequestType == NoRequest \in Request /\ NoRequest.answer = "none"
  BY RetriesAssumption DEF NoRequest, Request

\* A request that retry.Do is about to make for the first time.
LEMMA IssuedType ==
  ASSUME NEW limit \in 0..MaxRetries, NEW body \in BOOLEAN
  PROVE  /\ Issued(limit, body) \in Request
         /\ Issued(limit, body).answer = "none"
         /\ Left(Issued(limit, body)) = MaxRetries + 1
<1> DEFINE q == [[[NoRequest EXCEPT !.st = "sending"] EXCEPT !.limit = limit]
                   EXCEPT !.body = body]
<1>1. q \in Request /\ q.answer = "none" /\ q.st = "sending" /\ q.attempt = 0
  BY NoRequestType DEF Request, NoRequest
<1>2. q = Issued(limit, body)
  BY DEF Issued, NoRequest
<1> HIDE DEF q
<1>3. Left(q) = MaxRetries + 1
  BY <1>1, LeftBounds, RetriesAssumption
<1> QED
  BY <1>1, <1>2, <1>3

\* The end of an attempt, failed by anybody, is a type-correct request that has
\* not succeeded and has one attempt less (the loop of retry.Do).
LEMMA NextAttemptType ==
  ASSUME NEW q \in Request
  PROVE  /\ NextAttempt(q) \in Request
         /\ NextAttempt(q).answer # "ok"
         /\ Left(NextAttempt(q)) <= MaxRetries - q.attempt
<1>1. CASE q.attempt < q.limit
  <2> DEFINE n == [q EXCEPT !.st = "sending", !.answer = "none", !.attempt = @ + 1]
  <2>1. q.attempt + 1 \in 0..MaxRetries
    BY <1>1, RetriesAssumption DEF Request
  <2>2. NextAttempt(q) = n
    BY <1>1 DEF NextAttempt
  <2>3. n \in Request /\ n.answer # "ok" /\ n.st = "sending" /\ n.attempt = q.attempt + 1
    BY <2>1 DEF Request
  <2>4. Left(n) = MaxRetries + 1 - (q.attempt + 1)
    BY <2>3, LeftBounds
  <2> HIDE DEF n
  <2> QED
    BY <2>2, <2>3, <2>4, LeftBounds, RetriesAssumption
<1>2. CASE ~ (q.attempt < q.limit)
  <2> DEFINE n == [q EXCEPT !.st = "done", !.answer = "error"]
  <2>1. NextAttempt(q) = n
    BY <1>2 DEF NextAttempt
  <2>2. n \in Request /\ n.answer # "ok" /\ n.st = "done"
    BY DEF Request
  <2>3. Left(n) = 0
    BY <2>2, LeftBounds
  <2> HIDE DEF n
  <2> QED
    BY <2>1, <2>2, <2>3, LeftBounds, RetriesAssumption
<1> QED
  BY <1>1, <1>2

LEMMA FaultType ==
  ASSUME NEW q \in Request
  PROVE  /\ Fault(q) \in Request
         /\ Fault(q).answer # "ok"
         /\ Left(Fault(q)) <= MaxRetries - q.attempt
<1> DEFINE f == [q EXCEPT !.faults = @ + 1]
<1>1. f \in Request /\ f.attempt = q.attempt
  BY DEF Request
<1>2. Fault(q) = NextAttempt(f)
  BY DEF Fault
<1> HIDE DEF f
<1> QED
  BY <1>1, <1>2, NextAttemptType

\* The request of c becomes q, the others stay.
OnlyRequest(c, q) ==
  /\ q \in Request
  /\ request' = [request EXCEPT ![c] = q]

\* Whatever step touches one request only, and leaves it in its type, keeps the
\* type of all.
LEMMA OnlyRequestType ==
  ASSUME RequestsTypeOK, NEW c \in Callers, NEW q, OnlyRequest(c, q)
  PROVE  /\ RequestsTypeOK'
         /\ request'[c] = q
         /\ \A d \in Callers \ {c} : request'[d] = request[d]
  BY DEF RequestsTypeOK, OnlyRequest

\* The request of c becomes q without an answer of the transmitter: it does not
\* turn into a success, and an attempt that was under way is used up.
Spends(c, q) ==
  /\ OnlyRequest(c, q)
  /\ q.answer = "ok" => request[c].answer = "ok"
  /\ Left(q) <= Left(request[c])
  /\ Sending(c) => Left(q) < Left(request[c])

LEMMA SpendsOne ==
  ASSUME RequestsTypeOK, NEW c \in Callers, NEW q \in Request,
         request' = [request EXCEPT ![c] = q],
         q.answer = "ok" => request[c].answer = "ok",
         Left(q) <= MaxRetries - request[c].attempt,
         request[c].st \in {"sending", "answering"}
  PROVE  Spends(c, q)
<1>1. request[c] \in Request
  BY DEF RequestsTypeOK
<1>2. /\ request[c].attempt \in 0..MaxRetries
      /\ request[c].st = "sending" =>
           Left(request[c]) = MaxRetries + 1 - request[c].attempt
      /\ request[c].st = "answering" =>
           Left(request[c]) = MaxRetries - request[c].attempt
  BY <1>1, LeftBounds
<1>3. Left(q) \in 0..(MaxRetries + 1)
  BY LeftBounds
<1>4. Left(q) <= Left(request[c]) /\ (Sending(c) => Left(q) < Left(request[c]))
  BY <1>2, <1>3, RetriesAssumption DEF Sending
<1> QED
  BY <1>4 DEF Spends, OnlyRequest

\* An attempt that ends the request spends what is left.
LEMMA EndSpends ==
  ASSUME RequestsTypeOK, NEW c \in Callers, NEW q \in Request,
         request' = [request EXCEPT ![c] = q],
         q.answer = "ok" => request[c].answer = "ok",
         q.st = "done",
         request[c].st \in {"sending", "answering"}
  PROVE  Spends(c, q)
<1>1. request[c] \in Request
  BY DEF RequestsTypeOK
<1>2. Left(q) = 0 /\ request[c].attempt \in 0..MaxRetries
  BY <1>1, LeftBounds
<1>3. Left(q) <= MaxRetries - request[c].attempt
  BY <1>2, RetriesAssumption
<1> QED
  BY <1>3, SpendsOne

LEMMA LoopKeeps ==
  ASSUME RequestsTypeOK, NEW c \in Callers,
         LoopStep(c) \/ Interrupted(c) \/ Cancelled(c)
  PROVE  \E q : Spends(c, q)
<1>1. request[c] \in Request
  BY DEF RequestsTypeOK
<1>2. CASE Unsent(c) \/ AnswerLost(c)
  <2>1. /\ request' = [request EXCEPT ![c] = Fault(request[c])]
        /\ request[c].st \in {"sending", "answering"}
    BY <1>2 DEF Unsent, AnswerLost, Sending
  <2> QED
    BY <1>1, <2>1, FaultType, SpendsOne
<1>3. CASE BodySpent(c)
  <2>1. /\ request' = [request EXCEPT ![c] = NextAttempt(request[c])]
        /\ request[c].st \in {"sending", "answering"}
    BY <1>3 DEF BodySpent, Sending
  <2> QED
    BY <1>1, <2>1, NextAttemptType, SpendsOne
<1>4. CASE Answered(c)
  <2>1. request[c].st \in {"sending", "answering"}
    BY <1>4 DEF Answered
  <2>2. CASE request[c].answer = "again"
    <3>1. request' = [request EXCEPT ![c] = Fault(request[c])]
      BY <1>4, <2>2 DEF Answered
    <3> QED
      BY <1>1, <2>1, <3>1, FaultType, SpendsOne
  <2>3. CASE request[c].answer # "again"
    <3> DEFINE q == [request[c] EXCEPT !.st = "done"]
    <3>1. q \in Request /\ q.answer = request[c].answer /\ q.st = "done"
      BY <1>1 DEF Request
    <3>2. request' = [request EXCEPT ![c] = q]
      BY <1>4, <2>3 DEF Answered
    <3> HIDE DEF q
    <3> QED
      BY <2>1, <3>1, <3>2, EndSpends
  <2> QED
    BY <2>2, <2>3
<1>5. CASE Interrupted(c)
  <2> DEFINE p == [request[c] EXCEPT !.spent = TRUE]
  <2>1. p \in Request /\ p.attempt = request[c].attempt
    BY <1>1 DEF Request
  <2>2. /\ request' = [request EXCEPT ![c] = Fault(p)]
        /\ request[c].st \in {"sending", "answering"}
    BY <1>5 DEF Interrupted, Sending
  <2> HIDE DEF p
  <2> QED
    BY <2>1, <2>2, FaultType, SpendsOne
<1>6. CASE Cancelled(c)
  <2> DEFINE q == [request[c] EXCEPT !.st = "done", !.answer = "cancelled"]
  <2>1. q \in Request /\ q.answer # "ok" /\ q.st = "done"
    BY <1>1 DEF Request
  <2>2. /\ request' = [request EXCEPT ![c] = q]
        /\ request[c].st \in {"sending", "answering"}
    BY <1>6, RequestsTypeOK DEF Cancelled, RequestsTypeOK
  <2> HIDE DEF q
  <2> QED
    BY <2>1, <2>2, EndSpends
<1> QED
  BY <1>2, <1>3, <1>4, <1>5, <1>6 DEF LoopStep

\* The transmitter's answer, whatever it is, uses the attempt.
LEMMA ServedKeeps ==
  ASSUME RequestsTypeOK, NEW c \in Callers, NEW answer \in {"ok", "refused", "again"},
         ServedWith(c, answer)
  PROVE  \E q : /\ OnlyRequest(c, q)
                /\ q.answer = answer
                /\ Left(q) < Left(request[c])
<1> DEFINE q == [request[c] EXCEPT !.st = "answering", !.answer = answer, !.spent = TRUE]
<1>1. request[c] \in Request
  BY DEF RequestsTypeOK
<1>2. /\ q \in Request
      /\ q.answer = answer
      /\ q.st = "answering"
      /\ q.attempt = request[c].attempt
  BY <1>1 DEF Request
<1>3. request' = [request EXCEPT ![c] = q]
  BY DEF ServedWith, RequestsTypeOK
<1> HIDE DEF q
<1>4. /\ Left(q) = MaxRetries - request[c].attempt
      /\ request[c].attempt \in 0..MaxRetries
      /\ Left(request[c]) = MaxRetries + 1 - request[c].attempt
  BY <1>1, <1>2, LeftBounds DEF ServedWith, Sending
<1>5. Left(q) < Left(request[c])
  BY <1>4, RetriesAssumption
<1> QED
  BY <1>2, <1>3, <1>5 DEF OnlyRequest
=============================================================================
