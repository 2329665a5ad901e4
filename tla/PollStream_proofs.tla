-------------------------- MODULE PollStream_proofs --------------------------
(***************************************************************************)
(* Proofs about poll-based streams, for any goroutines, events and limits: *)
(* no event is lost, and an operation that succeeds has acknowledged.      *)
(***************************************************************************)
EXTENDS PollStream, Requests_proofs

\* What an operation acknowledges was returned before; what a request that
\* succeeded was to acknowledge is acknowledged; so was, in an automatic
\* acknowledgment, what the poll before it carried.
CallOK(c) ==
  /\ call[c].acks \subseteq returned
  /\ call[c].op # "none" /\ request[c].answer = "ok" => Acknowledging(c) \subseteq acked
  /\ call[c].op = "autoacking" => call[c].acks \subseteq acked
  /\ call[c].op = "acknowledging" => ~ call[c].auto
  /\ call[c].op = "none" /\ call[c].result = "ok" =>
       /\ call[c].acks \subseteq acked
       /\ call[c].auto => call[c].got \subseteq acked \cap returned

IInv ==
  /\ TypeOK
  /\ \A c \in Callers : call[c].got \subseteq offered
  /\ \A c \in Callers : CallOK(c)
  /\ NothingLost

-----------------------------------------------------------------------------
\* The operation of c becomes k, the others stay.
OnlyCall(c, k) ==
  /\ k \in Call
  /\ call' = [call EXCEPT ![c] = k]

LEMMA CallFields ==
  ASSUME NEW k \in Call
  PROVE  /\ k.op \in {"none", "polling", "autoacking", "acknowledging"}
         /\ k.result \in {"none", "ok", "error"}
         /\ k.auto \in BOOLEAN
         /\ k.acks \in SUBSET Events
         /\ k.got \in SUBSET Events
  BY DEF Call

\* An event is in hand if some automatic acknowledgment carries it.
LEMMA InHandMember ==
  \A e : e \in InHand <=>
    \E c \in Callers : call[c].op = "autoacking" /\ e \in call[c].got
  BY DEF InHand, Autoacking

LEMMA InHandMemberNext ==
  \A e : e \in InHand' <=>
    \E c \in Callers : call'[c].op = "autoacking" /\ e \in call'[c].got
  BY DEF InHand, Autoacking

\* Events leave the hands of a program only as those of the one call that
\* changes.
LEMMA HandsKept ==
  ASSUME TypeOK, NEW c \in Callers, NEW k, OnlyCall(c, k), NEW X,
         call[c].op = "autoacking" =>
           call[c].got \subseteq X \/ (k.op = "autoacking" /\ k.got = call[c].got)
  PROVE  InHand \subseteq InHand' \cup X
<1> SUFFICES ASSUME NEW e \in InHand, e \notin X
             PROVE  e \in InHand'
  OBVIOUS
<1>1. PICK d \in Callers : call[d].op = "autoacking" /\ e \in call[d].got
  BY InHandMember
<1>2. call'[d].op = "autoacking" /\ e \in call'[d].got
  <2>1. CASE d = c
    BY <1>1, <2>1 DEF OnlyCall, TypeOK
  <2>2. CASE d # c
    BY <1>1, <2>2 DEF OnlyCall, TypeOK
  <2> QED
    BY <2>1, <2>2
<1> QED
  BY <1>2, InHandMemberNext

\* What the transmitter and the program have only ever grows.
Grow ==
  /\ offered \subseteq offered'
  /\ acked \subseteq acked'
  /\ returned \subseteq returned'

SetsTyped ==
  /\ offered \subseteq Events
  /\ acked \subseteq offered
  /\ straying \subseteq offered
  /\ returned \subseteq offered
  /\ forfeited \subseteq offered

\* A step of one caller keeps the invariant if it keeps that caller's part.
LEMMA StepOfOne ==
  ASSUME IInv, NEW c \in Callers, NEW q, NEW k,
         OnlyRequest(c, q), OnlyCall(c, k), Grow, SetsTyped',
         k.got \subseteq offered', CallOK(c)', NothingLost'
  PROVE  IInv'
<1>1. RequestsTypeOK'
  BY OnlyRequestType DEF IInv, TypeOK
<1>2. call' \in [Callers -> Call]
  BY DEF IInv, TypeOK, OnlyCall
<1>3. TypeOK'
  BY <1>1, <1>2 DEF TypeOK, SetsTyped
<1>4. \A d \in Callers \ {c} : call'[d] = call[d] /\ request'[d] = request[d]
  BY OnlyRequestType DEF IInv, TypeOK, OnlyCall
<1>5. \A d \in Callers : call'[d].got \subseteq offered'
  <2>1. call'[c] = k
    BY DEF IInv, TypeOK, OnlyCall
  <2> QED
    BY <1>4, <2>1 DEF IInv, Grow
<1>6. ASSUME NEW d \in Callers PROVE CallOK(d)'
  <2>1. CASE d = c
    BY <2>1
  <2>2. CASE d # c
    <3>1. CallOK(d)
      BY DEF IInv
    <3>2. call'[d] = call[d] /\ request'[d] = request[d]
      BY <1>4, <2>2
    <3>3. Acknowledging(d)' = Acknowledging(d)
      BY <3>2 DEF Acknowledging
    <3> QED
      BY <3>1, <3>2, <3>3 DEF CallOK, Grow
  <2> QED
    BY <2>1, <2>2
<1> QED
  BY <1>3, <1>5, <1>6 DEF IInv

LEMMA SameCall ==
  ASSUME TypeOK, NEW c \in Callers, UNCHANGED call
  PROVE  OnlyCall(c, call[c])
  BY DEF TypeOK, OnlyCall

\* What is being acknowledged was offered, and is returned or in hand.
LEMMA AcknowledgingSafe ==
  ASSUME IInv, NEW c \in Callers
  PROVE  /\ Acknowledging(c) \subseteq offered
         /\ Acknowledging(c) \subseteq returned \cup InHand
<1>1. call[c].acks \subseteq returned /\ call[c].got \subseteq offered
  BY DEF IInv, CallOK
<1>2. CASE call[c].op = "autoacking"
  BY <1>1, <1>2, InHandMember DEF Acknowledging
<1>3. CASE call[c].op # "autoacking"
  BY <1>1, <1>3 DEF Acknowledging, IInv, TypeOK
<1> QED
  BY <1>2, <1>3

-----------------------------------------------------------------------------
(* The steps of the operations. *)

Begun(op, auto, acks) == [NoCall EXCEPT !.op = op, !.auto = auto, !.acks = acks]

LEMMA BeginCall ==
  ASSUME NEW op \in {"polling", "acknowledging"}, NEW auto \in BOOLEAN,
         NEW acks \in SUBSET Events
  PROVE  /\ Begun(op, auto, acks) \in Call
         /\ Begun(op, auto, acks).op = op
         /\ Begun(op, auto, acks).result = "none"
         /\ Begun(op, auto, acks).auto = auto
         /\ Begun(op, auto, acks).acks = acks
         /\ Begun(op, auto, acks).got = {}
<1> DEFINE k == [[[NoCall EXCEPT !.op = op] EXCEPT !.auto = auto] EXCEPT !.acks = acks]
<1>1. NoCall \in Call /\ NoCall.result = "none" /\ NoCall.got = {}
  BY DEF NoCall, Call
<1>2. /\ k \in Call
      /\ k.op = op /\ k.result = "none"
      /\ k.auto = auto /\ k.acks = acks /\ k.got = {}
  BY <1>1 DEF Call
<1>3. k = Begun(op, auto, acks)
  BY DEF NoCall, Begun
<1> QED
  BY <1>2, <1>3

\* The single attempt of a request of a stream.
LEMMA StreamIssuedType ==
  /\ Issued(StreamRetries, TRUE) \in Request
  /\ Issued(StreamRetries, TRUE).answer = "none"
<1>1. StreamRetries \in 0..MaxRetries
  BY RetriesAssumption DEF StreamRetries
<1> QED
  BY <1>1, IssuedType

LEMMA BeginKeeps ==
  ASSUME IInv, NEW c \in Callers, NEW op \in {"polling", "acknowledging"},
         NEW auto \in BOOLEAN, NEW acks \in SUBSET returned,
         op = "acknowledging" => ~ auto,
         Begin(c, op, auto, acks)
  PROVE  IInv'
<1> DEFINE k == Begun(op, auto, acks)
           q == Issued(StreamRetries, TRUE)
<1>1. acks \in SUBSET Events
  BY DEF IInv, TypeOK
<1>2. /\ k \in Call
      /\ k.op = op /\ k.result = "none"
      /\ k.auto = auto /\ k.acks = acks /\ k.got = {}
  BY <1>1, BeginCall
<1>3. OnlyCall(c, k)
  BY <1>2 DEF Begin, OnlyCall, Begun
<1>4. q \in Request /\ q.answer = "none"
  BY StreamIssuedType
<1>5. OnlyRequest(c, q)
  BY <1>4 DEF Begin, OnlyRequest
<1> HIDE DEF k, q
<1>6. call'[c] = k /\ request'[c] = q
  BY <1>3, <1>5 DEF IInv, TypeOK, RequestsTypeOK, OnlyCall, OnlyRequest
<1>7. UNCHANGED <<offered, acked, straying, returned, forfeited>>
  BY DEF Begin
<1>8. Grow /\ SetsTyped'
  BY <1>7 DEF Grow, SetsTyped, IInv, TypeOK
<1>9. CallOK(c)'
  BY <1>2, <1>4, <1>6, <1>7 DEF CallOK
<1>10. NothingLost'
  <2>1. InHand \subseteq InHand' \cup {}
    BY <1>3, HandsKept DEF Begin, IInv
  <2> QED
    BY <1>7, <2>1 DEF NothingLost, IInv
<1>11. k.got \subseteq offered'
  BY <1>2
<1> QED
  BY <1>3, <1>5, <1>8, <1>9, <1>10, <1>11, StepOfOne

\* An operation may end with events that are offered, if those in its hands are
\* among them, and with success if what it was to acknowledge is acknowledged.
LEMMA FinishKeeps ==
  ASSUME IInv, NEW c \in Callers, NEW events \in SUBSET offered,
         NEW result \in {"ok", "error"},
         Finish(c, events, result),
         call[c].op = "autoacking" => call[c].got \subseteq events,
         result = "ok" =>
           /\ call[c].acks \subseteq acked
           /\ call[c].auto => call[c].got \subseteq acked \cap events
  PROVE  IInv'
<1> DEFINE k == [call[c] EXCEPT !.op = "none", !.result = result]
<1>1. call[c] \in Call
  BY DEF IInv, TypeOK
<1>2. /\ k \in Call
      /\ k.op = "none" /\ k.result = result
      /\ k.auto = call[c].auto /\ k.acks = call[c].acks /\ k.got = call[c].got
  BY <1>1 DEF Call
<1>3. OnlyCall(c, k)
  BY <1>2 DEF Finish, OnlyCall, IInv, TypeOK
<1>4. OnlyRequest(c, NoRequest)
  BY NoRequestType DEF Finish, OnlyRequest
<1> HIDE DEF k
<1>5. call'[c] = k /\ request'[c] = NoRequest
  BY <1>3, <1>4 DEF IInv, TypeOK, RequestsTypeOK, OnlyCall, OnlyRequest
<1>6. /\ returned' = returned \cup events
      /\ UNCHANGED <<offered, acked, straying, forfeited>>
  BY DEF Finish
<1>7. Grow /\ SetsTyped'
  BY <1>6 DEF Grow, SetsTyped, IInv, TypeOK
<1>8. CallOK(c)'
  BY <1>2, <1>5, <1>6 DEF CallOK, IInv
<1>9. NothingLost'
  <2>1. InHand \subseteq InHand' \cup events
    BY <1>3, HandsKept DEF IInv
  <2> QED
    BY <1>6, <2>1 DEF NothingLost, IInv
<1>10. k.got \subseteq offered'
  BY <1>2, <1>6 DEF IInv
<1> QED
  BY <1>3, <1>4, <1>7, <1>8, <1>9, <1>10, StepOfOne

LEMMA AutoackingKeeps ==
  ASSUME IInv, NEW c \in Callers, PolledToAcknowledge(c)
  PROVE  IInv'
<1> DEFINE k == [call[c] EXCEPT !.op = "autoacking"]
           q == Issued(StreamRetries, TRUE)
<1>1. call[c] \in Call
  BY DEF IInv, TypeOK
<1>2. /\ k \in Call
      /\ k.op = "autoacking"
      /\ k.acks = call[c].acks /\ k.got = call[c].got
  BY <1>1 DEF Call
<1>3. OnlyCall(c, k)
  BY <1>2 DEF PolledToAcknowledge, OnlyCall, IInv, TypeOK
<1>4. q \in Request /\ q.answer = "none"
  BY StreamIssuedType
<1>5. OnlyRequest(c, q)
  BY <1>4 DEF PolledToAcknowledge, OnlyRequest
<1> HIDE DEF k, q
<1>6. call'[c] = k /\ request'[c] = q
  BY <1>3, <1>5 DEF IInv, TypeOK, RequestsTypeOK, OnlyCall, OnlyRequest
<1>7. UNCHANGED <<offered, acked, straying, returned, forfeited>>
  BY DEF PolledToAcknowledge
<1>8. Grow /\ SetsTyped'
  BY <1>7 DEF Grow, SetsTyped, IInv, TypeOK
<1>9. call[c].acks \subseteq acked
  BY DEF PolledToAcknowledge, Done, IInv, CallOK, Acknowledging
<1>10. CallOK(c)'
  BY <1>2, <1>4, <1>6, <1>7, <1>9 DEF CallOK, IInv
<1>11. NothingLost'
  <2>1. InHand \subseteq InHand' \cup {}
    BY <1>3, HandsKept DEF PolledToAcknowledge, IInv
  <2> QED
    BY <1>7, <2>1 DEF NothingLost, IInv
<1>12. k.got \subseteq offered'
  BY <1>2, <1>7 DEF IInv
<1> QED
  BY <1>3, <1>5, <1>8, <1>10, <1>11, <1>12, StepOfOne

LEMMA OperationKeeps ==
  ASSUME IInv, NEW c \in Callers, Operation(c)
  PROVE  IInv'
<1> USE DEF Done
<1>1. call[c].acks \subseteq returned /\ call[c].got \in SUBSET offered
  BY DEF IInv, CallOK
<1>2. request[c].answer = "ok" /\ call[c].op # "none" => Acknowledging(c) \subseteq acked
  BY DEF IInv, CallOK
<1>3. CASE Poll(c)
  BY <1>3, BeginKeeps DEF Poll
<1>4. CASE Acknowledge(c)
  BY <1>4, BeginKeeps DEF Acknowledge
<1>5. CASE Polled(c)
  <2>1. call[c].acks \subseteq acked
    BY <1>2, <1>5 DEF Polled, Acknowledging
  <2> QED
    BY <1>1, <1>5, <2>1, FinishKeeps DEF Polled
<1>6. CASE PolledToAcknowledge(c)
  BY <1>6, AutoackingKeeps
<1>7. CASE PollFailed(c)
  BY <1>7, FinishKeeps DEF PollFailed
<1>8. CASE AutoAcknowledged(c)
  <2>1. call[c].got \subseteq acked /\ call[c].acks \subseteq acked
    BY <1>2, <1>8 DEF AutoAcknowledged, Acknowledging, IInv, CallOK
  <2> QED
    BY <1>1, <1>8, <2>1, FinishKeeps DEF AutoAcknowledged
<1>9. CASE AutoAckFailed(c)
  BY <1>1, <1>9, FinishKeeps DEF AutoAckFailed
<1>10. CASE Acknowledged(c)
  <2>1. call[c].acks \subseteq acked /\ ~ call[c].auto
    BY <1>2, <1>10 DEF Acknowledged, Acknowledging, IInv, CallOK
  <2> QED
    BY <1>10, <2>1, FinishKeeps DEF Acknowledged
<1>11. CASE AcknowledgeFailed(c)
  BY <1>11, FinishKeeps DEF AcknowledgeFailed
<1> QED
  BY <1>3, <1>4, <1>5, <1>6, <1>7, <1>8, <1>9, <1>10, <1>11 DEF Operation

-----------------------------------------------------------------------------
(* The steps of the transmitter, the connection and the program's end. *)

LEMMA ServeOkKeeps ==
  ASSUME IInv, NEW c \in Callers, ServeOk(c)
  PROVE  IInv'
<1>1. PICK q : OnlyRequest(c, q) /\ q.answer = "ok"
  BY ServedKeeps DEF ServeOk, IInv, TypeOK
<1>2. /\ acked' = acked \cup Acknowledging(c)
      /\ UNCHANGED <<offered, straying, returned, forfeited>>
  BY DEF ServeOk
<1>3. Grow /\ SetsTyped'
  BY <1>2, AcknowledgingSafe DEF Grow, SetsTyped, IInv, TypeOK
<1>4. call[c] \in Call
  BY DEF IInv, TypeOK
<1>5. \E k : /\ OnlyCall(c, k)
             /\ k.got \subseteq offered'
             /\ k.op = call[c].op /\ k.result = call[c].result
             /\ k.auto = call[c].auto /\ k.acks = call[c].acks
             /\ call[c].op # "polling" => k.got = call[c].got
  <2>1. CASE call[c].op = "polling"
    <3>1. PICK events \in SUBSET (offered \ acked') :
            call' = [call EXCEPT ![c].got = events]
      BY <2>1 DEF ServeOk
    <3> DEFINE k == [call[c] EXCEPT !.got = events]
    <3>2. events \in SUBSET Events /\ events \subseteq offered'
      BY <1>2 DEF IInv, TypeOK
    <3>3. /\ k \in Call
          /\ k.op = call[c].op /\ k.result = call[c].result
          /\ k.auto = call[c].auto /\ k.acks = call[c].acks /\ k.got = events
      BY <1>4, <3>2 DEF Call
    <3>4. OnlyCall(c, k)
      BY <3>1, <3>3 DEF OnlyCall, IInv, TypeOK
    <3> QED
      BY <2>1, <3>2, <3>3, <3>4
  <2>2. CASE call[c].op # "polling"
    <3>1. OnlyCall(c, call[c])
      BY <2>2, SameCall DEF ServeOk, IInv
    <3> QED
      BY <1>2, <2>2, <3>1 DEF IInv
  <2> QED
    BY <2>1, <2>2
<1>6. PICK k : /\ OnlyCall(c, k)
               /\ k.got \subseteq offered'
               /\ k.op = call[c].op /\ k.result = call[c].result
               /\ k.auto = call[c].auto /\ k.acks = call[c].acks
               /\ call[c].op # "polling" => k.got = call[c].got
  BY <1>5
<1>7. call'[c] = k /\ request'[c] = q
  BY <1>1, <1>6 DEF IInv, TypeOK, RequestsTypeOK, OnlyCall, OnlyRequest
<1>8. CallOK(c)'
  <2>1. Acknowledging(c)' = Acknowledging(c)
    BY <1>6, <1>7 DEF Acknowledging
  <2> QED
    BY <1>2, <1>6, <1>7, <2>1 DEF CallOK, IInv
<1>9. NothingLost'
  <2>1. InHand \subseteq InHand' \cup {}
    BY <1>6, HandsKept DEF IInv
  <2> QED
    BY <1>2, <2>1, AcknowledgingSafe DEF NothingLost, IInv
<1> QED
  BY <1>1, <1>3, <1>6, <1>8, <1>9, StepOfOne

\* A step that leaves the calls alone, and adds to what is or may be
\* acknowledged no more than the request of one caller is to acknowledge.
LEMMA RequestStepKeeps ==
  ASSUME IInv, NEW c \in Callers, NEW q, OnlyRequest(c, q),
         q.answer = "ok" => request[c].answer = "ok",
         UNCHANGED <<offered, call, returned, forfeited>>,
         acked \subseteq acked',
         acked' \subseteq acked \cup Acknowledging(c),
         straying' \subseteq straying \cup Acknowledging(c)
  PROVE  IInv'
<1>1. OnlyCall(c, call[c])
  BY SameCall DEF IInv
<1>2. Grow /\ SetsTyped'
  BY AcknowledgingSafe DEF Grow, SetsTyped, IInv, TypeOK
<1>3. request'[c] = q
  BY DEF IInv, TypeOK, RequestsTypeOK, OnlyRequest
<1>4. CallOK(c)'
  <2>1. Acknowledging(c)' = Acknowledging(c)
    BY DEF Acknowledging
  <2> QED
    BY <1>3, <2>1 DEF CallOK, IInv
<1>5. NothingLost'
  <2>1. InHand' = InHand
    BY DEF InHand, Autoacking
  <2> QED
    BY <2>1, AcknowledgingSafe DEF NothingLost, IInv
<1>6. call[c].got \subseteq offered'
  BY DEF IInv
<1> QED
  BY <1>1, <1>2, <1>4, <1>5, <1>6, StepOfOne

LEMMA ServeNotOkKeeps ==
  ASSUME IInv, NEW c \in Callers, ServeNotOk(c)
  PROVE  IInv'
<1>1. \E answer \in {"refused", "again"} : ServedWith(c, answer)
  BY DEF ServeNotOk
<1>2. PICK q : OnlyRequest(c, q) /\ q.answer \in {"refused", "again"}
  BY <1>1, ServedKeeps DEF IInv, TypeOK
<1>3. /\ acked \subseteq acked' /\ acked' \subseteq acked \cup Acknowledging(c)
      /\ UNCHANGED <<offered, straying, call, returned, forfeited>>
  BY DEF ServeNotOk
<1> QED
  BY <1>2, <1>3, RequestStepKeeps

LEMMA LoopStepKeeps ==
  ASSUME IInv, NEW c \in Callers, GiveUp(c) \/ Loop(c)
  PROVE  IInv'
<1>1. LoopStep(c) \/ Interrupted(c) \/ Cancelled(c)
  BY DEF GiveUp, Loop
<1>2. PICK q : OnlyRequest(c, q) /\ (q.answer = "ok" => request[c].answer = "ok")
  BY <1>1, LoopKeeps DEF Spends, IInv, TypeOK
<1>3. /\ straying' \subseteq straying \cup Acknowledging(c)
      /\ UNCHANGED <<offered, acked, call, returned, forfeited>>
  BY DEF GiveUp, Loop
<1> QED
  BY <1>2, <1>3, RequestStepKeeps

LEMMA EventStepKeeps ==
  ASSUME IInv, NEW e \in Events, Offer(e) \/ ServeLate(e)
  PROVE  IInv'
<1>1. /\ UNCHANGED <<request, straying, call, returned, forfeited>>
      /\ offered' \in {offered, offered \cup {e}}
      /\ acked \subseteq acked' /\ acked' \subseteq acked \cup straying
  BY DEF Offer, ServeLate
<1>2. TypeOK'
  BY <1>1 DEF IInv, TypeOK, RequestsTypeOK
<1>3. \A c \in Callers : (call[c].got \subseteq offered)'
  BY <1>1 DEF IInv
<1>4. ASSUME NEW c \in Callers PROVE CallOK(c)'
  <2>1. Acknowledging(c)' = Acknowledging(c)
    BY <1>1 DEF Acknowledging
  <2> QED
    BY <1>1, <2>1 DEF CallOK, IInv
<1>5. NothingLost'
  <2>1. InHand' = InHand
    BY <1>1 DEF InHand, Autoacking
  <2> QED
    BY <1>1, <2>1 DEF NothingLost, IInv
<1> QED
  BY <1>2, <1>3, <1>4, <1>5 DEF IInv

LEMMA NoCallType ==
  /\ NoCall \in Call
  /\ NoCall.op = "none" /\ NoCall.result = "none" /\ NoCall.acks = {} /\ NoCall.got = {}
  BY DEF NoCall, Call

LEMMA RestartKeeps ==
  ASSUME IInv, Restart
  PROVE  IInv'
<1> DEFINE Sent == UNION {Acknowledging(c) : c \in {d \in Callers : Sending(d)}}
<1>1. Sent \subseteq offered /\ Sent \subseteq returned \cup InHand
  BY AcknowledgingSafe
<1>2. InHand \subseteq offered
  BY InHandMember DEF IInv
<1>3. /\ straying' = straying \cup Sent
      /\ forfeited' = forfeited \cup InHand
      /\ UNCHANGED <<offered, acked, returned>>
  BY DEF Restart
<1> HIDE DEF Sent
<1>4. \A c \in Callers : call'[c] = NoCall
  BY DEF Restart
<1>5. TypeOK'
  <2>1. RequestsTypeOK'
    BY NoRequestType DEF Restart, RequestsTypeOK
  <2>2. call' \in [Callers -> Call]
    BY NoCallType DEF Restart
  <2> QED
    BY <1>1, <1>2, <1>3, <2>1, <2>2 DEF TypeOK, IInv
<1>6. \A c \in Callers : (call[c].got \subseteq offered)' /\ CallOK(c)'
  BY <1>4, NoCallType DEF CallOK
<1>7. NothingLost'
  BY <1>1, <1>3 DEF NothingLost, IInv
<1> QED
  BY <1>5, <1>6, <1>7 DEF IInv

-----------------------------------------------------------------------------
LEMMA InitOK == Init => IInv
<1> SUFFICES ASSUME Init PROVE IInv
  OBVIOUS
<1>1. \A c \in Callers : call[c] = NoCall
  BY DEF Init
<1>2. TypeOK
  BY NoCallType, NoRequestType DEF Init, TypeOK, RequestsInit, RequestsTypeOK
<1>3. \A c \in Callers : call[c].got \subseteq offered /\ CallOK(c)
  BY <1>1, NoCallType DEF CallOK
<1>4. NothingLost
  BY DEF Init, NothingLost
<1> QED
  BY <1>2, <1>3, <1>4 DEF IInv

LEMMA NextOK == IInv /\ [Next]_vars => IInv'
<1> SUFFICES ASSUME IInv, [Next]_vars PROVE IInv'
  OBVIOUS
<1>1. CASE \E c \in Callers : Operation(c)
  BY <1>1, OperationKeeps
<1>2. CASE \E c \in Callers : ServeOk(c)
  BY <1>2, ServeOkKeeps
<1>3. CASE \E c \in Callers : ServeNotOk(c)
  BY <1>3, ServeNotOkKeeps
<1>4. CASE \E c \in Callers : GiveUp(c) \/ Loop(c)
  BY <1>4, LoopStepKeeps
<1>5. CASE \E e \in Events : Offer(e) \/ ServeLate(e)
  BY <1>5, EventStepKeeps
<1>6. CASE Restart
  BY <1>6, RestartKeeps
<1>7. CASE UNCHANGED vars
  BY <1>7 DEF vars, IInv, TypeOK, RequestsTypeOK, CallOK, Acknowledging,
              NothingLost, InHand, Autoacking
<1> QED
  BY <1>1, <1>2, <1>3, <1>4, <1>5, <1>6, <1>7 DEF Next

\* The inductive invariant of poll-based streams.
THEOREM PollInvariance == Spec => []IInv
  BY InitOK, NextOK, PTL DEF Spec

\* Every variable has its type: in particular no request exceeds its attempts,
\* and nothing is acknowledged or returned that was not offered (doPoll, retry.Do).
THEOREM PollTypeCorrect == Spec => []TypeOK
<1>1. IInv => TypeOK
  BY DEF IInv
<1> QED
  BY <1>1, PollInvariance, PTL

\* No event is acknowledged that no Poll returned or is about to return, unless
\* the program ended while it acknowledged automatically (doPoll, doAcknowledge).
THEOREM PollLosesNothing == Spec => []NothingLost
<1>1. IInv => NothingLost
  BY DEF IInv
<1> QED
  BY <1>1, PollInvariance, PTL

\* An operation that returns without an error has acknowledged everything it was
\* to acknowledge, whatever was lost on the way (doPoll, doAcknowledge).
THEOREM PollSuccess == Spec => []SuccessIsAcknowledged
<1>1. IInv => SuccessIsAcknowledged
  BY DEF IInv, CallOK, SuccessIsAcknowledged
<1> QED
  BY <1>1, PollInvariance, PTL

-----------------------------------------------------------------------------
(* The refinement: what each step is to Delivery. *)

\* What the calls hold stays, if the one call that changes holds the same.
LEMMA HandsSame ==
  ASSUME TypeOK, NEW c \in Callers, NEW k, OnlyCall(c, k),
         (k.op = "autoacking") <=> (call[c].op = "autoacking"),
         k.op = "autoacking" => k.got = call[c].got
  PROVE  InHand' = InHand
<1>1. ASSUME NEW d \in Callers, NEW e
      PROVE  (call'[d].op = "autoacking" /\ e \in call'[d].got)
               <=> (call[d].op = "autoacking" /\ e \in call[d].got)
  <2>1. CASE d = c
    BY <2>1 DEF OnlyCall, TypeOK
  <2>2. CASE d # c
    BY <2>2 DEF OnlyCall, TypeOK
  <2> QED
    BY <2>1, <2>2
<1> QED
  BY <1>1, InHandMember, InHandMemberNext

\* A call that ends gives the program no more to hold.
LEMMA HandsReleased ==
  ASSUME TypeOK, NEW c \in Callers, NEW k, OnlyCall(c, k), k.op # "autoacking"
  PROVE  InHand' \subseteq InHand
<1>1. ASSUME NEW d \in Callers, call'[d].op = "autoacking"
      PROVE  call'[d] = call[d]
  BY <1>1 DEF OnlyCall, TypeOK
<1> QED
  BY <1>1, InHandMember, InHandMemberNext

\* A poll that goes on to acknowledge holds what it got.
LEMMA HandsTaken ==
  ASSUME TypeOK, NEW c \in Callers, NEW k, OnlyCall(c, k),
         call[c].op # "autoacking", k.op = "autoacking"
  PROVE  InHand \subseteq InHand' /\ InHand' \subseteq InHand \cup k.got
<1>1. ASSUME NEW d \in Callers, d # c
      PROVE  call'[d] = call[d]
  BY <1>1 DEF OnlyCall, TypeOK
<1>2. call'[c] = k
  BY DEF OnlyCall, TypeOK
<1> QED
  BY <1>1, <1>2, InHandMember, InHandMemberNext

\* What no variable of Delivery notices.
Unnoticed == UNCHANGED <<offered, acked, returned, forfeited>> /\ InHand' = InHand

LEMMA UnnoticedIsStutter == Unnoticed => UNCHANGED Promise!vars
BY DEF Unnoticed, Promise!vars

LEMMA BeginIsStutter ==
  ASSUME IInv, NEW c \in Callers, NEW op \in {"polling", "acknowledging"},
         NEW auto \in BOOLEAN, NEW acks \in SUBSET returned, Begin(c, op, auto, acks)
  PROVE  [Promise!Next]_(Promise!vars)
<1> DEFINE k == Begun(op, auto, acks)
<1>1. k \in Call /\ k.op = op
  BY BeginCall DEF IInv, TypeOK
<1>2. OnlyCall(c, k)
  BY <1>1 DEF Begin, OnlyCall, Begun
<1> HIDE DEF k
<1>3. InHand' = InHand
  BY <1>1, <1>2, HandsSame DEF Begin, IInv
<1>4. Unnoticed
  BY <1>3 DEF Begin, Unnoticed
<1> QED
  BY <1>4, UnnoticedIsStutter

LEMMA FinishGives ==
  ASSUME IInv, NEW c \in Callers, NEW events \in SUBSET offered,
         NEW result \in {"ok", "error"}, Finish(c, events, result),
         call[c].op = "autoacking" => call[c].got \subseteq events
  PROVE  [Promise!Next]_(Promise!vars)
<1> DEFINE k == [call[c] EXCEPT !.op = "none", !.result = result]
<1>1. call[c] \in Call
  BY DEF IInv, TypeOK
<1>2. k \in Call /\ k.op = "none"
  BY <1>1 DEF Call
<1>3. OnlyCall(c, k)
  BY <1>2 DEF Finish, OnlyCall, IInv, TypeOK
<1> HIDE DEF k
<1>4. InHand' \subseteq InHand
  BY <1>2, <1>3, HandsReleased DEF IInv
<1>5. InHand \subseteq InHand' \cup events
  BY <1>2, <1>3, HandsKept DEF IInv
<1>6. returned' = returned \cup events /\ UNCHANGED <<offered, acked, forfeited>>
  BY DEF Finish
<1>7. returned \subseteq offered
  BY DEF IInv, TypeOK
<1>8. Promise!Give
  BY <1>4, <1>5, <1>6, <1>7 DEF Promise!Give
<1> QED
  BY <1>8 DEF Promise!Next

LEMMA AutoackingHolds ==
  ASSUME IInv, NEW c \in Callers, PolledToAcknowledge(c)
  PROVE  [Promise!Next]_(Promise!vars)
<1> DEFINE k == [call[c] EXCEPT !.op = "autoacking"]
<1>1. call[c] \in Call
  BY DEF IInv, TypeOK
<1>2. k \in Call /\ k.op = "autoacking" /\ k.got = call[c].got
  BY <1>1 DEF Call
<1>3. OnlyCall(c, k)
  BY <1>2 DEF PolledToAcknowledge, OnlyCall, IInv, TypeOK
<1> HIDE DEF k
<1>4. InHand \subseteq InHand' /\ InHand' \subseteq InHand \cup call[c].got
  BY <1>2, <1>3, HandsTaken DEF PolledToAcknowledge, IInv
<1>5. InHand \subseteq offered /\ call[c].got \subseteq offered
  BY InHandMember DEF IInv
<1>6. Promise!Hold
  BY <1>4, <1>5 DEF PolledToAcknowledge, Promise!Hold
<1> QED
  BY <1>6 DEF Promise!Next

LEMMA OperationGives ==
  ASSUME IInv, NEW c \in Callers, Operation(c)
  PROVE  [Promise!Next]_(Promise!vars)
<1>1. call[c].got \in SUBSET offered
  BY DEF IInv
<1>2. CASE Poll(c)
  BY <1>2, BeginIsStutter DEF Poll
<1>3. CASE Acknowledge(c)
  BY <1>3, BeginIsStutter DEF Acknowledge
<1>4. CASE Polled(c)
  BY <1>1, <1>4, FinishGives DEF Polled
<1>5. CASE PolledToAcknowledge(c)
  BY <1>5, AutoackingHolds
<1>6. CASE PollFailed(c)
  BY <1>6, FinishGives DEF PollFailed
<1>7. CASE AutoAcknowledged(c)
  BY <1>1, <1>7, FinishGives DEF AutoAcknowledged
<1>8. CASE AutoAckFailed(c)
  BY <1>1, <1>8, FinishGives DEF AutoAckFailed
<1>9. CASE Acknowledged(c)
  BY <1>9, FinishGives DEF Acknowledged
<1>10. CASE AcknowledgeFailed(c)
  BY <1>10, FinishGives DEF AcknowledgeFailed
<1> QED
  BY <1>2, <1>3, <1>4, <1>5, <1>6, <1>7, <1>8, <1>9, <1>10 DEF Operation

\* The transmitter takes for acknowledged what a request acknowledges, or what
\* one that was given up did.
LEMMA AckedIsAcknowledge ==
  ASSUME IInv, acked \subseteq acked', InHand' = InHand,
         acked' \subseteq acked \cup straying \cup returned \cup InHand,
         UNCHANGED <<offered, returned, forfeited>>
  PROVE  [Promise!Next]_(Promise!vars)
<1>1. acked' \ acked \subseteq returned \cup InHand \cup forfeited
  BY DEF IInv, NothingLost
<1>2. Promise!Acknowledge
  BY <1>1 DEF Promise!Acknowledge
<1> QED
  BY <1>2 DEF Promise!Next

LEMMA ServeOkAcknowledges ==
  ASSUME IInv, NEW c \in Callers, ServeOk(c)
  PROVE  [Promise!Next]_(Promise!vars)
<1>1. InHand' = InHand
  <2>1. CASE call[c].op = "polling"
    <3>1. PICK events \in SUBSET (offered \ acked') :
            call' = [call EXCEPT ![c].got = events]
      BY <2>1 DEF ServeOk
    <3> DEFINE k == [call[c] EXCEPT !.got = events]
    <3>2. events \in SUBSET Events /\ call[c] \in Call
      BY DEF IInv, TypeOK
    <3>3. k \in Call /\ k.op = call[c].op
      BY <3>2 DEF Call
    <3>4. OnlyCall(c, k)
      BY <3>1, <3>3 DEF OnlyCall, IInv, TypeOK
    <3> HIDE DEF k
    <3> QED
      BY <2>1, <3>3, <3>4, HandsSame DEF IInv
  <2>2. CASE call[c].op # "polling"
    BY <2>2 DEF ServeOk, InHand, Autoacking
  <2> QED
    BY <2>1, <2>2
<1> QED
  BY <1>1, AcknowledgingSafe, AckedIsAcknowledge DEF ServeOk

LEMMA RestartEnds ==
  ASSUME IInv, Restart
  PROVE  [Promise!Next]_(Promise!vars)
<1>1. InHand' = {}
  BY NoCallType, InHandMemberNext DEF Restart
<1>2. Promise!End
  BY <1>1 DEF Restart, Promise!End
<1> QED
  BY <1>2 DEF Promise!Next

LEMMA InitPromised == Init => Promise!Init
<1> SUFFICES ASSUME Init PROVE Promise!Init
  OBVIOUS
<1>1. InHand = {}
  BY NoCallType, InHandMember DEF Init
<1> QED
  BY <1>1 DEF Init, Promise!Init

LEMMA NextPromised == IInv /\ [Next]_vars => [Promise!Next]_(Promise!vars)
<1> SUFFICES ASSUME IInv, [Next]_vars PROVE [Promise!Next]_(Promise!vars)
  OBVIOUS
<1>1. CASE \E c \in Callers : Operation(c)
  BY <1>1, OperationGives
<1>2. CASE \E c \in Callers : ServeOk(c)
  BY <1>2, ServeOkAcknowledges
<1>3. ASSUME NEW c \in Callers, ServeNotOk(c)
      PROVE  [Promise!Next]_(Promise!vars)
  <2>1. InHand' = InHand
    BY <1>3 DEF ServeNotOk, InHand, Autoacking
  <2> QED
    BY <1>3, <2>1, AcknowledgingSafe, AckedIsAcknowledge DEF ServeNotOk
<1>4. ASSUME NEW c \in Callers, GiveUp(c) \/ Loop(c)
      PROVE  [Promise!Next]_(Promise!vars)
  <2>1. Unnoticed
    BY <1>4 DEF GiveUp, Loop, Unnoticed, InHand, Autoacking
  <2> QED
    BY <2>1, UnnoticedIsStutter
<1>5. ASSUME NEW e \in Events, Offer(e)
      PROVE  [Promise!Next]_(Promise!vars)
  <2>1. InHand' = InHand
    BY <1>5 DEF Offer, InHand, Autoacking
  <2>2. Promise!Offer(e)
    BY <1>5, <2>1 DEF Offer, Promise!Offer
  <2> QED
    BY <2>2 DEF Promise!Next
<1>6. ASSUME NEW e \in Events, ServeLate(e)
      PROVE  [Promise!Next]_(Promise!vars)
  <2>1. InHand' = InHand
    BY <1>6 DEF ServeLate, InHand, Autoacking
  <2> QED
    BY <1>6, <2>1, AckedIsAcknowledge DEF ServeLate
<1>7. CASE Restart
  BY <1>7, RestartEnds
<1>8. CASE UNCHANGED vars
  <2>1. Unnoticed
    BY <1>8 DEF vars, Unnoticed, InHand, Autoacking
  <2> QED
    BY <2>1, UnnoticedIsStutter
<1> QED
  BY <1>1, <1>2, <1>3, <1>4, <1>5, <1>6, <1>7, <1>8 DEF Next

\* A polled stream implements Delivery: each of its steps, and each of the
\* transmitter's, is one of Delivery's or leaves its variables alone (doPoll,
\* doAcknowledge).
THEOREM PollImplements == Spec => EventsKept
  BY InitPromised, NextPromised, PollInvariance, PTL DEF Spec, EventsKept, Promise!Spec
=============================================================================
