------------------------- MODULE StreamSetup_proofs --------------------------
(***************************************************************************)
(* Proofs about StreamBuilder.Setup, for any programs, delivery methods,   *)
(* numbers of retries and of calls.                                        *)
(***************************************************************************)
EXTENDS StreamSetup, Requests_proofs

\* The attempts to create a stream that n calls of Setup may make, and those
\* that the call under way may still make.
Allowed(n) == n * (MaxRetries + 1)

Remaining(c) ==
  CASE setup[c].pc \in {"metadata", "finding"} -> MaxRetries + 1
    [] setup[c].pc = "creating" -> Left(request[c])
    [] OTHER -> 0

\* What a program was told is what there is: the query's answer may only lack
\* streams made since, and not one of its own unless it has given one up.
SetupOK(c) ==
  /\ \A d \in Callers : setup[c].seen[d] <= streams[d]
  /\ c \notin gaveUp => late[c] = 0
  /\ setup[c].pc = "finding" /\ request[c].answer = "ok" /\ c \notin gaveUp =>
       setup[c].seen[c] = streams[c]
  /\ setup[c].pc = "creating" /\ request[c].answer = "ok" => streams[c] > 0
  /\ setup[c].pc = "ready" =>
       \E d \in Callers : streams[d] > 0 /\ MethodOf[d] = MethodOf[c]
  /\ streams[c] + late[c] + Remaining(c) <= Allowed(setup[c].calls)

IInv ==
  /\ TypeOK
  /\ \A c \in Callers : SetupOK(c)

-----------------------------------------------------------------------------
LEMMA AllowedGrows ==
  ASSUME NEW n \in Nat
  PROVE  /\ Allowed(n) \in Nat
         /\ Allowed(n + 1) = Allowed(n) + MaxRetries + 1
  BY RetriesAssumption DEF Allowed

LEMMA SetupFields ==
  ASSUME NEW k \in Setup
  PROVE  /\ k.pc \in {"idle", "metadata", "finding", "creating", "ready", "failed"}
         /\ k.calls \in Nat
         /\ k.calls \in 0..MaxSetups
         /\ k.seen \in [Callers -> Nat]
  BY SetupAssumption DEF Setup

\* The types of what one program has.
LEMMA OwnTypes ==
  ASSUME TypeOK, NEW c \in Callers
  PROVE  /\ setup[c] \in Setup
         /\ request[c] \in Request
         /\ streams[c] \in Nat /\ late[c] \in Nat
         /\ Left(request[c]) \in Nat
         /\ Remaining(c) \in Nat
         /\ Allowed(setup[c].calls) \in Nat
<1>1. setup[c] \in Setup /\ request[c] \in Request /\ streams[c] \in Nat /\ late[c] \in Nat
  BY DEF TypeOK, RequestsTypeOK
<1>2. Left(request[c]) \in Nat
  BY <1>1, LeftBounds
<1>3. Remaining(c) \in Nat
  BY <1>2, RetriesAssumption DEF Remaining
<1>4. Allowed(setup[c].calls) \in Nat
  BY <1>1, SetupFields, AllowedGrows
<1> QED
  BY <1>1, <1>2, <1>3, <1>4

\* The call of c becomes k, the others stay.
OnlySetup(c, k) ==
  /\ k \in Setup
  /\ setup' = [setup EXCEPT ![c] = k]

\* The transmitter may have more streams of c; c may have given up more.
OnlyCounters(c) ==
  /\ streams' \in [Callers -> Nat]
  /\ late' \in [Callers -> Nat]
  /\ streams[c] <= streams'[c]
  /\ \A d \in Callers \ {c} : streams'[d] = streams[d] /\ late'[d] = late[d]
  /\ gaveUp \subseteq gaveUp'
  /\ gaveUp' \subseteq gaveUp \cup {c}

LEMMA SameCounters ==
  ASSUME TypeOK, NEW c \in Callers, UNCHANGED <<streams, late, gaveUp>>
  PROVE  OnlyCounters(c)
  BY DEF TypeOK, OnlyCounters

LEMMA SameSetup ==
  ASSUME TypeOK, NEW c \in Callers, UNCHANGED setup
  PROVE  OnlySetup(c, setup[c])
  BY DEF TypeOK, OnlySetup

\* After a step of c alone: what it has.
LEMMA After ==
  ASSUME TypeOK, NEW c \in Callers, NEW q, NEW k, OnlyRequest(c, q), OnlySetup(c, k)
  PROVE  request'[c] = q /\ setup'[c] = k
  BY DEF TypeOK, RequestsTypeOK, OnlyRequest, OnlySetup

\* A step of one program keeps the invariant if it keeps that program's part.
LEMMA StepOfOne ==
  ASSUME IInv, NEW c \in Callers, NEW q, NEW k,
         OnlyRequest(c, q), OnlySetup(c, k), OnlyCounters(c), SetupOK(c)'
  PROVE  IInv'
<1>1. TypeOK
  BY DEF IInv
<1>2. RequestsTypeOK'
  BY <1>1, OnlyRequestType DEF TypeOK
<1>3. setup' \in [Callers -> Setup]
  BY <1>1 DEF TypeOK, OnlySetup
<1>4. TypeOK'
  BY <1>1, <1>2, <1>3 DEF TypeOK, OnlyCounters
<1>5. ASSUME NEW d \in Callers PROVE streams[d] <= streams'[d]
  BY <1>1 DEF OnlyCounters, TypeOK
<1>6. ASSUME NEW d \in Callers PROVE SetupOK(d)'
  <2>1. CASE d = c
    BY <2>1
  <2>2. CASE d # c
    <3>1. setup'[d] = setup[d] /\ request'[d] = request[d]
      BY <1>1, <2>2 DEF TypeOK, RequestsTypeOK, OnlyRequest, OnlySetup
    <3>2. /\ streams'[d] = streams[d] /\ late'[d] = late[d]
          /\ d \in gaveUp' <=> d \in gaveUp
      BY <2>2 DEF OnlyCounters
    <3>3. Remaining(d)' = Remaining(d)
      BY <3>1 DEF Remaining
    <3>4. SetupOK(d)
      BY DEF IInv
    <3>5. \A e \in Callers : setup'[d].seen[e] <= streams'[e]
      <4> TAKE e \in Callers
      <4>1. setup[d].seen[e] \in Nat /\ streams[e] \in Nat /\ streams'[e] \in Nat
        BY <1>1, SetupFields DEF TypeOK, OnlyCounters
      <4>2. setup[d].seen[e] <= streams[e]
        BY <3>4 DEF SetupOK
      <4> QED
        BY <1>5, <3>1, <4>1, <4>2
    <3>6. \A e \in Callers : streams[e] > 0 => streams'[e] > 0
      BY <1>1, <1>5 DEF TypeOK, OnlyCounters
    <3> QED
      BY <3>1, <3>2, <3>3, <3>4, <3>5, <3>6 DEF SetupOK
  <2> QED
    BY <2>1, <2>2
<1> QED
  BY <1>4, <1>6 DEF IInv

-----------------------------------------------------------------------------
(* The steps of Setup. *)

LEMMA BeginKeeps ==
  ASSUME IInv, NEW c \in Callers, Begin(c)
  PROVE  IInv'
<1> DEFINE k == [pc |-> "metadata", calls |-> setup[c].calls + 1, seen |-> None]
           q == Issued(MaxRetries, FALSE)
<1>1. TypeOK /\ SetupOK(c)
  BY DEF IInv
<1>2. setup[c] \in Setup
  BY <1>1, OwnTypes
<1>3. setup[c].calls \in Nat /\ setup[c].calls + 1 \in 0..MaxSetups
  BY <1>2, SetupFields, SetupAssumption DEF Begin
<1>4. None \in [Callers -> Nat]
  BY DEF None
<1>5. k \in Setup
  BY <1>3, <1>4 DEF Setup
<1>6. OnlySetup(c, k)
  BY <1>1, <1>5 DEF Begin, OnlySetup, TypeOK
<1>7. q \in Request /\ q.answer = "none"
  <2>1. MaxRetries \in 0..MaxRetries /\ FALSE \in BOOLEAN
    BY RetriesAssumption
  <2> QED
    BY <2>1, IssuedType
<1>8. OnlyRequest(c, q)
  BY <1>7 DEF Begin, OnlyRequest
<1>9. UNCHANGED <<streams, late, gaveUp>>
  BY DEF Begin
<1>10. request'[c] = q /\ setup'[c] = k
  BY <1>1, <1>6, <1>8, After
<1>11. streams[c] + late[c] + (MaxRetries + 1) <= Allowed(setup[c].calls + 1)
  <2>1. streams[c] + late[c] <= Allowed(setup[c].calls)
    BY <1>1, OwnTypes DEF SetupOK
  <2> QED
    BY <1>1, <1>3, <2>1, AllowedGrows, OwnTypes, RetriesAssumption
<1>12. Remaining(c)' = MaxRetries + 1
  BY <1>10 DEF Remaining
<1>13. \A d \in Callers : setup'[c].seen[d] <= streams'[d]
  BY <1>1, <1>9, <1>10 DEF None, TypeOK
<1>14. SetupOK(c)'
  BY <1>1, <1>7, <1>9, <1>10, <1>11, <1>12, <1>13 DEF SetupOK
<1> HIDE DEF k, q
<1> QED
  BY <1>1, <1>6, <1>8, <1>9, <1>14, SameCounters, StepOfOne

\* Setup goes on to its next part with a new request.
LEMMA GotoKeeps ==
  ASSUME IInv, NEW c \in Callers, NEW pc \in {"finding", "creating"},
         NEW body \in BOOLEAN, setup[c].pc \in {"metadata", "finding"},
         Goto(c, pc, body)
  PROVE  IInv'
<1> DEFINE k == [setup[c] EXCEPT !.pc = pc]
           q == Issued(MaxRetries, body)
<1>1. TypeOK /\ SetupOK(c)
  BY DEF IInv
<1>2. k \in Setup /\ k.pc = pc /\ k.calls = setup[c].calls /\ k.seen = setup[c].seen
  BY <1>1, OwnTypes DEF Setup
<1>3. OnlySetup(c, k)
  BY <1>1, <1>2 DEF Goto, OnlySetup, TypeOK
<1>4. q \in Request /\ q.answer = "none" /\ Left(q) = MaxRetries + 1
  BY IssuedType, RetriesAssumption
<1>5. OnlyRequest(c, q)
  BY <1>4 DEF Goto, OnlyRequest
<1> HIDE DEF k, q
<1>6. UNCHANGED <<streams, late, gaveUp>>
  BY DEF Goto
<1>7. request'[c] = q /\ setup'[c] = k
  BY <1>1, <1>3, <1>5, After
<1>8. Remaining(c)' = Remaining(c)
  BY <1>2, <1>4, <1>7 DEF Remaining
<1>9. SetupOK(c)'
  BY <1>1, <1>2, <1>4, <1>6, <1>7, <1>8 DEF SetupOK
<1> QED
  BY <1>1, <1>3, <1>5, <1>6, <1>9, SameCounters, StepOfOne

\* Setup returns: with success only if a stream matches.
LEMMA ReturnKeeps ==
  ASSUME IInv, NEW c \in Callers, NEW pc \in {"ready", "failed"},
         Return(c, pc),
         pc = "ready" => \E d \in Callers : streams[d] > 0 /\ MethodOf[d] = MethodOf[c]
  PROVE  IInv'
<1> DEFINE k == [setup[c] EXCEPT !.pc = pc]
<1>1. TypeOK /\ SetupOK(c)
  BY DEF IInv
<1>2. k \in Setup /\ k.pc = pc /\ k.calls = setup[c].calls /\ k.seen = setup[c].seen
  BY <1>1, OwnTypes DEF Setup
<1>3. OnlySetup(c, k)
  BY <1>1, <1>2 DEF Return, OnlySetup, TypeOK
<1>4. OnlyRequest(c, NoRequest)
  BY NoRequestType DEF Return, OnlyRequest
<1> HIDE DEF k
<1>5. UNCHANGED <<streams, late, gaveUp>>
  BY DEF Return
<1>6. request'[c] = NoRequest /\ setup'[c] = k
  BY <1>1, <1>3, <1>4, After
<1>7. Remaining(c)' = 0
  BY <1>2, <1>6 DEF Remaining
<1>8. streams[c] + late[c] + 0 <= Allowed(setup[c].calls)
  BY <1>1, OwnTypes DEF SetupOK
<1>9. SetupOK(c)'
  BY <1>1, <1>2, <1>5, <1>6, <1>7, <1>8, NoRequestType DEF SetupOK
<1> QED
  BY <1>1, <1>3, <1>4, <1>5, <1>9, SameCounters, StepOfOne

LEMMA SetupStepKeeps ==
  ASSUME IInv, NEW c \in Callers, SetupStep(c)
  PROVE  IInv'
<1>1. TypeOK /\ SetupOK(c)
  BY DEF IInv
<1>2. CASE MetadataFetched(c)
  BY <1>2, GotoKeeps DEF MetadataFetched
<1>3. CASE NoneFound(c)
  BY <1>3, GotoKeeps DEF NoneFound
<1>4. CASE Found(c)
  <2>1. PICK d \in Callers : OneSeen(c, d) /\ MethodOf[d] = MethodOf[c]
    BY <1>4 DEF Found
  <2>2. setup[c].seen[d] = 1 /\ setup[c].seen[d] <= streams[d] /\ streams[d] \in Nat
    BY <1>1, <2>1, OwnTypes DEF OneSeen, SetupOK
  <2>3. streams[d] > 0
    BY <2>2
  <2> QED
    BY <1>4, <2>1, <2>3, ReturnKeeps DEF Found
<1>5. CASE Unsuitable(c)
  BY <1>5, ReturnKeeps DEF Unsuitable
<1>6. CASE Created(c)
  <2>1. streams[c] > 0
    BY <1>1, <1>6 DEF Created, Done, SetupOK
  <2> QED
    BY <1>6, <2>1, ReturnKeeps DEF Created
<1>7. CASE Failed(c)
  BY <1>7, ReturnKeeps DEF Failed
<1> QED
  BY <1>2, <1>3, <1>4, <1>5, <1>6, <1>7 DEF SetupStep

-----------------------------------------------------------------------------
(* The steps of the transmitter and of the retry loop. *)

LEMMA ServeReadKeeps ==
  ASSUME IInv, NEW c \in Callers, ServeRead(c)
  PROVE  IInv'
<1>1. TypeOK /\ SetupOK(c)
  BY DEF IInv
<1>2. PICK q : OnlyRequest(c, q)
  BY <1>1, ServedKeeps DEF ServeRead, TypeOK
<1>3. UNCHANGED <<streams, late, gaveUp>>
  BY DEF ServeRead
<1>4. \E k : /\ OnlySetup(c, k)
             /\ k.pc = setup[c].pc /\ k.calls = setup[c].calls
             /\ k.seen = IF k.pc = "finding" THEN streams ELSE setup[c].seen
  <2>1. CASE setup[c].pc = "finding"
    <3> DEFINE k == [setup[c] EXCEPT !.seen = streams]
    <3>1. k \in Setup /\ k.pc = setup[c].pc /\ k.calls = setup[c].calls /\ k.seen = streams
      BY <1>1, OwnTypes DEF Setup, TypeOK
    <3>2. OnlySetup(c, k)
      BY <1>1, <2>1, <3>1 DEF ServeRead, OnlySetup, TypeOK
    <3> QED
      BY <2>1, <3>1, <3>2
  <2>2. CASE setup[c].pc # "finding"
    BY <1>1, <2>2, SameSetup DEF ServeRead
  <2> QED
    BY <2>1, <2>2
<1>5. PICK k : /\ OnlySetup(c, k)
               /\ k.pc = setup[c].pc /\ k.calls = setup[c].calls
               /\ k.seen = IF k.pc = "finding" THEN streams ELSE setup[c].seen
  BY <1>4
<1>6. request'[c] = q /\ setup'[c] = k
  BY <1>1, <1>2, <1>5, After
<1>7. setup[c].pc \in {"metadata", "finding"}
  BY DEF ServeRead
<1>8. Remaining(c)' = Remaining(c)
  BY <1>5, <1>6, <1>7 DEF Remaining
<1>9. \A d \in Callers : setup'[c].seen[d] <= streams'[d]
  BY <1>1, <1>3, <1>5, <1>6 DEF SetupOK, TypeOK
<1>10. SetupOK(c)'
  BY <1>1, <1>3, <1>5, <1>6, <1>7, <1>8, <1>9 DEF SetupOK
<1> QED
  BY <1>1, <1>2, <1>3, <1>5, <1>10, SameCounters, StepOfOne

LEMMA ServeCreateKeeps ==
  ASSUME IInv, NEW c \in Callers, ServeCreate(c)
  PROVE  IInv'
<1>1. TypeOK /\ SetupOK(c)
  BY DEF IInv
<1>2. /\ \E answer \in {"ok", "refused", "again"} : ServedWith(c, answer)
      /\ setup[c].pc = "creating"
      /\ UNCHANGED <<setup, late, gaveUp>>
  BY DEF ServeCreate
<1>3. PICK answer \in {"ok", "refused", "again"} :
        /\ ServedWith(c, answer)
        /\ \/ streams' = [streams EXCEPT ![c] = @ + 1]
           \/ answer # "ok" /\ UNCHANGED streams
  BY DEF ServeCreate
<1>4. PICK q : OnlyRequest(c, q) /\ q.answer = answer /\ Left(q) < Left(request[c])
  BY <1>1, <1>3, ServedKeeps DEF TypeOK
<1>5. OnlySetup(c, setup[c])
  BY <1>1, <1>2, SameSetup
<1>6. request'[c] = q /\ setup'[c] = setup[c]
  BY <1>1, <1>4, <1>5, After
<1>7. Left(q) \in Nat
  BY <1>4, LeftBounds DEF OnlyRequest
<1>8. Remaining(c) = Left(request[c]) /\ Remaining(c)' = Left(q)
  BY <1>2, <1>6 DEF Remaining
<1>9. /\ streams' \in [Callers -> Nat]
      /\ streams'[c] \in {streams[c], streams[c] + 1}
      /\ answer = "ok" => streams'[c] = streams[c] + 1
      /\ \A d \in Callers \ {c} : streams'[d] = streams[d]
  BY <1>1, <1>3 DEF TypeOK
<1>10. OnlyCounters(c)
  BY <1>1, <1>2, <1>9 DEF OnlyCounters, TypeOK
<1>11. streams'[c] + late[c] + Left(q) <= Allowed(setup[c].calls)
  BY <1>1, <1>4, <1>7, <1>8, <1>9, OwnTypes DEF SetupOK
<1>12. \A d \in Callers : setup[c].seen[d] <= streams'[d]
  <2> TAKE d \in Callers
  <2>1. setup[c].seen[d] \in Nat /\ streams[d] \in Nat /\ setup[c].seen[d] <= streams[d]
    BY <1>1, OwnTypes, SetupFields DEF SetupOK
  <2>2. streams'[d] \in {streams[d], streams[d] + 1}
    BY <1>9
  <2> QED
    BY <2>1, <2>2
<1>13. SetupOK(c)'
  <2>1. answer = "ok" => streams'[c] > 0
    BY <1>1, <1>9, OwnTypes
  <2> QED
    BY <1>1, <1>2, <1>4, <1>6, <1>8, <1>11, <1>12, <2>1 DEF SetupOK
<1> QED
  BY <1>4, <1>5, <1>10, <1>13, StepOfOne

LEMMA LoopStepKeeps ==
  ASSUME IInv, NEW c \in Callers, GiveUp(c) \/ Loop(c)
  PROVE  IInv'
<1>1. TypeOK /\ SetupOK(c)
  BY DEF IInv
<1>2. LoopStep(c) \/ Interrupted(c) \/ Cancelled(c)
  BY DEF GiveUp, Loop
<1>3. PICK q : Spends(c, q)
  BY <1>1, <1>2, LoopKeeps DEF TypeOK
<1>4. OnlyRequest(c, q) /\ UNCHANGED <<setup, streams>>
  BY <1>3 DEF Spends, GiveUp, Loop
<1>5. OnlySetup(c, setup[c])
  BY <1>1, <1>4, SameSetup
<1>6. request'[c] = q /\ setup'[c] = setup[c]
  BY <1>1, <1>4, <1>5, After
<1>7. Left(q) \in Nat
  BY <1>4, LeftBounds DEF OnlyRequest
<1>8. q.answer = "ok" => request[c].answer = "ok"
  BY <1>3 DEF Spends
<1>9. CASE UNCHANGED <<late, gaveUp>>
  <2>1. Remaining(c)' <= Remaining(c) /\ Remaining(c)' \in Nat
    BY <1>1, <1>3, <1>6, <1>7, OwnTypes, RetriesAssumption DEF Remaining, Spends
  <2>2. streams[c] + late[c] + Remaining(c)' <= Allowed(setup[c].calls)
    BY <1>1, <2>1, OwnTypes DEF SetupOK
  <2>3. SetupOK(c)'
    BY <1>1, <1>4, <1>6, <1>8, <1>9, <2>2 DEF SetupOK
  <2> QED
    BY <1>1, <1>4, <1>5, <1>9, <2>3, SameCounters, StepOfOne
<1>10. CASE ~ UNCHANGED <<late, gaveUp>>
  <2>1. /\ setup[c].pc = "creating" /\ Sending(c)
        /\ late' = [late EXCEPT ![c] = @ + 1] /\ gaveUp' = gaveUp \cup {c}
    BY <1>10 DEF GiveUp, Loop
  <2>2. Remaining(c) = Left(request[c]) /\ Remaining(c)' = Left(q)
    BY <1>6, <2>1 DEF Remaining
  <2>3. /\ late' \in [Callers -> Nat] /\ late'[c] = late[c] + 1
        /\ \A d \in Callers \ {c} : late'[d] = late[d]
    BY <1>1, <2>1 DEF TypeOK
  <2>4. OnlyCounters(c)
    BY <1>1, <1>4, <2>1, <2>3 DEF OnlyCounters, TypeOK
  <2>5. streams[c] + late'[c] + Left(q) <= Allowed(setup[c].calls)
    BY <1>1, <1>3, <1>7, <2>1, <2>2, <2>3, OwnTypes DEF SetupOK, Spends
  <2>6. SetupOK(c)'
    BY <1>1, <1>4, <1>6, <1>8, <2>1, <2>2, <2>5 DEF SetupOK
  <2> QED
    BY <1>4, <1>5, <2>4, <2>6, StepOfOne
<1> QED
  BY <1>9, <1>10

LEMMA ServeLateKeeps ==
  ASSUME IInv, NEW c \in Callers, ServeLate(c)
  PROVE  IInv'
<1>1. TypeOK /\ SetupOK(c)
  BY DEF IInv
<1>2. late[c] > 0 /\ UNCHANGED <<request, setup, gaveUp>>
  BY DEF ServeLate
<1>3. OnlySetup(c, setup[c]) /\ OnlyRequest(c, request[c])
  BY <1>1, <1>2, SameSetup DEF OnlyRequest, TypeOK, RequestsTypeOK
<1>4. /\ late' \in [Callers -> Nat] /\ streams' \in [Callers -> Nat]
      /\ late'[c] = late[c] - 1 /\ streams'[c] = streams[c] + 1
      /\ \A d \in Callers \ {c} : late'[d] = late[d] /\ streams'[d] = streams[d]
  BY <1>1, <1>2 DEF ServeLate, TypeOK
<1>5. OnlyCounters(c)
  BY <1>1, <1>2, <1>4, OwnTypes DEF OnlyCounters
<1>6. c \in gaveUp
  BY <1>1, <1>2 DEF SetupOK
<1>7. Remaining(c)' = Remaining(c)
  BY <1>2 DEF Remaining
<1>8. streams'[c] + late'[c] + Remaining(c) <= Allowed(setup[c].calls)
  BY <1>1, <1>2, <1>4, OwnTypes DEF SetupOK
<1>9. \A d \in Callers : setup[c].seen[d] <= streams'[d]
  <2> TAKE d \in Callers
  <2>1. setup[c].seen[d] \in Nat /\ streams[d] \in Nat /\ setup[c].seen[d] <= streams[d]
    BY <1>1, OwnTypes, SetupFields DEF SetupOK
  <2>2. streams'[d] \in {streams[d], streams[d] + 1}
    BY <1>4
  <2> QED
    BY <2>1, <2>2
<1>10. \A d \in Callers : streams[d] > 0 => streams'[d] > 0
  BY <1>1, <1>4, OwnTypes
<1>11. SetupOK(c)'
  BY <1>1, <1>2, <1>6, <1>7, <1>8, <1>9, <1>10 DEF SetupOK
<1> QED
  BY <1>3, <1>5, <1>11, StepOfOne

-----------------------------------------------------------------------------
LEMMA InitOK == Init => IInv
<1> SUFFICES ASSUME Init PROVE IInv
  OBVIOUS
<1>1. None \in [Callers -> Nat] /\ \A d \in Callers : None[d] = 0
  BY DEF None
<1>2. TypeOK
  <2>1. [pc |-> "idle", calls |-> 0, seen |-> None] \in Setup
    BY <1>1, SetupAssumption DEF Setup
  <2> QED
    BY <1>1, <2>1, NoRequestType DEF Init, TypeOK, RequestsInit, RequestsTypeOK
<1>3. ASSUME NEW c \in Callers PROVE SetupOK(c)
  <2>1. /\ setup[c].pc = "idle" /\ setup[c].calls = 0 /\ setup[c].seen = None
        /\ streams = None /\ late = None
    BY DEF Init
  <2>2. Remaining(c) = 0
    BY <2>1 DEF Remaining
  <2>3. 0 <= Allowed(0) /\ 0 + 0 + 0 = 0
    BY AllowedGrows
  <2> QED
    BY <1>1, <2>1, <2>2, <2>3 DEF SetupOK
<1> QED
  BY <1>2, <1>3 DEF IInv

LEMMA NextOK == IInv /\ [Next]_vars => IInv'
<1> SUFFICES ASSUME IInv, [Next]_vars PROVE IInv'
  OBVIOUS
<1>1. ASSUME NEW c \in Callers, Begin(c) PROVE IInv'
  BY <1>1, BeginKeeps
<1>2. ASSUME NEW c \in Callers, SetupStep(c) PROVE IInv'
  BY <1>2, SetupStepKeeps
<1>3. ASSUME NEW c \in Callers, Loop(c) \/ GiveUp(c) PROVE IInv'
  BY <1>3, LoopStepKeeps
<1>4. ASSUME NEW c \in Callers, ServeRead(c) PROVE IInv'
  BY <1>4, ServeReadKeeps
<1>5. ASSUME NEW c \in Callers, ServeCreate(c) PROVE IInv'
  BY <1>5, ServeCreateKeeps
<1>6. ASSUME NEW c \in Callers, ServeLate(c) PROVE IInv'
  BY <1>6, ServeLateKeeps
<1>7. CASE UNCHANGED vars
  BY <1>7 DEF vars, IInv, TypeOK, RequestsTypeOK, SetupOK, Remaining
<1> QED
  BY <1>1, <1>2, <1>3, <1>4, <1>5, <1>6, <1>7 DEF Next

\* Where a new part of Setup, or its return, leaves a program.
LEMMA PcAfter ==
  ASSUME TypeOK, NEW c \in Callers, NEW d \in Callers, NEW pc, NEW body \in BOOLEAN,
         Goto(d, pc, body) \/ Return(d, pc)
  PROVE  setup'[c].pc = IF d = c THEN pc ELSE setup[c].pc
<1>1. setup[c] \in Setup /\ setup' = [setup EXCEPT ![d].pc = pc]
  BY DEF TypeOK, Goto, Return
<1>2. CASE d = c
  BY <1>1, <1>2 DEF TypeOK, Setup
<1>3. CASE d # c
  BY <1>1, <1>3 DEF TypeOK
<1> QED
  BY <1>2, <1>3

\* Only two steps, of the program itself, lead it to create a stream.
LEMMA WhoCreates ==
  ASSUME TypeOK, Next, NEW c \in Callers,
         setup'[c].pc = "creating", setup[c].pc # "creating"
  PROVE  MetadataFetched(c) \/ NoneFound(c)
<1>1. PICK d \in Callers :
        \/ Begin(d) \/ SetupStep(d) \/ Loop(d)
        \/ ServeRead(d) \/ ServeCreate(d) \/ GiveUp(d) \/ ServeLate(d)
  BY DEF Next
<1>2. CASE Begin(d)
  BY <1>2 DEF Begin, TypeOK
<1>3. CASE SetupStep(d)
  <2>1. CASE MetadataFetched(d) \/ NoneFound(d)
    <3>1. Goto(d, "finding", FALSE) \/ Goto(d, "creating", TRUE)
      BY <2>1 DEF MetadataFetched, NoneFound
    <3>2. d = c
      BY <3>1, PcAfter
    <3> QED
      BY <2>1, <3>2
  <2>2. CASE Found(d) \/ Unsuitable(d) \/ Created(d) \/ Failed(d)
    <3>1. Return(d, "ready") \/ Return(d, "failed")
      BY <2>2 DEF Found, Unsuitable, Created, Failed
    <3> QED
      BY <3>1, PcAfter
  <2> QED
    BY <1>3, <2>1, <2>2 DEF SetupStep
<1>4. CASE Loop(d) \/ ServeCreate(d) \/ GiveUp(d) \/ ServeLate(d)
  BY <1>4 DEF Loop, ServeCreate, GiveUp, ServeLate
<1>5. CASE ServeRead(d)
  <2>1. setup[c] \in Setup /\ setup' \in {setup, [setup EXCEPT ![d].seen = streams]}
    BY <1>5 DEF ServeRead, TypeOK
  <2>2. setup'[c].pc = setup[c].pc
    BY <2>1 DEF TypeOK, Setup
  <2> QED
    BY <2>2
<1> QED
  BY <1>1, <1>2, <1>3, <1>4, <1>5

\* The inductive invariant of Setup.
THEOREM SetupInvariance == Spec => []IInv
  BY InitOK, NextOK, PTL DEF Spec

\* Every variable has its type: no request exceeds its attempts (retry.Do).
THEOREM SetupTypeCorrect == Spec => []TypeOK
<1>1. IInv => TypeOK
  BY DEF IInv
<1> QED
  BY <1>1, SetupInvariance, PTL

\* The streams a program has made, or may still make late, are no more than the
\* attempts its calls of Setup may make (createNewStream, retry.Do).
THEOREM SetupBounded == Spec => []CreationsBounded
<1>1. ASSUME IInv PROVE CreationsBounded
  <2> SUFFICES ASSUME NEW c \in Callers
               PROVE  streams[c] + late[c] <= Allowed(setup[c].calls)
    BY DEF CreationsBounded, Allowed
  <2>1. TypeOK /\ streams[c] + late[c] + Remaining(c) <= Allowed(setup[c].calls)
    BY <1>1 DEF IInv, SetupOK
  <2> QED
    BY <2>1, OwnTypes
<1> QED
  BY <1>1, SetupInvariance, PTL

\* What Setup returns exists and has the delivery method that was asked for
\* (handleStreamConfig, createNewStream).
THEOREM SetupMatches == Spec => []ReadyMatches
<1>1. IInv => ReadyMatches
  BY DEF IInv, SetupOK, ReadyMatches
<1> QED
  BY <1>1, SetupInvariance, PTL

\* A program with the existing check never sets out to create a second stream,
\* unless it has given up a creation on its way (findExistingStream).
THEOREM SetupCreatesOnce == Spec => NoSecondCreation
<1> DEFINE Second == \A c \in Checking \ gaveUp :
              streams[c] > 0 /\ setup'[c].pc = "creating" => setup[c].pc = "creating"
<1>1. ASSUME IInv, [Next]_vars PROVE [Second]_vars
  <2> SUFFICES ASSUME Next, NEW c \in Checking \ gaveUp, streams[c] > 0,
                      setup'[c].pc = "creating", setup[c].pc # "creating"
               PROVE  FALSE
    BY <1>1
  <2>1. c \in Callers /\ TypeOK /\ SetupOK(c)
    BY <1>1, SetupAssumption DEF IInv
  <2>3. MetadataFetched(c) \/ NoneFound(c)
    BY <2>1, WhoCreates
  <2>4. CASE MetadataFetched(c)
    <3>1. Goto(c, "finding", FALSE)
      BY <2>4 DEF MetadataFetched
    <3> QED
      BY <2>1, <3>1, PcAfter
  <2>5. CASE NoneFound(c)
    <3>1. setup[c].seen[c] = streams[c]
      BY <2>1, <2>5 DEF NoneFound, Done, SetupOK
    <3>2. ~ (setup[c].seen[c] > 0)
      BY <2>1, <2>5 DEF NoneFound, Seen
    <3> QED
      BY <3>1, <3>2
  <2> QED
    BY <2>3, <2>4, <2>5
<1> QED
  BY <1>1, SetupInvariance, PTL DEF Spec, NoSecondCreation
=============================================================================
