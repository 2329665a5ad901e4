------------------------ MODULE ArchiveReceiver_proofs -----------------------
(***************************************************************************)
(* The safety of ArchiveReceiver for any stream, contents, statuses and    *)
(* size of answers.                                                        *)
(***************************************************************************)
EXTENDS ArchiveReceiver, TLAPS

-----------------------------------------------------------------------------
(* The inductive invariant. *)

\* What is between the two goroutines, their polls and the transmitter.  A
\* goroutine polls exactly when it says so, holds SETs only from the answer to
\* its request until the events are handed over, and the loop calls back with
\* nothing but SETs that parsed; once they have been acknowledged in a body,
\* that body is on record.  While a status call is under way, what the stream
\* has and what the answer tells are on record.
PollOK(p) ==
  /\ poll[p].batch \subseteq offered
  /\ poll[p].pc = "requesting" => poll[p].batch = {}
  /\ poll[p].pc = "parsing" => poll[p].batch \in batches

MainOK ==
  /\ main # "polling" => poll["main"].pc = "idle"
  /\ poll["main"].pc = "idle" => poll["main"].batch = {}

LoopOK ==
  /\ loop # "polling" => poll["loop"].pc = "idle"
  /\ poll["loop"].pc = "idle" /\ loop # "calling" => poll["loop"].batch = {}
  /\ loop = "calling" => \A e \in poll["loop"].batch : Parses(content[e])
  /\ main \in {"start", "creating"} => loop = "none"
  /\ main \in {"deleting", "deleted"} => loop = "ended"

CallOK ==
  /\ main = "asking" => /\ asked # "none"
                        /\ status \in had
                        /\ answer \in had \cup {"none", "zero"}
  /\ main # "asking" => answer = "none"

IInv ==
  /\ TypeOK
  /\ \A p \in Pollers : PollOK(p)
  /\ MainOK
  /\ LoopOK
  /\ CallOK
  /\ AckedIsHanded

-----------------------------------------------------------------------------
(* The parser. *)

LEMMA TypesAreNotFailures == "error" \notin EventTypes /\ "panic" \notin EventTypes
BY DEF EventTypes, Required

-----------------------------------------------------------------------------
(* What the steps of PollEvents leave behind. *)

LEMMA HandDoes ==
  ASSUME TypeOK, NEW p \in Pollers, NEW events \in SUBSET Sets, Hand(p, events)
  PROVE  /\ poll' \in [Pollers -> Poll]
         /\ poll'[p].pc = "idle"
         /\ poll'[p].batch = IF p = "loop" THEN events ELSE {}
         /\ \A q \in Pollers \ {p} : poll'[q] = poll[q]
         /\ p = "loop" => loop' = "calling" /\ UNCHANGED <<main, handed>>
         /\ p = "main" =>
              /\ main' = "ready" /\ loop' = loop
              /\ handed' = handed \cup {<<e, ParseSet(content[e])>> : e \in events}
         /\ crashed' = crashed
<1> DEFINE b == IF p = "loop" THEN events ELSE {}
           n == [NoPoll EXCEPT !.batch = b]
<1>1. n \in Poll /\ n.pc = "idle" /\ n.batch = b
  BY DEF NoPoll, Poll
<1>2. poll' = [poll EXCEPT ![p] = n] /\ poll \in [Pollers -> Poll]
  BY DEF Hand, TypeOK
<1> HIDE DEF n
<1>3. /\ poll' \in [Pollers -> Poll] /\ poll'[p] = n
      /\ \A q \in Pollers \ {p} : poll'[q] = poll[q]
  BY <1>1, <1>2
<1> QED
  BY <1>1, <1>3 DEF Hand

LEMMA HandNothing ==
  ASSUME TypeOK, NEW p \in Pollers, Hand(p, {})
  PROVE  handed' = handed /\ poll'[p].batch = {}
<1>1. {<<e, ParseSet(content[e])>> : e \in {}} = {}
  OBVIOUS
<1>2. p = "loop" \/ p = "main"
  BY DEF Pollers
<1>3. handed' = handed
  BY <1>1, <1>2 DEF Hand
<1> QED
  BY <1>3, HandDoes

LEMMA FailDoes ==
  ASSUME TypeOK, NEW p \in Pollers, Fail(p)
  PROVE  /\ poll' \in [Pollers -> Poll]
         /\ poll'[p] = NoPoll /\ NoPoll.pc = "idle" /\ NoPoll.batch = {}
         /\ \A q \in Pollers \ {p} : poll'[q] = poll[q]
         /\ handed' = handed /\ loop' = loop
         /\ p = "loop" => crashed' = TRUE /\ main' = main
         /\ p = "main" => crashed' = crashed /\ main' = "ready"
BY DEF Fail, TypeOK, NoPoll, Poll

\* What a goroutine holds stays what it is, is handed to the program, or is on
\* record as unanswered or acknowledged beside a SET that does not parse.
Settles(p) ==
  \A e \in poll[p].batch :
    \/ e \in poll'[p].batch
    \/ \E h \in handed' : h[1] = e
    \/ e \in unanswered'
    \/ \E b \in batches : e \in b /\ \E x \in b : ~ Parses(content[x])

\* One step of PollEvents, by what it does to everything the invariant names.
PollDoes(p) ==
  /\ poll' \in [Pollers -> Poll]
  /\ \A q \in Pollers \ {p} : poll'[q] = poll[q]
  /\ UNCHANGED <<callback, content, statusCall, stream, status, offered>>
  /\ poll'[p].batch \subseteq offered
  /\ poll'[p].pc = "requesting" => poll'[p].batch = {}
  /\ poll'[p].pc = "parsing" => poll'[p].batch \in batches'
  /\ poll'[p].pc \in {"acking", "parsing"} => poll'[p].batch # {}
  /\ crashed' \in BOOLEAN
  /\ batches \subseteq batches' /\ batches' \subseteq SUBSET offered
  /\ unanswered \subseteq unanswered' /\ unanswered' \subseteq offered
  /\ acked \subseteq acked' /\ acked' \subseteq acked \cup poll[p].batch
  /\ handed \subseteq handed'
  /\ \A h \in handed' \ handed :
       \E e \in poll[p].batch : Parses(content[e]) /\ h = <<e, ParseSet(content[e])>>
  /\ Settles(p)
  /\ p = "main" => /\ loop' = loop
                   /\ main = "polling" /\ main' \in {"polling", "ready"}
                   /\ poll'[p].pc = "idle" <=> main' = "ready"
                   /\ poll'[p].pc = "idle" => poll'[p].batch = {}
  /\ p = "loop" => /\ main' = main
                   /\ loop = "polling" /\ loop' \in {"polling", "calling"}
                   /\ loop' = "calling" => /\ poll'[p].pc = "idle"
                                           /\ \A e \in poll'[p].batch : Parses(content[e])
                   /\ loop' = "polling" /\ poll'[p].pc = "idle" => poll'[p].batch = {}

LEMMA PollStepDoes ==
  ASSUME IInv, NEW p \in Pollers, PollStep(p)
  PROVE  PollDoes(p)
<1>0. /\ TypeOK /\ poll \in [Pollers -> Poll] /\ poll[p] \in Poll
      /\ poll[p].batch \subseteq offered /\ offered \subseteq Sets
      /\ poll[p].pc = "requesting" => poll[p].batch = {}
      /\ poll[p].pc = "parsing" => poll[p].batch \in batches
      /\ poll[p].pc \in {"acking", "parsing"} => poll[p].batch # {}
      /\ poll[p].pc # "idle" => IF p = "main" THEN main = "polling" ELSE loop = "polling"
      /\ batches \subseteq SUBSET offered /\ unanswered \subseteq offered
      /\ crashed \in BOOLEAN
  BY DEF IInv, TypeOK, PollOK, MainOK, LoopOK, Pollers
<1>p. p \in {"main", "loop"}
  BY DEF Pollers
<1>1. CASE PollAnswered(p)
  <2>1. PICK batch \in SUBSET (offered \ acked) :
          /\ batch # {}
          /\ poll' = [poll EXCEPT ![p] = [pc |-> "acking", batch |-> batch]]
    BY <1>1 DEF PollAnswered
  <2>2. [pc |-> "acking", batch |-> batch] \in Poll
    BY <1>0, <2>1 DEF Poll
  <2>3. /\ poll' \in [Pollers -> Poll]
        /\ poll'[p].pc = "acking" /\ poll'[p].batch = batch
        /\ \A q \in Pollers \ {p} : poll'[q] = poll[q]
    BY <1>0, <2>1, <2>2
  <2>4. poll[p].batch = {} /\ poll[p].pc = "requesting"
    BY <1>0, <1>1 DEF PollAnswered, PollPc
  <2> QED
    BY <1>0, <1>1, <1>p, <2>1, <2>3, <2>4
       DEF PollAnswered, PollDoes, Settles, transmitter, delivery
<1>2. CASE PollAnsweredNone(p)
  <2>1. Hand(p, {}) /\ poll[p].pc = "requesting" /\ poll[p].batch = {}
    BY <1>0, <1>2 DEF PollAnsweredNone, PollPc
  <2>2. handed' = handed /\ poll'[p].batch = {}
    BY <1>0, <1>p, <2>1, HandNothing
  <2> QED
    BY <1>0, <1>2, <1>p, <2>1, <2>2, HandDoes
       DEF PollAnsweredNone, PollDoes, Settles, transmitter
<1>3. CASE PollUnanswered(p)
  <2>1. Fail(p) /\ poll[p].pc = "requesting" /\ poll[p].batch = {}
    BY <1>0, <1>3 DEF PollUnanswered, PollPc
  <2> QED
    BY <1>0, <1>3, <1>p, <2>1, FailDoes DEF PollUnanswered, PollDoes, Settles, transmitter
<1>4. CASE Ack(p)
  <2>1. poll' = [poll EXCEPT ![p].pc = "parsing"] /\ poll[p].pc = "acking"
    BY <1>4 DEF Ack, PollPc
  <2>2. [poll[p] EXCEPT !.pc = "parsing"] \in Poll
    BY <1>0 DEF Poll
  <2>3. /\ poll' \in [Pollers -> Poll]
        /\ poll'[p].pc = "parsing" /\ poll'[p].batch = poll[p].batch
        /\ \A q \in Pollers \ {p} : poll'[q] = poll[q]
    BY <1>0, <2>1, <2>2 DEF Poll
  <2> QED
    BY <1>0, <1>4, <1>p, <2>1, <2>3 DEF Ack, PollDoes, Settles, transmitter
<1>5. CASE AckUnanswered(p)
  <2>1. Hand(p, {}) /\ poll[p].pc = "acking"
    BY <1>5 DEF AckUnanswered, PollPc
  <2>2. handed' = handed /\ poll'[p].batch = {}
    BY <1>0, <1>p, <2>1, HandNothing
  <2> QED
    BY <1>0, <1>5, <1>p, <2>1, <2>2, HandDoes
       DEF AckUnanswered, PollDoes, Settles, transmitter
<1>6. CASE Parsed(p)
  <2>1. /\ Hand(p, poll[p].batch) /\ poll[p].pc = "parsing" /\ poll[p].batch \in SUBSET Sets
        /\ \A e \in poll[p].batch : Parses(content[e])
    BY <1>0, <1>6 DEF Parsed, PollPc
  <2>2. /\ handed \subseteq handed'
        /\ \A h \in handed' \ handed :
             \E e \in poll[p].batch : Parses(content[e]) /\ h = <<e, ParseSet(content[e])>>
    BY <1>0, <1>p, <2>1, HandDoes
  <2>3. Settles(p)
    <3>1. CASE p = "loop"
      BY <1>0, <2>1, <3>1, HandDoes DEF Settles
    <3>2. CASE p = "main"
      <4>1. \A e \in poll[p].batch : <<e, ParseSet(content[e])>> \in handed'
        BY <1>0, <2>1, <3>2, HandDoes
      <4> QED
        BY <4>1 DEF Settles
    <3> QED
      BY <1>p, <3>1, <3>2
  <2> QED
    BY <1>0, <1>6, <1>p, <2>1, <2>2, <2>3, HandDoes DEF Parsed, PollDoes, transmitter
<1>7. CASE NotParsed(p)
  <2>1. Fail(p) /\ poll[p].pc = "parsing" /\ poll[p].batch \in batches
    BY <1>0, <1>7 DEF NotParsed, PollPc
  <2>2. \E x \in poll[p].batch : ~ Parses(content[x])
    BY <1>7, TypesAreNotFailures DEF NotParsed, Parses
  <2>3. Settles(p)
    BY <2>1, <2>2 DEF Settles
  <2> QED
    BY <1>0, <1>7, <1>p, <2>1, <2>3, FailDoes DEF NotParsed, PollDoes, transmitter
<1>8. CASE ParsePanics(p)
  BY <1>0, <1>8, <1>p DEF ParsePanics, PollPc, PollDoes, Settles, transmitter, delivery
<1> QED
  BY <1>1, <1>2, <1>3, <1>4, <1>5, <1>6, <1>7, <1>8 DEF PollStep

-----------------------------------------------------------------------------
(* The invariant, part by part. *)

\* The steps that are neither of PollEvents nor of the loop's hands.
Aside ==
  \/ MetadataFetched \/ ConfigureFails \/ StreamCreated \/ CreationUnanswered
  \/ ServeStatus \/ ReturnStatus \/ StatusUnanswered
  \/ DeleteReceiver \/ Terminate
  \/ Deleted \/ DeletionUnanswered \/ Wake
  \/ \E want \in Statuses \cup {"any"} : AskStatus(want)
  \/ \E want \in Statuses : LateUpdate(want)
  \/ \E e \in Sets : Offer(e) \/ LateAck(e)

LEMMA AsideDoes ==
  ASSUME IInv, Aside
  PROVE  /\ UNCHANGED <<poll, content, callback, handed, batches, unanswered>>
         /\ offered \subseteq offered' /\ offered' \subseteq Sets
         /\ acked \subseteq acked' /\ acked' \subseteq acked \cup unanswered
         /\ crashed' \in BOOLEAN
         /\ asked' \in Statuses \cup {"any", "none"} /\ answer' \in Statuses \cup {"none", "zero"}
         /\ had' \subseteq Statuses /\ givenUp' \subseteq Statuses
         /\ result' \in Statuses \cup {"none", "zero", "error"}
         /\ main' = "asking" => /\ asked' # "none" /\ status' \in had'
                                /\ answer' \in had' \cup {"none", "zero"}
         /\ main' # "asking" => answer' = "none"
         /\ stream' \in {"none", "exists", "gone"}
         /\ status' \in Statuses
         /\ main' \in {"start", "creating", "ready", "polling", "asking",
                       "terminating", "deleting", "deleted", "failed"}
         /\ loop' \in {"none", "selecting", "polling", "calling", "sleeping",
                     "terminating", "ended"}
         /\ main' = "polling" <=> main = "polling"
         /\ loop' = "polling" <=> loop = "polling"
         /\ loop' = "calling" <=> loop = "calling"
         /\ main' \in {"start", "creating"} => loop' = "none"
         /\ main' \in {"deleting", "deleted"} => loop' = "ended"
<1>0. /\ TypeOK /\ callback \in BOOLEAN /\ offered \subseteq Sets
      /\ status \in Statuses
      /\ asked \in Statuses \cup {"any", "none"} /\ answer \in Statuses \cup {"none", "zero"}
      /\ had \subseteq Statuses /\ givenUp \subseteq Statuses
      /\ result \in Statuses \cup {"none", "zero", "error"}
      /\ main = "asking" => /\ asked # "none" /\ status \in had
                            /\ answer \in had \cup {"none", "zero"}
      /\ main # "asking" => answer = "none"
      /\ "none" \notin Statuses
      /\ stream \in {"none", "exists", "gone"} /\ crashed \in BOOLEAN
      /\ main \in {"start", "creating", "ready", "polling", "asking",
                   "terminating", "deleting", "deleted", "failed"}
      /\ loop \in {"none", "selecting", "polling", "calling", "sleeping",
                     "terminating", "ended"}
      /\ main \in {"start", "creating"} => loop = "none"
      /\ main \in {"deleting", "deleted"} => loop = "ended"
  BY StatusesAssumption DEF IInv, TypeOK, LoopOK, CallOK
<1>1. CASE MetadataFetched \/ ConfigureFails
  BY <1>0, <1>1 DEF MetadataFetched, ConfigureFails, At, statusCall, transmitter, delivery
<1>2. CASE StreamCreated \/ CreationUnanswered
  BY <1>0, <1>2 DEF StreamCreated, CreationUnanswered, At, statusCall, delivery
<1>3. CASE DeleteReceiver
  BY <1>0, <1>3 DEF DeleteReceiver, At, transmitter, delivery
<1>4. CASE Terminate \/ Wake
  BY <1>0, <1>4 DEF Terminate, Wake, At, statusCall, transmitter, delivery
<1>5. CASE Deleted \/ DeletionUnanswered
  BY <1>0, <1>5 DEF Deleted, DeletionUnanswered, At, statusCall, delivery
<1>6. CASE ReturnStatus \/ StatusUnanswered
  <2>1. PICK value \in Statuses \cup {"zero", "error"} : Return(value)
    BY <1>0, <1>6 DEF ReturnStatus, StatusUnanswered, At
  <2>2. givenUp' \subseteq Statuses /\ main = "asking"
    BY <1>0, <1>6 DEF ReturnStatus, StatusUnanswered, At
  <2> QED
    BY <1>0, <2>1, <2>2 DEF Return, transmitter, delivery
<1>7. CASE ServeStatus
  <2>1. status' \in Statuses
    BY <1>0, <1>7 DEF ServeStatus
  <2> QED
    BY <1>0, <1>7, <2>1 DEF ServeStatus, delivery
<1>8. ASSUME NEW want \in Statuses \cup {"any"}, AskStatus(want)
      PROVE  /\ UNCHANGED <<callback, content, loop, poll, crashed, answer, givenUp, stream,
                            status, offered, acked, batches, unanswered, handed>>
             /\ main = "ready" /\ main' = "asking" /\ answer = "none"
             /\ asked' = want /\ want # "none" /\ had' = {status} /\ result' = "none"
  BY <1>0, <1>8 DEF AskStatus, At, transmitter, delivery
<1>9. ASSUME NEW want \in Statuses, LateUpdate(want)
      PROVE  /\ UNCHANGED <<callback, content, main, loop, poll, crashed, asked, answer,
                            givenUp, result, stream, offered, acked, batches, unanswered, handed>>
             /\ status' \in Statuses /\ had' \subseteq Statuses
             /\ had \subseteq had'
             /\ main = "asking" => status' \in had'
  BY <1>0, <1>9 DEF LateUpdate, delivery
<1>10. ASSUME NEW e \in Sets, Offer(e) \/ LateAck(e)
       PROVE  /\ UNCHANGED <<callback, content, main, loop, poll, crashed, stream, status,
                             statusCall, batches, unanswered, handed>>
              /\ offered \subseteq offered' /\ offered' \subseteq Sets
              /\ acked \subseteq acked' /\ acked' \subseteq acked \cup unanswered
  BY <1>0, <1>10 DEF Offer, LateAck, transmitter, delivery
<1>11. CASE \E want \in Statuses \cup {"any"} : AskStatus(want)
  BY <1>0, <1>8, <1>11
<1>12. CASE \E want \in Statuses : LateUpdate(want)
  BY <1>0, <1>9, <1>12
<1>13. CASE \E e \in Sets : Offer(e) \/ LateAck(e)
  BY <1>0, <1>10, <1>13 DEF statusCall
<1> QED
  BY <1>1, <1>2, <1>3, <1>4, <1>5, <1>6, <1>7, <1>11, <1>12, <1>13 DEF Aside

\* The steps of the program and of the loop that begin or end a poll.
LEMMA BeginDoes ==
  ASSUME IInv, NEW p \in Pollers,
         \/ p = "main" /\ PollByHand
         \/ p = "loop" /\ LoopPolls
  PROVE  /\ poll' \in [Pollers -> Poll]
         /\ poll'[p].pc = "requesting" /\ poll'[p].batch = {} /\ poll[p].batch = {}
         /\ \A q \in Pollers \ {p} : poll'[q] = poll[q]
         /\ UNCHANGED <<callback, content, crashed, asked, answer, had, givenUp, transmitter,
                        delivery>>
         /\ result' \in {result, "none"}
         /\ main # "asking" \/ p = "loop"
         /\ p = "main" => main' = "polling" /\ loop' = loop
         /\ p = "loop" => main' = main /\ loop' = "polling" /\ loop = "selecting"
<1>0. poll \in [Pollers -> Poll] /\ poll[p] \in Poll /\ poll[p].batch = {}
  BY DEF IInv, TypeOK, MainOK, LoopOK, PollByHand, LoopPolls, At
<1>1. [poll[p] EXCEPT !.pc = "requesting"] \in Poll
  BY <1>0 DEF Poll
<1>2. poll' = [poll EXCEPT ![p].pc = "requesting"]
  BY DEF PollByHand, LoopPolls, Enters
<1>3. /\ poll' \in [Pollers -> Poll]
      /\ poll'[p].pc = "requesting" /\ poll'[p].batch = poll[p].batch
      /\ \A q \in Pollers \ {p} : poll'[q] = poll[q]
  BY <1>0, <1>1, <1>2 DEF Poll
<1> QED
  BY <1>0, <1>3 DEF PollByHand, LoopPolls, At, statusCall

LEMMA CallBackDoes ==
  ASSUME IInv, CallBack
  PROVE  /\ poll' \in [Pollers -> Poll]
         /\ poll'["loop"].pc = "idle" /\ poll'["loop"].batch = {}
         /\ poll'["main"] = poll["main"]
         /\ UNCHANGED <<callback, content, main, crashed, statusCall, transmitter,
                        acked, batches, unanswered>>
         /\ loop = "calling" /\ loop' \in {"sleeping", "terminating"}
         /\ handed \subseteq handed'
         /\ \A e \in poll["loop"].batch : <<e, ParseSet(content[e])>> \in handed'
         /\ \A h \in handed' \ handed :
              \E e \in poll["loop"].batch :
                Parses(content[e]) /\ h = <<e, ParseSet(content[e])>>
<1>0. poll \in [Pollers -> Poll] /\ \A e \in poll["loop"].batch : Parses(content[e])
  BY DEF IInv, TypeOK, LoopOK, CallBack
<1>1. NoPoll \in Poll /\ NoPoll.pc = "idle" /\ NoPoll.batch = {}
  BY DEF NoPoll, Poll
<1>2. poll' = [poll EXCEPT !["loop"] = NoPoll]
  BY DEF CallBack
<1>3. poll' \in [Pollers -> Poll] /\ poll'["loop"] = NoPoll /\ poll'["main"] = poll["main"]
  BY <1>0, <1>1, <1>2 DEF Pollers
<1> QED
  BY <1>0, <1>1, <1>3 DEF CallBack

LEMMA NextIs ==
  ASSUME [Next]_vars
  PROVE  \/ UNCHANGED vars
         \/ Aside
         \/ PollByHand \/ LoopPolls \/ CallBack
         \/ \E p \in Pollers : PollStep(p)
BY DEF Next, Aside

\* A SET on its way to the program, or one that will never get there.
Accounted(e) ==
  \/ \E h \in handed : h[1] = e
  \/ \E p \in Pollers : e \in poll[p].batch
  \/ e \in unanswered
  \/ \E b \in batches : e \in b /\ \E x \in b : ~ Parses(content[x])

AllAccounted == \A e \in acked : Accounted(e)

LEMMA AckedAccounted == AckedIsHanded <=> AllAccounted
<1>1. \A e : e \in InHand \cup LostInPanic <=> \E p \in Pollers : e \in poll[p].batch
  BY DEF InHand, LostInPanic, Taken
<1>2. \A e : e \in HandedOver <=> \E h \in handed : h[1] = e
  BY DEF HandedOver
<1> QED
  BY <1>1, <1>2 DEF AckedIsHanded, AllAccounted, Accounted

LEMMA StepKeepsType == IInv /\ [Next]_vars => TypeOK'
<1> SUFFICES ASSUME IInv, [Next]_vars PROVE TypeOK'
  OBVIOUS
<1>0. TypeOK
  BY DEF IInv
<1>1. CASE UNCHANGED vars
  BY <1>0, <1>1 DEF vars, statusCall, transmitter, delivery, TypeOK
<1>2. CASE Aside
  <2>1. acked' \subseteq offered'
    BY <1>0, <1>2, AsideDoes DEF TypeOK
  <2>2. /\ batches' \subseteq SUBSET offered' /\ unanswered' \subseteq offered'
        /\ handed' \subseteq offered' \X EventTypes
    BY <1>0, <1>2, AsideDoes DEF TypeOK
  <2>3. /\ callback' \in BOOLEAN /\ content' \in Contents /\ poll' \in [Pollers -> Poll]
        /\ \A p \in Pollers : poll'[p].pc \in {"acking", "parsing"} => poll'[p].batch # {}
    BY <1>0, <1>2, AsideDoes DEF TypeOK
  <2> QED
    BY <1>2, <2>1, <2>2, <2>3, AsideDoes DEF TypeOK
<1>3. CASE PollByHand
  <2>1. "main" \in Pollers
    BY DEF Pollers
  <2>2. \A p \in Pollers : poll'[p].pc \in {"acking", "parsing"} => poll'[p].batch # {}
    BY <1>0, <1>3, <2>1, BeginDoes DEF TypeOK
  <2> QED
    BY <1>0, <1>3, <2>1, <2>2, BeginDoes DEF TypeOK, statusCall, transmitter, delivery
<1>4. CASE LoopPolls
  <2>1. "loop" \in Pollers
    BY DEF Pollers
  <2>2. \A p \in Pollers : poll'[p].pc \in {"acking", "parsing"} => poll'[p].batch # {}
    BY <1>0, <1>4, <2>1, BeginDoes DEF TypeOK
  <2> QED
    BY <1>0, <1>4, <2>1, <2>2, BeginDoes DEF TypeOK, statusCall, transmitter, delivery
<1>5. CASE CallBack
  <2>1. poll["loop"].batch \subseteq offered
    BY DEF IInv, PollOK, Pollers
  <2>2. handed' \subseteq offered' \X EventTypes
    BY <1>0, <1>5, <2>1, CallBackDoes DEF TypeOK, transmitter, Parses
  <2>3. \A p \in Pollers : poll'[p].pc \in {"acking", "parsing"} => poll'[p].batch # {}
    BY <1>0, <1>5, CallBackDoes DEF TypeOK, Pollers
  <2> QED
    BY <1>0, <1>5, <2>2, <2>3, CallBackDoes DEF TypeOK, statusCall, transmitter
<1>6. ASSUME NEW p \in Pollers, PollStep(p)
      PROVE  TypeOK'
  <2>1. PollDoes(p) /\ poll[p].batch \subseteq offered
    BY <1>6, PollStepDoes DEF IInv, PollOK
  <2>2. handed' \subseteq offered' \X EventTypes
    BY <1>0, <2>1 DEF PollDoes, TypeOK, Parses
  <2>3. acked' \subseteq offered' /\ batches' \subseteq SUBSET offered' /\ unanswered' \subseteq offered'
    BY <1>0, <2>1 DEF PollDoes, TypeOK
  <2>4. \A q \in Pollers : poll'[q].pc \in {"acking", "parsing"} => poll'[q].batch # {}
    BY <1>0, <2>1 DEF PollDoes, TypeOK
  <2>5. p = "main" \/ p = "loop"
    BY DEF Pollers
  <2> QED
    BY <1>0, <2>1, <2>2, <2>3, <2>4, <2>5 DEF PollDoes, TypeOK, statusCall
<1> QED
  BY <1>1, <1>2, <1>3, <1>4, <1>5, <1>6, NextIs

LEMMA StepKeepsPolls ==
  IInv /\ [Next]_vars => (\A p \in Pollers : PollOK(p)') /\ MainOK' /\ LoopOK'
<1> DEFINE Goal == (\A p \in Pollers : PollOK(p)') /\ MainOK' /\ LoopOK'
<1> SUFFICES ASSUME IInv, [Next]_vars PROVE Goal
  OBVIOUS
<1>0. (\A p \in Pollers : PollOK(p)) /\ MainOK /\ LoopOK /\ TypeOK
  BY DEF IInv
<1>p. Pollers = {"main", "loop"}
  BY DEF Pollers
<1>1. CASE UNCHANGED vars
  BY <1>0, <1>1 DEF vars, statusCall, transmitter, delivery, PollOK, MainOK, LoopOK
<1>2. CASE Aside
  <2>1. \A p \in Pollers : PollOK(p)'
    BY <1>0, <1>2, AsideDoes DEF PollOK
  <2>2. MainOK' /\ LoopOK'
    BY <1>0, <1>2, AsideDoes DEF MainOK, LoopOK
  <2> QED
    BY <2>1, <2>2
<1>3. CASE PollByHand
  <2>1. \A p \in Pollers : PollOK(p)'
    BY <1>0, <1>3, <1>p, BeginDoes DEF PollOK, statusCall, transmitter, delivery
  <2>2. MainOK' /\ LoopOK'
    BY <1>0, <1>3, <1>p, BeginDoes DEF MainOK, LoopOK
  <2> QED
    BY <2>1, <2>2
<1>4. CASE LoopPolls
  <2>1. \A p \in Pollers : PollOK(p)'
    BY <1>0, <1>4, <1>p, BeginDoes DEF PollOK, statusCall, transmitter, delivery
  <2>2. MainOK' /\ LoopOK'
    BY <1>0, <1>4, <1>p, BeginDoes DEF MainOK, LoopOK
  <2> QED
    BY <2>1, <2>2
<1>5. CASE CallBack
  <2>1. \A p \in Pollers : PollOK(p)'
    BY <1>0, <1>5, <1>p, CallBackDoes DEF PollOK, transmitter
  <2>2. MainOK' /\ LoopOK'
    BY <1>0, <1>5, <1>p, CallBackDoes DEF MainOK, LoopOK
  <2> QED
    BY <2>1, <2>2
<1>6. ASSUME NEW p \in Pollers, PollStep(p)
      PROVE  Goal
  <2>1. PollDoes(p)
    BY <1>6, PollStepDoes
  <2>2. \A q \in Pollers : PollOK(q)'
    BY <1>0, <2>1 DEF PollDoes, PollOK
  <2>3. CASE p = "main"
    BY <1>0, <1>p, <2>1, <2>2, <2>3 DEF PollDoes, MainOK, LoopOK
  <2>4. CASE p = "loop"
    BY <1>0, <1>p, <2>1, <2>2, <2>4 DEF PollDoes, MainOK, LoopOK
  <2> QED
    BY <1>p, <2>3, <2>4
<1> QED
  BY <1>1, <1>2, <1>3, <1>4, <1>5, <1>6, NextIs

LEMMA StepKeepsAccounted ==
  ASSUME IInv, [Next]_vars
  PROVE  AllAccounted'
<1>0. /\ \A e \in acked : Accounted(e)
      /\ \A p \in Pollers : PollOK(p)
  BY AckedAccounted DEF IInv, AllAccounted
<1>1. CASE UNCHANGED vars
  BY <1>0, <1>1 DEF vars, transmitter, delivery, AllAccounted, Accounted
<1>2. CASE Aside
  <2>1. \A e \in acked' : e \in acked \/ e \in unanswered'
    BY <1>2, AsideDoes
  <2>2. UNCHANGED <<poll, content, handed, batches, unanswered>>
    BY <1>2, AsideDoes
  <2> QED
    BY <1>0, <2>1, <2>2 DEF AllAccounted, Accounted
<1>3. ASSUME NEW p \in Pollers,
             \/ p = "main" /\ PollByHand
             \/ p = "loop" /\ LoopPolls
      PROVE  AllAccounted'
  <2>1. UNCHANGED <<content, acked, batches, unanswered, handed>>
    BY <1>3, BeginDoes DEF delivery
  <2>2. \A q \in Pollers : poll[q].batch \subseteq poll'[q].batch
    BY <1>3, BeginDoes
  <2> QED
    BY <1>0, <2>1, <2>2 DEF AllAccounted, Accounted
<1>4. CASE CallBack
  <2>1. /\ UNCHANGED <<content, acked, batches, unanswered>>
        /\ handed \subseteq handed' /\ poll'["main"] = poll["main"]
    BY <1>4, CallBackDoes
  <2>2. \A e \in poll["loop"].batch : \E h \in handed' : h[1] = e
    BY <1>4, CallBackDoes
  <2> QED
    BY <1>0, <2>1, <2>2 DEF AllAccounted, Accounted, Pollers
<1>5. ASSUME NEW p \in Pollers, PollStep(p)
      PROVE  AllAccounted'
  <2>1. PollDoes(p)
    BY <1>5, PollStepDoes
  <2>2. /\ content' = content /\ batches \subseteq batches' /\ unanswered \subseteq unanswered'
        /\ handed \subseteq handed' /\ acked' \subseteq acked \cup poll[p].batch
        /\ \A q \in Pollers \ {p} : poll'[q] = poll[q]
    BY <2>1 DEF PollDoes
  <2>3. \A e \in poll[p].batch : Accounted(e)'
    BY <2>1, <2>2 DEF PollDoes, Settles, Accounted
  <2>4. \A e \in acked : Accounted(e)'
    <3> SUFFICES ASSUME NEW e \in acked, e \notin poll[p].batch PROVE Accounted(e)'
      BY <2>3
    <3>1. Accounted(e)
      BY <1>0
    <3> QED
      BY <2>2, <3>1 DEF Accounted
  <2> QED
    BY <2>2, <2>3, <2>4 DEF AllAccounted
<1>6. "main" \in Pollers /\ "loop" \in Pollers
  BY DEF Pollers
<1>7. CASE PollByHand \/ LoopPolls
  BY <1>3, <1>6, <1>7
<1> QED
  BY <1>1, <1>2, <1>4, <1>5, <1>7, NextIs

LEMMA StepKeepsAcked == IInv /\ [Next]_vars => AckedIsHanded'
<1>1. AckedIsHanded' <=> AllAccounted'
  BY AckedAccounted, PTL
<1> QED
  BY <1>1, StepKeepsAccounted

LEMMA StepKeepsCall == IInv /\ [Next]_vars => CallOK'
<1> SUFFICES ASSUME IInv, [Next]_vars PROVE CallOK'
  OBVIOUS
<1>0. CallOK
  BY DEF IInv
<1>1. CASE UNCHANGED vars
  BY <1>0, <1>1 DEF vars, statusCall, transmitter, CallOK
<1>2. CASE Aside
  BY <1>2, AsideDoes DEF CallOK
<1>3. CASE PollByHand \/ LoopPolls
  BY <1>0, <1>3, BeginDoes DEF CallOK, transmitter, Pollers
<1>4. CASE CallBack
  BY <1>0, <1>4, CallBackDoes DEF CallOK, statusCall, transmitter
<1>5. ASSUME NEW p \in Pollers, PollStep(p)
      PROVE  CallOK'
  <2>1. PollDoes(p)
    BY <1>5, PollStepDoes
  <2>2. UNCHANGED <<status, had, answer>>
    BY <2>1 DEF PollDoes, statusCall
  <2>3. asked' = asked /\ (p = "main" \/ p = "loop")
    BY <2>1 DEF PollDoes, statusCall, Pollers
  <2>4. \/ main' = main
        \/ main = "polling" /\ main' \in {"polling", "ready"}
    BY <2>1, <2>3 DEF PollDoes
  <2> QED
    BY <1>0, <2>2, <2>3, <2>4 DEF CallOK
<1> QED
  BY <1>1, <1>2, <1>3, <1>4, <1>5, NextIs

LEMMA InitEstablishes == Init => IInv
<1> SUFFICES ASSUME Init PROVE IInv
  OBVIOUS
<1>1. /\ poll \in [Pollers -> Poll]
      /\ \A p \in Pollers : poll[p].pc = "idle" /\ poll[p].batch = {}
  BY DEF Init, NoPoll, Poll
<1>2. TypeOK
  BY <1>1, StatusesAssumption DEF Init, TypeOK
<1>3. (\A p \in Pollers : PollOK(p)) /\ MainOK /\ LoopOK
  BY <1>1 DEF Init, PollOK, MainOK, LoopOK, Pollers
<1>4. CallOK
  BY DEF Init, CallOK
<1> QED
  BY <1>2, <1>3, <1>4 DEF IInv, Init, AckedIsHanded

-----------------------------------------------------------------------------
(* The theorems. *)

\* IInv is inductive.
THEOREM Invariance == Spec => []IInv
<1>1. IInv /\ [Next]_vars => IInv'
  <2> SUFFICES ASSUME IInv, [Next]_vars PROVE IInv'
    OBVIOUS
  <2> QED
    BY StepKeepsType, StepKeepsPolls, StepKeepsAcked, StepKeepsCall DEF IInv
<1> QED
  BY InitEstablishes, <1>1, PTL DEF Spec

\* Every variable of the receiver and its transmitter keeps its type.
THEOREM TypeCorrect == Spec => []TypeOK
<1>1. IInv => TypeOK
  BY DEF IInv
<1> QED
  BY <1>1, Invariance, PTL

\* An acknowledged SET is handed to the program or on its way, and lost only
\* beside one that cannot be parsed, when its acknowledgment was not answered, or
\* when a panic ended the process that had it in hand.
THEOREM AckedHanded == Spec => []AckedIsHanded
<1>1. IInv => AckedIsHanded
  BY DEF IInv
<1> QED
  BY <1>1, Invariance, PTL

\* From the moment a receiver is deleted, its loop neither polls nor calls back.
THEOREM Quiet == Spec => []DeletedIsQuiet
<1>1. IInv => DeletedIsQuiet
  BY DEF IInv, LoopOK, DeletedIsQuiet
<1> QED
  BY <1>1, Invariance, PTL

\* A status call that returns a status returns one the stream has had since the
\* call began, whatever updates given up before are carried out meanwhile.
THEOREM HadDuringCall == Spec => StatusHadDuringCall
<1> DEFINE Claim == result' # result /\ result' \in Statuses => result' \in had
<1>1. "zero" \notin Statuses /\ "error" \notin Statuses /\ "none" \notin Statuses
  BY StatusesAssumption
<1>2. IInv /\ [Next]_vars => Claim
  <2> SUFFICES ASSUME IInv, [Next]_vars PROVE Claim
    OBVIOUS
  <2>0. main = "asking" => answer \in had \cup {"none", "zero"}
    BY DEF IInv, CallOK
  <2>1. CASE ReturnStatus \/ StatusUnanswered
    BY <1>1, <2>0, <2>1 DEF ReturnStatus, StatusUnanswered, Return, At
  <2>2. ASSUME NEW want, AskStatus(want)
        PROVE  result' = "none"
    BY <2>2 DEF AskStatus
  <2>3. ASSUME NEW p \in Pollers, PollStep(p)
        PROVE  result' = result
    BY <2>3, PollStepDoes DEF PollDoes, statusCall
  <2>4. CASE PollByHand \/ DeleteReceiver
    BY <1>1, <2>4 DEF PollByHand, DeleteReceiver
  <2> QED
    BY <1>1, <2>1, <2>2, <2>3, <2>4
       DEF Next, vars, MetadataFetched, ConfigureFails, StreamCreated, CreationUnanswered,
           Terminate, Deleted, DeletionUnanswered, LoopPolls, CallBack, Wake, Offer, LateAck,
           ServeStatus, LateUpdate, statusCall
<1>3. Spec => [][Claim]_vars
  BY <1>2, Invariance, PTL DEF Spec
<1> QED
  BY <1>3, PTL DEF StatusHadDuringCall
=============================================================================
