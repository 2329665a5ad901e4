-------------------------- MODULE HubEvents_proofs ---------------------------
(***************************************************************************)
(* The safety of HubEvents for any number of hubs, receivers, events,      *)
(* retries and redeliveries.                                               *)
(***************************************************************************)
EXTENDS HubInvariant, TLAPS, FiniteSetTheorems

-----------------------------------------------------------------------------
(* Every operation on the registry keeps its type. *)

LEMMA EntryOps ==
  ASSUME NEW e \in Entry
  PROVE  /\ \A c \in Configs : [e EXCEPT !.conf = c] \in Entry
         /\ [e EXCEPT !.received = @ + 1] \in Entry
         /\ [e EXCEPT !.delivered = @ + 1] \in Entry
         /\ [e EXCEPT !.failed = @ + 1] \in Entry
BY DEF Entry

LEMMA StoreTyped ==
  ASSUME RegistryTypeOK, NEW h \in Hubs, NEW r \in Receivers, NEW e \in Entry
  PROVE  [registry EXCEPT ![h][r] = e] \in [Hubs -> [Receivers -> Entry]]
BY DEF RegistryTypeOK

LEMMA RequestsTyped ==
  ASSUME RegistryTypeOK, NEW h \in Hubs, NEW r \in Receivers, NEW c \in Configs,
         Register(h, r, c) \/ Unregister(h, r) \/ Update(h, r, c)
  PROVE  RegistryTypeOK'
<1>0. registry[h][r] \in Entry
  BY DEF RegistryTypeOK
<1> USE DEF RegistryTypeOK
<1>1. CASE Register(h, r, c)
  <2>1. [Unregistered EXCEPT !.conf = c] \in Entry
    BY DEF Unregistered, Entry
  <2> QED
    BY <1>1, <2>1, StoreTyped DEF Register
<1>2. CASE Unregister(h, r)
  <2>1. Unregistered \in Entry
    BY DEF Unregistered, Entry
  <2> QED
    BY <1>2, <2>1, StoreTyped DEF Unregister
<1>3. CASE Update(h, r, c)
  <2>1. [registry[h][r] EXCEPT !.conf = c] \in Entry
    BY <1>0, EntryOps
  <2> QED
    BY <1>3, <2>1, StoreTyped DEF Update
<1> QED
  BY <1>1, <1>2, <1>3

LEMMA IncrementsTyped ==
  ASSUME RegistryTypeOK, NEW h \in Hubs, NEW r \in Receivers,
         \/ IncrementReceived(h, r) \/ IncrementDelivered(h, r)
         \/ IncrementFailed(h, r)
  PROVE  RegistryTypeOK'
<1>0. registry[h][r] \in Entry
  BY DEF RegistryTypeOK
<1> USE DEF RegistryTypeOK
<1>1. CASE IncrementReceived(h, r)
  <2>1. [registry[h][r] EXCEPT !.received = @ + 1] \in Entry
    BY <1>0, EntryOps
  <2>2. [registry EXCEPT ![h][r].received = @ + 1] \in [Hubs -> [Receivers -> Entry]]
    BY <2>1, StoreTyped
  <2> QED
    BY <1>1, <2>2 DEF IncrementReceived
<1>2. CASE IncrementDelivered(h, r)
  <2>1. [registry[h][r] EXCEPT !.delivered = @ + 1] \in Entry
    BY <1>0, EntryOps
  <2>2. [registry EXCEPT ![h][r].delivered = @ + 1] \in [Hubs -> [Receivers -> Entry]]
    BY <2>1, StoreTyped
  <2> QED
    BY <1>2, <2>2 DEF IncrementDelivered
<1>3. CASE IncrementFailed(h, r)
  <2>1. [registry[h][r] EXCEPT !.failed = @ + 1] \in Entry
    BY <1>0, EntryOps
  <2>2. [registry EXCEPT ![h][r].failed = @ + 1] \in [Hubs -> [Receivers -> Entry]]
    BY <2>1, StoreTyped
  <2> QED
    BY <1>3, <2>2 DEF IncrementFailed
<1> QED
  BY <1>1, <1>2, <1>3

LEMMA JobStepTyped ==
  ASSUME RegistryTypeOK, JobsTypeOK, NEW j \in JobId, JobStep(j)
  PROVE  RegistryTypeOK' /\ JobsTypeOK'
<1>1. JobsTypeOK'
  BY DEF JobsTypeOK, JobStep, Job, Active, Settled, Accepted, NotConfirmed, NotSent,
         RecordSuccess, RecordFailure, RetryAfterBackoff
<1>2. j.hub \in Hubs /\ j.receiver \in Receivers
  BY DEF JobId
<1>3. CASE registry' = registry
  BY <1>1, <1>3 DEF RegistryTypeOK
<1>4. CASE IncrementDelivered(j.hub, j.receiver) \/ IncrementFailed(j.hub, j.receiver)
  BY <1>1, <1>2, <1>4, IncrementsTyped
<1> QED
  BY <1>3, <1>4 DEF JobStep, Accepted, NotConfirmed, NotSent, RecordSuccess,
                    RecordFailure, RetryAfterBackoff

-----------------------------------------------------------------------------
(* Which steps change the delivery goroutines, and which the registry. *)

LEMMA JobsChangeBy ==
  ASSUME [Next]_vars
  PROVE  \/ jobs' = jobs
         \/ \E h \in Hubs, s \in Submissions, r \in Receivers : Dispatch(h, s, r)
         \/ \E j \in JobId : JobStep(j)
         \/ \E h \in Hubs : Crash(h)
<1>1. CASE UNCHANGED vars
  BY <1>1 DEF vars
<1>2. CASE Administration
  BY <1>2 DEF Administration, RegisterReceiver, UnregisterReceiver, UpdateReceiver
<1>3. ASSUME NEW s \in Submissions, Expire(s) \/ IngestStep(s)
      PROVE  jobs' = jobs
  BY <1>3 DEF Expire, IngestStep, Filter, CountReceived, Publish, PublishFails, Reply,
              ConfirmationLost
<1>4. ASSUME NEW s \in Submissions, NEW h \in Hubs, Arrive(h, s) \/ Redeliver(h, s)
      PROVE  jobs' = jobs
  BY <1>4 DEF Arrive, Redeliver
<1>5. ASSUME NEW s \in Submissions, NEW h \in Hubs, ConsumeStep(h, s)
      PROVE  jobs' = jobs \/ \E r \in Receivers : Dispatch(h, s, r)
  BY <1>5 DEF ConsumeStep, Skip, Receive, Ack
<1>6. ASSUME NEW j \in JobId, Deliver(j)
      PROVE  JobStep(j)
  BY <1>6 DEF Deliver
<1>7. CASE Lifecycle
  BY <1>7 DEF Lifecycle, Start, Stop
<1> QED
  BY <1>1, <1>2, <1>3, <1>4, <1>5, <1>6, <1>7 DEF Next

LEMMA RegistryChangesBy ==
  ASSUME [Next]_vars
  PROVE  \/ registry' = registry
         \/ Administration
         \/ \E s \in Submissions, r \in Receivers : CountReceived(s, r)
         \/ \E j \in JobId : Deliver(j)
         \/ \E h \in Hubs : Crash(h)
<1>1. CASE UNCHANGED vars
  BY <1>1 DEF vars
<1>2. ASSUME NEW s \in Submissions, Expire(s)
      PROVE  registry' = registry
  BY <1>2 DEF Expire
<1>3. ASSUME NEW s \in Submissions, IngestStep(s)
      PROVE  registry' = registry \/ \E r \in Receivers : CountReceived(s, r)
  BY <1>3 DEF IngestStep, Filter, Publish, PublishFails, Reply, ConfirmationLost
<1>4. ASSUME NEW s \in Submissions, NEW h \in Hubs, Arrive(h, s) \/ Redeliver(h, s)
      PROVE  registry' = registry
  BY <1>4 DEF Arrive, Redeliver
<1>5. ASSUME NEW s \in Submissions, NEW h \in Hubs, ConsumeStep(h, s)
      PROVE  registry' = registry
  BY <1>5 DEF ConsumeStep, Skip, Receive, Ack, Dispatch
<1>6. CASE Lifecycle
  BY <1>6 DEF Lifecycle, Start, Stop
<1> QED
  BY <1>1, <1>2, <1>3, <1>4, <1>5, <1>6 DEF Next

-----------------------------------------------------------------------------
(* The parts of the inductive invariant, one by one. *)

LEMMA InitEstablishes == Init => IInv
<1> SUFFICES ASSUME Init PROVE IInv
  OBVIOUS
<1> USE DEF Init
<1>1. RegistryTypeOK
  BY DEF RegistryInit, RegistryTypeOK, Unregistered, Entry
<1>2. \A j \in JobId : jobs[j] = NoJob
  BY DEF JobsInit
<1>3. JobsTypeOK
  BY DEF JobsInit, JobsTypeOK, NoJob, Job
<1>4. TypeOK
  <2>1. inbox \in [Hubs -> [Submissions -> Message]]
    BY LimitsAssumption DEF Message
  <2>2. ingest \in [Submissions -> Handler]
    BY DEF Handler
  <2> QED
    BY <1>1, <1>3, <2>1, <2>2 DEF TypeOK, Phase
<1>5. \A s \in Submissions : RequestOK(s)
  BY SubmissionsAssumption DEF RequestOK
<1>6. \A h \in Hubs, s \in Submissions : MessageOK(h, s)
  BY DEF MessageOK
<1>7. OnlyWantedDeliveries /\ \A j \in JobId : JobOK(j)
  BY <1>2 DEF JobOK, OnlyWantedDeliveries, NoJob
<1>8. OneJobPerHandling
  BY <1>2 DEF OneJobPerHandling, NoJob, JobId
<1> QED
  BY <1>4, <1>5, <1>6, <1>7, <1>8 DEF IInv

LEMMA MessageOps ==
  ASSUME NEW m \in Message
  PROVE  /\ [m EXCEPT !.st = "outstanding"] \in Message
         /\ [m EXCEPT !.st = "acked"] \in Message
         /\ [m EXCEPT !.st = "dropped"] \in Message
         /\ \A r \in Receivers : [m EXCEPT !.todo = @ \ {r}] \in Message
BY DEF Message

LEMMA HandlerOps ==
  ASSUME NEW m \in Handler
  PROVE  /\ [m EXCEPT !.pc = "failed"] \in Handler
         /\ [m EXCEPT !.pc = "accepted"] \in Handler
         /\ [m EXCEPT !.pc = "replying"] \in Handler
         /\ [m EXCEPT !.pc = "cut"] \in Handler
         /\ \A R \in SUBSET Receivers :
              /\ [m EXCEPT !.pc = "accepted", !.targets = R, !.todo = R] \in Handler
              /\ [m EXCEPT !.pc = "counting", !.targets = R, !.todo = R] \in Handler
BY DEF Handler, Answered

LEMMA StepKeepsType == IInv /\ [Next]_vars => TypeOK'
<1> SUFFICES ASSUME IInv, [Next]_vars PROVE TypeOK'
  OBVIOUS
<1> USE DEF TypeOK, IInv
<1>1. ASSUME NEW h \in Hubs, NEW r \in Receivers, NEW c \in Configs,
             RegisterReceiver(h, r, c) \/ UnregisterReceiver(h, r) \/ UpdateReceiver(h, r, c)
      PROVE  TypeOK'
  BY <1>1, RequestsTyped DEF RegisterReceiver, UnregisterReceiver, UpdateReceiver, JobsTypeOK
<1>2. ASSUME NEW h \in Hubs, NEW r \in Receivers, UnregisterReceiver(h, r)
      PROVE  TypeOK'
  <2>1. RegistryTypeOK'
    BY <1>2 DEF UnregisterReceiver, Unregister, Unregistered, RegistryTypeOK, Entry
  <2> QED
    BY <1>2, <2>1 DEF UnregisterReceiver, JobsTypeOK
<1>3. ASSUME NEW h \in Hubs, NEW s \in Submissions, Arrive(h, s)
      PROVE  TypeOK'
  BY <1>3 DEF Arrive, Handler, Answered, RegistryTypeOK, JobsTypeOK
<1>4. ASSUME NEW s \in Submissions, IngestStep(s)
      PROVE  TypeOK'
  <2>1. CASE Filter(s)
    <3>1. FilterReceivers(Origin(s), s) \in SUBSET Receivers
      BY DEF FilterReceivers
    <3>2. ingest' \in [Submissions -> Handler]
      BY <2>1, <3>1, HandlerOps DEF Filter
    <3> QED
      BY <2>1, <3>2 DEF Filter, RegistryTypeOK, JobsTypeOK
  <2>2. ASSUME NEW r \in Receivers, CountReceived(s, r)
        PROVE  TypeOK'
    <3>1. Origin(s) \in Hubs
      BY <2>2 DEF CountReceived, Origin, RequestOK
    <3>2. RegistryTypeOK'
      BY <2>2, <3>1, IncrementsTyped DEF CountReceived
    <3>3. ingest' \in [Submissions -> Handler]
      BY <2>2 DEF CountReceived, Handler
    <3> QED
      BY <2>2, <3>2, <3>3 DEF CountReceived, JobsTypeOK
  <2>3. CASE Publish(s)
    <3>1. inbox' \in [Hubs -> [Submissions -> Message]]
      BY <2>3, MessageOps DEF Publish, Delivered
    <3>2. ingest' \in [Submissions -> Handler]
      BY <2>3 DEF Publish, Handler
    <3> QED
      BY <2>3, <3>1, <3>2 DEF Publish, RegistryTypeOK, JobsTypeOK
  <2>4. CASE PublishFails(s) \/ Reply(s) \/ ConfirmationLost(s)
    <3>1. /\ [ingest[s] EXCEPT !.pc = "failed"] \in Handler
          /\ [ingest[s] EXCEPT !.pc = "accepted"] \in Handler
      BY HandlerOps
    <3>2. ingest' \in [Submissions -> Handler]
      BY <2>4, <3>1 DEF PublishFails, Reply, ConfirmationLost
    <3> QED
      BY <2>4, <3>2 DEF PublishFails, Reply, ConfirmationLost, RegistryTypeOK, JobsTypeOK
  <2> QED
    BY <1>4, <2>1, <2>2, <2>3, <2>4 DEF IngestStep
<1>5. ASSUME NEW h \in Hubs, NEW s \in Submissions, ConsumeStep(h, s) \/ Redeliver(h, s)
      PROVE  TypeOK'
  <2>1. inbox[h][s] \in Message
    OBVIOUS
  <2>2. CASE Skip(h, s) \/ Ack(h, s) \/ Redeliver(h, s)
    <3>1. /\ [inbox[h][s] EXCEPT !.st = "acked"] \in Message
          /\ [inbox[h][s] EXCEPT !.st = "outstanding"] \in Message
      BY <2>1, MessageOps
    <3>2. CASE inbox' = [inbox EXCEPT ![h][s].st = "acked"]
      BY <2>2, <3>1, <3>2 DEF Skip, Ack, Redeliver, RegistryTypeOK, JobsTypeOK
    <3>3. CASE inbox' = [inbox EXCEPT ![h][s].st = "outstanding"]
      BY <2>2, <3>1, <3>3 DEF Skip, Ack, Redeliver, RegistryTypeOK, JobsTypeOK
    <3> QED
      BY <2>2, <3>2, <3>3 DEF Skip, Ack, Redeliver
  <2>3. CASE Receive(h, s)
    <3>1. [st |-> "handling", n |-> inbox[h][s].n + 1, todo |-> ingest[s].targets] \in Message
      BY <2>1, <2>3, LimitsAssumption DEF Receive, Message, Handler
    <3> QED
      BY <2>3, <3>1 DEF Receive, RegistryTypeOK, JobsTypeOK
  <2>4. ASSUME NEW r \in Receivers, Dispatch(h, s, r)
        PROVE  TypeOK'
    <3>1. inbox' \in [Hubs -> [Submissions -> Message]]
      BY <2>1, <2>4, MessageOps DEF Dispatch
    <3>2. JobsTypeOK'
      <4>1. registry[h][r].conf \in Configs \cup {NoConf}
        BY DEF RegistryTypeOK, Entry
      <4>2. NewJob(h, r) \in Job
        BY <4>1 DEF NewJob, Job, Active
      <4> QED
        BY <2>4, <4>2 DEF Dispatch, Distribute, JobsTypeOK
    <3> QED
      BY <2>4, <3>1, <3>2 DEF Dispatch, RegistryTypeOK
  <2> QED
    BY <1>5, <2>2, <2>3, <2>4 DEF ConsumeStep
<1>6. ASSUME NEW s \in Submissions, Expire(s)
      PROVE  TypeOK'
  BY <1>6 DEF Expire, RegistryTypeOK, JobsTypeOK
<1>7. ASSUME NEW h \in Hubs, Start(h)
      PROVE  TypeOK'
  BY <1>7 DEF Start, Phase, RegistryTypeOK, JobsTypeOK
<1>8. ASSUME NEW h \in Hubs, Stop(h)
      PROVE  TypeOK'
  <2>1. \A gone \in SUBSET Undelivered(h) :
          Drop(h, gone) \in [Hubs -> [Submissions -> Message]]
    BY MessageOps DEF Drop
  <2>2. inbox' \in [Hubs -> [Submissions -> Message]]
    BY <1>8, <2>1 DEF Stop
  <2> QED
    BY <1>8, <2>2 DEF Stop, Phase, RegistryTypeOK, JobsTypeOK
<1>9. ASSUME NEW h \in Hubs, Crash(h)
      PROVE  TypeOK'
  <2>1. RegistryTypeOK'
    BY <1>9 DEF Crash, Forget, RegistryTypeOK, Unregistered, Entry
  <2>2. JobsTypeOK'
    BY <1>9 DEF Crash, LoseJobs, JobsTypeOK, Job, Active, Settled
  <2>3. ingest' \in [Submissions -> Handler]
    BY <1>9 DEF Crash, Handler, Answered
  <2>4. inbox' \in [Hubs -> [Submissions -> Message]]
    BY <1>9, MessageOps DEF Crash
  <2> QED
    BY <1>9, <2>1, <2>2, <2>3, <2>4 DEF Crash, Phase
<1>10. ASSUME NEW j \in JobId, Deliver(j)
       PROVE  TypeOK'
  BY <1>10, JobStepTyped DEF Deliver
<1>11. CASE UNCHANGED vars
  BY <1>11 DEF vars, RegistryTypeOK, JobsTypeOK
<1> QED
  BY <1>1, <1>2, <1>3, <1>4, <1>5, <1>6, <1>7, <1>8, <1>9, <1>10, <1>11
     DEF Next, Administration, Lifecycle

LEMMA StepKeepsRequests ==
  IInv /\ [Next]_vars => \A s \in Submissions : RequestOK(s)'
<1> SUFFICES ASSUME IInv, [Next]_vars, NEW s \in Submissions PROVE RequestOK(s)'
  OBVIOUS
<1>0. RequestOK(s) /\ ingest[s] \in Handler /\ DOMAIN ingest = Submissions
  BY DEF IInv, TypeOK
<1>1. CASE UNCHANGED <<ingest, published>>
  BY <1>0, <1>1 DEF RequestOK
<1>2. ASSUME NEW h \in Hubs, NEW t \in Submissions, Arrive(h, t)
      PROVE  RequestOK(s)'
  BY <1>0, <1>2 DEF Arrive, RequestOK, IInv, TypeOK
<1>3. ASSUME NEW t \in Submissions, IngestStep(t)
      PROVE  RequestOK(s)'
  <2>1. CASE t # s
    <3>1. UNCHANGED ingest[s] /\ (s \in published <=> s \in published')
      BY <1>0, <1>3, <2>1 DEF IngestStep, Filter, CountReceived, Publish, PublishFails,
           Reply, ConfirmationLost, IInv, TypeOK
    <3> QED
      BY <1>0, <3>1 DEF RequestOK
  <2>2. CASE Filter(s)
    <3> DEFINE T == FilterReceivers(Origin(s), s)
    <3>1. /\ ingest'[s].pc = (IF T = {} THEN "accepted" ELSE "counting")
          /\ ingest'[s].targets = T
          /\ ingest'[s].hub = ingest[s].hub
          /\ ingest[s].pc = "parsed" /\ published' = published
      BY <1>0, <2>2 DEF Filter, Handler
    <3> HIDE DEF T
    <3> QED
      BY <1>0, <3>1 DEF RequestOK
  <2>3. ASSUME NEW r \in Receivers, CountReceived(s, r)
        PROVE  RequestOK(s)'
    BY <1>0, <2>3 DEF CountReceived, RequestOK
  <2>4. CASE Publish(s)
    BY <1>0, <2>4 DEF Publish, RequestOK
  <2>5. CASE PublishFails(s) \/ Reply(s) \/ ConfirmationLost(s)
    <3>1. CASE PublishFails(s)
      BY <1>0, <3>1 DEF PublishFails, RequestOK
    <3>2. CASE Reply(s)
      BY <1>0, <3>2 DEF Reply, RequestOK
    <3>3. CASE ConfirmationLost(s)
      BY <1>0, <3>3 DEF ConfirmationLost, RequestOK
    <3> QED
      BY <2>5, <3>1, <3>2, <3>3
  <2> QED
    BY <1>3, <2>1, <2>2, <2>3, <2>4, <2>5 DEF IngestStep
<1>4. ASSUME NEW h \in Hubs, Crash(h)
      PROVE  RequestOK(s)'
  <2>1. published' = published
    BY <1>4 DEF Crash
  <2>2. CASE ingest'[s] = ingest[s]
    BY <1>0, <2>1, <2>2 DEF RequestOK
  <2>3. CASE ingest'[s] = [ingest[s] EXCEPT !.pc = "cut"] /\ ingest[s].hub \in Hubs
    BY <1>0, <2>1, <2>3 DEF RequestOK, Handler
  <2> QED
    BY <1>4, <2>2, <2>3 DEF Crash, Origin
<1> QED
  BY <1>1, <1>2, <1>3, <1>4
     DEF Next, Administration, Lifecycle, vars, RegisterReceiver, UnregisterReceiver,
         UpdateReceiver, Expire, ConsumeStep, Skip, Receive, Ack, Dispatch, Redeliver,
         Start, Stop, Deliver

\* What is published stays published, with its origin and its audience.
LEMMA PublishedIsStable ==
  ASSUME IInv, [Next]_vars, NEW s \in published
  PROVE  s \in published' /\ Origin(s)' = Origin(s) /\ ingest'[s].targets = ingest[s].targets
<1>0. /\ s \in Submissions /\ RequestOK(s)
      /\ ingest \in [Submissions -> Handler]
  BY DEF IInv, TypeOK
<1>1. CASE UNCHANGED <<ingest, published>>
  BY <1>1 DEF Origin
<1>2. ASSUME NEW h \in Hubs, NEW t \in Submissions, Arrive(h, t)
      PROVE  s \in published' /\ Origin(s)' = Origin(s) /\ ingest'[s].targets = ingest[s].targets
  BY <1>0, <1>2 DEF Arrive, RequestOK, Origin
<1>3. ASSUME NEW t \in Submissions, IngestStep(t)
      PROVE  s \in published' /\ Origin(s)' = Origin(s) /\ ingest'[s].targets = ingest[s].targets
  <2>1. CASE Filter(t)
    BY <1>0, <2>1 DEF Filter, RequestOK, Origin
  <2>2. ASSUME NEW r \in Receivers, CountReceived(t, r)
        PROVE  s \in published' /\ Origin(s)' = Origin(s) /\ ingest'[s].targets = ingest[s].targets
    BY <1>0, <2>2 DEF CountReceived, Origin
  <2>3. CASE Publish(t)
    BY <1>0, <2>3 DEF Publish, Origin
  <2>4. CASE PublishFails(t)
    BY <1>0, <2>4 DEF PublishFails, Origin
  <2>5. CASE Reply(t)
    BY <1>0, <2>5 DEF Reply, Origin
  <2>6. CASE ConfirmationLost(t)
    BY <1>0, <2>6 DEF ConfirmationLost, Origin
  <2> QED
    BY <1>3, <2>1, <2>2, <2>3, <2>4, <2>5, <2>6 DEF IngestStep
<1>4. ASSUME NEW h \in Hubs, Crash(h)
      PROVE  s \in published' /\ Origin(s)' = Origin(s) /\ ingest'[s].targets = ingest[s].targets
  BY <1>0, <1>4 DEF Crash, Origin, Handler
<1> QED
  BY <1>1, <1>2, <1>3, <1>4
     DEF Next, Administration, Lifecycle, vars, RegisterReceiver, UnregisterReceiver,
         UpdateReceiver, Expire, ConsumeStep, Skip, Receive, Ack, Dispatch, Redeliver,
         Start, Stop, Deliver

LEMMA StepKeepsMessages ==
  IInv /\ [Next]_vars => \A h \in Hubs, s \in Submissions : MessageOK(h, s)'
<1> SUFFICES ASSUME IInv, [Next]_vars, NEW h \in Hubs, NEW s \in Submissions
             PROVE  MessageOK(h, s)'
  OBVIOUS
<1>0. /\ MessageOK(h, s) /\ inbox[h][s] \in Message
      /\ inbox \in [Hubs -> [Submissions -> Message]]
  BY DEF IInv, TypeOK
<1>1. inbox'[h][s] = inbox[h][s] => MessageOK(h, s)'
  BY <1>0, PublishedIsStable DEF MessageOK, Origin
<1>2. inbox'[h][s].st \in {"outstanding", "acked", "dropped"} /\ s \in published
        => MessageOK(h, s)'
  BY PublishedIsStable DEF MessageOK
<1>3. CASE UNCHANGED inbox
  BY <1>1, <1>3
<1>4. ASSUME NEW t \in Submissions, Publish(t)
      PROVE  MessageOK(h, s)'
  <2>1. CASE t # s \/ h \notin subscribed
    <3>1. inbox'[h][s] = inbox[h][s]
      BY <1>0, <1>4, <2>1 DEF Publish, Delivered
    <3> QED
      BY <3>1, <1>1
  <2>2. CASE t = s /\ h \in subscribed
    <3>1. inbox'[h][s].st = "outstanding" /\ s \in published'
      BY <1>0, <1>4, <2>2 DEF Publish, Delivered, Message
    <3> QED
      BY <3>1 DEF MessageOK
  <2> QED
    BY <2>1, <2>2
<1>5. ASSUME NEW g \in Hubs, NEW t \in Submissions, ConsumeStep(g, t) \/ Redeliver(g, t)
      PROVE  MessageOK(h, s)'
  <2>1. CASE g # h \/ t # s
    <3>1. inbox'[h][s] = inbox[h][s]
      BY <1>0, <1>5, <2>1 DEF ConsumeStep, Skip, Receive, Ack, Dispatch, Redeliver
    <3> QED
      BY <3>1, <1>1
  <2>2. CASE Skip(h, s) \/ Ack(h, s) \/ Redeliver(h, s)
    <3>1. /\ inbox'[h][s].st \in {"outstanding", "acked", "dropped"}
          /\ inbox[h][s].st # "none"
      BY <1>0, <2>2 DEF Skip, Ack, Redeliver, Message
    <3> QED
      BY <1>0, <1>2, <3>1 DEF MessageOK
  <2>3. CASE Receive(h, s)
    <3>1. /\ inbox'[h][s] = [st |-> "handling", n |-> inbox[h][s].n + 1,
                             todo |-> ingest[s].targets]
          /\ inbox[h][s].n \in 0..MaxDeliveries /\ inbox[h][s].n < MaxDeliveries
          /\ Origin(s) # h /\ s \in published /\ ingest' = ingest /\ published' = published
      BY <1>0, <2>3 DEF Receive, Message, Skips, MessageOK
    <3> QED
      BY <3>1, LimitsAssumption DEF MessageOK, Origin
  <2>4. ASSUME NEW r \in Receivers, Dispatch(h, s, r)
        PROVE  MessageOK(h, s)'
    <3>1. /\ inbox'[h][s] = [inbox[h][s] EXCEPT !.todo = @ \ {r}]
          /\ inbox[h][s].st = "handling" /\ ingest' = ingest /\ published' = published
      BY <1>0, <2>4 DEF Dispatch
    <3> QED
      BY <1>0, <3>1 DEF MessageOK, Origin, Message
  <2> QED
    BY <1>5, <2>1, <2>2, <2>3, <2>4 DEF ConsumeStep
<1>6. ASSUME NEW g \in Hubs, Stop(g)
      PROVE  MessageOK(h, s)'
  <2>1. \/ inbox'[h][s] = inbox[h][s]
        \/ inbox'[h][s] = [inbox[h][s] EXCEPT !.st = "dropped"] /\ s \in Undelivered(h)
    BY <1>0, <1>6 DEF Stop, Drop
  <2>2. s \in Undelivered(h) => s \in published
    BY <1>0 DEF Undelivered, MessageOK
  <2> QED
    BY <1>0, <1>1, <1>2, <2>1, <2>2 DEF Message
<1>7. ASSUME NEW g \in Hubs, Crash(g)
      PROVE  MessageOK(h, s)'
  <2>1. \/ inbox'[h][s] = inbox[h][s]
        \/ /\ inbox'[h][s] = [inbox[h][s] EXCEPT !.st = "outstanding"]
           /\ inbox[h][s].st = "handling"
    BY <1>0, <1>7 DEF Crash
  <2> QED
    BY <1>0, <1>1, <1>2, <2>1 DEF Message, MessageOK
<1> QED
  BY <1>3, <1>4, <1>5, <1>6, <1>7
     DEF Next, Administration, Lifecycle, vars, RegisterReceiver, UnregisterReceiver,
         UpdateReceiver, Expire, IngestStep, Arrive, Filter, CountReceived, PublishFails,
         Reply, ConfirmationLost, Start, Deliver

LEMMA NewJobOK ==
  ASSUME TypeOK, NEW h \in Hubs, NEW s \in Submissions, NEW r \in Receivers, Wanted(h, s, r)
  PROVE  /\ registry[h][r].conf \in Configs
         /\ ShouldDeliver(registry[h][r].conf, s)
BY DEF TypeOK, RegistryTypeOK, Entry, Wanted, Registered

LEMMA StepKeepsJobs ==
  IInv /\ [Next]_vars => \A j \in JobId : JobOK(j)'
<1> SUFFICES ASSUME IInv, [Next]_vars, NEW j \in JobId PROVE JobOK(j)'
  OBVIOUS
<1>0. /\ JobOK(j) /\ jobs[j] \in Job /\ jobs \in [JobId -> Job]
      /\ MaxRetries \in Nat
  BY LimitsAssumption DEF IInv, TypeOK, JobsTypeOK
<1>1. jobs'[j] = jobs[j] => JobOK(j)'
  BY <1>0 DEF JobOK, CanAuthenticate
<1>2. CASE UNCHANGED jobs
  BY <1>1, <1>2
<1>3. ASSUME NEW h \in Hubs, NEW s \in Submissions, NEW r \in Receivers, Dispatch(h, s, r)
      PROVE  JobOK(j)'
  <2>1. \/ jobs'[j] = jobs[j]
        \/ jobs'[j] = NewJob(h, r) /\ Wanted(h, s, r)
    BY <1>0, <1>3 DEF Dispatch, Distribute
  <2>2. CASE jobs'[j] = NewJob(h, r) /\ Wanted(h, s, r)
    <3>1. registry[h][r].conf \in Configs
      BY <2>2, NewJobOK DEF IInv
    <3> QED
      BY <1>0, <2>2, <3>1 DEF NewJob, JobOK, CanAuthenticate
  <2> QED
    BY <1>1, <2>1, <2>2
<1>4. ASSUME NEW i \in JobId, JobStep(i)
      PROVE  JobOK(j)'
  <2>1. CASE i # j
    <3>1. jobs'[j] = jobs[j]
      BY <1>0, <1>4, <2>1 DEF JobStep, Accepted, NotConfirmed, NotSent, RecordSuccess,
                              RecordFailure, RetryAfterBackoff
    <3> QED
      BY <1>1, <3>1
  <2> USE <1>0 DEF JobOK, CanAuthenticate, Job
  <2>2. CASE Accepted(j)
    BY <2>2 DEF Accepted
  <2>3. CASE NotConfirmed(j)
    BY <2>3 DEF NotConfirmed
  <2>4. CASE NotSent(j)
    BY <2>4 DEF NotSent
  <2>5. CASE RecordSuccess(j)
    BY <2>5 DEF RecordSuccess
  <2>6. CASE RecordFailure(j)
    BY <2>6 DEF RecordFailure
  <2>7. CASE RetryAfterBackoff(j)
    BY <2>7 DEF RetryAfterBackoff
  <2> QED
    BY <1>4, <2>1, <2>2, <2>3, <2>4, <2>5, <2>6, <2>7 DEF JobStep
<1>5. ASSUME NEW h \in Hubs, Crash(h)
      PROVE  JobOK(j)'
  <2>1. \/ jobs'[j] = jobs[j]
        \/ jobs'[j] = [jobs[j] EXCEPT !.st = "lost"] /\ jobs[j].st # "none"
    BY <1>0, <1>5 DEF Crash, LoseJobs, Active
  <2> QED
    BY <1>0, <1>1, <2>1 DEF JobOK, CanAuthenticate, Job
<1> QED
  BY <1>2, <1>3, <1>4, <1>5, JobsChangeBy

\* A step starts at most one job, where a handler still has a target.
LEMMA JobsStartInHandlers ==
  ASSUME IInv, [Next]_vars, NEW j \in JobId, jobs[j].st = "none", jobs'[j].st # "none"
  PROVE  /\ Dispatch(j.hub, j.msg, j.receiver)
         /\ j.slot = inbox[j.hub][j.msg].n
         /\ Wanted(j.hub, j.msg, j.receiver)
         /\ jobs'[j].conf = registry[j.hub][j.receiver].conf
<1>0. jobs \in [JobId -> Job]
  BY DEF IInv, TypeOK, JobsTypeOK
<1>1. ASSUME NEW h \in Hubs, NEW s \in Submissions, NEW r \in Receivers, Dispatch(h, s, r)
      PROVE  /\ j = [hub |-> h, msg |-> s, receiver |-> r, slot |-> inbox[h][s].n]
             /\ Wanted(h, s, r)
             /\ jobs'[j].conf = registry[h][r].conf
  BY <1>0, <1>1 DEF Dispatch, Distribute, NewJob
<1>2. ~ \E i \in JobId : JobStep(i)
  BY <1>0 DEF JobStep, Accepted, NotConfirmed, NotSent, RecordSuccess, RecordFailure,
              RetryAfterBackoff
<1>3. ~ \E h \in Hubs : Crash(h)
  BY <1>0 DEF Crash, LoseJobs, Active
<1>4. jobs' # jobs
  OBVIOUS
<1>5. PICK h \in Hubs, s \in Submissions, r \in Receivers : Dispatch(h, s, r)
  BY <1>2, <1>3, <1>4, JobsChangeBy
<1> QED
  BY <1>1, <1>5

\* The configuration a job was started with is never changed, nor the job undone.
LEMMA JobsGoOn ==
  ASSUME IInv, [Next]_vars, NEW j \in JobId, jobs[j].st # "none"
  PROVE  jobs'[j].st # "none" /\ jobs'[j].conf = jobs[j].conf
<1>0. jobs \in [JobId -> Job]
  BY DEF IInv, TypeOK, JobsTypeOK
<1>1. CASE UNCHANGED jobs
  BY <1>1
<1>2. ASSUME NEW h \in Hubs, NEW s \in Submissions, NEW r \in Receivers, Dispatch(h, s, r)
      PROVE  jobs'[j].st # "none" /\ jobs'[j].conf = jobs[j].conf
  <2> DEFINE i == [hub |-> h, msg |-> s, receiver |-> r, slot |-> inbox[h][s].n]
  <2>1. jobs' = jobs \/ jobs' = [jobs EXCEPT ![i] = NewJob(h, r)]
    BY <1>2 DEF Dispatch, Distribute
  <2>2. inbox[h][s].n \in Nat /\ inbox[h][s].n \in 1..MaxDeliveries
    BY <1>2, LimitsAssumption DEF Dispatch, IInv, MessageOK
  <2>3. jobs[i].st = "none"
    BY <1>2, <2>2 DEF Dispatch, IInv, OneJobPerHandling, Slots
  <2> QED
    BY <1>0, <2>1, <2>3
<1>3. ASSUME NEW i \in JobId, JobStep(i)
      PROVE  jobs'[j].st # "none" /\ jobs'[j].conf = jobs[j].conf
  BY <1>0, <1>3 DEF JobStep, Accepted, NotConfirmed, NotSent, RecordSuccess, RecordFailure,
              RetryAfterBackoff, Job
<1>4. ASSUME NEW h \in Hubs, Crash(h)
      PROVE  jobs'[j].st # "none" /\ jobs'[j].conf = jobs[j].conf
  BY <1>0, <1>4 DEF Crash, LoseJobs, Job
<1> QED
  BY <1>1, <1>2, <1>3, <1>4, JobsChangeBy

LEMMA StepKeepsWanted == IInv /\ [Next]_vars => OnlyWantedDeliveries'
<1> SUFFICES ASSUME IInv, [Next]_vars, NEW j \in JobId, jobs'[j].st # "none"
             PROVE  /\ j.msg \in published'
                    /\ Origin(j.msg)' # j.hub
                    /\ j.receiver \in ingest'[j.msg].targets
                    /\ ShouldDeliver(jobs'[j].conf, j.msg)
  BY DEF OnlyWantedDeliveries
<1>0. j.hub \in Hubs /\ j.msg \in Submissions /\ j.receiver \in Receivers
  BY DEF JobId
<1>1. CASE jobs[j].st # "none"
  BY <1>1, JobsGoOn, PublishedIsStable DEF IInv, OnlyWantedDeliveries
<1>2. CASE jobs[j].st = "none"
  <2>1. /\ Dispatch(j.hub, j.msg, j.receiver)
        /\ Wanted(j.hub, j.msg, j.receiver)
        /\ jobs'[j].conf = registry[j.hub][j.receiver].conf
    BY <1>2, JobsStartInHandlers
  <2>2. ShouldDeliver(jobs'[j].conf, j.msg)
    BY <2>1, <1>0, NewJobOK DEF IInv
  <2>3. /\ j.msg \in published
        /\ Origin(j.msg) # j.hub
        /\ j.receiver \in ingest[j.msg].targets
    BY <1>0, <2>1 DEF Dispatch, IInv, MessageOK
  <2> QED
    BY <2>2, <2>3, PublishedIsStable
<1> QED
  BY <1>1, <1>2

\* The delivery count of a message grows with every handling; within one, the
\* targets only become fewer.
HandlingAdvances(h, s) ==
  /\ inbox'[h][s].n >= inbox[h][s].n
  /\ inbox'[h][s].st = "handling" =>
       \/ inbox'[h][s].n > inbox[h][s].n
       \/ /\ inbox[h][s].st = "handling"
          /\ inbox'[h][s].n = inbox[h][s].n
          /\ inbox'[h][s].todo \subseteq inbox[h][s].todo

LEMMA HandlingsAdvance ==
  ASSUME IInv, [Next]_vars, NEW h \in Hubs, NEW s \in Submissions
  PROVE  HandlingAdvances(h, s)
<1>0. /\ inbox[h][s] \in Message /\ inbox \in [Hubs -> [Submissions -> Message]]
      /\ inbox[h][s].n \in Nat
  BY LimitsAssumption DEF IInv, TypeOK, Message
<1>1. inbox'[h][s] = inbox[h][s] => HandlingAdvances(h, s)
  BY <1>0 DEF HandlingAdvances
<1>2. \A st \in {"outstanding", "acked", "dropped"} :
        inbox'[h][s] = [inbox[h][s] EXCEPT !.st = st] => HandlingAdvances(h, s)
  BY <1>0 DEF Message, HandlingAdvances
<1>3. CASE UNCHANGED inbox
  BY <1>1, <1>3
<1>4. ASSUME NEW t \in Submissions, Publish(t)
      PROVE  HandlingAdvances(h, s)
  <2>1. \/ inbox'[h][s] = inbox[h][s]
        \/ inbox'[h][s] = [inbox[h][s] EXCEPT !.st = "outstanding"]
    BY <1>0, <1>4 DEF Publish, Delivered
  <2> QED
    BY <1>1, <1>2, <2>1
<1>5. ASSUME NEW g \in Hubs, NEW t \in Submissions, ConsumeStep(g, t) \/ Redeliver(g, t)
      PROVE  HandlingAdvances(h, s)
  <2>1. CASE g # h \/ t # s
    <3>1. inbox'[h][s] = inbox[h][s]
      BY <1>0, <1>5, <2>1 DEF ConsumeStep, Skip, Receive, Ack, Dispatch, Redeliver
    <3> QED
      BY <3>1, <1>1
  <2>2. CASE Skip(h, s) \/ Ack(h, s) \/ Redeliver(h, s)
    <3>1. \/ inbox'[h][s] = [inbox[h][s] EXCEPT !.st = "outstanding"]
          \/ inbox'[h][s] = [inbox[h][s] EXCEPT !.st = "acked"]
      BY <1>0, <2>2 DEF Skip, Ack, Redeliver
    <3> QED
      BY <1>2, <3>1
  <2>3. CASE Receive(h, s)
    <3>1. inbox'[h][s].n = inbox[h][s].n + 1
      BY <1>0, <2>3 DEF Receive
    <3> QED
      BY <1>0, <3>1 DEF HandlingAdvances
  <2>4. ASSUME NEW r \in Receivers, Dispatch(h, s, r)
        PROVE  HandlingAdvances(h, s)
    <3>1. /\ inbox'[h][s] = [inbox[h][s] EXCEPT !.todo = @ \ {r}]
          /\ inbox[h][s].st = "handling"
      BY <1>0, <2>4 DEF Dispatch
    <3> QED
      BY <1>0, <3>1 DEF HandlingAdvances, Message
  <2> QED
    BY <1>5, <2>1, <2>2, <2>3, <2>4 DEF ConsumeStep
<1>6. ASSUME NEW g \in Hubs, Stop(g)
      PROVE  HandlingAdvances(h, s)
  <2>1. \/ inbox'[h][s] = inbox[h][s]
        \/ inbox'[h][s] = [inbox[h][s] EXCEPT !.st = "dropped"]
    BY <1>0, <1>6 DEF Stop, Drop
  <2> QED
    BY <1>1, <1>2, <2>1
<1>7. ASSUME NEW g \in Hubs, Crash(g)
      PROVE  HandlingAdvances(h, s)
  <2>1. \/ inbox'[h][s] = inbox[h][s]
        \/ inbox'[h][s] = [inbox[h][s] EXCEPT !.st = "outstanding"]
    BY <1>0, <1>7 DEF Crash
  <2> QED
    BY <1>1, <1>2, <2>1
<1> QED
  BY <1>3, <1>4, <1>5, <1>6, <1>7
     DEF Next, Administration, Lifecycle, vars, RegisterReceiver, UnregisterReceiver,
         UpdateReceiver, Expire, IngestStep, Arrive, Filter, CountReceived, PublishFails,
         Reply, ConfirmationLost, Start, Deliver

LEMMA StepKeepsSlots == IInv /\ [Next]_vars => OneJobPerHandling'
<1> SUFFICES ASSUME IInv, [Next]_vars, NEW h \in Hubs, NEW s \in Submissions,
                    NEW r \in Receivers, NEW k \in Slots,
                    jobs'[[hub |-> h, msg |-> s, receiver |-> r, slot |-> k]].st # "none"
             PROVE  /\ k <= inbox'[h][s].n
                    /\ inbox'[h][s].st = "handling" /\ r \in inbox'[h][s].todo =>
                         k < inbox'[h][s].n
  BY DEF OneJobPerHandling
<1> DEFINE j == [hub |-> h, msg |-> s, receiver |-> r, slot |-> k]
<1>0. /\ j \in JobId /\ k \in Nat /\ inbox[h][s].n \in Nat /\ inbox'[h][s].n \in Nat
      /\ inbox \in [Hubs -> [Submissions -> Message]] /\ inbox[h][s] \in Message
  BY StepKeepsType, LimitsAssumption DEF JobId, Slots, IInv, TypeOK, Message
<1>1. CASE jobs[j].st # "none"
  <2>1. /\ k <= inbox[h][s].n
        /\ inbox[h][s].st = "handling" /\ r \in inbox[h][s].todo => k < inbox[h][s].n
    BY <1>1 DEF IInv, OneJobPerHandling
  <2> QED
    BY <1>0, <2>1, HandlingsAdvance DEF HandlingAdvances
<1>2. CASE jobs[j].st = "none"
  <2>1. Dispatch(h, s, r) /\ k = inbox[h][s].n
    BY <1>0, <1>2, JobsStartInHandlers
  <2>2. inbox'[h][s] = [inbox[h][s] EXCEPT !.todo = @ \ {r}]
    BY <1>0, <2>1 DEF Dispatch
  <2> QED
    BY <1>0, <2>1, <2>2 DEF Message
<1> QED
  BY <1>1, <1>2

-----------------------------------------------------------------------------
(* The theorems. *)

\* IInv is inductive.
THEOREM Invariance == Spec => []IInv
<1>1. IInv /\ [Next]_vars => IInv'
  <2> SUFFICES ASSUME IInv, [Next]_vars PROVE IInv'
    OBVIOUS
  <2> QED
    BY StepKeepsType, StepKeepsRequests, StepKeepsMessages, StepKeepsJobs,
       StepKeepsWanted, StepKeepsSlots DEF IInv
<1> QED
  BY InitEstablishes, <1>1, PTL DEF Spec

\* Every variable of the hubs keeps its type.
THEOREM TypeCorrect == Spec => []TypeOK
<1>1. IInv => TypeOK
  BY DEF IInv
<1> QED
  BY <1>1, Invariance, PTL

\* A webhook is posted to only for a published event of another hub, to a
\* receiver of its audience, and under a configuration that wants the event.
THEOREM WantedOnly == Spec => []OnlyWantedDeliveries
<1>1. IInv => OnlyWantedDeliveries
  BY DEF IInv
<1> QED
  BY <1>1, Invariance, PTL

\* Each handling of a message starts at most one goroutine per receiver.
THEOREM OneJobEach == Spec => []OneJobPerHandling
<1>1. IInv => OneJobPerHandling
  BY DEF IInv
<1> QED
  BY <1>1, Invariance, PTL

\* Attempts are bounded and their outcome is what happened on the wire.
THEOREM Truthful == Spec => []AttemptsTruthful
<1>1. IInv => AttemptsTruthful
  BY DEF IInv, JobOK, AttemptsTruthful
<1> QED
  BY <1>1, Invariance, PTL

\* What a transmitter is told agrees with the topic.
THEOREM Honest == Spec => []AcceptedIsPublished
<1>1. IInv => AcceptedIsPublished
  BY DEF IInv, RequestOK, MessageOK, AcceptedIsPublished
<1> QED
  BY <1>1, Invariance, PTL

CountersGrow(h, r) ==
  /\ registry'[h][r].received >= registry[h][r].received
  /\ registry'[h][r].delivered >= registry[h][r].delivered
  /\ registry'[h][r].failed >= registry[h][r].failed

LEMMA StepKeepsCounters ==
  ASSUME IInv, [Next]_vars, NEW h \in Hubs, NEW r \in Receivers,
         Registered(h, r), Registered(h, r)'
  PROVE  CountersGrow(h, r)
<1>0. /\ registry \in [Hubs -> [Receivers -> Entry]] /\ registry[h][r] \in Entry
      /\ registry[h][r].received \in Nat /\ registry[h][r].delivered \in Nat
      /\ registry[h][r].failed \in Nat
      /\ registry[h][r].conf # NoConf /\ registry'[h][r].conf # NoConf
  BY DEF IInv, TypeOK, RegistryTypeOK, Registered, Entry
<1>1. registry'[h][r] = registry[h][r] => CountersGrow(h, r)
  BY <1>0 DEF CountersGrow
<1>2. CASE UNCHANGED registry
  BY <1>1, <1>2
<1>3. ASSUME NEW g \in Hubs, NEW q \in Receivers, NEW c \in Configs,
             RegisterReceiver(g, q, c) \/ UpdateReceiver(g, q, c)
      PROVE  CountersGrow(h, r)
  <2>1. CASE g # h \/ q # r
    <3>1. registry'[h][r] = registry[h][r]
      BY <1>0, <1>3, <2>1 DEF RegisterReceiver, UpdateReceiver, Register, Update
    <3> QED
      BY <1>1, <3>1
  <2>2. CASE RegisterReceiver(h, r, c)
    BY <1>0, <2>2 DEF RegisterReceiver, Register, Registered
  <2>3. CASE UpdateReceiver(h, r, c)
    BY <1>0, <2>3 DEF UpdateReceiver, Update, CountersGrow, Entry
  <2> QED
    BY <1>3, <2>1, <2>2, <2>3
<1>4. ASSUME NEW g \in Hubs, NEW q \in Receivers, UnregisterReceiver(g, q)
      PROVE  CountersGrow(h, r)
  <2>1. registry'[h][r] = registry[h][r]
    BY <1>0, <1>4 DEF UnregisterReceiver, Unregister, Unregistered
  <2> QED
    BY <1>1, <2>1
<1>5. ASSUME NEW s \in Submissions, NEW q \in Receivers, CountReceived(s, q)
      PROVE  CountersGrow(h, r)
  BY <1>0, <1>5 DEF CountReceived, IncrementReceived, CountersGrow, Entry
<1>6. ASSUME NEW j \in JobId, Deliver(j)
      PROVE  CountersGrow(h, r)
  <2>1. CASE RecordSuccess(j)
    BY <1>0, <2>1 DEF RecordSuccess, IncrementDelivered, CountersGrow, Entry
  <2>2. CASE RecordFailure(j)
    BY <1>0, <2>2 DEF RecordFailure, IncrementFailed, CountersGrow, Entry
  <2>3. CASE UNCHANGED registry
    BY <1>1, <2>3
  <2> QED
    BY <1>6, <2>1, <2>2, <2>3
       DEF Deliver, JobStep, Accepted, NotConfirmed, NotSent, RetryAfterBackoff
<1>7. ASSUME NEW g \in Hubs, Crash(g)
      PROVE  CountersGrow(h, r)
  <2>1. registry'[h][r] = registry[h][r]
    BY <1>0, <1>7 DEF Crash, Forget, Unregistered
  <2> QED
    BY <1>1, <2>1
<1> QED
  BY <1>2, <1>3, <1>4, <1>5, <1>6, <1>7, RegistryChangesBy DEF Administration

\* No step lets the counters of a receiver that stays registered fall.
THEOREM CountersNeverFall == Spec => CountersKept
<1> DEFINE Kept == \A h \in Hubs, r \in Receivers :
                     Registered(h, r) /\ Registered(h, r)' =>
                       /\ registry'[h][r].received >= registry[h][r].received
                       /\ registry'[h][r].delivered >= registry[h][r].delivered
                       /\ registry'[h][r].failed >= registry[h][r].failed
<1>1. IInv /\ [Next]_vars => Kept
  BY StepKeepsCounters DEF CountersGrow
<1>2. Spec => [][Kept]_vars
  BY <1>1, Invariance, PTL DEF Spec
<1> QED
  BY <1>2, PTL DEF CountersKept

-----------------------------------------------------------------------------
(* The counters of the registry are backed by what happened. *)

\* A request that counts one target grows one set of counted requests; nothing
\* else changes them: a handler decides, and ends, with nothing counted or lost.
CountedStep ==
  /\ \A s \in Submissions : ingest'[s].todo \subseteq ingest'[s].targets
  /\ \A h \in Hubs, r \in Receivers :
       \/ Counted(h, r)' = Counted(h, r)
       \/ \E s \in Submissions : /\ Origin(s) = h /\ CountReceived(s, r)
                                 /\ s \notin Counted(h, r)
                                 /\ Counted(h, r)' = Counted(h, r) \cup {s}

LEMMA CountedGrows ==
  ASSUME IInv, CountersInv, [Next]_vars
  PROVE  CountedStep
<1> DEFINE Same(s) == /\ ingest'[s].todo \subseteq ingest'[s].targets
                      /\ \A h \in Hubs, r \in Receivers :
                           s \in Counted(h, r)' <=> s \in Counted(h, r)
<1>0. /\ ingest \in [Submissions -> Handler]
      /\ \A s \in Submissions : RequestOK(s) /\ ingest[s].todo \subseteq ingest[s].targets
  BY DEF IInv, TypeOK, CountersInv
<1>1. (\A s \in Submissions : Same(s)) => CountedStep
  BY DEF Counted, CountedStep
<1>2. ASSUME NEW s \in Submissions,
             \/ ingest'[s] = ingest[s]
             \/ /\ ingest'[s].hub = ingest[s].hub
                /\ ingest'[s].targets = ingest[s].targets
                /\ ingest'[s].todo = ingest[s].todo
             \/ /\ ingest[s].targets = {}
                /\ ingest'[s].todo = ingest'[s].targets
      PROVE  Same(s)
  BY <1>0, <1>2 DEF Counted, Origin
<1>3. CASE UNCHANGED ingest
  BY <1>1, <1>2, <1>3
<1>4. ASSUME NEW h \in Hubs, NEW t \in Submissions, Arrive(h, t)
      PROVE  CountedStep
  <2>1. ASSUME NEW s \in Submissions PROVE Same(s)
    <3>1. ingest[t].targets = {} /\ ingest[t].todo = {}
      BY <1>0, <1>4 DEF Arrive, RequestOK
    <3>2. \/ ingest'[s] = ingest[s]
          \/ s = t /\ ingest'[s].targets = {} /\ ingest'[s].todo = {}
      BY <1>0, <1>4, <3>1 DEF Arrive, Handler
    <3> QED
      BY <1>2, <3>1, <3>2
  <2> QED
    BY <1>1, <2>1
<1>5. ASSUME NEW t \in Submissions, Filter(t)
      PROVE  CountedStep
  <2>1. ASSUME NEW s \in Submissions PROVE Same(s)
    <3> DEFINE T == FilterReceivers(Origin(t), t)
    <3>1. ingest[t].targets = {}
      BY <1>0, <1>5 DEF Filter, RequestOK
    <3>2. \/ ingest'[s] = ingest[s]
          \/ s = t /\ ingest'[s].targets = T /\ ingest'[s].todo = T
      BY <1>0, <1>5, <3>1 DEF Filter, Handler
    <3> HIDE DEF T
    <3> QED
      BY <1>2, <3>1, <3>2
  <2> QED
    BY <1>1, <2>1
<1>6. ASSUME NEW t \in Submissions, Publish(t) \/ PublishFails(t) \/ Reply(t) \/ ConfirmationLost(t)
      PROVE  CountedStep
  <2>1. ASSUME NEW s \in Submissions PROVE Same(s)
    <3>1. \/ ingest'[s] = ingest[s]
          \/ /\ ingest'[s].hub = ingest[s].hub
             /\ ingest'[s].targets = ingest[s].targets
             /\ ingest'[s].todo = ingest[s].todo
      BY <1>0, <1>6 DEF Publish, PublishFails, Reply, ConfirmationLost, Handler
    <3> QED
      BY <1>2, <3>1
  <2> QED
    BY <1>1, <2>1
<1>7. ASSUME NEW g \in Hubs, Crash(g)
      PROVE  CountedStep
  <2>1. ASSUME NEW s \in Submissions PROVE Same(s)
    <3>1. \/ ingest'[s] = ingest[s]
          \/ /\ ingest'[s].hub = ingest[s].hub
             /\ ingest'[s].targets = ingest[s].targets
             /\ ingest'[s].todo = ingest[s].todo
      BY <1>0, <1>7 DEF Crash, Handler
    <3> QED
      BY <1>2, <3>1
  <2> QED
    BY <1>1, <2>1
<1>8. ASSUME NEW t \in Submissions, NEW q \in Receivers, CountReceived(t, q)
      PROVE  CountedStep
  <2>1. \A s \in Submissions :
          /\ ingest'[s].hub = ingest[s].hub
          /\ ingest'[s].targets = ingest[s].targets
          /\ ingest'[s].todo = IF s = t THEN ingest[s].todo \ {q} ELSE ingest[s].todo
    BY <1>0, <1>8 DEF CountReceived, Handler
  <2>2. q \in ingest[t].todo /\ q \in ingest[t].targets
    BY <1>0, <1>8 DEF CountReceived
  <2>3. ASSUME NEW h \in Hubs, NEW r \in Receivers
        PROVE  \/ Counted(h, r)' = Counted(h, r)
               \/ /\ Origin(t) = h /\ r = q
                  /\ t \notin Counted(h, r)
                  /\ Counted(h, r)' = Counted(h, r) \cup {t}
    BY <2>1, <2>2 DEF Counted, Origin
  <2> QED
    BY <1>0, <1>8, <2>1, <2>3 DEF CountedStep
<1> QED
  BY <1>3, <1>4, <1>5, <1>6, <1>7, <1>8
     DEF Next, Administration, Lifecycle, vars, RegisterReceiver, UnregisterReceiver,
         UpdateReceiver, Expire, IngestStep, ConsumeStep, Skip, Receive, Ack, Dispatch,
         Redeliver, Start, Stop, Deliver

\* A delivery that is done stays done, and a step finishes at most one.
DeliveredStep(h, r) ==
  \/ DeliveredTo(h, r)' = DeliveredTo(h, r)
  \/ \E j \in JobId : /\ j.hub = h /\ j.receiver = r /\ RecordSuccess(j)
                      /\ j \notin DeliveredTo(h, r)
                      /\ DeliveredTo(h, r)' = DeliveredTo(h, r) \cup {j}

LEMMA DeliveredGrows ==
  ASSUME IInv, [Next]_vars, NEW h \in Hubs, NEW r \in Receivers
  PROVE  DeliveredStep(h, r)
<1>0. jobs \in [JobId -> Job]
  BY DEF IInv, TypeOK, JobsTypeOK
<1>1. (\A j \in JobId : jobs'[j].st = "delivered" <=> jobs[j].st = "delivered") => DeliveredStep(h, r)
  BY DEF DeliveredTo, DeliveredStep
<1>2. CASE UNCHANGED jobs
  BY <1>1, <1>2
<1>3. ASSUME NEW g \in Hubs, NEW s \in Submissions, NEW q \in Receivers, Dispatch(g, s, q)
      PROVE  DeliveredStep(h, r)
  <2> DEFINE i == [hub |-> g, msg |-> s, receiver |-> q, slot |-> inbox[g][s].n]
  <2>1. jobs' = jobs \/ jobs' = [jobs EXCEPT ![i] = NewJob(g, q)]
    BY <1>3 DEF Dispatch, Distribute
  <2>2. inbox[g][s].n \in Nat /\ inbox[g][s].n \in 1..MaxDeliveries
    BY <1>3, LimitsAssumption DEF Dispatch, IInv, MessageOK
  <2>3. jobs[i].st = "none" /\ NewJob(g, q).st = "posting"
    BY <1>3, <2>2 DEF Dispatch, IInv, OneJobPerHandling, Slots, NewJob
  <2> HIDE DEF i
  <2>4. \A j \in JobId : jobs'[j].st = "delivered" <=> jobs[j].st = "delivered"
    BY <1>0, <2>1, <2>3
  <2> QED
    BY <1>1, <2>4
<1>4. ASSUME NEW i \in JobId, RecordSuccess(i)
      PROVE  DeliveredStep(h, r)
  <2>1. \A j \in JobId : jobs'[j].st = IF j = i THEN "delivered" ELSE jobs[j].st
    BY <1>0, <1>4 DEF RecordSuccess, Job
  <2>2. jobs[i].st # "delivered"
    BY <1>4 DEF RecordSuccess
  <2> QED
    BY <1>4, <2>1, <2>2 DEF DeliveredTo, DeliveredStep
<1>5. ASSUME NEW i \in JobId, Accepted(i) \/ NotConfirmed(i) \/ NotSent(i)
                              \/ RecordFailure(i) \/ RetryAfterBackoff(i)
      PROVE  DeliveredStep(h, r)
  <2>1. \A j \in JobId : jobs'[j].st = "delivered" <=> jobs[j].st = "delivered"
    BY <1>0, <1>5 DEF Accepted, NotConfirmed, NotSent, RecordFailure, RetryAfterBackoff, Job
  <2> QED
    BY <1>1, <2>1
<1>6. ASSUME NEW g \in Hubs, Crash(g)
      PROVE  DeliveredStep(h, r)
  <2>1. \A j \in JobId : jobs'[j].st = "delivered" <=> jobs[j].st = "delivered"
    BY <1>0, <1>6 DEF Crash, LoseJobs, Active, Job
  <2> QED
    BY <1>1, <2>1
<1> QED
  BY <1>2, <1>3, <1>4, <1>5, <1>6, JobsChangeBy DEF JobStep

\* The counters of one receiver: each grows by at most one, and only with what
\* it counts; a receiver that is new or gone has counted nothing.
CountersStep(h, r) ==
  /\ \/ registry'[h][r].received <= registry[h][r].received
     \/ \E s \in Submissions :
          /\ CountReceived(s, r) /\ Origin(s) = h
          /\ registry'[h][r].received = registry[h][r].received + 1
  /\ \/ registry'[h][r].delivered <= registry[h][r].delivered
     \/ \E j \in JobId :
          /\ RecordSuccess(j) /\ j.hub = h /\ j.receiver = r
          /\ registry'[h][r].delivered = registry[h][r].delivered + 1

LEMMA CountersGrowBy ==
  ASSUME IInv, [Next]_vars, NEW h \in Hubs, NEW r \in Receivers
  PROVE  CountersStep(h, r)
<1>0. /\ registry \in [Hubs -> [Receivers -> Entry]] /\ registry[h][r] \in Entry
      /\ registry[h][r].received \in Nat /\ registry[h][r].delivered \in Nat
      /\ Unregistered.received = 0 /\ Unregistered.delivered = 0
  BY DEF IInv, TypeOK, RegistryTypeOK, Entry, Unregistered
<1>1. ASSUME /\ registry'[h][r].received \in {0, registry[h][r].received}
             /\ registry'[h][r].delivered \in {0, registry[h][r].delivered}
      PROVE  CountersStep(h, r)
  BY <1>0, <1>1 DEF CountersStep
<1>2. CASE UNCHANGED registry
  BY <1>1, <1>2
<1>3. ASSUME NEW g \in Hubs, NEW q \in Receivers, NEW c \in Configs,
             RegisterReceiver(g, q, c) \/ UpdateReceiver(g, q, c)
      PROVE  CountersStep(h, r)
  <2>1. \/ registry'[h][r] = registry[h][r]
        \/ registry'[h][r] = [Unregistered EXCEPT !.conf = c]
        \/ registry'[h][r] = [registry[h][r] EXCEPT !.conf = c]
    BY <1>0, <1>3 DEF RegisterReceiver, UpdateReceiver, Register, Update
  <2> QED
    BY <1>0, <1>1, <2>1 DEF Entry, Unregistered
<1>4. ASSUME NEW g \in Hubs, NEW q \in Receivers, UnregisterReceiver(g, q)
      PROVE  CountersStep(h, r)
  <2>1. registry'[h][r] = registry[h][r] \/ registry'[h][r] = Unregistered
    BY <1>0, <1>4 DEF UnregisterReceiver, Unregister
  <2> QED
    BY <1>0, <1>1, <2>1
<1>5. ASSUME NEW s \in Submissions, NEW q \in Receivers, CountReceived(s, q)
      PROVE  CountersStep(h, r)
  <2>1. \/ registry'[h][r] = registry[h][r]
        \/ /\ h = Origin(s) /\ r = q
           /\ registry'[h][r] = [registry[h][r] EXCEPT !.received = @ + 1]
    BY <1>0, <1>5 DEF CountReceived, IncrementReceived
  <2> QED
    BY <1>0, <1>1, <1>5, <2>1 DEF Entry, CountersStep
<1>6. ASSUME NEW j \in JobId, Deliver(j)
      PROVE  CountersStep(h, r)
  <2>1. CASE RecordSuccess(j)
    <3>1. \/ registry'[h][r] = registry[h][r]
          \/ /\ h = j.hub /\ r = j.receiver
             /\ registry'[h][r] = [registry[h][r] EXCEPT !.delivered = @ + 1]
      BY <1>0, <2>1 DEF RecordSuccess, IncrementDelivered
    <3> QED
      BY <1>0, <1>1, <2>1, <3>1 DEF Entry, CountersStep
  <2>2. CASE RecordFailure(j)
    <3>1. \/ registry'[h][r] = registry[h][r]
          \/ registry'[h][r] = [registry[h][r] EXCEPT !.failed = @ + 1]
      BY <1>0, <2>2 DEF RecordFailure, IncrementFailed
    <3> QED
      BY <1>0, <1>1, <3>1 DEF Entry
  <2>3. CASE UNCHANGED registry
    BY <1>1, <2>3
  <2> QED
    BY <1>6, <2>1, <2>2, <2>3
       DEF Deliver, JobStep, Accepted, NotConfirmed, NotSent, RetryAfterBackoff
<1>7. ASSUME NEW g \in Hubs, Crash(g)
      PROVE  CountersStep(h, r)
  <2>1. registry'[h][r] = registry[h][r] \/ registry'[h][r] = Unregistered
    BY <1>0, <1>7 DEF Crash, Forget
  <2> QED
    BY <1>0, <1>1, <2>1
<1> QED
  BY <1>2, <1>3, <1>4, <1>5, <1>6, <1>7, RegistryChangesBy DEF Administration

CountersOK(h, r) ==
  /\ IsFiniteSet(Counted(h, r)) /\ IsFiniteSet(DeliveredTo(h, r))
  /\ registry[h][r].received <= Cardinality(Counted(h, r))
  /\ registry[h][r].delivered <= Cardinality(DeliveredTo(h, r))

LEMMA StepKeepsBacking ==
  ASSUME IInv, CountersInv, [Next]_vars, NEW h \in Hubs, NEW r \in Receivers
  PROVE  CountersOK(h, r)'
<1> DEFINE C == Counted(h, r)        D == DeliveredTo(h, r)
           c == registry[h][r].received
           d == registry[h][r].delivered
<1>0. /\ IsFiniteSet(C) /\ IsFiniteSet(D) /\ Cardinality(C) \in Nat /\ Cardinality(D) \in Nat
      /\ c <= Cardinality(C) /\ d <= Cardinality(D)
  BY FS_CardinalityType DEF CountersInv, CountersBacked, Counted, DeliveredTo
<1>1. c \in Nat /\ d \in Nat /\ c' \in Nat /\ d' \in Nat
  BY StepKeepsType DEF IInv, TypeOK, RegistryTypeOK, Entry
<1>2. IsFiniteSet(C') /\ c' <= Cardinality(C')
  <2>1. /\ IsFiniteSet(C') /\ Cardinality(C') \in Nat /\ Cardinality(C') >= Cardinality(C)
        /\ (\E s \in Submissions : Origin(s) = h /\ CountReceived(s, r))
             => Cardinality(C') = Cardinality(C) + 1
    <3>1. CASE C' = C
      <4>1. ~ \E s \in Submissions : Origin(s) = h /\ CountReceived(s, r)
        <5> SUFFICES ASSUME NEW s \in Submissions, Origin(s) = h, CountReceived(s, r)
                     PROVE  FALSE
          OBVIOUS
        <5>1. ingest \in [Submissions -> Handler] /\ ingest[s].todo \subseteq ingest[s].targets
          BY DEF IInv, TypeOK, CountersInv
        <5>2. s \notin C /\ s \in C'
          BY <5>1 DEF CountReceived, Counted, Origin, Handler
        <5> QED
          BY <3>1, <5>2
      <4> QED
        BY <1>0, <3>1, <4>1
    <3>2. ASSUME NEW s \in Submissions, s \notin C, C' = C \cup {s}
          PROVE  IsFiniteSet(C') /\ Cardinality(C') = Cardinality(C) + 1
      BY <1>0, <3>2, FS_AddElement
    <3> HIDE DEF C
    <3>3. C' = C \/ \E s \in Submissions : s \notin C /\ C' = C \cup {s}
      BY CountedGrows DEF C, CountedStep
    <3> QED
      BY <1>0, <3>1, <3>2, <3>3
  <2>2. c' <= c \/ (c' = c + 1 /\ \E s \in Submissions : Origin(s) = h /\ CountReceived(s, r))
    BY CountersGrowBy DEF CountersStep
  <2> HIDE DEF C, c
  <2> QED
    BY <1>0, <1>1, <2>1, <2>2
<1>3. IsFiniteSet(D') /\ d' <= Cardinality(D')
  <2>1. /\ IsFiniteSet(D') /\ Cardinality(D') \in Nat /\ Cardinality(D') >= Cardinality(D)
        /\ (\E j \in JobId : RecordSuccess(j) /\ j.hub = h /\ j.receiver = r)
             => Cardinality(D') = Cardinality(D) + 1
    <3>1. CASE D' = D
      <4>1. ~ \E j \in JobId : RecordSuccess(j) /\ j.hub = h /\ j.receiver = r
        <5> SUFFICES ASSUME NEW j \in JobId, RecordSuccess(j), j.hub = h, j.receiver = r
                     PROVE  FALSE
          OBVIOUS
        <5>1. jobs \in [JobId -> Job]
          BY DEF IInv, TypeOK, JobsTypeOK
        <5>2. j \notin D /\ j \in D'
          BY <5>1 DEF RecordSuccess, DeliveredTo, Job
        <5> QED
          BY <3>1, <5>2
      <4> QED
        BY <1>0, <3>1, <4>1
    <3>2. ASSUME NEW j \in JobId, j \notin D, D' = D \cup {j}
          PROVE  IsFiniteSet(D') /\ Cardinality(D') = Cardinality(D) + 1
      BY <1>0, <3>2, FS_AddElement
    <3> HIDE DEF D
    <3>3. D' = D \/ \E j \in JobId : j \notin D /\ D' = D \cup {j}
      BY DeliveredGrows DEF D, DeliveredStep
    <3> QED
      BY <1>0, <3>1, <3>2, <3>3
  <2>2. d' <= d \/ (d' = d + 1 /\ \E j \in JobId : RecordSuccess(j) /\ j.hub = h /\ j.receiver = r)
    BY CountersGrowBy DEF CountersStep
  <2> HIDE DEF D, d
  <2> QED
    BY <1>0, <1>1, <2>1, <2>2
<1> QED
  BY <1>2, <1>3 DEF CountersOK

\* No counter of the registry exceeds the requests and deliveries it stands for.
THEOREM Backed == Spec => []CountersBacked
<1>1. Init => CountersInv
  <2> SUFFICES ASSUME Init PROVE CountersInv
    OBVIOUS
  <2>1. ASSUME NEW h \in Hubs, NEW r \in Receivers
        PROVE  /\ Counted(h, r) = {} /\ DeliveredTo(h, r) = {}
               /\ registry[h][r].received = 0 /\ registry[h][r].delivered = 0
    BY DEF Init, Counted, DeliveredTo, JobsInit, NoJob, RegistryInit, Unregistered
  <2>2. \A s \in Submissions : ingest[s].todo \subseteq ingest[s].targets
    BY DEF Init
  <2>3. ASSUME NEW h \in Hubs, NEW r \in Receivers
        PROVE  CountersOK(h, r)
    <3>1. IsFiniteSet({}) /\ Cardinality({}) = 0
      BY FS_EmptySet
    <3>2. IsFiniteSet(Counted(h, r)) /\ IsFiniteSet(DeliveredTo(h, r))
      BY <2>1, <3>1
    <3>3. Cardinality(Counted(h, r)) = 0 /\ Cardinality(DeliveredTo(h, r)) = 0
      BY <2>1, <3>1
    <3>4. registry[h][r].received = 0 /\ registry[h][r].delivered = 0
      BY <2>1
    <3> QED
      BY <3>2, <3>3, <3>4 DEF CountersOK
  <2> QED
    BY <2>2, <2>3 DEF CountersOK, CountersInv, CountersBacked, Counted, DeliveredTo
<1>2. IInv /\ CountersInv /\ [Next]_vars => CountersInv'
  <2> SUFFICES ASSUME IInv, CountersInv, [Next]_vars PROVE CountersInv'
    OBVIOUS
  <2>1. \A h \in Hubs, r \in Receivers : CountersOK(h, r)'
    BY StepKeepsBacking
  <2>2. \A s \in Submissions : ingest'[s].todo \subseteq ingest'[s].targets
    BY CountedGrows DEF CountedStep
  <2> QED
    BY <2>1, <2>2 DEF CountersOK, CountersInv, CountersBacked, Counted, DeliveredTo
<1>3. CountersInv => CountersBacked
  BY DEF CountersInv
<1> QED
  BY <1>1, <1>2, <1>3, Invariance, PTL DEF Spec

-----------------------------------------------------------------------------
(* HubEvents implements Fanout. *)

LEMMA AnnouncedKept ==
  ASSUME IInv, [Next]_vars, published' = published
  PROVE  announced' = announced
<1>1. ASSUME NEW s \in Submissions
      PROVE  (IF s \in published THEN ingest[s].targets ELSE {})'
               = IF s \in published THEN ingest[s].targets ELSE {}
  BY PublishedIsStable
<1> QED
  BY <1>1 DEF announced

\* A job that changes from one record to another is one step of its notice.
LEMMA NoticeSteps ==
  ASSUME IInv, [Next]_vars, announced' = announced, NEW j \in JobId, NEW e \in Job,
         jobs' = [jobs EXCEPT ![j] = e],
         \/ /\ e.hits = jobs[j].hits
            /\ \/ Outcome(e.st) = Outcome(jobs[j].st)
               \/ /\ Outcome(jobs[j].st) = "none" /\ Outcome(e.st) = "open"
                  /\ j.receiver \in announced[j.msg]
               \/ /\ Outcome(jobs[j].st) = "open" /\ Outcome(e.st) = "delivered"
                  /\ jobs[j].hits > 0
               \/ Outcome(jobs[j].st) = "open" /\ Outcome(e.st) = "abandoned"
         \/ /\ Outcome(jobs[j].st) = "open" /\ Outcome(e.st) = "open"
            /\ e.hits = jobs[j].hits + 1
            /\ jobs[j].hits < MaxRetries + 1
  PROVE  [Promise!Next]_Promise!vars
<1>0. jobs \in [JobId -> Job]
  BY DEF IInv, TypeOK, JobsTypeOK
<1>1. /\ outcomes' = [outcomes EXCEPT ![j] = Outcome(e.st)]
      /\ reached' = [reached EXCEPT ![j] = e.hits]
      /\ outcomes[j] = Outcome(jobs[j].st)
      /\ reached[j] = jobs[j].hits
      /\ outcomes \in [JobId -> {Outcome(jobs[i].st) : i \in JobId}]
      /\ reached \in [JobId -> Nat]
  BY <1>0 DEF outcomes, reached, Job
<1>2. e.hits = jobs[j].hits => reached' = reached
  BY <1>1
<1>3. Outcome(e.st) = Outcome(jobs[j].st) => outcomes' = outcomes
  BY <1>1
<1>4. CASE e.hits = jobs[j].hits /\ Outcome(e.st) = Outcome(jobs[j].st)
  BY <1>2, <1>3, <1>4 DEF Promise!vars
<1>5. CASE /\ e.hits = jobs[j].hits
           /\ Outcome(jobs[j].st) = "none" /\ Outcome(e.st) = "open"
           /\ j.receiver \in announced[j.msg]
  <2>1. Promise!Open(j)
    BY <1>1, <1>2, <1>5 DEF Promise!Open
  <2> QED
    BY <2>1 DEF Promise!Next
<1>6. CASE /\ e.hits = jobs[j].hits
           /\ Outcome(jobs[j].st) = "open" /\ Outcome(e.st) = "delivered"
           /\ jobs[j].hits > 0
  <2>1. Promise!Deliver(j)
    BY <1>1, <1>2, <1>6 DEF Promise!Deliver
  <2> QED
    BY <2>1 DEF Promise!Next
<1>7. CASE /\ e.hits = jobs[j].hits
           /\ Outcome(jobs[j].st) = "open" /\ Outcome(e.st) = "abandoned"
  <2>1. Promise!Abandon(j)
    BY <1>1, <1>2, <1>7 DEF Promise!Abandon
  <2> QED
    BY <2>1 DEF Promise!Next
<1>8. CASE /\ Outcome(jobs[j].st) = "open" /\ Outcome(e.st) = "open"
           /\ e.hits = jobs[j].hits + 1
           /\ jobs[j].hits < MaxRetries + 1
  <2>1. Promise!Reach(j)
    BY <1>1, <1>3, <1>8 DEF Promise!Reach
  <2> QED
    BY <2>1 DEF Promise!Next
<1> QED
  BY <1>4, <1>5, <1>6, <1>7, <1>8

LEMMA StepImplements == IInv /\ [Next]_vars => [Promise!Next]_Promise!vars
<1> SUFFICES ASSUME IInv, [Next]_vars PROVE [Promise!Next]_Promise!vars
  OBVIOUS
<1>0. /\ jobs \in [JobId -> Job] /\ MaxRetries \in Nat
      /\ ingest \in [Submissions -> Handler]
  BY LimitsAssumption DEF IInv, TypeOK, JobsTypeOK
<1>1. CASE UNCHANGED <<jobs, published>>
  <2>1. announced' = announced
    BY <1>1, AnnouncedKept
  <2>2. outcomes' = outcomes /\ reached' = reached
    BY <1>1 DEF outcomes, reached
  <2> QED
    BY <2>1, <2>2 DEF Promise!vars
<1>2. ASSUME NEW s \in Submissions, Publish(s)
      PROVE  Promise!Announce(s)
  <2>1. s \notin published /\ ingest[s].targets \in SUBSET Receivers
    BY <1>0, <1>2 DEF Publish, IInv, RequestOK, Handler
  <2>2. announced' = [announced EXCEPT ![s] = ingest[s].targets]
    <3>1. \A t \in Submissions : ingest'[t].targets = ingest[t].targets
      BY <1>0, <1>2 DEF Publish
    <3>2. published' = published \cup {s}
      BY <1>2 DEF Publish
    <3> QED
      BY <3>1, <3>2 DEF announced
  <2>3. announced[s] = {}
    BY <2>1 DEF announced
  <2>4. outcomes' = outcomes /\ reached' = reached
    BY <1>2 DEF Publish, outcomes, reached
  <2> QED
    BY <2>1, <2>2, <2>3, <2>4 DEF Promise!Announce
<1>3. ASSUME NEW h \in Hubs, NEW s \in Submissions, NEW r \in Receivers, Dispatch(h, s, r)
      PROVE  [Promise!Next]_Promise!vars
  <2>1. CASE Wanted(h, s, r)
    <3> DEFINE j == [hub |-> h, msg |-> s, receiver |-> r, slot |-> inbox[h][s].n]
               e == NewJob(h, r)
    <3>1. /\ s \in published /\ r \in ingest[s].targets
          /\ inbox[h][s].n \in 1..MaxDeliveries
      BY <1>3 DEF Dispatch, IInv, MessageOK
    <3>2. j \in JobId /\ j.receiver = r /\ j.msg = s
      BY <3>1 DEF JobId, Slots
    <3>3. jobs[j].st = "none" /\ jobs[j].hits = 0
      <4>1. jobs[j].st = "none"
        BY <1>3, <3>1, LimitsAssumption DEF Dispatch, IInv, OneJobPerHandling, Slots
      <4> QED
        BY <3>2, <4>1 DEF IInv, JobOK
    <3>4. e \in Job /\ e.st = "posting" /\ e.hits = 0
      <4>1. registry[h][r].conf \in Configs
        BY <2>1, NewJobOK DEF IInv
      <4> QED
        BY <4>1 DEF NewJob, Job, Active
    <3>5. jobs' = [jobs EXCEPT ![j] = e]
      BY <1>3, <2>1 DEF Dispatch, Distribute
    <3>6. announced' = announced
      BY <1>3, AnnouncedKept DEF Dispatch
    <3>7. r \in announced[s]
      BY <3>1 DEF announced
    <3>8. Outcome(jobs[j].st) = "none" /\ Outcome(e.st) = "open"
      BY <3>3, <3>4 DEF Outcome, Active
    <3> HIDE DEF j, e
    <3> QED
      BY <3>2, <3>3, <3>4, <3>5, <3>6, <3>7, <3>8, NoticeSteps
  <2>2. CASE ~ Wanted(h, s, r)
    BY <1>1, <1>3, <2>2 DEF Dispatch, Distribute
  <2> QED
    BY <2>1, <2>2
<1>4. ASSUME NEW j \in JobId, Deliver(j)
      PROVE  [Promise!Next]_Promise!vars
  <2>0. /\ announced' = announced /\ jobs[j] \in Job /\ JobOK(j)
        /\ jobs[j].hits \in Nat /\ jobs[j].attempt \in Nat
    BY <1>0, <1>4, AnnouncedKept DEF Deliver, IInv, Job
  <2>1. /\ Outcome("posting") = "open" /\ Outcome("ok") = "open"
        /\ Outcome("err") = "open" /\ Outcome("waiting") = "open"
        /\ Outcome("delivered") = "delivered" /\ Outcome("abandoned") = "abandoned"
    BY DEF Outcome, Active
  <2>2. CASE Accepted(j)
    <3> DEFINE e == [jobs[j] EXCEPT !.st = "ok", !.hits = @ + 1]
    <3>1. /\ e \in Job /\ e.st = "ok" /\ e.hits = jobs[j].hits + 1
          /\ jobs' = [jobs EXCEPT ![j] = e] /\ jobs[j].st = "posting"
      BY <1>0, <2>0, <2>2 DEF Accepted, Job, Active
    <3>2. jobs[j].hits < MaxRetries + 1
      BY <1>0, <2>0, <3>1 DEF JobOK
    <3> HIDE DEF e
    <3> QED
      BY <2>0, <2>1, <3>1, <3>2, NoticeSteps
  <2>3. CASE NotConfirmed(j)
    <3> DEFINE e == [jobs[j] EXCEPT !.st = "err", !.hits = @ + 1]
    <3>1. /\ e \in Job /\ e.st = "err" /\ e.hits = jobs[j].hits + 1
          /\ jobs' = [jobs EXCEPT ![j] = e] /\ jobs[j].st = "posting"
      BY <1>0, <2>0, <2>3 DEF NotConfirmed, Job, Active
    <3>2. jobs[j].hits < MaxRetries + 1
      BY <1>0, <2>0, <3>1 DEF JobOK
    <3> HIDE DEF e
    <3> QED
      BY <2>0, <2>1, <3>1, <3>2, NoticeSteps
  <2>4. CASE NotSent(j)
    <3> DEFINE e == [jobs[j] EXCEPT !.st = "err"]
    <3>1. /\ e \in Job /\ e.st = "err" /\ e.hits = jobs[j].hits
          /\ jobs' = [jobs EXCEPT ![j] = e] /\ jobs[j].st = "posting"
      BY <1>0, <2>0, <2>4 DEF NotSent, Job, Active
    <3> HIDE DEF e
    <3> QED
      BY <2>0, <2>1, <3>1, NoticeSteps
  <2>5. CASE RecordSuccess(j)
    <3> DEFINE e == [jobs[j] EXCEPT !.st = "delivered"]
    <3>1. /\ e \in Job /\ e.st = "delivered" /\ e.hits = jobs[j].hits
          /\ jobs' = [jobs EXCEPT ![j] = e] /\ jobs[j].st = "ok"
      BY <1>0, <2>0, <2>5 DEF RecordSuccess, Job, Settled
    <3>2. jobs[j].hits > 0
      BY <2>0, <3>1 DEF JobOK
    <3> HIDE DEF e
    <3> QED
      BY <2>0, <2>1, <3>1, <3>2, NoticeSteps
  <2>6. CASE RecordFailure(j)
    <3> DEFINE st == IF jobs[j].attempt <= MaxRetries THEN "waiting" ELSE "abandoned"
               e == [jobs[j] EXCEPT !.st = st]
    <3>1. /\ e \in Job /\ e.st \in {"waiting", "abandoned"} /\ e.hits = jobs[j].hits
          /\ jobs' = [jobs EXCEPT ![j] = e] /\ jobs[j].st = "err"
      BY <1>0, <2>0, <2>6 DEF RecordFailure, Job, Active, Settled
    <3> HIDE DEF e
    <3> QED
      BY <2>0, <2>1, <3>1, NoticeSteps
  <2>7. CASE RetryAfterBackoff(j)
    <3> DEFINE e == [jobs[j] EXCEPT !.st = "posting", !.attempt = @ + 1]
    <3>1. /\ e \in Job /\ e.st = "posting" /\ e.hits = jobs[j].hits
          /\ jobs' = [jobs EXCEPT ![j] = e] /\ jobs[j].st = "waiting"
      BY <1>0, <2>0, <2>7 DEF RetryAfterBackoff, Job, Active
    <3> HIDE DEF e
    <3> QED
      BY <2>0, <2>1, <3>1, NoticeSteps
  <2> QED
    BY <1>4, <2>2, <2>3, <2>4, <2>5, <2>6, <2>7 DEF Deliver, JobStep
<1>5. ASSUME NEW h \in Hubs, Crash(h)
      PROVE  [Promise!Next]_Promise!vars
  <2> DEFINE K == {j \in JobId : j.hub = h /\ jobs[j].st \in Active}
  <2>1. announced' = announced
    BY <1>5, AnnouncedKept DEF Crash
  <2>2. \A j \in K : outcomes[j] = "open"
    BY DEF outcomes, Outcome, Active
  <2>3. \A j \in JobId :
          /\ jobs'[j].hits = jobs[j].hits
          /\ jobs'[j].st = IF j \in K THEN "lost" ELSE jobs[j].st
    BY <1>0, <1>5 DEF Crash, LoseJobs, Job
  <2>4. outcomes' = [j \in JobId |-> IF j \in K THEN "lost" ELSE outcomes[j]]
    <3>1. Outcome("lost") = "lost"
      BY DEF Outcome, Active
    <3> HIDE DEF K
    <3> QED
      BY <2>3, <3>1 DEF outcomes
  <2>5. reached' = reached
    BY <2>3 DEF reached
  <2>6. Promise!Lose(K)
    BY <2>1, <2>2, <2>4, <2>5 DEF Promise!Lose
  <2>7. K \in SUBSET JobId
    OBVIOUS
  <2> QED
    BY <2>6, <2>7 DEF Promise!Next
<1> QED
  BY <1>1, <1>2, <1>3, <1>4, <1>5
     DEF Next, Administration, Lifecycle, vars, RegisterReceiver, UnregisterReceiver,
         UpdateReceiver, Expire, IngestStep, Arrive, Filter, CountReceived, PublishFails,
         Reply, ConfirmationLost, ConsumeStep, Skip, Receive, Ack, Redeliver, Start, Stop,
         Promise!Next

\* The hubs keep the promise of Fanout: HubEvents implements it under the
\* mapping of the topic to announced audiences and of jobs to notices.
THEOREM Implements == Spec => KeepsPromise
<1>1. Init => Promise!Init
  BY DEF Init, JobsInit, NoJob, Promise!Init, announced, outcomes, reached, Outcome, Active
<1>2. Spec => Promise!Init /\ [][Promise!Next]_Promise!vars
  BY <1>1, StepImplements, Invariance, PTL DEF Spec
<1> QED
  BY <1>2, PTL DEF KeepsPromise, Promise!Spec
=============================================================================
