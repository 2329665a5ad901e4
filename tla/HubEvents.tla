------------------------------ MODULE HubEvents ------------------------------
(***************************************************************************)
(* The way of a security event through a fleet of SSF hubs: a transmitter  *)
(* posts it to one hub, which decides the audience and publishes it on the *)
(* unified Pub/Sub topic; every hub whose hub receiver runs gets the       *)
(* message on a subscription of its own and posts the event to the         *)
(* webhooks of its receivers.                                              *)
(*                                                                         *)
(*   ssf-hub/internal/controller/broker.go      ingest, start and stop     *)
(*   ssf-hub/internal/hubreceiver/hubreceiver.go  consuming the topic      *)
(*   ssf-hub/internal/pubsub/client.go          publish, pull, subscribe   *)
(*                                                                         *)
(* The topic and its subscriptions are Google Cloud Pub/Sub: at least once,*)
(* in any order, kept until acknowledged.                                  *)
(***************************************************************************)
EXTENDS Distributor, FiniteSets

CONSTANTS
  NoHub,          \* the hub of a request that was never sent
  BrokerStarted,  \* hubs whose process calls Broker.Start
  Malformed,      \* submissions that fail validation or parsing
  Expiring        \* submissions whose message may outlive its TTL

ASSUME HubsAssumption == NoHub \notin Hubs /\ BrokerStarted \subseteq Hubs

ASSUME SubmissionsAssumption ==
  Malformed \subseteq Submissions /\ Expiring \subseteq Submissions

VARIABLES
  phase,       \* phase[h]: the life of hub process h
  subscribed,  \* hubs whose subscription to the topic exists
  ingest,      \* ingest[s]: the request handler of submission s
  published,   \* submissions whose message is on the topic
  aged,        \* messages whose TTL (24 hours) has passed
  inbox        \* inbox[h][s]: the message of s on h's subscription

vars == <<registry, jobs, phase, subscribed, ingest, published, aged, inbox>>

Phase == {"up", "consuming", "stopped", "dead"}

Answered == {"accepted", "failed", "cut"}

Handler == [pc: {"unsent", "parsed", "counting", "replying"} \cup Answered,
            hub: Hubs \cup {NoHub},
            targets: SUBSET Receivers,  \* TargetReceivers, once decided
            todo: SUBSET Receivers]     \* targets still to be counted

Message == [st: {"none", "outstanding", "handling", "acked", "dropped"},
            n: 0..MaxDeliveries,        \* deliveries so far
            todo: SUBSET Receivers]     \* targets the handler has left

TypeOK ==
  /\ RegistryTypeOK
  /\ JobsTypeOK
  /\ phase \in [Hubs -> Phase]
  /\ subscribed \subseteq Hubs
  /\ ingest \in [Submissions -> Handler]
  /\ published \subseteq Submissions
  /\ aged \subseteq Submissions
  /\ inbox \in [Hubs -> [Submissions -> Message]]

Init ==
  /\ RegistryInit
  /\ JobsInit
  /\ phase = [h \in Hubs |-> "up"]
  /\ subscribed = {}
  /\ ingest = [s \in Submissions |->
                 [pc |-> "unsent", hub |-> NoHub, targets |-> {}, todo |-> {}]]
  /\ published = {}
  /\ aged = {}
  /\ inbox = [h \in Hubs |->
              [s \in Submissions |-> [st |-> "none", n |-> 0, todo |-> {}]]]

Origin(s) == ingest[s].hub

\* The HTTP server serves after Broker.Start, where that is called, and is shut
\* down before Broker.Stop.
Serving(h) == phase[h] = IF h \in BrokerStarted THEN "consuming" ELSE "up"

-----------------------------------------------------------------------------
\* Administration: POST, DELETE and PUT on /receivers.

RegisterReceiver(h, r, c) ==
  /\ Serving(h)
  /\ Register(h, r, c)
  /\ UNCHANGED <<jobs, phase, subscribed, ingest, published, aged, inbox>>

UnregisterReceiver(h, r) ==
  /\ Serving(h)
  /\ Unregister(h, r)
  /\ UNCHANGED <<jobs, phase, subscribed, ingest, published, aged, inbox>>

UpdateReceiver(h, r, c) ==
  /\ Serving(h)
  /\ Update(h, r, c)
  /\ UNCHANGED <<jobs, phase, subscribed, ingest, published, aged, inbox>>

Administration ==
  \E h \in Hubs, r \in Receivers :
    \/ UnregisterReceiver(h, r)
    \/ \E c \in Configs : RegisterReceiver(h, r, c) \/ UpdateReceiver(h, r, c)

-----------------------------------------------------------------------------
\* ProcessSecurityEvent, the handler of POST /events.

\* Parsing and converting the token touches no shared state.
Arrive(h, s) ==
  /\ Serving(h)
  /\ ingest[s].pc = "unsent"
  /\ ingest' = [ingest EXCEPT ![s].hub = h, ![s].pc =
                  IF s \in Malformed THEN "failed" ELSE "parsed"]
  /\ UNCHANGED <<registry, jobs, phase, subscribed, published, aged, inbox>>

\* The audience is decided on a snapshot of the registry.  Nobody interested:
\* the request succeeds and nothing is published.
Filter(s) ==
  /\ ingest[s].pc = "parsed"
  /\ LET targets == FilterReceivers(Origin(s), s)
     IN  ingest' = [ingest EXCEPT
           ![s].pc = IF targets = {} THEN "accepted" ELSE "counting",
           ![s].targets = targets, ![s].todo = targets]
  /\ UNCHANGED <<registry, jobs, phase, subscribed, published, aged, inbox>>

\* (mutant) the loop waits for a receiver that is gone
CountReceivedIfThere(s, r) ==
  /\ ingest[s].pc = "counting"
  /\ r \in ingest[s].todo
  /\ Registered(Origin(s), r)
  /\ IncrementReceived(Origin(s), r)
  /\ ingest' = [ingest EXCEPT ![s].todo = @ \ {r}]
  /\ UNCHANGED <<jobs, phase, subscribed, published, aged, inbox>>

CountReceived(s, r) ==
  /\ ingest[s].pc = "counting"
  /\ r \in ingest[s].todo
  /\ IncrementReceived(Origin(s), r)
  /\ ingest' = [ingest EXCEPT ![s].todo = @ \ {r}]
  /\ UNCHANGED <<jobs, phase, subscribed, published, aged, inbox>>

\* A hub's subscription takes a message if it exists when it is published.
Delivered(s) ==
  [h \in Hubs |-> IF h \in subscribed
                  THEN [inbox[h] EXCEPT ![s].st = "outstanding"] ELSE inbox[h]]

Publish(s) ==
  /\ ingest[s].pc = "counting"
  /\ ingest[s].todo = {}
  /\ published' = published \cup {s}
  /\ inbox' = Delivered(s)
  /\ ingest' = [ingest EXCEPT ![s].pc = "replying"]
  /\ UNCHANGED <<registry, jobs, phase, subscribed, aged>>

\* (mutant) the error of PublishEvent is only logged
PublishFailsSilently(s) ==
  /\ ingest[s].pc = "counting"
  /\ ingest[s].todo = {}
  /\ ingest' = [ingest EXCEPT ![s].pc = "accepted"]
  /\ UNCHANGED <<registry, jobs, phase, subscribed, published, aged, inbox>>

PublishFails(s) ==
  /\ ingest[s].pc = "counting"
  /\ ingest[s].todo = {}
  /\ ingest' = [ingest EXCEPT ![s].pc = "failed"]
  /\ UNCHANGED <<registry, jobs, phase, subscribed, published, aged, inbox>>

Reply(s) ==
  /\ ingest[s].pc = "replying"
  /\ ingest' = [ingest EXCEPT ![s].pc = "accepted"]
  /\ UNCHANGED <<registry, jobs, phase, subscribed, published, aged, inbox>>

\* The message is on the topic, but the server's confirmation does not come
\* before the request's context ends: the transmitter is told it failed.
ConfirmationLost(s) ==
  /\ ingest[s].pc = "replying"
  /\ ingest' = [ingest EXCEPT ![s].pc = "failed"]
  /\ UNCHANGED <<registry, jobs, phase, subscribed, published, aged, inbox>>

IngestStep(s) ==
  \/ Filter(s)
  \/ \E r \in Receivers : CountReceived(s, r)
  \/ Publish(s) \/ PublishFails(s)
  \/ Reply(s) \/ ConfirmationLost(s)

-----------------------------------------------------------------------------
\* processInternalMessage, for each message the hub receiver is given.

\* The pull under way when Stop is called goes on for up to 30 seconds.
Pulling(h) == phase[h] \in {"consuming", "stopped"}

\* (mutant) only expired messages are skipped
SkipsExpired(h, s) == s \in aged

\* The hub's own messages and expired ones are acknowledged unprocessed.
Skips(h, s) == Origin(s) = h \/ s \in aged

Skip(h, s) ==
  /\ Pulling(h)
  /\ inbox[h][s].st = "outstanding"
  /\ Skips(h, s)
  /\ inbox' = [inbox EXCEPT ![h][s].st = "acked"]
  /\ UNCHANGED <<registry, jobs, phase, subscribed, ingest, published, aged>>

Receive(h, s) ==
  /\ Pulling(h)
  /\ inbox[h][s].st = "outstanding"
  /\ inbox[h][s].n < MaxDeliveries
  /\ ~ Skips(h, s)
  /\ inbox' = [inbox EXCEPT ![h][s] =
                 [st |-> "handling", n |-> @.n + 1, todo |-> ingest[s].targets]]
  /\ UNCHANGED <<registry, jobs, phase, subscribed, ingest, published, aged>>

\* (mutant) the handler does not get on to its next target
DispatchAgain(h, s, r) ==
  /\ inbox[h][s].st = "handling"
  /\ r \in inbox[h][s].todo
  /\ Distribute(h, s, r, inbox[h][s].n)
  /\ UNCHANGED <<registry, phase, subscribed, ingest, published, aged, inbox>>

\* The handler takes the targets in the order of the message, which is that of
\* an iteration over a map: any order.
Dispatch(h, s, r) ==
  /\ inbox[h][s].st = "handling"
  /\ r \in inbox[h][s].todo
  /\ Distribute(h, s, r, inbox[h][s].n)
  /\ inbox' = [inbox EXCEPT ![h][s].todo = @ \ {r}]
  /\ UNCHANGED <<registry, phase, subscribed, ingest, published, aged>>

\* (mutant) the message is acknowledged with targets left
AckEarly(h, s) ==
  /\ inbox[h][s].st = "handling"
  /\ inbox' = [inbox EXCEPT ![h][s].st = "acked"]
  /\ UNCHANGED <<registry, jobs, phase, subscribed, ingest, published, aged>>

\* The message is acknowledged when its goroutines are started, not when they
\* are done.
Ack(h, s) ==
  /\ inbox[h][s].st = "handling"
  /\ inbox[h][s].todo = {}
  /\ inbox' = [inbox EXCEPT ![h][s].st = "acked"]
  /\ UNCHANGED <<registry, jobs, phase, subscribed, ingest, published, aged>>

ConsumeStep(h, s) ==
  \/ Skip(h, s) \/ Receive(h, s) \/ Ack(h, s)
  \/ \E r \in Receivers : Dispatch(h, s, r)

\* At least once: an acknowledged message may come again.
Redeliver(h, s) ==
  /\ h \in subscribed
  /\ inbox[h][s].st = "acked"
  /\ inbox[h][s].n \in 1..(MaxDeliveries - 1)
  /\ inbox' = [inbox EXCEPT ![h][s].st = "outstanding"]
  /\ UNCHANGED <<registry, jobs, phase, subscribed, ingest, published, aged>>

Expire(s) ==
  /\ s \in (published \cap Expiring) \ aged
  /\ aged' = aged \cup {s}
  /\ UNCHANGED <<registry, jobs, phase, subscribed, ingest, published, inbox>>

-----------------------------------------------------------------------------
\* The life of a hub process.

\* (mutant) the subscription is created before the instance id is known
StartUnnamed(h) ==
  /\ h \in BrokerStarted
  /\ phase[h] = "up"
  /\ phase' = [phase EXCEPT ![h] = "consuming"]
  /\ subscribed' = subscribed \cup {NoHub}
  /\ UNCHANGED <<registry, jobs, ingest, published, aged, inbox>>

\* Broker.Start: create the subscription, then start the consumption loop.
Start(h) ==
  /\ h \in BrokerStarted
  /\ phase[h] = "up"
  /\ phase' = [phase EXCEPT ![h] = "consuming"]
  /\ subscribed' = subscribed \cup {h}
  /\ UNCHANGED <<registry, jobs, ingest, published, aged, inbox>>

\* Of a deleted subscription, the messages already pulled are left.
Undelivered(h) == {s \in Submissions : inbox[h][s].st = "outstanding"}

Drop(h, gone) ==
  [inbox EXCEPT ![h] = [s \in Submissions |->
     IF s \in gone THEN [inbox[h][s] EXCEPT !.st = "dropped"] ELSE inbox[h][s]]]

\* Broker.Stop: end the loop and delete the subscription; if that fails there
\* is only a warning in the log.
Stop(h) ==
  /\ phase[h] = "consuming"
  /\ phase' = [phase EXCEPT ![h] = "stopped"]
  /\ \/ /\ subscribed' = subscribed \ {h}
        /\ \E gone \in SUBSET Undelivered(h) : inbox' = Drop(h, gone)
     \/ UNCHANGED <<subscribed, inbox>>
  /\ UNCHANGED <<registry, jobs, ingest, published, aged>>

\* The process ends, in an orderly way or not.  Its subscription, if it was not
\* deleted, and what is on it survive, but no later process reads it: a new
\* process has a new instance id, and with it another subscription.
Crash(h) ==
  /\ phase[h] # "dead"
  /\ phase' = [phase EXCEPT ![h] = "dead"]
  /\ Forget(h)
  /\ LoseJobs(h)
  /\ ingest' = [s \in Submissions |->
       IF Origin(s) = h /\ ingest[s].pc \notin Answered
       THEN [ingest[s] EXCEPT !.pc = "cut"] ELSE ingest[s]]
  /\ inbox' = [inbox EXCEPT ![h] = [s \in Submissions |->
       IF inbox[h][s].st = "handling"
       THEN [inbox[h][s] EXCEPT !.st = "outstanding"] ELSE inbox[h][s]]]
  /\ UNCHANGED <<subscribed, published, aged>>

Lifecycle == \E h \in Hubs : Start(h) \/ Stop(h) \/ Crash(h)

-----------------------------------------------------------------------------
Deliver(j) ==
  /\ JobStep(j)
  /\ UNCHANGED <<phase, subscribed, ingest, published, aged, inbox>>

Next ==
  \/ Administration
  \/ \E s \in Submissions :
       \/ Expire(s)
       \/ IngestStep(s)
       \/ \E h \in Hubs : Arrive(h, s) \/ ConsumeStep(h, s) \/ Redeliver(h, s)
  \/ \E j \in JobId : Deliver(j)
  \/ Lifecycle

Spec == Init /\ [][Next]_vars

\* A goroutine that can run does, and every request a hub makes is answered or
\* times out (HTTP client: 30 seconds).  A pull is repeated while the hub
\* receiver runs.  Nothing else is promised: requests, failures, redeliveries
\* and the ends of processes come or do not.
Fairness ==
  /\ \A s \in Submissions : WF_vars(IngestStep(s))
  /\ \A h \in Hubs, s \in Submissions :
       WF_vars(phase[h] = "consuming" /\ ConsumeStep(h, s))
  /\ \A j \in JobId : WF_vars(Deliver(j))

FairSpec == Spec /\ Fairness

-----------------------------------------------------------------------------
(* Safety. *)

\* A webhook is posted to for a published event only, on behalf of a hub other
\* than the one the event was sent to, to a receiver of the audience that hub
\* decided on, and under a configuration of the posting hub that wants the
\* event (FilterReceivers, processInternalMessage, shouldDeliverToReceiver).
OnlyWantedDeliveries ==
  \A j \in JobId : jobs[j].st # "none" =>
    /\ j.msg \in published
    /\ Origin(j.msg) # j.hub
    /\ j.receiver \in ingest[j.msg].targets
    /\ ShouldDeliver(jobs[j].conf, j.msg)

\* However often a message is delivered, skipped or handed back by a stopping
\* hub, each handling starts at most one goroutine per receiver: those with a
\* slot that is not used up, or for a target still ahead of the handler, do not
\* exist (DistributeToReceivers, PullInternalMessages).
OneJobPerHandling ==
  \A h \in Hubs, s \in Submissions, r \in Receivers, k \in Slots :
    jobs[[hub |-> h, msg |-> s, receiver |-> r, slot |-> k]].st # "none" =>
      /\ k <= inbox[h][s].n
      /\ inbox[h][s].st = "handling" /\ r \in inbox[h][s].todo =>
           k < inbox[h][s].n

\* performDeliveryWithRetries sends at most MaxRetries + 1 requests, calls a
\* delivery done only when one reached the receiver, gives up only after the
\* last, and sends nothing to a webhook it cannot authenticate to.
AttemptsTruthful ==
  \A j \in JobId : jobs[j].st # "none" =>
    /\ jobs[j].attempt \in 1..(MaxRetries + 1)
    /\ jobs[j].hits <= jobs[j].attempt
    /\ jobs[j].st \in {"ok", "delivered"} => jobs[j].hits > 0
    /\ jobs[j].st = "abandoned" => jobs[j].attempt = MaxRetries + 1
    /\ ~ CanAuthenticate(j) => jobs[j].hits = 0

\* What the registry counts has happened: the counters of a receiver never
\* exceed the requests counted for it and the deliveries this hub made to its
\* id, across unregistration, re-registration, updates and crashes.
CountersBacked ==
  \A h \in Hubs, r \in Receivers :
    /\ registry[h][r].received <=
         Cardinality({s \in Submissions :
           Origin(s) = h /\ r \in ingest[s].targets \ ingest[s].todo})
    /\ registry[h][r].delivered <=
         Cardinality({j \in JobId :
           j.hub = h /\ j.receiver = r /\ jobs[j].st = "delivered"})

\* The answer to a transmitter and the topic agree as far as the code lets
\* them: an accepted event with an audience is on the topic, and what is on the
\* topic or on a subscription has an audience, all of which was counted
\* (ProcessSecurityEvent, PublishEvent).
AcceptedIsPublished ==
  /\ \A s \in Submissions :
       /\ ingest[s].pc = "accepted" /\ ingest[s].targets # {} => s \in published
       /\ s \in published => /\ ingest[s].targets # {}
                             /\ ingest[s].todo = {}
                             /\ s \notin Malformed
  /\ \A h \in Hubs, s \in Submissions : inbox[h][s].st # "none" => s \in published

\* While a receiver stays registered its counters never fall, whatever updates
\* and increments interleave (Update: "Preserve creation time and statistics").
CountersKept ==
  [][\A h \in Hubs, r \in Receivers :
       Registered(h, r) /\ Registered(h, r)' =>
         /\ registry'[h][r].received >= registry[h][r].received
         /\ registry'[h][r].delivered >= registry[h][r].delivered
         /\ registry'[h][r].failed >= registry[h][r].failed]_vars

-----------------------------------------------------------------------------
(* The abstract specification this one implements. *)

Outcome(st) ==
  CASE st = "none" -> "none"
    [] st \in Active -> "open"
    [] OTHER -> st

announced == [s \in Submissions |->
                IF s \in published THEN ingest[s].targets ELSE {}]
outcomes  == [j \in JobId |-> Outcome(jobs[j].st)]
reached   == [j \in JobId |-> jobs[j].hits]

Promise == INSTANCE Fanout WITH
  Notices    <- JobId,
  MessageOf  <- [j \in JobId |-> j.msg],
  ReceiverOf <- [j \in JobId |-> j.receiver],
  Limit      <- MaxRetries + 1,
  audience   <- announced,
  outcome    <- outcomes,
  hits       <- reached

\* The hubs keep the promise of Fanout: the audience of an event is announced
\* once and never changes, and every notification follows it to one final end.
KeepsPromise == Promise!Spec

-----------------------------------------------------------------------------
(* Liveness, under FairSpec. *)

\* Every goroutine that delivers comes to an end (performDeliveryWithRetries).
DeliveriesSettle ==
  \A j \in JobId : jobs[j].st \in Active ~> jobs[j].st \in Settled

\* Every request to POST /events is answered, or its process ends.
RequestsAnswered ==
  \A s \in Submissions : ingest[s].pc \notin Answered \cup {"unsent"} ~>
                             ingest[s].pc \in Answered

\* A member of the audience that another hub keeps registered with a wish for
\* the event is served by that hub: a message that reaches the subscription of
\* a hub in time leads to a finished delivery, unless the hub stops or the
\* receiver ceases to want it (consumeMessages to performDeliveryWithRetries).
AudienceServed ==
  \A h \in Hubs, s \in Submissions, r \in Receivers :
    (inbox[h][s].st = "outstanding" /\ r \in ingest[s].targets) ~>
      \/ Skips(h, s)
      \/ phase[h] # "consuming"
      \/ ~ Wanted(h, s, r)
      \/ \E j \in JobId : /\ j.hub = h /\ j.msg = s /\ j.receiver = r
                          /\ jobs[j].st \in Settled

-----------------------------------------------------------------------------
(* What the documentation says and the code does not do. *)

\* "Hub Receiver: Hub acts as receiver to consume from its own topic"
\* (ssf-hub/README.md): an event a hub accepted and published for a receiver is
\* delivered to it by some hub, if the accepting hub goes on consuming its
\* topic and the receiver goes on wanting the event.
OwnEventsDelivered ==
  \A s \in Submissions, r \in Receivers :
    (ingest[s].pc = "accepted" /\ r \in ingest[s].targets) ~>
      \/ s \in aged
      \/ \E h \in {Origin(s)} \cap Hubs :
           phase[h] # "consuming" \/ ~ Wanted(h, s, r)
      \/ \E j \in JobId : /\ j.msg = s /\ j.receiver = r
                          /\ jobs[j].st # "none"

\* event_types: ["*"]  # All events  (ssf-hub/docs/RECEIVER_INTEGRATION.md): a
\* receiver subscribed to "*" whose filters let the event through is in the
\* audience of every event its hub decides on.
WildcardGetsAllEvents ==
  [][\A s \in Submissions : Filter(s) =>
       \A r \in Receivers :
         /\ Registered(Origin(s), r)
         /\ Wildcard \in registry[Origin(s)][r].conf.types
         /\ s \in registry[Origin(s)][r].conf.pass
         => r \in ingest'[s].targets]_vars
=============================================================================
