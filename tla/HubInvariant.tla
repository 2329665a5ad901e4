---------------------------- MODULE HubInvariant -----------------------------
(***************************************************************************)
(* The inductive invariant of HubEvents: what holds between a request, its *)
(* message, the subscriptions and the delivery goroutines at every step.   *)
(***************************************************************************)
EXTENDS HubEvents

\* What a request has decided at each point of its handler, and that it alone
\* publishes: the audience is settled, complete and counted by then.
RequestOK(s) ==
  /\ ingest[s].pc \in {"unsent", "parsed"} => ingest[s].targets = {}
  /\ ingest[s].pc # "unsent" => ingest[s].hub \in Hubs
  /\ ingest[s].pc \in {"parsed", "counting", "replying", "accepted"} => s \notin Malformed
  /\ ingest[s].pc = "counting" => ingest[s].targets # {}
  /\ ingest[s].pc \in {"unsent", "parsed", "counting"} => s \notin published
  /\ ingest[s].pc = "replying" => s \in published
  /\ ingest[s].pc = "accepted" /\ ingest[s].targets # {} => s \in published
  /\ s \in published => /\ ingest[s].targets # {}
                        /\ ingest[s].todo = {}
                        /\ s \notin Malformed

\* A subscription holds published messages; a handler works for another hub's
\* message on targets that were announced with it.
MessageOK(h, s) ==
  /\ inbox[h][s].st # "none" => s \in published
  /\ inbox[h][s].st = "handling" =>
       /\ Origin(s) # h
       /\ inbox[h][s].n \in 1..MaxDeliveries
       /\ inbox[h][s].todo \subseteq ingest[s].targets

\* A goroutine is where its attempts say it is: an attempt under way has not
\* reached the receiver yet, one that is waiting has another one left.
JobOK(j) ==
  /\ jobs[j].st = "none" => jobs[j].hits = 0
  /\ jobs[j].st # "none" =>
       /\ jobs[j].conf \in Configs
       /\ jobs[j].attempt \in 1..(MaxRetries + 1)
       /\ jobs[j].hits <= jobs[j].attempt
       /\ jobs[j].st = "posting" => jobs[j].hits < jobs[j].attempt
       /\ jobs[j].st = "waiting" => jobs[j].attempt <= MaxRetries
       /\ jobs[j].st \in {"ok", "delivered"} => jobs[j].hits > 0
       /\ jobs[j].st = "abandoned" => jobs[j].attempt = MaxRetries + 1
       /\ ~ CanAuthenticate(j) => jobs[j].hits = 0

\* OnlyWantedDeliveries and OneJobPerHandling are inductive with the rest: a
\* handler that still has a target has not used its slot for it.
IInv ==
  /\ TypeOK
  /\ \A s \in Submissions : RequestOK(s)
  /\ \A h \in Hubs, s \in Submissions : MessageOK(h, s)
  /\ \A j \in JobId : JobOK(j)
  /\ OnlyWantedDeliveries
  /\ OneJobPerHandling
-----------------------------------------------------------------------------
(* What backs the counters of a receiver: the requests counted for it and    *)
(* the deliveries made to it.  Neither ever becomes less.                    *)

Counted(h, r) ==
  {s \in Submissions : Origin(s) = h /\ r \in ingest[s].targets \ ingest[s].todo}

DeliveredTo(h, r) ==
  {j \in JobId : j.hub = h /\ j.receiver = r /\ jobs[j].st = "delivered"}

\* Inductive together with IInv.  Only finitely many requests and deliveries
\* have happened, even if there could be infinitely many.
CountersInv ==
  /\ \A s \in Submissions : ingest[s].todo \subseteq ingest[s].targets
  /\ \A h \in Hubs, r \in Receivers :
       IsFiniteSet(Counted(h, r)) /\ IsFiniteSet(DeliveredTo(h, r))
  /\ CountersBacked
=============================================================================
