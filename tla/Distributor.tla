----------------------------- MODULE Distributor -----------------------------
(***************************************************************************)
(* Webhook delivery (ssf-hub/internal/distributor/distributor.go).  Every  *)
(* receiver a message is dispatched to gets a goroutine of its own, which  *)
(* posts the event up to MaxRetries + 1 times with the configuration it    *)
(* was started with, whatever happens to the registration meanwhile.  The  *)
(* goroutine runs on context.Background(): only the end of the process     *)
(* stops it.                                                               *)
(***************************************************************************)
EXTENDS HubRegistry

CONSTANTS
  MaxRetries,    \* RetryPolicy.MaxRetries, for every receiver of the hub
  MaxDeliveries  \* bound: how often a subscription delivers one message

ASSUME LimitsAssumption == MaxRetries \in Nat /\ MaxDeliveries \in Nat \ {0}

VARIABLE jobs  \* the delivery goroutines

Slots == 1..MaxDeliveries

\* The job that the slot-th handling of message msg starts for a receiver.
JobId == [hub: Hubs, msg: Submissions, receiver: Receivers, slot: Slots]

\* "posting": a request is under way; "ok" and "err": performWebhookDelivery
\* has returned; "waiting": backing off before the next attempt.
Active == {"posting", "ok", "err", "waiting"}
Settled == {"delivered", "abandoned", "lost"}

\* hits counts the requests that reached the receiver, answered or not.
Job == [st: {"none"} \cup Active \cup Settled, attempt: Nat, hits: Nat,
        conf: Configs \cup {NoConf}]

NoJob == [st |-> "none", attempt |-> 0, hits |-> 0, conf |-> NoConf]

JobsTypeOK == jobs \in [JobId -> Job]

JobsInit == jobs = [j \in JobId |-> NoJob]

-----------------------------------------------------------------------------
\* DistributeToReceivers for one target of a message: a receiver that is gone
\* or no longer wants the event is passed over, the others get a goroutine.

\* (mutant) the filters of the receiver are not looked at again
WantedOnceAudience(h, s, r) == Registered(h, r)

Wanted(h, s, r) == Registered(h, r) /\ ShouldDeliver(registry[h][r].conf, s)

NewJob(h, r) == [st |-> "posting", attempt |-> 1, hits |-> 0,
                 conf |-> registry[h][r].conf]

Distribute(h, s, r, k) ==
  LET j == [hub |-> h, msg |-> s, receiver |-> r, slot |-> k]
  IN  jobs' = IF Wanted(h, s, r) THEN [jobs EXCEPT ![j] = NewJob(h, r)] ELSE jobs

-----------------------------------------------------------------------------
\* performDeliveryWithRetries.

\* addAuthentication fails for hmac and oauth2 before anything is sent.
CanAuthenticate(j) == jobs[j].conf.auth = "sent"

\* (mutant) a request that was never sent counts as answered
AcceptedUnheard(j) ==
  /\ jobs[j].st = "posting"
  /\ CanAuthenticate(j)
  /\ jobs' = [jobs EXCEPT ![j].st = "ok"]
  /\ UNCHANGED registry

\* The receiver answers with a 2xx status.
Accepted(j) ==
  /\ jobs[j].st = "posting"
  /\ CanAuthenticate(j)
  /\ jobs' = [jobs EXCEPT ![j].st = "ok", ![j].hits = @ + 1]
  /\ UNCHANGED registry

\* The receiver gets the request, but answers with another status, or its
\* answer is lost or too late for the client's timeout.
NotConfirmed(j) ==
  /\ jobs[j].st = "posting"
  /\ CanAuthenticate(j)
  /\ jobs' = [jobs EXCEPT ![j].st = "err", ![j].hits = @ + 1]
  /\ UNCHANGED registry

\* No request reaches the receiver.
NotSent(j) ==
  /\ jobs[j].st = "posting"
  /\ jobs' = [jobs EXCEPT ![j].st = "err"]
  /\ UNCHANGED registry

RecordSuccess(j) ==
  /\ jobs[j].st = "ok"
  /\ jobs' = [jobs EXCEPT ![j].st = "delivered"]
  /\ IncrementDelivered(j.hub, j.receiver)

\* (mutant) one attempt too many
RecordFailureOneTooMany(j) ==
  /\ jobs[j].st = "err"
  /\ jobs' = [jobs EXCEPT ![j].st =
                IF jobs[j].attempt <= MaxRetries + 1 THEN "waiting" ELSE "abandoned"]
  /\ IncrementFailed(j.hub, j.receiver)

\* (mutant) the wrong counter
RecordFailureAsDelivered(j) ==
  /\ jobs[j].st = "err"
  /\ jobs' = [jobs EXCEPT ![j].st =
                IF jobs[j].attempt <= MaxRetries THEN "waiting" ELSE "abandoned"]
  /\ IncrementDelivered(j.hub, j.receiver)

RecordFailure(j) ==
  /\ jobs[j].st = "err"
  /\ jobs' = [jobs EXCEPT ![j].st =
                IF jobs[j].attempt <= MaxRetries THEN "waiting" ELSE "abandoned"]
  /\ IncrementFailed(j.hub, j.receiver)

\* (mutant) the last retry is never made
RetryNotLast(j) ==
  /\ jobs[j].st = "waiting"
  /\ jobs[j].attempt < MaxRetries
  /\ jobs' = [jobs EXCEPT ![j].st = "posting", ![j].attempt = @ + 1]
  /\ UNCHANGED registry

\* The backoff is over.
RetryAfterBackoff(j) ==
  /\ jobs[j].st = "waiting"
  /\ jobs' = [jobs EXCEPT ![j].st = "posting", ![j].attempt = @ + 1]
  /\ UNCHANGED registry

JobStep(j) ==
  \/ Accepted(j) \/ NotConfirmed(j) \/ NotSent(j)
  \/ RecordSuccess(j) \/ RecordFailure(j) \/ RetryAfterBackoff(j)

\* The goroutines of a process end with it.
LoseJobs(h) ==
  jobs' = [j \in JobId |-> IF j.hub = h /\ jobs[j].st \in Active
                           THEN [jobs[j] EXCEPT !.st = "lost"] ELSE jobs[j]]
=============================================================================
