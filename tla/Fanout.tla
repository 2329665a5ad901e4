------------------------------- MODULE Fanout --------------------------------
(***************************************************************************)
(* What the hubs promise about a security event, without requests, topic,  *)
(* subscriptions or goroutines: once, an audience is announced for it;     *)
(* afterwards a member of the audience may be notified, each time with at  *)
(* most Limit requests, and a notification that ends as delivered reached  *)
(* the receiver.  Nobody promises that a member is notified, or how often. *)
(* HubEvents implements this specification.                                *)
(***************************************************************************)
EXTENDS Naturals

CONSTANTS Submissions, Receivers, Notices, MessageOf, ReceiverOf, Limit

\* A notice is one notification of one receiver of one event: MessageOf is in
\* [Notices -> Submissions], ReceiverOf in [Notices -> Receivers], and Limit is a
\* natural number.

VARIABLES
  audience,  \* the announced receivers of each event; {} before
  outcome,   \* what became of each notice
  hits       \* the requests of each notice that reached the receiver

vars == <<audience, outcome, hits>>

Outcome == {"none", "open", "delivered", "abandoned", "lost"}

TypeOK ==
  /\ audience \in [Submissions -> SUBSET Receivers]
  /\ outcome \in [Notices -> Outcome]
  /\ hits \in [Notices -> 0..Limit]

Init ==
  /\ audience = [s \in Submissions |-> {}]
  /\ outcome = [k \in Notices |-> "none"]
  /\ hits = [k \in Notices |-> 0]

Announce(s) ==
  /\ audience[s] = {}
  /\ \E R \in SUBSET Receivers : audience' = [audience EXCEPT ![s] = R]
  /\ UNCHANGED <<outcome, hits>>

Open(k) ==
  /\ outcome[k] = "none"
  /\ ReceiverOf[k] \in audience[MessageOf[k]]
  /\ outcome' = [outcome EXCEPT ![k] = "open"]
  /\ UNCHANGED <<audience, hits>>

Reach(k) ==
  /\ outcome[k] = "open"
  /\ hits[k] < Limit
  /\ hits' = [hits EXCEPT ![k] = @ + 1]
  /\ UNCHANGED <<audience, outcome>>

Deliver(k) ==
  /\ outcome[k] = "open"
  /\ hits[k] > 0
  /\ outcome' = [outcome EXCEPT ![k] = "delivered"]
  /\ UNCHANGED <<audience, hits>>

Abandon(k) ==
  /\ outcome[k] = "open"
  /\ outcome' = [outcome EXCEPT ![k] = "abandoned"]
  /\ UNCHANGED <<audience, hits>>

\* The end of a process takes any number of open notices with it.
Lose(K) ==
  /\ \A k \in K : outcome[k] = "open"
  /\ outcome' = [k \in Notices |-> IF k \in K THEN "lost" ELSE outcome[k]]
  /\ UNCHANGED <<audience, hits>>

Next ==
  \/ \E s \in Submissions : Announce(s)
  \/ \E k \in Notices : Open(k) \/ Reach(k) \/ Deliver(k) \/ Abandon(k)
  \/ \E K \in SUBSET Notices : Lose(K)

Spec == Init /\ [][Next]_vars
=============================================================================
