------------------------------ MODULE MockPubSub ------------------------------
(***************************************************************************)
(* The in-memory Pub/Sub client that local development runs the hub on     *)
(* (ssf-hub/internal/pubsub/mock_client.go): one topic that keeps every    *)
(* message, and a subscription that remembers the MessageIDs it has given  *)
(* out.  There is no acknowledgment: a message is marked before it is      *)
(* handled.  The hub has one subscription name; a subscription deleted and *)
(* created again under it is a new object, of the next generation.         *)
(***************************************************************************)
EXTENDS Naturals, Sequences, FiniteSets

CONSTANTS
  Messages,       \* messages that may be published
  MessageIds,     \* what generateMessageID may return
  NoId,           \* the ID of a message not published yet
  MaxMessages,    \* messages taken by one pull (100)
  MaxGenerations  \* (bound) subscriptions created under the hub's name

ASSUME ClientAssumption ==
  /\ NoId \notin MessageIds
  /\ MaxMessages \in Nat \ {0}
  /\ MaxGenerations \in Nat

VARIABLES
  topic,    \* the messages of the topic, in order of publication
  id,       \* id[m]: the MessageID message m was published with
  current,  \* generation of the subscription under the hub's name, 0: none
  created,  \* generations created so far
  marked    \* marked[g]: the messages of subscription object g, by MessageID

Generations == 1..MaxGenerations

clientVars == <<topic, id, current, created, marked>>

ClientTypeOK ==
  /\ topic \in Seq(Messages)
  /\ id \in [Messages -> MessageIds \cup {NoId}]
  /\ created \in 0..MaxGenerations
  /\ current \in {0, created}
  /\ marked \in [Generations -> SUBSET MessageIds]

ClientInit ==
  /\ topic = <<>>
  /\ id = [m \in Messages |-> NoId]
  /\ current = 0
  /\ created = 0
  /\ marked = [g \in Generations |-> {}]

Published(m) == id[m] # NoId

\* An ID is a time in seconds and a remainder of the nanoseconds: two messages
\* of one second may get the same one.
PublishEvent(m) ==
  /\ ~ Published(m)
  /\ \E i \in MessageIds : id' = [id EXCEPT ![m] = i]
  /\ topic' = Append(topic, m)
  /\ UNCHANGED <<current, created, marked>>

\* The new subscription knows no message: it will see the whole topic.
CreateHubSubscription ==
  /\ IF current # 0
     THEN UNCHANGED <<current, created>>
     ELSE /\ created < MaxGenerations
          /\ created' = created + 1
          /\ current' = created + 1
  /\ UNCHANGED <<topic, id, marked>>

\* A pull that has found the subscription keeps its object.
DeleteHubSubscription ==
  /\ current' = 0
  /\ UNCHANGED <<topic, id, created, marked>>

messageInSubscription(g, m) == id[m] \in marked[g]

\* The first messages of the topic that are not in subscription object g, in
\* order, as the one member of a set: the k-th of them is at the place of the
\* topic that has k new ones up to it.
messagesToProcess(g) ==
  LET new     == {i \in DOMAIN topic : ~ messageInSubscription(g, topic[i])}
      Rank(i) == Cardinality({j \in new : j <= i})
      n       == IF Cardinality(new) < MaxMessages THEN Cardinality(new) ELSE MaxMessages
  IN  {[k \in 1..n |-> topic[at[k]]] :
         at \in {f \in [1..n -> new] : \A k \in 1..n : Rank(f[k]) = k}}

\* (mutant) everything the pull has seen is marked, also what exceeds its limit
MarkSeen(g, m) ==
  /\ marked' = [marked EXCEPT ![g] = @ \cup {id[x] : x \in {y \in Messages : Published(y)}}]
  /\ UNCHANGED <<topic, id, current, created>>

Mark(g, m) ==
  /\ marked' = [marked EXCEPT ![g] = @ \cup {id[m]}]
  /\ UNCHANGED <<topic, id, current, created>>

\* (mutant) the messages stay on the topic
ForgetMarks ==
  /\ marked' = [g \in Generations |-> IF g = current THEN {} ELSE marked[g]]
  /\ UNCHANGED <<topic, id, current, created>>

\* POST /debug/mock/clear.  A deleted subscription object is not cleared.
ClearAllMessages ==
  /\ topic' = <<>>
  /\ marked' = [g \in Generations |-> IF g = current THEN {} ELSE marked[g]]
  /\ UNCHANGED <<id, current, created>>
=============================================================================
