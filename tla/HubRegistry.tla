----------------------------- MODULE HubRegistry -----------------------------
(***************************************************************************)
(* The receiver registry of every SSF hub process                          *)
(* (ssf-hub/internal/registry/registry.go, MemoryRegistry).  It lives in   *)
(* the memory of one process: hubs share the Pub/Sub topic, never their    *)
(* registries.  Each operation takes the registry's lock for its whole     *)
(* body, so each is one step.                                              *)
(*                                                                         *)
(* A receiver is reduced to what the hub decides on: the event types it    *)
(* subscribes to, the events its custom filters let through and whether    *)
(* the hub can authenticate to its webhook.  Its status is left out: no    *)
(* request sets one, so every receiver of a broker is "active".            *)
(***************************************************************************)
EXTENDS Naturals

CONSTANTS
  Hubs,         \* hub instances; a restarted process is another instance
  Receivers,    \* receiver ids
  Submissions,  \* accepted or refused POST /events requests, one event each
  Types,        \* event type URIs
  Wildcard,     \* the subscription "*"
  TypeOf,       \* the type of the event a submission carries
  Configs,      \* configurations a receiver registers or updates to
  NoConf        \* not registered

\* An event has one type, and "*" is not one of them.
ASSUME TypesAssumption ==
  /\ Wildcard \notin Types
  /\ TypeOf \in [Submissions -> Types]

\* What RegisterReceiver and UpdateReceiver validate: subscriptions are event
\* types or "*"; a webhook is authenticated with a scheme the distributor
\* implements ("sent": none, bearer) or only knows by name ("unsupported":
\* hmac, oauth2).
ASSUME ConfigsAssumption ==
  /\ Configs \subseteq [types: SUBSET (Types \cup {Wildcard}),
                        pass:  SUBSET Submissions,
                        auth:  {"sent", "unsupported"}]
  /\ NoConf \notin Configs

VARIABLE registry  \* registry[h][r]: hub h's record of receiver r

Entry == [conf: Configs \cup {NoConf},
          received: Nat, delivered: Nat, failed: Nat]

Unregistered == [conf |-> NoConf, received |-> 0, delivered |-> 0, failed |-> 0]

RegistryTypeOK == registry \in [Hubs -> [Receivers -> Entry]]

RegistryInit == registry = [h \in Hubs |-> [r \in Receivers |-> Unregistered]]

Registered(h, r) == registry[h][r].conf # NoConf

-----------------------------------------------------------------------------
\* Matching an event with a receiver, once at ingest and once at delivery.

\* GetByEventType compares the type exactly; FilterReceivers then applies the
\* receiver's filters.
Subscribes(c, s) == TypeOf[s] \in c.types /\ s \in c.pass

FilterReceivers(h, s) ==
  {r \in Receivers : Registered(h, r) /\ Subscribes(registry[h][r].conf, s)}

\* shouldDeliverToReceiver also accepts the subscription "*".
ShouldDeliver(c, s) ==
  /\ c.types \cap {TypeOf[s], Wildcard} # {}
  /\ s \in c.pass

-----------------------------------------------------------------------------
\* The administrative requests.  UnregisterReceiver and UpdateReceiver first
\* look the receiver up and answer "not found" without changing anything.

Register(h, r, c) ==
  /\ ~ Registered(h, r)
  /\ registry' = [registry EXCEPT ![h][r] = [Unregistered EXCEPT !.conf = c]]

Unregister(h, r) ==
  /\ Registered(h, r)
  /\ registry' = [registry EXCEPT ![h][r] = Unregistered]

\* (mutant) the new record replaces the old one, counters and all
UpdateForgettingCounters(h, r, c) ==
  /\ Registered(h, r)
  /\ registry' = [registry EXCEPT ![h][r] = [Unregistered EXCEPT !.conf = c]]

\* Update copies the counters of the record it replaces into the new one.
Update(h, r, c) ==
  /\ Registered(h, r)
  /\ registry' = [registry EXCEPT ![h][r].conf = c]

\* The counters are kept by receiver id: a receiver that is gone is skipped
\* (the callers only log the error), one that came back is credited.
IncrementReceived(h, r) ==
  registry' = IF Registered(h, r)
              THEN [registry EXCEPT ![h][r].received = @ + 1] ELSE registry

IncrementDelivered(h, r) ==
  registry' = IF Registered(h, r)
              THEN [registry EXCEPT ![h][r].delivered = @ + 1] ELSE registry

IncrementFailed(h, r) ==
  registry' = IF Registered(h, r)
              THEN [registry EXCEPT ![h][r].failed = @ + 1] ELSE registry

\* The registry dies with its process.
Forget(h) ==
  registry' = [registry EXCEPT ![h] = [r \in Receivers |-> Unregistered]]
=============================================================================
