----------------------------- MODULE ArchiveEvents ---------------------------
(***************************************************************************)
(* What the archived receiver makes of a SET (archive/pkg/receiver.go,     *)
(* parseSsfEventSets, and archive/pkg/ssf_events/ssf_event.go): an event   *)
(* of a type it knows, an error, or a panic.  A SET is told by what the    *)
(* code asks of it; it carries one event.                                  *)
(***************************************************************************)

\* The attributes EventStructFromEvent insists on, by type of event.
Required == [
  verification             |-> {"state"},
  stream_updated           |-> {"status"},
  session_revoked          |-> {"event_timestamp"},
  credential_change        |-> {"event_timestamp", "credential_type", "change_type"},
  device_compliance_change |-> {"event_timestamp", "previousStatus", "currentStatus"},
  assurance_level_change   |-> {"event_timestamp", "currentLevel", "namespace"},
  token_claims_change      |-> {"event_timestamp", "claims"}]

EventTypes == DOMAIN Required

Attributes == UNION {Required[t] : t \in EventTypes}

\* Types about the stream itself have no subject.
StreamTypes == {"verification", "stream_updated"}

\* alg: how the token is signed; events: whether its "events" claim is there;
\* uri: the type its event announces; valid: the attributes that are there and
\* acceptable; subject: the subject is missing, has a format the library knows,
\* has none (a complex subject), or another one.
Content == [alg: {"none", "signed", "garbled"}, events: BOOLEAN,
            uri: EventTypes \cup {"other"}, valid: SUBSET Attributes,
            subject: {"missing", "known", "complex", "other"}]

\* Go's map lookup gives zero, SessionRevoked, for a URI that is not there.
EventEnum(uri) == IF uri \in EventTypes THEN uri ELSE "session_revoked"

EventStructFromEvent(set) ==
  LET type == EventEnum(set.uri)
  IN  IF /\ Required[type] \subseteq set.valid
         /\ type \in StreamTypes \/ set.subject \in {"known", "complex"}
      THEN type ELSE "error"

\* The key given to the parser accepts no signature but "none".
ParseSet(set) ==
  CASE set.alg # "none" -> "error"
    [] set.alg = "none" /\ ~ set.events -> "panic"
    [] set.alg = "none" /\ set.events -> EventStructFromEvent(set)

Parses(set) == ParseSet(set) \in EventTypes
=============================================================================
