------------------------------ MODULE CaepEvents -----------------------------
(***************************************************************************)
(* The CAEP and SSF events of the secevent library                         *)
(* (secevent/pkg/schemes, secevent/pkg/event): what each constructor       *)
(* makes, what each Validate asks, and how ParseEvent reads the payload a  *)
(* token holds under an event type.  An operation that may fail is a set:  *)
(* its result, or nothing.                                                 *)
(***************************************************************************)
EXTENDS Subjects

\* Event types, and the Go types that stand for them.
Kinds == {"assurance", "compliance", "claims", "session", "credential",
          "update", "verification"}

SsfKinds == {"update", "verification"}

\* The members of a payload; CAEP events have those of their metadata as well.
\* "other" stands for a value outside the set a member is declared for.
Own ==
  [assurance |-> {"current_level", "previous_level", "change_direction"},
   compliance |-> {"current_status", "previous_status"},
   claims |-> {"claims"}, session |-> {},
   credential |-> {"credential_type", "change_type", "x509_issuer", "x509_serial"},
   update |-> {"status"}, verification |-> {"state"}]

Metadata == {"event_timestamp", "initiating_entity"}

MembersOf(kind) == Own[kind] \cup (IF kind \in SsfKinds THEN {} ELSE Metadata)

Member(payload, name) == IF name \in DOMAIN payload THEN payload[name] ELSE "absent"

Event(kind, type, payload) == [kind |-> kind, type |-> type, payload |-> payload]

\* NewCredentialChangeEvent sets EventTypeAssuranceLevelChange.
TypeSetByNew(kind) == IF kind = "credential" THEN "assurance" ELSE kind

NewEvent(kind, payload) == Event(kind, TypeSetByNew(kind), payload)

-----------------------------------------------------------------------------
ValidMetadata(payload) == Member(payload, "event_timestamp") # "negative"

Differ(payload, current, previous, values) ==
  /\ Member(payload, current) \in values
  /\ Member(payload, previous) \in values
  /\ Member(payload, current) # Member(payload, previous)

\* The direction of a change of level is not compared with the levels.
ValidAssurance(payload) ==
  /\ Differ(payload, "current_level", "previous_level", {"aal1", "aal2", "aal3"})
  /\ Member(payload, "change_direction") \in {"increase", "decrease"}

ValidCompliance(payload) ==
  Differ(payload, "current_status", "previous_status", {"compliant", "not-compliant"})

ValidClaims(payload) == Member(payload, "claims") = "some"

ValidCredential(payload) ==
  /\ Member(payload, "credential_type") \in {"password", "x509"}
  /\ Member(payload, "change_type") \in {"create", "revoke"}
  /\ (Member(payload, "x509_issuer") = "absent") = (Member(payload, "x509_serial") = "absent")

ValidUpdate(payload) == Member(payload, "status") \in {"enabled", "paused", "disabled"}

ValidOwn(kind, payload) ==
  CASE kind = "assurance" -> ValidAssurance(payload)
    [] kind = "compliance" -> ValidCompliance(payload)
    [] kind = "claims" -> ValidClaims(payload)
    [] kind = "credential" -> ValidCredential(payload)
    [] kind = "update" -> ValidUpdate(payload)
    [] OTHER -> TRUE

ValidEvent(e) ==
  /\ e.kind \in SsfKinds \/ ValidMetadata(e.payload)
  /\ ValidOwn(e.kind, e.payload)

\* An InitiatingEntity outside the enumeration is valid, is written "unknown",
\* and cannot be read back.
ReadableEntity(payload) == Member(payload, "initiating_entity") # "other"

\* (mutant) the metadata is left behind
ParsedBare(type, payload) ==
  LET e == Event(type, type, [m \in DOMAIN payload \cap Own[type] |-> payload[m]])
  IN IF type \in Kinds /\ ValidEvent(e) THEN {e} ELSE {}

\* The parser registered for the type decodes the members it knows, sets its
\* own type and validates.
ParseEvent(type, payload) ==
  LET e == Event(type, type, [m \in DOMAIN payload \cap MembersOf(type) |-> payload[m]])
  IN IF /\ type \in Kinds
        /\ type \in SsfKinds \/ ReadableEntity(payload)
        /\ ValidEvent(e)
     THEN {e} ELSE {}
=============================================================================
