-------------------------- MODULE MCArchiveReceiver --------------------------
(***************************************************************************)
(* A small instance of ArchiveReceiver: two SETs, of the kinds below.      *)
(***************************************************************************)
EXTENDS ArchiveReceiver

CONSTANTS e1, e2

Set(alg, events, uri, valid, subject) ==
  [alg |-> alg, events |-> events, uri |-> uri, valid |-> valid, subject |-> subject]

Complete(uri, subject) == Set("none", TRUE, uri, Required[uri], subject)

\* What e1 and e2 contain: two good SETs, with a simple subject and with none; a
\* good one of a type the library lacks beside one that lacks attributes, or one
\* without events; a signed one beside one whose subject has a format it lacks.
MCContents ==
  LET unknown == Set("none", TRUE, "other", {"event_timestamp"}, "complex")
      incomplete == Set("none", TRUE, "device_compliance_change", {"event_timestamp"}, "known")
      signed == Set("signed", TRUE, "session_revoked", {"event_timestamp"}, "known")
      Pair(s1, s2) == [e \in Sets |-> IF e = e1 THEN s1 ELSE s2]
  IN {Pair(Complete("credential_change", "known"), Complete("verification", "missing")),
      Pair(unknown, incomplete),
      Pair(unknown, Set("none", FALSE, "other", {}, "missing")),
      Pair(signed, Complete("session_revoked", "other"))}
=============================================================================
