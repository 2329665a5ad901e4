----------------------------- MODULE StreamSetup -----------------------------
(***************************************************************************)
(* StreamBuilder.Setup (ssfreceiver/builder/builder.go) by programs that   *)
(* share an account with one transmitter: fetch the metadata, look for an  *)
(* existing stream if asked to, create one otherwise.                      *)
(*                                                                         *)
(* The transmitter keeps the streams it created and answers a query with   *)
(* all of them; nothing tells it that two requests are one.                *)
(***************************************************************************)
EXTENDS Requests, FiniteSets

CONSTANTS
  Checking,   \* programs built WithExistingCheck
  Methods,    \* delivery methods
  MethodOf,   \* the delivery method a program is built with
  MaxSetups   \* bound: how often a program calls Setup

ASSUME SetupAssumption ==
  /\ Checking \subseteq Callers
  /\ MethodOf \in [Callers -> Methods]
  /\ MaxSetups \in Nat

VARIABLES
  setup,    \* setup[c]: the call of Setup under way or returned
  streams,  \* streams[c]: how many streams the requests of c created
  late,     \* late[c]: requests of c to create a stream that were given up
            \* while they were on their way
  gaveUp    \* history: the programs that have given up such a request

vars == <<request, setup, streams, late, gaveUp>>

Setup == [pc: {"idle", "metadata", "finding", "creating", "ready", "failed"},
          calls: 0..MaxSetups,
          seen: [Callers -> Nat]]   \* the streams the query was answered with

TypeOK ==
  /\ RequestsTypeOK
  /\ setup \in [Callers -> Setup]
  /\ streams \in [Callers -> Nat]
  /\ late \in [Callers -> Nat]
  /\ gaveUp \subseteq Callers

None == [d \in Callers |-> 0]

Init ==
  /\ RequestsInit
  /\ setup = [c \in Callers |-> [pc |-> "idle", calls |-> 0, seen |-> None]]
  /\ streams = None
  /\ late = None
  /\ gaveUp = {}

\* The next part of Setup, with a request of its own.
Goto(c, pc, body) ==
  /\ setup' = [setup EXCEPT ![c].pc = pc]
  /\ request' = [request EXCEPT ![c] = Issued(MaxRetries, body)]
  /\ UNCHANGED <<streams, late, gaveUp>>

Return(c, pc) ==
  /\ setup' = [setup EXCEPT ![c].pc = pc]
  /\ request' = [request EXCEPT ![c] = NoRequest]
  /\ UNCHANGED <<streams, late, gaveUp>>

-----------------------------------------------------------------------------
\* Setup validates the builder's configuration and fetches the metadata.  A
\* program whose Setup failed may call it again.
Begin(c) ==
  /\ setup[c].pc \in {"idle", "failed"}
  /\ setup[c].calls < MaxSetups
  /\ setup' = [setup EXCEPT ![c] =
                 [pc |-> "metadata", calls |-> @.calls + 1, seen |-> None]]
  /\ request' = [request EXCEPT ![c] = Issued(MaxRetries, FALSE)]
  /\ UNCHANGED <<streams, late, gaveUp>>

MetadataFetched(c) ==
  /\ setup[c].pc = "metadata"
  /\ Done(c, {"ok"})
  /\ IF c \in Checking THEN Goto(c, "finding", FALSE) ELSE Goto(c, "creating", TRUE)

\* The creators of the streams c has seen, and whether there is just one.
Seen(c) == {d \in Callers : setup[c].seen[d] > 0}

OneSeen(c, d) == Seen(c) = {d} /\ setup[c].seen[d] = 1

NoneFound(c) ==
  /\ setup[c].pc = "finding"
  /\ Done(c, {"ok"})
  /\ Seen(c) = {}
  /\ Goto(c, "creating", TRUE)

\* (mutant) the stream that was found is not compared with what was asked for
FoundAny(c) ==
  /\ setup[c].pc = "finding"
  /\ Done(c, {"ok"})
  /\ \E d \in Callers : OneSeen(c, d)
  /\ Return(c, "ready")

\* handleStreamConfig: the delivery method must match.
Found(c) ==
  /\ setup[c].pc = "finding"
  /\ Done(c, {"ok"})
  /\ \E d \in Callers : OneSeen(c, d) /\ MethodOf[d] = MethodOf[c]
  /\ Return(c, "ready")

\* Several streams, or one that does not match.
Unsuitable(c) ==
  /\ setup[c].pc = "finding"
  /\ Done(c, {"ok"})
  /\ Seen(c) # {}
  /\ ~ \E d \in Callers : OneSeen(c, d) /\ MethodOf[d] = MethodOf[c]
  /\ Return(c, "failed")

Created(c) ==
  /\ setup[c].pc = "creating"
  /\ Done(c, {"ok"})
  /\ Return(c, "ready")

\* (mutant) a failed query is taken for an answer that there is no stream
FailedCreates(c) ==
  /\ Done(c, Failures)
  /\ IF setup[c].pc = "finding" THEN Goto(c, "creating", TRUE) ELSE Return(c, "failed")

Failed(c) == Done(c, Failures) /\ Return(c, "failed")

SetupStep(c) ==
  \/ MetadataFetched(c)
  \/ NoneFound(c) \/ Found(c) \/ Unsuitable(c)
  \/ Created(c) \/ Failed(c)

-----------------------------------------------------------------------------
\* The transmitter.  A retryable status may come before or after it has acted.

ServeRead(c) ==
  /\ setup[c].pc \in {"metadata", "finding"}
  /\ \E answer \in {"ok", "refused", "again"} : ServedWith(c, answer)
  /\ setup' = IF setup[c].pc = "finding"
              THEN [setup EXCEPT ![c].seen = streams] ELSE setup
  /\ UNCHANGED <<streams, late, gaveUp>>

\* An answer to a creation that Setup cannot use counts as refused.
ServeCreate(c) ==
  /\ setup[c].pc = "creating"
  /\ \/ /\ \E answer \in {"ok", "refused", "again"} : ServedWith(c, answer)
        /\ streams' = [streams EXCEPT ![c] = @ + 1]
     \/ /\ \E answer \in {"refused", "again"} : ServedWith(c, answer)
        /\ UNCHANGED streams
  /\ UNCHANGED <<setup, late, gaveUp>>

\* A request to create a stream that its caller has given up.
GiveUp(c) ==
  /\ Interrupted(c) \/ Cancelled(c)
  /\ IF setup[c].pc = "creating" /\ Sending(c)
     THEN late' = [late EXCEPT ![c] = @ + 1] /\ gaveUp' = gaveUp \cup {c}
     ELSE UNCHANGED <<late, gaveUp>>
  /\ UNCHANGED <<setup, streams>>

ServeLate(c) ==
  /\ late[c] > 0
  /\ late' = [late EXCEPT ![c] = @ - 1]
  /\ streams' = [streams EXCEPT ![c] = @ + 1]
  /\ UNCHANGED <<request, setup, gaveUp>>

Loop(c) == LoopStep(c) /\ UNCHANGED <<setup, streams, late, gaveUp>>

Next ==
  \E c \in Callers :
    \/ Begin(c) \/ SetupStep(c) \/ Loop(c)
    \/ ServeRead(c) \/ ServeCreate(c) \/ GiveUp(c) \/ ServeLate(c)

Spec == Init /\ [][Next]_vars

-----------------------------------------------------------------------------
\* However its requests are retried, interrupted or served late, a call of Setup
\* makes no more streams than it may make attempts (createNewStream, retry.Do).
CreationsBounded ==
  \A c \in Callers :
    streams[c] + late[c] <= setup[c].calls * (MaxRetries + 1)

\* A program that looks for an existing stream first never sets out to create
\* one while it has one, whatever answers were lost, unless it has given up a
\* creation that was on its way (findExistingStream).
NoSecondCreation ==
  [][\A c \in Checking \ gaveUp :
       streams[c] > 0 /\ setup'[c].pc = "creating" => setup[c].pc = "creating"]_vars

\* A stream that is found or created has the delivery method that was asked for
\* (ValidateConfigurationMatch).
ReadyMatches ==
  \A c \in Callers : setup[c].pc = "ready" =>
    \E d \in Callers : streams[d] > 0 /\ MethodOf[d] = MethodOf[c]
=============================================================================
