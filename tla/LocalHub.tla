------------------------------- MODULE LocalHub ------------------------------
(***************************************************************************)
(* The hub receiver of one hub process (ssf-hub/internal/hubreceiver) and  *)
(* its consumption loops, on the in-memory Pub/Sub client: the hub of      *)
(* cmd/server-mock.  The owner of the receiver calls Start and Stop; every *)
(* Start begins a loop of its own, and all loops listen on the one channel *)
(* that Stop closes.  Meanwhile request handlers publish messages, and the *)
(* debug endpoint clears the client.                                       *)
(*                                                                         *)
(* Every message of this process is its own, so that the handler counts it *)
(* and skips it: it never fails.                                           *)
(***************************************************************************)
EXTENDS MockPubSub

CONSTANTS
  Loops,      \* (bound) the consumption loops, one for each Start
  MaxStops    \* (bound) calls of Stop

ASSUME StopsAssumption == MaxStops \in Nat

VARIABLES
  running,   \* HubReceiver.running
  closed,    \* stopChan has been closed
  ended,     \* the context given to Start has ended
  owner,     \* where the goroutine that calls Start and Stop is
  stops,     \* calls of Stop so far
  loop,      \* loop[l]: a consumption loop
  received,  \* received[m][g]: how often m was handled from subscription g
  late       \* late[l]: topic reads by loop l since Stop returned

vars == <<clientVars, running, closed, ended, owner, stops, loop, received, late>>

Loop == [pc: {"unused", "checking", "pulling", "reading", "marking", "handling",
              "backoff", "ended"},
         sub: 0..MaxGenerations,  \* the subscription object of the pull
         batch: Seq(Messages)]    \* messages the pull has yet to process

Unused == [pc |-> "unused", sub |-> 0, batch |-> <<>>]

TypeOK ==
  /\ ClientTypeOK
  /\ running \in BOOLEAN
  /\ closed \in BOOLEAN
  /\ ended \in BOOLEAN
  /\ owner \in {"idle", "starting", "closing", "deleting", "panicked"}
  /\ stops \in 0..MaxStops
  /\ loop \in [Loops -> Loop]
  /\ \A l \in Loops : loop[l].pc \in {"marking", "handling"} => loop[l].batch # <<>>
  /\ received \in [Messages -> [Generations -> Nat]]
  /\ late \in [Loops -> Nat]

Init ==
  /\ ClientInit
  /\ running = FALSE
  /\ closed = FALSE
  /\ ended = FALSE
  /\ owner = "idle"
  /\ stops = 0
  /\ loop = [l \in Loops |-> Unused]
  /\ received = [m \in Messages |-> [g \in Generations |-> 0]]
  /\ late = [l \in Loops |-> 0]

-----------------------------------------------------------------------------
\* Start: the subscription first, then the loop.

Start ==
  /\ owner = "idle"
  /\ \E l \in Loops : loop[l].pc = "unused"
  /\ CreateHubSubscription
  /\ owner' = "starting"
  /\ UNCHANGED <<running, closed, ended, stops, loop, received, late>>

Started(l) ==
  /\ owner = "starting"
  /\ loop[l].pc = "unused"
  /\ running' = TRUE
  /\ loop' = [loop EXCEPT ![l].pc = "checking"]
  /\ owner' = "idle"
  /\ UNCHANGED <<clientVars, closed, ended, stops, received, late>>

\* Stop: the flag, the channel, the subscription.
Stop ==
  /\ owner = "idle"
  /\ stops < MaxStops
  /\ stops' = stops + 1
  /\ running' = FALSE
  /\ owner' = "closing"
  /\ UNCHANGED <<clientVars, closed, ended, loop, received, late>>

\* Closing the channel a second time panics: the process ends.
Close ==
  /\ owner = "closing"
  /\ closed' = TRUE
  /\ owner' = IF closed THEN "panicked" ELSE "deleting"
  /\ UNCHANGED <<clientVars, running, ended, stops, loop, received, late>>

Stopped ==
  /\ owner = "deleting"
  /\ DeleteHubSubscription
  /\ owner' = "idle"
  /\ UNCHANGED <<running, closed, ended, stops, loop, received, late>>

\* The context given to Start ends.
Cancel ==
  /\ owner # "panicked"
  /\ \E l \in Loops : loop[l].pc # "unused"
  /\ ended' = TRUE
  /\ UNCHANGED <<clientVars, running, closed, owner, stops, loop, received, late>>

-----------------------------------------------------------------------------
\* consumeMessages, one pass of the loop after the other.

Goto(l, pc) == loop' = [loop EXCEPT ![l].pc = pc]

AtPc(l, pc) == owner # "panicked" /\ loop[l].pc = pc

Told == closed \/ ended

\* (mutant) only the flag is looked at
CheckFlag(l) ==
  /\ AtPc(l, "checking")
  /\ Goto(l, IF ~ running THEN "ended" ELSE "pulling")
  /\ UNCHANGED <<clientVars, running, closed, ended, owner, stops, received, late>>

\* The condition of the loop, and the select that decides whether it pulls.
Check(l) ==
  /\ AtPc(l, "checking")
  /\ Goto(l, IF ~ running \/ Told THEN "ended" ELSE "pulling")
  /\ UNCHANGED <<clientVars, running, closed, ended, owner, stops, received, late>>

\* PullInternalMessages looks the subscription up by its name.
Lookup(l) ==
  /\ AtPc(l, "pulling")
  /\ loop' = [loop EXCEPT ![l].sub = current,
                          ![l].pc = IF current = 0 THEN "backoff" ELSE "reading"]
  /\ UNCHANGED <<clientVars, running, closed, ended, owner, stops, received, late>>

\* (mutant) a pull that finds nothing is not told apart
ReadAnything(l) ==
  /\ AtPc(l, "reading")
  /\ \E batch \in messagesToProcess(loop[l].sub) :
       loop' = [loop EXCEPT ![l].batch = batch, ![l].pc = "marking"]
  /\ UNCHANGED <<clientVars, running, closed, ended, owner, stops, received, late>>

ReadTopic(l) ==
  /\ AtPc(l, "reading")
  /\ \E batch \in messagesToProcess(loop[l].sub) :
       loop' = [loop EXCEPT ![l].batch = batch,
                            ![l].pc = IF batch = <<>> THEN "checking" ELSE "marking"]
  /\ late' = IF closed /\ owner = "idle" THEN [late EXCEPT ![l] = @ + 1] ELSE late
  /\ UNCHANGED <<clientVars, running, closed, ended, owner, stops, received>>

MarkNext(l) ==
  /\ AtPc(l, "marking")
  /\ Mark(loop[l].sub, Head(loop[l].batch))
  /\ Goto(l, "handling")
  /\ UNCHANGED <<running, closed, ended, owner, stops, received, late>>

\* processInternalMessage: the hub's own message is counted and skipped.
Handle(l) ==
  /\ AtPc(l, "handling")
  /\ received' = [received EXCEPT ![Head(loop[l].batch)][loop[l].sub] = @ + 1]
  /\ loop' = [loop EXCEPT ![l].batch = Tail(@),
                          ![l].pc = IF Len(loop[l].batch) = 1 THEN "checking" ELSE "marking"]
  /\ UNCHANGED <<clientVars, running, closed, ended, owner, stops, late>>

\* (mutant) the wait after an error is not left before its five seconds are over
BackoffBlind(l) ==
  /\ AtPc(l, "backoff")
  /\ Goto(l, "pulling")
  /\ UNCHANGED <<clientVars, running, closed, ended, owner, stops, received, late>>

\* Five seconds pass, or the wait ends with the loop.
Backoff(l) ==
  /\ AtPc(l, "backoff")
  /\ Goto(l, "checking") \/ (Told /\ Goto(l, "ended"))
  /\ UNCHANGED <<clientVars, running, closed, ended, owner, stops, received, late>>

LoopStep(l) ==
  \/ Check(l) \/ Lookup(l) \/ ReadTopic(l)
  \/ MarkNext(l) \/ Handle(l) \/ Backoff(l)

-----------------------------------------------------------------------------
\* The rest of the process: request handlers and the debug endpoint.

Ingest(m) ==
  /\ owner # "panicked"
  /\ created > 0
  /\ PublishEvent(m)
  /\ UNCHANGED <<running, closed, ended, owner, stops, loop, received, late>>

Clear ==
  /\ owner # "panicked"
  /\ topic # <<>>
  /\ ClearAllMessages
  /\ UNCHANGED <<running, closed, ended, owner, stops, loop, received, late>>

Next ==
  \/ Start \/ Stop \/ Close \/ Stopped \/ Cancel \/ Clear
  \/ \E l \in Loops : Started(l) \/ LoopStep(l)
  \/ \E m \in Messages : Ingest(m)

Spec == Init /\ [][Next]_vars

\* Every loop is a goroutine, and Stop does not wait for anybody.
Fairness ==
  /\ WF_vars(Close \/ Stopped)
  /\ \A l \in Loops : WF_vars(LoopStep(l))

FairSpec == Spec /\ Fairness

-----------------------------------------------------------------------------
Live(l) == loop[l].pc \notin {"unused", "ended"}

OnTopic(m) == \E i \in 1..Len(topic) : topic[i] = m

\* A loop gives a message of a subscription to the handler at most once, also
\* around a clear and however pulls overlap: only a second loop can read it
\* again before the first one has marked it (PullInternalMessages).
OncePerLoop ==
  \A m \in Messages, g \in Generations :
    received[m][g] <= Cardinality({l \in Loops : loop[l].pc # "unused"})

\* Once Stop has returned, a loop finishes the pull it is in and reads the topic
\* at most once more, even if Start is called again in the meantime
\* (consumeMessages, Stop).
OnePullAfterStop == \A l \in Loops : late[l] <= 1

\* A loop that Stop has told to end does end, whatever it was doing: handling,
\* waiting after an error, or pulling from a subscription that is gone.
StoppedLoopsEnd ==
  \A l \in Loops : closed /\ Live(l) ~> ~ Live(l) \/ owner = "panicked"

\* Another message on the way has, or had, the same MessageID.
Shadowed(m) == \E n \in Messages \ {m} : id[n] = id[m]

\* A message on the topic of a hub that goes on consuming is handled, unless it
\* is cleared or its "unique message ID" (event.go) is that of another one
\* (PullInternalMessages, with its limit of messages per pull).
PublishedIsHandled ==
  \A m \in Messages :
    OnTopic(m) /\ running /\ ~ Told ~>
      \/ \E g \in Generations : received[m][g] > 0
      \/ Shadowed(m) \/ ~ OnTopic(m)
      \/ stops > 0 \/ Told
=============================================================================
