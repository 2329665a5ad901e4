---------------------------- MODULE LocalHub_proofs --------------------------
(***************************************************************************)
(* The safety of LocalHub for any number of messages, message IDs, loops,  *)
(* subscriptions and calls of Stop, and any limit of a pull.               *)
(***************************************************************************)
EXTENDS LocalHub, TLAPS, FiniteSetTheorems

-----------------------------------------------------------------------------
(* The inductive invariant. *)

\* Message m can still be read from subscription object g: once it has been
\* marked, or the topic has been cleared of it, that never comes back.
Readable(m, g) == OnTopic(m) /\ id[m] \notin marked[g]

InBatch(l, m) == \E k \in 1..Len(loop[l].batch) : loop[l].batch[k] = m

Used == {l \in Loops : loop[l].pc # "unused"}

\* The loops that have handled message m from subscription object g, or may
\* have: those that are not about to.
Passed(m, g) == {l \in Used : ~ (loop[l].sub = g /\ InBatch(l, m))}

TopicOK ==
  /\ \A i, j \in 1..Len(topic) : topic[i] = topic[j] => i = j
  /\ \A m \in Messages : OnTopic(m) => Published(m)

\* A loop holds messages only while it goes through them, each of them once, and
\* has marked the one it is handling.
LoopOK(l) ==
  /\ loop[l].pc \in {"marking", "handling"} \/ loop[l].batch = <<>>
  /\ loop[l].pc \in {"reading", "marking", "handling"} => loop[l].sub \in Generations
  /\ \A i, j \in 1..Len(loop[l].batch) : loop[l].batch[i] = loop[l].batch[j] => i = j
  /\ \A k \in 1..Len(loop[l].batch) : Published(loop[l].batch[k])
  /\ loop[l].pc = "handling" => ~ Readable(Head(loop[l].batch), loop[l].sub)

LateOK(l) ==
  late[l] = 0 \/ (late[l] = 1 /\ closed /\ loop[l].pc \in {"checking", "marking", "handling", "ended"})

\* A message that can still be read has not been handled, and every loop that is
\* done with it has handled it at most once.
ReceivedOK(m, g) ==
  /\ Readable(m, g) \/ ~ Published(m) => received[m][g] = 0
  /\ received[m][g] <= Cardinality(Passed(m, g))

IInv ==
  /\ TypeOK
  /\ TopicOK
  /\ \A l \in Loops : LoopOK(l) /\ LateOK(l)
  /\ IsFiniteSet(Used)
  /\ \A m \in Messages, g \in Generations : ReceivedOK(m, g)

-----------------------------------------------------------------------------
(* What a pull takes. *)

\* A pull takes messages that can be read, each of them once.
LEMMA PullTakes ==
  ASSUME TypeOK, TopicOK, NEW g \in Generations, NEW batch \in messagesToProcess(g)
  PROVE  /\ batch \in Seq(Messages)
         /\ \A k \in 1..Len(batch) : Readable(batch[k], g)
         /\ \A i, j \in 1..Len(batch) : batch[i] = batch[j] => i = j
<1> DEFINE new == {i \in DOMAIN topic : ~ messageInSubscription(g, topic[i])}
           Rank(i) == Cardinality({j \in new : j <= i})
           n == IF Cardinality(new) < MaxMessages THEN Cardinality(new) ELSE MaxMessages
<1>0. topic \in Seq(Messages) /\ DOMAIN topic = 1..Len(topic) /\ Len(topic) \in Nat
  BY DEF TypeOK, ClientTypeOK
<1>1. n \in Nat
  <2>1. IsFiniteSet(1..Len(topic))
    BY <1>0, FS_Interval
  <2>2. new \in SUBSET (1..Len(topic))
    BY <1>0
  <2>3. IsFiniteSet(new)
    BY <2>1, <2>2, FS_Subset
  <2> HIDE DEF new
  <2>4. Cardinality(new) \in Nat
    BY <2>3, FS_CardinalityType
  <2> QED
    BY <2>4, ClientAssumption
<1>2. PICK at \in [1..n -> new] :
        /\ \A k \in 1..n : Rank(at[k]) = k
        /\ batch = [k \in 1..n |-> topic[at[k]]]
  BY DEF messagesToProcess
<1> HIDE DEF n, Rank
<1>3. \A k \in 1..n : at[k] \in 1..Len(topic) /\ id[topic[at[k]]] \notin marked[g]
  BY <1>0, <1>2 DEF messageInSubscription
<1>4. \A k \in 1..n : topic[at[k]] \in Messages
  BY <1>0, <1>3
<1>5. batch \in Seq(Messages) /\ Len(batch) = n
  BY <1>1, <1>2, <1>4
<1>6. \A k \in 1..n : Readable(batch[k], g)
  BY <1>2, <1>3 DEF Readable, OnTopic
<1>7. ASSUME NEW i \in 1..n, NEW j \in 1..n, batch[i] = batch[j]
      PROVE  i = j
  <2>1. at[i] = at[j]
    BY <1>2, <1>3, <1>7 DEF TopicOK
  <2> QED
    BY <1>2, <2>1
<1> QED
  BY <1>5, <1>6, <1>7

LEMMA BatchFacts ==
  ASSUME NEW b \in Seq(Messages), b # <<>>
  PROVE  /\ Len(b) \in Nat /\ Len(b) > 0
         /\ Head(b) = b[1] /\ Head(b) \in Messages
         /\ Tail(b) \in Seq(Messages) /\ Len(Tail(b)) = Len(b) - 1
         /\ \A k \in 1..Len(Tail(b)) : Tail(b)[k] = b[k + 1]
         /\ Tail(b) = <<>> <=> Len(b) = 1
<1>1. /\ Len(b) \in Nat /\ Len(b) > 0
      /\ Head(b) = b[1] /\ Head(b) \in Messages
      /\ Tail(b) \in Seq(Messages) /\ Len(Tail(b)) = Len(b) - 1
      /\ \A k \in 1..Len(Tail(b)) : Tail(b)[k] = b[k + 1]
  OBVIOUS
<1>2. Tail(b) = <<>> <=> Len(Tail(b)) = 0
  BY <1>1
<1>3. Tail(b) = <<>> <=> Len(b) = 1
  BY <1>1, <1>2
<1> QED
  BY <1>1, <1>3

-----------------------------------------------------------------------------
(* What a step does to a consumption loop. *)

\* The steps that leave the loop without messages.
Quick(l) ==
  \/ Started(l) \/ Check(l) \/ Lookup(l) \/ Backoff(l)

LEMMA QuickDoes ==
  ASSUME TypeOK, NEW l \in Loops, LoopOK(l), Quick(l)
  PROVE  /\ loop' \in [Loops -> Loop]
         /\ \A k \in Loops \ {l} : loop'[k] = loop[k]
         /\ loop[l].batch = <<>> /\ loop'[l].batch = <<>>
         /\ loop'[l].pc \in {"checking", "pulling", "reading", "backoff", "ended"}
         /\ loop'[l].pc = "reading" => loop'[l].sub \in Generations
         /\ UNCHANGED <<clientVars, closed, ended, stops, received, late>>
<1>0. /\ loop \in [Loops -> Loop] /\ loop[l] \in Loop
      /\ current \in 0..MaxGenerations /\ MaxGenerations \in Nat
  BY ClientAssumption DEF TypeOK, ClientTypeOK
<1>1. \A pc \in {"checking", "pulling", "ended"} : [loop[l] EXCEPT !.pc = pc] \in Loop
  BY <1>0 DEF Loop
<1>2. CASE Started(l) \/ Check(l) \/ Backoff(l)
  <2>1. PICK pc \in {"checking", "pulling", "ended"} : loop' = [loop EXCEPT ![l].pc = pc]
    BY <1>2 DEF Started, Check, Backoff, Goto
  <2>2. loop[l].batch = <<>>
    BY <1>2 DEF Started, Check, Backoff, AtPc, LoopOK
  <2>3. loop' = [loop EXCEPT ![l] = [loop[l] EXCEPT !.pc = pc]]
    BY <1>0, <2>1
  <2> DEFINE e == [loop[l] EXCEPT !.pc = pc]
  <2>4. e \in Loop /\ e.pc = pc /\ e.batch = loop[l].batch
    BY <1>0, <1>1 DEF Loop
  <2> HIDE DEF e
  <2>5. /\ loop' \in [Loops -> Loop] /\ loop'[l] = e
        /\ \A k \in Loops \ {l} : loop'[k] = loop[k]
    BY <1>0, <2>3, <2>4 DEF e
  <2> QED
    BY <1>2, <2>2, <2>4, <2>5 DEF Started, Check, Backoff
<1>3. CASE Lookup(l)
  <2> DEFINE pc == IF current = 0 THEN "backoff" ELSE "reading"
             f == [loop[l] EXCEPT !.sub = current]
             e == [f EXCEPT !.pc = pc]
  <2>1. loop[l].batch = <<>>
    BY <1>3 DEF Lookup, AtPc, LoopOK
  <2>2. f \in Loop /\ f.sub = current /\ f.batch = loop[l].batch
    BY <1>0 DEF Loop
  <2>3. loop' = [loop EXCEPT ![l] = e]
    BY <1>0, <1>3 DEF Lookup
  <2> HIDE DEF f
  <2>4. e \in Loop /\ e.pc = pc /\ e.sub = current /\ e.batch = loop[l].batch
    BY <2>2 DEF Loop
  <2> HIDE DEF e
  <2>5. /\ loop' \in [Loops -> Loop] /\ loop'[l] = e
        /\ \A k \in Loops \ {l} : loop'[k] = loop[k]
    BY <1>0, <2>3, <2>4
  <2> QED
    BY <1>0, <1>3, <2>1, <2>4, <2>5 DEF Lookup, Generations
<1> QED
  BY <1>2, <1>3 DEF Quick

LEMMA ReadDoes ==
  ASSUME TypeOK, TopicOK, NEW l \in Loops, LoopOK(l), ReadTopic(l)
  PROVE  /\ loop' \in [Loops -> Loop]
         /\ \A k \in Loops \ {l} : loop'[k] = loop[k]
         /\ loop[l].pc = "reading" /\ loop[l].sub \in Generations /\ loop[l].batch = <<>>
         /\ loop'[l].sub = loop[l].sub
         /\ loop'[l].batch \in Seq(Messages)
         /\ \A k \in 1..Len(loop'[l].batch) : Readable(loop'[l].batch[k], loop[l].sub)
         /\ \A i, j \in 1..Len(loop'[l].batch) :
              loop'[l].batch[i] = loop'[l].batch[j] => i = j
         /\ loop'[l].pc = IF loop'[l].batch = <<>> THEN "checking" ELSE "marking"
         /\ UNCHANGED <<clientVars, running, closed, ended, owner, stops, received>>
<1>0. /\ loop \in [Loops -> Loop] /\ loop[l] \in Loop
      /\ loop[l].pc = "reading" /\ loop[l].sub \in Generations /\ loop[l].batch = <<>>
  BY DEF TypeOK, ReadTopic, AtPc, LoopOK
<1>1. PICK batch \in messagesToProcess(loop[l].sub) :
        loop' = [loop EXCEPT ![l].batch = batch,
                             ![l].pc = IF batch = <<>> THEN "checking" ELSE "marking"]
  BY DEF ReadTopic
<1> DEFINE pc == IF batch = <<>> THEN "checking" ELSE "marking"
           f == [loop[l] EXCEPT !.batch = batch]
           e == [f EXCEPT !.pc = pc]
<1>2. /\ batch \in Seq(Messages)
      /\ \A k \in 1..Len(batch) : Readable(batch[k], loop[l].sub)
      /\ \A i, j \in 1..Len(batch) : batch[i] = batch[j] => i = j
  BY <1>0, PullTakes
<1>3. f \in Loop /\ f.batch = batch /\ f.sub = loop[l].sub
  BY <1>0, <1>2 DEF Loop
<1>4. loop' = [loop EXCEPT ![l] = e]
  BY <1>0, <1>1
<1> HIDE DEF f
<1>5. e \in Loop /\ e.pc = pc /\ e.sub = loop[l].sub /\ e.batch = batch
  BY <1>3 DEF Loop
<1> HIDE DEF e
<1>6. /\ loop' \in [Loops -> Loop] /\ loop'[l] = e
      /\ \A k \in Loops \ {l} : loop'[k] = loop[k]
  BY <1>0, <1>4, <1>5
<1> QED
  BY <1>0, <1>2, <1>5, <1>6 DEF ReadTopic

LEMMA MarkDoes ==
  ASSUME TypeOK, NEW l \in Loops, LoopOK(l), MarkNext(l)
  PROVE  /\ loop' \in [Loops -> Loop]
         /\ \A k \in Loops \ {l} : loop'[k] = loop[k]
         /\ loop[l].pc = "marking" /\ loop[l].batch # <<>> /\ loop[l].sub \in Generations
         /\ loop'[l].sub = loop[l].sub /\ loop'[l].batch = loop[l].batch
         /\ loop'[l].pc = "handling"
         /\ Head(loop[l].batch) \in Messages /\ Published(Head(loop[l].batch))
         /\ \A g \in Generations \ {loop[l].sub} : marked'[g] = marked[g]
         /\ marked'[loop[l].sub] = marked[loop[l].sub] \cup {id[Head(loop[l].batch)]}
         /\ marked' \in [Generations -> SUBSET MessageIds]
         /\ UNCHANGED <<topic, id, current, created, running, closed, ended, owner, stops,
                        received, late>>
<1>0. /\ loop \in [Loops -> Loop] /\ loop[l] \in Loop /\ loop[l].batch \in Seq(Messages)
      /\ loop[l].pc = "marking" /\ loop[l].sub \in Generations /\ loop[l].batch # <<>>
      /\ marked \in [Generations -> SUBSET MessageIds]
      /\ id \in [Messages -> MessageIds \cup {NoId}]
  BY DEF TypeOK, ClientTypeOK, Loop, MarkNext, AtPc, LoopOK
<1>1. /\ Head(loop[l].batch) \in Messages /\ Published(Head(loop[l].batch))
      /\ id[Head(loop[l].batch)] \in MessageIds
  BY <1>0, BatchFacts DEF LoopOK, Published
<1> DEFINE e == [loop[l] EXCEPT !.pc = "handling"]
<1>2. loop' = [loop EXCEPT ![l] = e]
  BY <1>0 DEF MarkNext, Goto
<1>3. e \in Loop /\ e.pc = "handling" /\ e.sub = loop[l].sub /\ e.batch = loop[l].batch
  BY <1>0 DEF Loop
<1> HIDE DEF e
<1>4. /\ loop' \in [Loops -> Loop] /\ loop'[l] = e
      /\ \A k \in Loops \ {l} : loop'[k] = loop[k]
  BY <1>0, <1>2, <1>3
<1>5. marked' = [marked EXCEPT ![loop[l].sub] = @ \cup {id[Head(loop[l].batch)]}]
  BY DEF MarkNext, Mark
<1>6. /\ marked' \in [Generations -> SUBSET MessageIds]
      /\ \A g \in Generations \ {loop[l].sub} : marked'[g] = marked[g]
      /\ marked'[loop[l].sub] = marked[loop[l].sub] \cup {id[Head(loop[l].batch)]}
  BY <1>0, <1>1, <1>5
<1> QED
  BY <1>0, <1>1, <1>3, <1>4, <1>6 DEF MarkNext, Mark

LEMMA HandleDoes ==
  ASSUME TypeOK, NEW l \in Loops, LoopOK(l), Handle(l)
  PROVE  /\ loop' \in [Loops -> Loop]
         /\ \A k \in Loops \ {l} : loop'[k] = loop[k]
         /\ loop[l].pc = "handling" /\ loop[l].batch # <<>> /\ loop[l].sub \in Generations
         /\ loop[l].batch \in Seq(Messages) /\ Head(loop[l].batch) \in Messages
         /\ ~ Readable(Head(loop[l].batch), loop[l].sub)
         /\ Published(Head(loop[l].batch))
         /\ loop'[l].sub = loop[l].sub /\ loop'[l].batch = Tail(loop[l].batch)
         /\ loop'[l].pc = IF loop'[l].batch = <<>> THEN "checking" ELSE "marking"
         /\ received' \in [Messages -> [Generations -> Nat]]
         /\ \A m \in Messages, g \in Generations :
              received'[m][g] = IF m = Head(loop[l].batch) /\ g = loop[l].sub
                                THEN received[m][g] + 1 ELSE received[m][g]
         /\ UNCHANGED <<clientVars, running, closed, ended, owner, stops, late>>
<1>0. /\ loop \in [Loops -> Loop] /\ loop[l] \in Loop /\ loop[l].batch \in Seq(Messages)
      /\ loop[l].pc = "handling" /\ loop[l].sub \in Generations /\ loop[l].batch # <<>>
      /\ received \in [Messages -> [Generations -> Nat]]
  BY DEF TypeOK, Loop, Handle, AtPc, LoopOK
<1>1. /\ Head(loop[l].batch) \in Messages /\ Published(Head(loop[l].batch))
      /\ Tail(loop[l].batch) \in Seq(Messages)
      /\ Tail(loop[l].batch) = <<>> <=> Len(loop[l].batch) = 1
  <2>1. Published(Head(loop[l].batch))
    BY <1>0, BatchFacts DEF LoopOK
  <2> QED
    BY <1>0, <2>1, BatchFacts
<1> DEFINE pc == IF Len(loop[l].batch) = 1 THEN "checking" ELSE "marking"
           f == [loop[l] EXCEPT !.batch = Tail(@)]
           e == [f EXCEPT !.pc = pc]
<1>2. loop' = [loop EXCEPT ![l] = e]
  BY <1>0 DEF Handle
<1>3. f \in Loop /\ f.batch = Tail(loop[l].batch) /\ f.sub = loop[l].sub
  BY <1>0, <1>1 DEF Loop
<1> HIDE DEF f
<1>4. e \in Loop /\ e.pc = pc /\ e.sub = loop[l].sub /\ e.batch = Tail(loop[l].batch)
  BY <1>3 DEF Loop
<1> HIDE DEF e
<1>5. /\ loop' \in [Loops -> Loop] /\ loop'[l] = e
      /\ \A k \in Loops \ {l} : loop'[k] = loop[k]
  BY <1>0, <1>2, <1>4
<1>6. received' = [received EXCEPT ![Head(loop[l].batch)][loop[l].sub] = @ + 1]
  BY DEF Handle
<1>7. /\ received' \in [Messages -> [Generations -> Nat]]
      /\ \A m \in Messages, g \in Generations :
              received'[m][g] = IF m = Head(loop[l].batch) /\ g = loop[l].sub
                                THEN received[m][g] + 1 ELSE received[m][g]
  BY <1>0, <1>1, <1>6
<1>8. ~ Readable(Head(loop[l].batch), loop[l].sub)
  BY <1>0 DEF LoopOK
<1> QED
  BY <1>0, <1>1, <1>4, <1>5, <1>7, <1>8 DEF Handle

-----------------------------------------------------------------------------
(* What any step does. *)

\* The steps of the owner, and the context's end: they touch no message, no
\* mark and no loop.
Owner == Start \/ Stop \/ Close \/ Stopped \/ Cancel

LEMMA OwnerDoes ==
  ASSUME TypeOK, Owner
  PROVE  /\ UNCHANGED <<topic, id, marked, loop, received, late>>
         /\ created' \in 0..MaxGenerations /\ current' \in {0, created'}
         /\ running' \in BOOLEAN /\ closed' \in BOOLEAN /\ ended' \in BOOLEAN
         /\ owner' \in {"idle", "starting", "closing", "deleting", "panicked"}
         /\ stops' \in 0..MaxStops
         /\ closed => closed'
<1>0. /\ created \in 0..MaxGenerations /\ MaxGenerations \in Nat /\ current \in {0, created}
      /\ running \in BOOLEAN /\ closed \in BOOLEAN /\ ended \in BOOLEAN
      /\ owner \in {"idle", "starting", "closing", "deleting", "panicked"}
      /\ stops \in 0..MaxStops /\ MaxStops \in Nat
  BY ClientAssumption, StopsAssumption DEF TypeOK, ClientTypeOK
<1>1. CASE Start
  BY <1>0, <1>1 DEF Start, CreateHubSubscription
<1>2. CASE Stopped
  BY <1>0, <1>2 DEF Stopped, DeleteHubSubscription
<1>3. CASE Stop
  <2>1. stops' \in 0..MaxStops
    BY <1>0, <1>3 DEF Stop
  <2>2. running' = FALSE /\ owner' = "closing"
    BY <1>3 DEF Stop
  <2>3. UNCHANGED <<topic, id, current, created, marked, closed, ended, loop, received, late>>
    BY <1>3 DEF Stop, clientVars
  <2> QED
    BY <1>0, <2>1, <2>2, <2>3
<1>4. CASE Close
  BY <1>0, <1>4 DEF Close, clientVars
<1>5. CASE Cancel
  BY <1>0, <1>5 DEF Cancel, clientVars
<1> QED
  BY <1>1, <1>2, <1>3, <1>4, <1>5 DEF Owner

LEMMA IngestDoes ==
  ASSUME TypeOK, TopicOK, NEW m \in Messages, Ingest(m)
  PROVE  /\ ~ Published(m) /\ Published(m)'
         /\ \A k \in Messages \ {m} : id'[k] = id[k]
         /\ id' \in [Messages -> MessageIds \cup {NoId}]
         /\ topic' \in Seq(Messages)
         /\ \A i, j \in 1..Len(topic') : topic'[i] = topic'[j] => i = j
         /\ \A k : OnTopic(k)' <=> OnTopic(k) \/ k = m
         /\ UNCHANGED <<current, created, marked, running, closed, ended, owner, stops, loop,
                        received, late>>
<1>0. id \in [Messages -> MessageIds \cup {NoId}] /\ topic \in Seq(Messages)
  BY DEF TypeOK, ClientTypeOK
<1>1. PICK i \in MessageIds : id' = [id EXCEPT ![m] = i]
  BY DEF Ingest, PublishEvent
<1>2. /\ ~ Published(m) /\ Published(m)' /\ id' \in [Messages -> MessageIds \cup {NoId}]
      /\ \A k \in Messages \ {m} : id'[k] = id[k]
  BY <1>0, <1>1, ClientAssumption DEF Ingest, PublishEvent, Published
<1>3. topic' = Append(topic, m)
  BY DEF Ingest, PublishEvent
<1>4. /\ topic' \in Seq(Messages) /\ Len(topic) \in Nat /\ Len(topic') = Len(topic) + 1
      /\ topic'[Len(topic) + 1] = m
      /\ \A j \in 1..Len(topic) : topic'[j] = topic[j]
  BY <1>0, <1>3
<1>5. ~ OnTopic(m)
  BY <1>2 DEF TopicOK
<1>6. \A k : OnTopic(k)' <=> OnTopic(k) \/ k = m
  BY <1>4 DEF OnTopic
<1>7. \A j, k \in 1..Len(topic') : topic'[j] = topic'[k] => j = k
  BY <1>4, <1>5 DEF OnTopic, TopicOK
<1> QED
  BY <1>2, <1>4, <1>6, <1>7 DEF Ingest, PublishEvent

LEMMA ClearDoes ==
  ASSUME TypeOK, Clear
  PROVE  /\ topic' = <<>> /\ \A m : ~ OnTopic(m)'
         /\ marked' \in [Generations -> SUBSET MessageIds]
         /\ UNCHANGED <<id, current, created, running, closed, ended, owner, stops, loop,
                        received, late>>
BY DEF TypeOK, ClientTypeOK, Clear, ClearAllMessages, OnTopic

LEMMA NextIs ==
  ASSUME [Next]_vars
  PROVE  \/ UNCHANGED vars
         \/ Owner
         \/ Clear
         \/ \E m \in Messages : Ingest(m)
         \/ \E l \in Loops : Quick(l) \/ ReadTopic(l) \/ MarkNext(l) \/ Handle(l)
BY DEF Next, Owner, Quick, LoopStep

-----------------------------------------------------------------------------
(* The invariant, part by part. *)

LEMMA StepKeepsType == IInv /\ [Next]_vars => TypeOK'
<1> SUFFICES ASSUME IInv, [Next]_vars PROVE TypeOK'
  OBVIOUS
<1>0. TypeOK /\ TopicOK /\ \A l \in Loops : LoopOK(l)
  BY DEF IInv
<1>1. CASE UNCHANGED vars
  BY <1>0, <1>1 DEF vars, clientVars, TypeOK, ClientTypeOK
<1>2. CASE Owner
  BY <1>0, <1>2, OwnerDoes DEF TypeOK, ClientTypeOK
<1>3. CASE Clear
  <2>1. topic' \in Seq(Messages)
    BY <1>0, <1>3, ClearDoes
  <2> QED
    BY <1>0, <1>3, <2>1, ClearDoes DEF TypeOK, ClientTypeOK
<1>4. ASSUME NEW m \in Messages, Ingest(m)
      PROVE  TypeOK'
  BY <1>0, <1>4, IngestDoes DEF TypeOK, ClientTypeOK
<1>5. ASSUME NEW l \in Loops, Quick(l)
      PROVE  TypeOK'
  <2>1. \A k \in Loops : loop'[k].pc \in {"marking", "handling"} => loop'[k].batch # <<>>
    BY <1>0, <1>5, QuickDoes DEF TypeOK
  <2>2. running' \in BOOLEAN /\ owner' \in {"idle", "starting", "closing", "deleting", "panicked"}
    BY <1>0, <1>5 DEF Quick, Started, Check, Lookup, Backoff, TypeOK
  <2> QED
    BY <1>0, <1>5, <2>1, <2>2, QuickDoes DEF TypeOK, ClientTypeOK, clientVars
<1>6. ASSUME NEW l \in Loops, ReadTopic(l)
      PROVE  TypeOK'
  <2>1. \A k \in Loops : loop'[k].pc \in {"marking", "handling"} => loop'[k].batch # <<>>
    BY <1>0, <1>6, ReadDoes DEF TypeOK
  <2>2. late' \in [Loops -> Nat]
    BY <1>0, <1>6 DEF ReadTopic, TypeOK
  <2> QED
    BY <1>0, <1>6, <2>1, <2>2, ReadDoes DEF TypeOK, ClientTypeOK, clientVars
<1>7. ASSUME NEW l \in Loops, MarkNext(l)
      PROVE  TypeOK'
  <2>1. \A k \in Loops : loop'[k].pc \in {"marking", "handling"} => loop'[k].batch # <<>>
    BY <1>0, <1>7, MarkDoes DEF TypeOK
  <2> QED
    BY <1>0, <1>7, <2>1, MarkDoes DEF TypeOK, ClientTypeOK
<1>8. ASSUME NEW l \in Loops, Handle(l)
      PROVE  TypeOK'
  <2>1. \A k \in Loops : loop'[k].pc \in {"marking", "handling"} => loop'[k].batch # <<>>
    BY <1>0, <1>8, HandleDoes DEF TypeOK
  <2> QED
    BY <1>0, <1>8, <2>1, HandleDoes DEF TypeOK, ClientTypeOK, clientVars
<1> QED
  BY <1>1, <1>2, <1>3, <1>4, <1>5, <1>6, <1>7, <1>8, NextIs

\* A message stays published under its ID.
LEMMA StaysPublished ==
  ASSUME IInv, [Next]_vars, NEW m \in Messages, Published(m)
  PROVE  Published(m)' /\ id'[m] = id[m]
<1>0. TypeOK /\ TopicOK /\ \A l \in Loops : LoopOK(l)
  BY DEF IInv
<1>1. CASE UNCHANGED id
  BY <1>1 DEF Published
<1>2. ASSUME NEW k \in Messages, Ingest(k)
      PROVE  Published(m)' /\ id'[m] = id[m]
  <2>1. m # k /\ id'[m] = id[m]
    BY <1>0, <1>2, IngestDoes
  <2> QED
    BY <2>1 DEF Published
<1>3. CASE Owner \/ Clear
  BY <1>0, <1>1, <1>3, OwnerDoes, ClearDoes
<1>4. ASSUME NEW l \in Loops, Quick(l) \/ ReadTopic(l) \/ MarkNext(l) \/ Handle(l)
      PROVE  UNCHANGED id
  BY <1>4 DEF Quick, Started, Check, Lookup, Backoff, ReadTopic, MarkNext, Mark, Handle,
              clientVars
<1> QED
  BY <1>1, <1>2, <1>3, <1>4, NextIs DEF vars, clientVars

\* What could not be read any more never can be again.
LEMMA GoneForGood ==
  ASSUME IInv, [Next]_vars, NEW m \in Messages, NEW g \in Generations, Published(m),
         ~ Readable(m, g)
  PROVE  ~ Readable(m, g)'
<1>0. TypeOK /\ TopicOK /\ \A l \in Loops : LoopOK(l)
  BY DEF IInv
<1>1. CASE UNCHANGED <<topic, id, marked>>
  BY <1>1 DEF Readable, OnTopic
<1>2. CASE Clear
  BY <1>0, <1>2, ClearDoes DEF Readable
<1>3. ASSUME NEW k \in Messages, Ingest(k)
      PROVE  ~ Readable(m, g)'
  <2>1. m # k /\ id'[m] = id[m]
    BY <1>0, <1>3, IngestDoes
  <2> QED
    BY <1>0, <1>3, <2>1, IngestDoes DEF Readable
<1>4. ASSUME NEW l \in Loops, MarkNext(l)
      PROVE  ~ Readable(m, g)'
  <2>1. marked[g] \subseteq marked'[g] /\ UNCHANGED <<topic, id>>
    BY <1>0, <1>4, MarkDoes
  <2> QED
    BY <2>1 DEF Readable, OnTopic
<1>5. CASE Owner
  BY <1>0, <1>1, <1>5, OwnerDoes
<1>6. ASSUME NEW l \in Loops, Quick(l) \/ ReadTopic(l) \/ Handle(l)
      PROVE  UNCHANGED <<topic, id, marked>>
  BY <1>0, <1>6 DEF Quick, Started, Check, Lookup, Backoff, ReadTopic, Handle, clientVars
<1> QED
  BY <1>1, <1>2, <1>3, <1>4, <1>5, <1>6, NextIs DEF vars, clientVars

LEMMA StepKeepsTopic == IInv /\ [Next]_vars => TopicOK'
<1> SUFFICES ASSUME IInv, [Next]_vars PROVE TopicOK'
  OBVIOUS
<1>0. TypeOK /\ TopicOK /\ \A l \in Loops : LoopOK(l)
  BY DEF IInv
<1>1. CASE UNCHANGED <<topic, id>>
  BY <1>0, <1>1 DEF TopicOK, OnTopic, Published
<1>2. CASE Clear
  BY <1>0, <1>2, ClearDoes DEF TopicOK
<1>3. ASSUME NEW m \in Messages, Ingest(m)
      PROVE  TopicOK'
  <2>1. \A k \in Messages : OnTopic(k)' => Published(k)'
    BY <1>0, <1>3, IngestDoes DEF TopicOK, Published
  <2> QED
    BY <1>0, <1>3, <2>1, IngestDoes DEF TopicOK
<1>4. CASE Owner
  BY <1>0, <1>1, <1>4, OwnerDoes
<1>5. ASSUME NEW l \in Loops, Quick(l) \/ ReadTopic(l) \/ MarkNext(l) \/ Handle(l)
      PROVE  UNCHANGED <<topic, id>>
  BY <1>0, <1>5 DEF Quick, Started, Check, Lookup, Backoff, ReadTopic, MarkNext, Mark,
                    Handle, clientVars
<1> QED
  BY <1>1, <1>2, <1>3, <1>4, <1>5, NextIs DEF vars, clientVars

\* A loop that a step leaves alone stays in order.
LEMMA LoopStays ==
  ASSUME IInv, [Next]_vars, NEW l \in Loops, loop'[l] = loop[l]
  PROVE  LoopOK(l)'
<1>0. /\ LoopOK(l) /\ loop[l] \in Loop /\ loop[l].batch \in Seq(Messages)
      /\ loop[l].pc \in {"marking", "handling"} => loop[l].batch # <<>>
  BY DEF IInv, TypeOK, Loop
<1>1. \A k \in 1..Len(loop[l].batch) : Published(loop[l].batch[k])'
  BY <1>0, StaysPublished DEF LoopOK
<1>2. loop[l].pc = "handling" => ~ Readable(Head(loop[l].batch), loop[l].sub)'
  <2> SUFFICES ASSUME loop[l].pc = "handling"
               PROVE  ~ Readable(Head(loop[l].batch), loop[l].sub)'
    OBVIOUS
  <2>1. Head(loop[l].batch) \in Messages /\ loop[l].sub \in Generations
    BY <1>0, BatchFacts DEF LoopOK
  <2>2. Published(Head(loop[l].batch))
    BY <1>0, BatchFacts DEF LoopOK
  <2>3. ~ Readable(Head(loop[l].batch), loop[l].sub)
    BY <1>0 DEF LoopOK
  <2>4. \A m \in Messages, g \in Generations :
          Published(m) /\ ~ Readable(m, g) => ~ Readable(m, g)'
    BY GoneForGood
  <2>5. ~ (OnTopic(Head(loop[l].batch))' /\ id'[Head(loop[l].batch)] \notin marked'[loop[l].sub])
    BY <2>1, <2>2, <2>3, <2>4 DEF Readable
  <2> QED
    BY <2>5 DEF Readable
<1> QED
  BY <1>0, <1>1, <1>2 DEF LoopOK

LEMMA StepKeepsLoops == IInv /\ [Next]_vars => \A l \in Loops : LoopOK(l)'
<1> SUFFICES ASSUME IInv, [Next]_vars, NEW l \in Loops PROVE LoopOK(l)'
  OBVIOUS
<1>0. TypeOK /\ TopicOK /\ \A k \in Loops : LoopOK(k)
  BY DEF IInv
<1>1. CASE loop' = loop
  BY <1>1, LoopStays
<1>2. CASE Owner \/ Clear
  BY <1>0, <1>1, <1>2, OwnerDoes, ClearDoes
<1>3. ASSUME NEW m \in Messages, Ingest(m)
      PROVE  LoopOK(l)'
  BY <1>0, <1>1, <1>3, IngestDoes
<1>4. ASSUME NEW k \in Loops, k # l, Quick(k) \/ ReadTopic(k) \/ MarkNext(k) \/ Handle(k)
      PROVE  LoopOK(l)'
  <2>1. loop'[l] = loop[l]
    BY <1>0, <1>4, QuickDoes, ReadDoes, MarkDoes, HandleDoes
  <2> QED
    BY <2>1, LoopStays
<1>5. CASE Quick(l)
  BY <1>0, <1>5, QuickDoes DEF LoopOK
<1>6. CASE ReadTopic(l)
  <2>1. \A k \in 1..Len(loop'[l].batch) : id'[loop'[l].batch[k]] # NoId
    <3> SUFFICES ASSUME NEW k \in 1..Len(loop'[l].batch)
                 PROVE  id'[loop'[l].batch[k]] # NoId
      OBVIOUS
    <3>1. loop'[l].batch[k] \in Messages /\ OnTopic(loop'[l].batch[k])
      BY <1>0, <1>6, ReadDoes DEF Readable
    <3>2. Published(loop'[l].batch[k]) /\ id' = id
      BY <1>0, <1>6, <3>1, ReadDoes DEF TopicOK, clientVars
    <3> QED
      BY <3>2 DEF Published
  <2>2. /\ loop'[l].sub = loop[l].sub /\ loop[l].sub \in Generations
        /\ loop'[l].pc = IF loop'[l].batch = <<>> THEN "checking" ELSE "marking"
        /\ \A i, j \in 1..Len(loop'[l].batch) :
             loop'[l].batch[i] = loop'[l].batch[j] => i = j
    BY <1>0, <1>6, ReadDoes
  <2> QED
    BY <2>1, <2>2 DEF LoopOK, Published
<1>7. CASE MarkNext(l)
  <2> DEFINE m == Head(loop[l].batch)
  <2>1. /\ UNCHANGED <<topic, id>> /\ loop'[l].batch = loop[l].batch
        /\ loop'[l].sub = loop[l].sub /\ loop'[l].pc = "handling"
        /\ loop[l].sub \in Generations
        /\ marked'[loop[l].sub] = marked[loop[l].sub] \cup {id[m]}
    BY <1>0, <1>7, MarkDoes
  <2>2. ~ Readable(Head(loop[l].batch), loop[l].sub)'
    BY <2>1 DEF Readable
  <2>3. \A k \in 1..Len(loop[l].batch) : Published(loop[l].batch[k])'
    BY <1>0, <2>1 DEF LoopOK, Published
  <2> QED
    BY <1>0, <2>1, <2>2, <2>3 DEF LoopOK
<1>8. CASE Handle(l)
  <2> DEFINE b == loop[l].batch
  <2>1. /\ UNCHANGED clientVars /\ loop'[l].batch = Tail(b) /\ loop'[l].sub = loop[l].sub
        /\ loop'[l].pc = IF Tail(b) = <<>> THEN "checking" ELSE "marking"
        /\ b \in Seq(Messages) /\ b # <<>> /\ loop[l].sub \in Generations
    BY <1>0, <1>8, HandleDoes
  <2>2. /\ \A i, j \in 1..Len(b) : b[i] = b[j] => i = j
        /\ \A k \in 1..Len(b) : Published(b[k])
    BY <1>0 DEF LoopOK
  <2>3. /\ Len(Tail(b)) = Len(b) - 1 /\ Len(b) \in Nat
        /\ \A k \in 1..Len(Tail(b)) : Tail(b)[k] = b[k + 1]
    BY <2>1, BatchFacts
  <2> HIDE DEF b
  <2>4. \A i, j \in 1..Len(Tail(b)) : Tail(b)[i] = Tail(b)[j] => i = j
    BY <2>2, <2>3
  <2>5. \A k \in 1..Len(Tail(b)) : id'[Tail(b)[k]] # NoId
    BY <2>1, <2>2, <2>3 DEF Published, clientVars
  <2> QED
    BY <2>1, <2>4, <2>5 DEF LoopOK, Published
<1> QED
  BY <1>1, <1>2, <1>3, <1>4, <1>5, <1>6, <1>7, <1>8, NextIs DEF vars

LEMMA StepKeepsLate == IInv /\ [Next]_vars => \A l \in Loops : LateOK(l)'
<1> SUFFICES ASSUME IInv, [Next]_vars, NEW l \in Loops PROVE LateOK(l)'
  OBVIOUS
<1>0. /\ TypeOK /\ TopicOK /\ \A k \in Loops : LoopOK(k) /\ LateOK(l)
      /\ late \in [Loops -> Nat]
  BY DEF IInv, TypeOK
<1>1. CASE loop'[l] = loop[l] /\ late'[l] = late[l] /\ (closed => closed')
  BY <1>0, <1>1 DEF LateOK
<1>2. CASE Owner \/ Clear
  BY <1>0, <1>1, <1>2, OwnerDoes, ClearDoes
<1>3. ASSUME NEW m \in Messages, Ingest(m)
      PROVE  LateOK(l)'
  BY <1>0, <1>1, <1>3, IngestDoes
<1>4. ASSUME NEW k \in Loops, k # l, Quick(k) \/ ReadTopic(k) \/ MarkNext(k) \/ Handle(k)
      PROVE  LateOK(l)'
  <2>1. loop'[l] = loop[l] /\ closed' = closed
    BY <1>0, <1>4, QuickDoes, ReadDoes, MarkDoes, HandleDoes
  <2>2. late'[l] = late[l]
    BY <1>0, <1>4, QuickDoes, MarkDoes, HandleDoes DEF ReadTopic
  <2> QED
    BY <1>1, <2>1, <2>2
<1>5. CASE Quick(l)
  <2>1. late' = late /\ closed' = closed
    BY <1>0, <1>5, QuickDoes
  <2>2. CASE late[l] = 0
    BY <2>1, <2>2 DEF LateOK
  <2>3. CASE /\ late[l] = 1 /\ closed
             /\ loop[l].pc \in {"checking", "marking", "handling", "ended"}
    <3>1. Check(l)
      BY <1>5, <2>3 DEF Quick, Started, Lookup, Backoff, AtPc
    <3>2. loop'[l].pc = "ended"
      BY <1>0, <2>3, <3>1 DEF Check, Goto, Told, TypeOK, Loop
    <3> QED
      BY <2>1, <2>3, <3>2 DEF LateOK
  <2> QED
    BY <1>0, <2>2, <2>3 DEF LateOK
<1>6. CASE ReadTopic(l)
  <2>1. /\ loop[l].pc = "reading" /\ loop'[l].pc \in {"checking", "marking"}
        /\ closed' = closed
    BY <1>0, <1>6, ReadDoes
  <2>2. late[l] = 0
    BY <1>0, <2>1 DEF LateOK
  <2>3. late'[l] = 0 \/ (late'[l] = 1 /\ closed)
    BY <1>0, <1>6, <2>2 DEF ReadTopic
  <2> QED
    BY <2>1, <2>3 DEF LateOK
<1>7. CASE MarkNext(l) \/ Handle(l)
  <2>1. /\ loop'[l].pc \in {"checking", "marking", "handling"}
        /\ late' = late /\ closed' = closed
    BY <1>0, <1>7, MarkDoes, HandleDoes
  <2> QED
    BY <1>0, <2>1 DEF LateOK
<1> QED
  BY <1>1, <1>2, <1>3, <1>4, <1>5, <1>6, <1>7, NextIs DEF vars

-----------------------------------------------------------------------------
(* How often a message is handled. *)

\* The loops that have been started only become more, one at a time.
LEMMA UsedGrows ==
  ASSUME IInv, [Next]_vars
  PROVE  /\ Used \subseteq Used'
         /\ IsFiniteSet(Used')
<1>0. /\ TypeOK /\ TopicOK /\ IsFiniteSet(Used)
      /\ \A k \in Loops : LoopOK(k)
  BY DEF IInv
<1>1. CASE loop' = loop
  BY <1>0, <1>1 DEF Used
<1>2. CASE Owner \/ Clear
  BY <1>0, <1>1, <1>2, OwnerDoes, ClearDoes
<1>3. ASSUME NEW m \in Messages, Ingest(m)
      PROVE  loop' = loop
  BY <1>0, <1>3, IngestDoes
<1>4. ASSUME NEW l \in Loops, Quick(l) \/ ReadTopic(l) \/ MarkNext(l) \/ Handle(l)
      PROVE  Used \subseteq Used' /\ IsFiniteSet(Used')
  <2>1. /\ \A k \in Loops \ {l} : loop'[k] = loop[k]
        /\ loop'[l].pc # "unused"
    BY <1>0, <1>4, QuickDoes, ReadDoes, MarkDoes, HandleDoes
  <2>2. Used' = Used \cup {l}
    BY <2>1 DEF Used
  <2> QED
    BY <1>0, <2>2, FS_AddElement
<1> QED
  BY <1>1, <1>2, <1>3, <1>4, NextIs DEF vars

\* A message is handled only by a loop that has it at the head of its batch, and
\* that could not be read any more.
LEMMA ReceivedGrows ==
  ASSUME IInv, [Next]_vars, NEW m \in Messages, NEW g \in Generations
  PROVE  \/ received'[m][g] = received[m][g]
         \/ \E l \in Loops : /\ Handle(l) /\ m = Head(loop[l].batch) /\ g = loop[l].sub
                             /\ received'[m][g] = received[m][g] + 1
                             /\ Published(m) /\ ~ Readable(m, g)
<1>0. TypeOK /\ TopicOK /\ \A k \in Loops : LoopOK(k)
  BY DEF IInv
<1>1. CASE Owner \/ Clear
  BY <1>0, <1>1, OwnerDoes, ClearDoes
<1>2. ASSUME NEW k \in Messages, Ingest(k)
      PROVE  received' = received
  BY <1>0, <1>2, IngestDoes
<1>3. ASSUME NEW l \in Loops, Quick(l) \/ ReadTopic(l) \/ MarkNext(l)
      PROVE  received' = received
  BY <1>0, <1>3, QuickDoes, ReadDoes, MarkDoes
<1>4. ASSUME NEW l \in Loops, Handle(l)
      PROVE  \/ received'[m][g] = received[m][g]
             \/ /\ m = Head(loop[l].batch) /\ g = loop[l].sub
                /\ received'[m][g] = received[m][g] + 1
                /\ Published(m) /\ ~ Readable(m, g)
  BY <1>0, <1>4, HandleDoes
<1> QED
  BY <1>1, <1>2, <1>3, <1>4, NextIs DEF vars

\* A loop that has passed a message does not get it again, unless the message
\* could still be read.
LEMMA PassedGrows ==
  ASSUME IInv, [Next]_vars, NEW m \in Messages, NEW g \in Generations, ~ Readable(m, g)
  PROVE  Passed(m, g) \subseteq Passed(m, g)'
<1>0. /\ TypeOK /\ TopicOK /\ \A k \in Loops : LoopOK(k)
      /\ loop \in [Loops -> Loop]
  BY DEF IInv, TypeOK
<1>1. SUFFICES ASSUME NEW l \in Loops, l \in Passed(m, g), loop'[l] # loop[l]
               PROVE  l \in Passed(m, g)'
  <2>1. \A l \in Used : l \in Loops /\ l \in Used'
    BY UsedGrows DEF Used
  <2>2. \A l \in Used : loop'[l] = loop[l] => (InBatch(l, m)' <=> InBatch(l, m))
    BY DEF InBatch
  <2> QED
    BY <2>1, <2>2 DEF Passed
<1>2. l \in Used' /\ ~ (loop[l].sub = g /\ InBatch(l, m))
  BY <1>1, UsedGrows DEF Passed
<1>3. ~ (Owner \/ Clear)
  BY <1>0, <1>1, OwnerDoes, ClearDoes
<1>4. ~ \E k \in Messages : Ingest(k)
  BY <1>0, <1>1, IngestDoes
<1>5. ~ \E k \in Loops \ {l} : Quick(k) \/ ReadTopic(k) \/ MarkNext(k) \/ Handle(k)
  BY <1>0, <1>1, QuickDoes, ReadDoes, MarkDoes, HandleDoes
<1>6. CASE Quick(l)
  <2>1. loop'[l].batch = <<>>
    BY <1>0, <1>6, QuickDoes
  <2>2. ~ InBatch(l, m)'
    BY <2>1 DEF InBatch
  <2> QED
    BY <1>2, <2>2 DEF Passed
<1>7. CASE ReadTopic(l)
  <2>1. /\ loop'[l].sub = loop[l].sub
        /\ \A k \in 1..Len(loop'[l].batch) : Readable(loop'[l].batch[k], loop[l].sub)
    BY <1>0, <1>7, ReadDoes
  <2>2. ~ (loop'[l].sub = g /\ InBatch(l, m)')
    BY <2>1 DEF InBatch
  <2> QED
    BY <1>2, <2>2 DEF Passed
<1>8. CASE MarkNext(l)
  <2>1. loop'[l].sub = loop[l].sub /\ loop'[l].batch = loop[l].batch
    BY <1>0, <1>8, MarkDoes
  <2> QED
    BY <1>2, <2>1 DEF Passed, InBatch
<1>9. CASE Handle(l)
  <2>1. /\ loop'[l].sub = loop[l].sub /\ loop'[l].batch = Tail(loop[l].batch)
        /\ loop[l].batch \in Seq(Messages) /\ loop[l].batch # <<>>
    BY <1>0, <1>9, HandleDoes
  <2>2. InBatch(l, m)' => InBatch(l, m)
    BY <2>1, BatchFacts DEF InBatch
  <2> QED
    BY <1>2, <2>1, <2>2 DEF Passed
<1> QED
  BY <1>1, <1>3, <1>4, <1>5, <1>6, <1>7, <1>8, <1>9, NextIs DEF vars

\* The loop that handles a message passes it with that.
LEMMA HandlerPasses ==
  ASSUME IInv, [Next]_vars, NEW l \in Loops, Handle(l), NEW m \in Messages,
         NEW g \in Generations, m = Head(loop[l].batch), g = loop[l].sub
  PROVE  l \notin Passed(m, g) /\ l \in Passed(m, g)'
<1> DEFINE b == loop[l].batch
<1>0. LoopOK(l) /\ TypeOK
  BY DEF IInv
<1>1. /\ b \in Seq(Messages) /\ b # <<>> /\ loop'[l].batch = Tail(b) /\ loop'[l].sub = g
      /\ loop'[l].pc # "unused" /\ loop[l].pc # "unused"
  BY <1>0, HandleDoes
<1>2. /\ Len(b) \in Nat /\ Len(b) > 0 /\ m = b[1] /\ Len(Tail(b)) = Len(b) - 1
      /\ \A k \in 1..Len(Tail(b)) : Tail(b)[k] = b[k + 1]
  BY <1>1, BatchFacts
<1>3. \A i, j \in 1..Len(b) : b[i] = b[j] => i = j
  BY <1>0 DEF LoopOK
<1>4. l \notin Passed(m, g)
  BY <1>2 DEF Passed, InBatch
<1>5. \A k \in 1..Len(Tail(b)) : Tail(b)[k] # m
  BY <1>2, <1>3
<1>6. ~ InBatch(l, m)'
  BY <1>1, <1>5 DEF InBatch
<1> QED
  BY <1>1, <1>4, <1>6 DEF Passed, Used

LEMMA StepKeepsReceived ==
  IInv /\ [Next]_vars => \A m \in Messages, g \in Generations : ReceivedOK(m, g)'
<1> SUFFICES ASSUME IInv, [Next]_vars, NEW m \in Messages, NEW g \in Generations
             PROVE  ReceivedOK(m, g)'
  OBVIOUS
<1> DEFINE P == Passed(m, g)
           n == received[m][g]
<1>0. ReceivedOK(m, g) /\ n \in Nat /\ n' \in Nat
  BY StepKeepsType DEF IInv, TypeOK
<1>1. IsFiniteSet(P) /\ IsFiniteSet(P') /\ Cardinality(P) \in Nat /\ Cardinality(P') \in Nat
  <2>1. P \in SUBSET Used /\ P' \in SUBSET Used'
    BY DEF Passed
  <2>2. IsFiniteSet(Used) /\ IsFiniteSet(Used')
    BY UsedGrows DEF IInv
  <2> HIDE DEF P
  <2>3. IsFiniteSet(P) /\ IsFiniteSet(P')
    BY <2>1, <2>2, FS_Subset
  <2> QED
    BY <2>3, FS_CardinalityType
<1>2. Readable(m, g)' \/ ~ Published(m)' => n' = 0
  <2> SUFFICES ASSUME Readable(m, g)' \/ ~ Published(m)'
               PROVE  n' = 0
    OBVIOUS
  <2>1. Readable(m, g) \/ ~ Published(m)
    BY StaysPublished, GoneForGood
  <2>2. n = 0
    BY <1>0, <2>1 DEF ReceivedOK
  <2>3. n' = n
    BY <2>1, ReceivedGrows
  <2> QED
    BY <2>2, <2>3
<1>3. CASE n' = 0
  BY <1>1, <1>2, <1>3 DEF ReceivedOK
<1>4. CASE n' # 0
  <2>1. ~ Readable(m, g)
    <3>1. Readable(m, g) => n = 0
      BY <1>0 DEF ReceivedOK
    <3>2. Readable(m, g) => n' = n
      BY ReceivedGrows
    <3> QED
      BY <1>4, <3>1, <3>2
  <2>2. P \in SUBSET P'
    BY <2>1, PassedGrows
  <2>3. n <= Cardinality(P)
    BY <1>0 DEF ReceivedOK
  <2>4. CASE n' = n
    <3> HIDE DEF P, n
    <3>1. Cardinality(P) <= Cardinality(P')
      BY <1>1, <2>2, FS_Subset
    <3>2. n' <= Cardinality(P')
      BY <1>0, <1>1, <2>3, <2>4, <3>1
    <3> QED
      BY <1>2, <3>2 DEF ReceivedOK, P, n
  <2>5. ASSUME NEW l \in Loops, Handle(l), m = Head(loop[l].batch), g = loop[l].sub,
               n' = n + 1
        PROVE  ReceivedOK(m, g)'
    <3>1. l \notin P /\ l \in P'
      BY <2>5, HandlerPasses
    <3> HIDE DEF P, n
    <3>2. IsFiniteSet(P \cup {l}) /\ Cardinality(P \cup {l}) = Cardinality(P) + 1
      BY <1>1, <3>1, FS_AddElement
    <3>3. P \cup {l} \in SUBSET P'
      BY <2>2, <3>1
    <3>4. Cardinality(P \cup {l}) <= Cardinality(P')
      BY <1>1, <3>3, FS_Subset
    <3>5. n' <= Cardinality(P')
      BY <1>0, <1>1, <2>3, <2>5, <3>2, <3>4
    <3> QED
      BY <1>2, <3>5 DEF ReceivedOK, P, n
  <2> QED
    BY <2>4, <2>5, ReceivedGrows
<1> QED
  BY <1>3, <1>4

LEMMA InitEstablishes == Init => IInv
<1> SUFFICES ASSUME Init PROVE IInv
  OBVIOUS
<1>1. /\ loop = [l \in Loops |-> Unused] /\ Unused \in Loop
      /\ Unused.pc = "unused" /\ Unused.batch = <<>>
  BY ClientAssumption DEF Init, Unused, Loop
<1>2. topic = <<>> /\ Len(topic) = 0 /\ \A m : ~ OnTopic(m)
  BY DEF Init, ClientInit, OnTopic
<1>3. TypeOK
  <2>1. ClientTypeOK
    BY ClientAssumption, <1>2 DEF Init, ClientInit, ClientTypeOK
  <2>2. stops \in 0..MaxStops
    BY StopsAssumption DEF Init
  <2>3. loop \in [Loops -> Loop] /\ \A l \in Loops : loop[l].pc = "unused"
    BY <1>1
  <2>4. received \in [Messages -> [Generations -> Nat]] /\ late \in [Loops -> Nat]
    BY DEF Init
  <2> QED
    BY <2>1, <2>2, <2>3, <2>4 DEF Init, TypeOK
<1>4. TopicOK
  BY <1>2 DEF TopicOK
<1>5. \A l \in Loops : LoopOK(l) /\ LateOK(l)
  BY <1>1 DEF Init, LoopOK, LateOK
<1>6. Used = {} /\ IsFiniteSet({}) /\ Cardinality({}) = 0
  BY <1>1, FS_EmptySet DEF Used
<1>7. ASSUME NEW m \in Messages, NEW g \in Generations PROVE ReceivedOK(m, g)
  <2>1. received[m][g] = 0
    BY DEF Init
  <2>2. Passed(m, g) = {}
    BY <1>6 DEF Passed
  <2>3. Cardinality(Passed(m, g)) = 0
    BY <1>6, <2>2
  <2> QED
    BY <2>1, <2>3 DEF ReceivedOK
<1> QED
  BY <1>3, <1>4, <1>5, <1>6, <1>7 DEF IInv

-----------------------------------------------------------------------------
(* The theorems. *)

\* IInv is inductive.
THEOREM Invariance == Spec => []IInv
<1>1. IInv /\ [Next]_vars => IInv'
  <2> SUFFICES ASSUME IInv, [Next]_vars PROVE IInv'
    OBVIOUS
  <2> QED
    BY StepKeepsType, StepKeepsTopic, StepKeepsLoops, StepKeepsLate, UsedGrows,
       StepKeepsReceived DEF IInv
<1> QED
  BY InitEstablishes, <1>1, PTL DEF Spec

\* Every variable of the hub and its Pub/Sub client keeps its type.
THEOREM TypeCorrect == Spec => []TypeOK
<1>1. IInv => TypeOK
  BY DEF IInv
<1> QED
  BY <1>1, Invariance, PTL

\* No message of a subscription is handled more often than there are loops.
THEOREM Once == Spec => []OncePerLoop
<1>1. IInv => OncePerLoop
  <2> SUFFICES ASSUME IInv, NEW m \in Messages, NEW g \in Generations
               PROVE  received[m][g] <= Cardinality(Used)
    BY DEF OncePerLoop, Used
  <2>1. IsFiniteSet(Used) /\ Passed(m, g) \in SUBSET Used
    BY DEF IInv, Passed
  <2>2. /\ IsFiniteSet(Passed(m, g)) /\ Cardinality(Passed(m, g)) <= Cardinality(Used)
    BY <2>1, FS_Subset
  <2>3. Cardinality(Passed(m, g)) \in Nat /\ Cardinality(Used) \in Nat
    BY <2>1, <2>2, FS_CardinalityType
  <2>4. received[m][g] \in Nat /\ received[m][g] <= Cardinality(Passed(m, g))
    BY DEF IInv, TypeOK, ReceivedOK
  <2> QED
    BY <2>2, <2>3, <2>4
<1> QED
  BY <1>1, Invariance, PTL

\* A loop reads the topic at most once more after Stop has returned.
THEOREM OnePull == Spec => []OnePullAfterStop
<1>1. IInv => OnePullAfterStop
  BY DEF IInv, LateOK, OnePullAfterStop
<1> QED
  BY <1>1, Invariance, PTL
=============================================================================
