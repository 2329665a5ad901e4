--------------------------- MODULE MCStreamControl ---------------------------
(***************************************************************************)
(* Small instances of StreamControl.  Each program has two goroutines with *)
(* a few of the operations: polls and acknowledgments of two events, or of *)
(* one; polls while the configuration changes; changes of it by both;      *)
(* statuses; subjects, verification and deletion.                          *)
(***************************************************************************)
EXTENDS StreamControl, TLC

Symmetric ==
  Permutations(Callers) \cup Permutations(Events) \cup Permutations(PollPlaces)

Ops(ops) == {cmd \in Commands \cup Deliveries : cmd.op \in ops}

\* One goroutine does these operations, the other one those.
Split(some, others, events) ==
  {[does |-> [c \in Callers |-> IF c = d THEN some ELSE others], events |-> events] :
     d \in Callers}

PollsAndAcks == Ops({"polling", "acknowledging"})

PollSettings == {cmd \in Ops({"configure"}) : cmd.arg = "poll"}

StatusOps == {cmd \in Ops({"setstatus", "getstatus"}) : cmd.arg # "paused"}

SubjectOps == Ops({"add", "remove", "verify", "delete"})

SmallPrograms ==
  Split(Ops({"polling"}), Ops({"acknowledging"}), Events)
  \cup UNION {Split(PollsAndAcks, PollsAndAcks, {e}) : e \in Events}
  \cup UNION {Split(Ops({"polling"}), PollSettings, {e}) : e \in Events}
  \cup UNION {Split(Ops({"polling"}), Ops({"configure"}) \ PollSettings, {e}) : e \in Events}
  \cup Split(PollsAndAcks, Ops({"configure"}), {})
  \cup Split(Ops({"configure"}), Ops({"configure"}), {})
  \cup Split(StatusOps, StatusOps, {})
  \cup Split(SubjectOps, SubjectOps, {})
=============================================================================
