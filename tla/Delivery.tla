------------------------------- MODULE Delivery ------------------------------
(***************************************************************************)
(* What a polled stream promises a program about its events, without       *)
(* requests, connections or goroutines.  An event that is offered may be   *)
(* given to the program any number of times.  Some are held first, to be   *)
(* acknowledged on the way; what is held is given in the end, unless the   *)
(* program ends, and only then is it dropped.  The transmitter takes an    *)
(* event for acknowledged, for good, if it was given, held or dropped.     *)
(* PollStream implements this specification.                               *)
(***************************************************************************)
CONSTANT Events

VARIABLES
  offered,  \* events the transmitter has offered
  held,     \* events that are being acknowledged before they are given
  given,    \* events the program has got
  dropped,  \* events that were held when a program ended
  acked     \* events the transmitter holds for acknowledged

vars == <<offered, held, given, dropped, acked>>

Init == offered = {} /\ held = {} /\ given = {} /\ dropped = {} /\ acked = {}

Offer(e) ==
  /\ e \notin offered
  /\ offered' = offered \cup {e}
  /\ UNCHANGED <<held, given, dropped, acked>>

Hold ==
  /\ held \subseteq held' /\ held' \subseteq offered
  /\ UNCHANGED <<offered, given, dropped, acked>>

\* Two operations may hold the same event: it stays held when one of them ends.
Give ==
  /\ given \subseteq given' /\ given' \subseteq offered
  /\ held' \subseteq held /\ held \ held' \subseteq given'
  /\ UNCHANGED <<offered, dropped, acked>>

Acknowledge ==
  /\ acked \subseteq acked' /\ acked' \ acked \subseteq given \cup held \cup dropped
  /\ UNCHANGED <<offered, held, given, dropped>>

End ==
  /\ dropped' = dropped \cup held
  /\ held' = {}
  /\ UNCHANGED <<offered, given, acked>>

Next == (\E e \in Events : Offer(e)) \/ Hold \/ Give \/ Acknowledge \/ End

Spec == Init /\ [][Next]_vars
=============================================================================
