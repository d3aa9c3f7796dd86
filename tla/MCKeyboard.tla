------------------------------- MODULE MCKeyboard -------------------------------
(***************************************************************************)
(* The instances of Keyboard that TLC checks: two processes with room for    *)
(* two keys each and counters that wrap at six.  "which" says what is looked *)
(* at.  "decoder": all kinds of keys, of which three are down at once.       *)
(* "queue": two keys, one at a time, and what happens to them.               *)
(***************************************************************************)
EXTENDS Keyboard

VARIABLE which

TwoKeys == INSTANCE Keyboard WITH Keyboard <- {"a", "1"}, MaxHeld <- 1

MCInit == Init /\ which \in {"decoder", "queue"}

MCNext ==
  /\ \/ which = "decoder" /\ Next
     \/ which = "queue" /\ TwoKeys!Next
  /\ UNCHANGED which

MCSpec == MCInit /\ [][MCNext]_<<vars, which>>

\* For the decoder, the state without the queues, which it does not read.
WithoutQueues ==
  IF which = "decoder" THEN <<which, decoder, hand, given>> ELSE <<which, vars>>
=================================================================================
