-------------------------------- MODULE LineText --------------------------------
(***************************************************************************)
(* What a line editor promises: a text and a place in it.  A key inserts a   *)
(* character at the place, removes the one before it or the one at it, or    *)
(* moves the place; a text that has reached the size asked for is over, and  *)
(* a text that is over does not change until the next one begins.            *)
(***************************************************************************)
EXTENDS Naturals, SequencesExt

CONSTANT Texts  \* the characters of a text

VARIABLES text, place, size, over

textVars == <<text, place, size, over>>

Begin == /\ over
         /\ text' = <<>> /\ place' = 0
         /\ size' \in Nat
         /\ over' = (size' = 0)

Insert == /\ ~ over
          /\ \E c \in Texts : text' = InsertAt(text, place + 1, c)
          /\ place' = place + 1
          /\ over' = (Len(text) + 1 = size)
          /\ UNCHANGED size

Erase == /\ ~ over
         /\ place' \in {place, place - 1}
         /\ place' \in 0 .. Len(text) - 1
         /\ text' = RemoveAt(text, place' + 1)
         /\ UNCHANGED <<size, over>>

Go == /\ ~ over
      /\ place' \in {0, place - 1, place + 1, Len(text)} \cap (0 .. Len(text))
      /\ UNCHANGED <<text, size, over>>

Enter == ~ over /\ over' = TRUE /\ UNCHANGED <<text, place, size>>

TextInit == text = <<>> /\ place = 0 /\ size = 0 /\ over = TRUE

TextNext == Begin \/ Insert \/ Erase \/ Go \/ Enter

TextSpec == TextInit /\ [][TextNext]_textVars
================================================================================
