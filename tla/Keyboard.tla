-------------------------------- MODULE Keyboard --------------------------------
(***************************************************************************)
(* The keyboard: the decoder of scan codes (keyboard/classic.c), which gets *)
(* one byte per interrupt, and the queue of keys of each process            *)
(* (keyboard/keyboard.c).                                                   *)
(***************************************************************************)
EXTENDS Integers, Sequences, FiniteSetsExt

CONSTANTS
  Processes,      \* process slots
  BufferSize,     \* RORTHOX_KEYBOARD_BUFFER_SIZE
  CounterWord,    \* 2^32: the counters of a queue wrap here
  Keyboard,       \* the keys there are to press, of AllKeys
  MaxHeld         \* bound on the keys that are down at once

\* One key of each kind the decoder tells apart.
AllKeys == {"a", "1", "keypad", "up", "enter2", "lshift", "rshift", "caps", "num", "prtsc", "pause"}

ASSUME KeyboardAssumption ==
  /\ Processes \subseteq Nat /\ IsFiniteSet(Processes) /\ Processes # {}
  /\ BufferSize \in Nat \ {0}
  /\ CounterWord % BufferSize = 0 /\ CounterWord > 2 * BufferSize
  /\ Keyboard \subseteq AllKeys
  /\ MaxHeld \in Nat

\* Scan codes of set 1.
EXTENDED == 224
PAUSE    == 225
LSHIFT   == 42
RSHIFT   == 54
CAPSLOCK == 58
NUMLOCK  == 69
RELEASED(code) == code >= 128
Release(code)  == code + 128

\* Mutant: the first E1 drops the rest of the Pause sequence.
PAUSE_PAYLOAD_Whole == 5

\* How many bytes after E1 are dropped.
PAUSE_PAYLOAD == 2

NoKey == "no key"   \* 0

VARIABLES
  extended, pause_bytes_left, numlock, numlock_down, capslock, lshift, rshift,
  buffer, head, tail,   \* of each process
  live,                 \* the slots with a process
  owner,                \* process_current
  key,                  \* what the last getkey returned
  wire,                 \* bytes the keyboard has sent and the handler has not read
  held,                 \* the keys that are down
  num_on,               \* history: Num Lock, counted in presses without repetitions
  meant,                \* history: the keys the last press or release should give,
  given                 \* history: and those it has given

decoder == <<extended, pause_bytes_left, numlock, numlock_down, capslock, lshift, rshift>>
queues  == <<buffer, head, tail, live, owner, key>>
hand    == <<wire, held, num_on, meant>>
vars    == <<extended, pause_bytes_left, numlock, numlock_down, capslock, lshift, rshift,
             buffer, head, tail, live, owner, key, wire, held, num_on, meant, given>>

-------------------------------------------------------------------------------
(* The queue of a process *)

keyboard_buffer_index(counter) == counter % BufferSize

\* tail - head, as signed integers that wrap.
Difference(t, h) ==
  LET d == (t - h) % CounterWord
  IN  IF d < CounterWord \div 2 THEN d ELSE d - CounterWord

Full(p) == Difference(tail[p], head[p]) >= BufferSize

\* Mutant: a full queue overwrites its oldest key.
keyboard_push_Overwrites(c) ==
  IF c = NoKey THEN UNCHANGED <<buffer, tail>>
  ELSE /\ buffer' = [buffer EXCEPT ![owner][keyboard_buffer_index(tail[owner])] = c]
       /\ tail' = [tail EXCEPT ![owner] = (@ + 1) % CounterWord]

keyboard_push(c) ==
  IF c = NoKey \/ Full(owner) THEN UNCHANGED <<buffer, tail>>
  ELSE /\ buffer' = [buffer EXCEPT ![owner][keyboard_buffer_index(tail[owner])] = c]
       /\ tail' = [tail EXCEPT ![owner] = (@ + 1) % CounterWord]

\* getkey (system call 2) of the process p: the queue is empty when the cell at its
\* head is.
keyboard_pop(p) ==
  LET i == keyboard_buffer_index(head[p])
      c == buffer[p][i]
  IN  /\ p \in live
      /\ key' = c
      /\ IF c = NoKey THEN UNCHANGED <<buffer, head>>
         ELSE /\ buffer' = [buffer EXCEPT ![p][i] = NoKey]
              /\ head' = [head EXCEPT ![p] = (@ + 1) % CounterWord]
      /\ UNCHANGED <<decoder, tail, live, owner, hand, given>>

\* A program is loaded into the free slot p: process_init zeroes the process, and
\* process_switch gives it the keyboard.
process_load(p) ==
  /\ p \notin live
  /\ live' = live \cup {p}
  /\ buffer' = [buffer EXCEPT ![p] = [i \in 0 .. BufferSize - 1 |-> NoKey]]
  /\ head' = [head EXCEPT ![p] = 0]
  /\ tail' = [tail EXCEPT ![p] = 0]
  /\ owner' = p
  /\ UNCHANGED <<decoder, key, hand, given>>

\* The process p ends.  The one in the lowest slot gets the keyboard, if p had it; the
\* end of the last process stops the kernel, and is left out.
process_terminate(p) ==
  /\ p \in live
  /\ live' = live \ {p}
  /\ live' # {}
  /\ owner' = IF owner = p THEN Min(live') ELSE owner
  /\ UNCHANGED <<decoder, buffer, head, tail, key, hand, given>>

-------------------------------------------------------------------------------
(* The decoder *)

IsKeypadDigit(code) == code \in 71 .. 83 \ {74, 78}

\* The character of a make code: three tables, here for the kinds of keys.
scancode_to_char(code, shift, caps) ==
  CASE code = 30 -> IF shift = caps THEN "a" ELSE "A"
    [] code = 2  -> IF shift THEN "!" ELSE "1"
    [] code = 72 -> "8"
    [] code = 55 -> "*"
    [] OTHER     -> NoKey

ExtendedKey(code) ==
  CASE code = 72 -> "KEY_UP"
    [] code = 28 -> "enter"
    [] OTHER     -> NoKey

\* The byte after E0 changes no modifier: releases and fake shifts give nothing.
handle_extended(code) == IF RELEASED(code) THEN NoKey ELSE ExtendedKey(code)

\* Modifiers after a byte that is not part of a prefixed sequence.
Modifiers(code) ==
  /\ numlock' = IF code = NUMLOCK /\ ~ numlock_down THEN ~ numlock ELSE numlock
  /\ numlock_down' = ((numlock_down \/ code = NUMLOCK) /\ code # Release(NUMLOCK))
  /\ capslock' = IF code = CAPSLOCK THEN ~ capslock ELSE capslock
  /\ lshift' = ((lshift \/ code = LSHIFT) /\ code # Release(LSHIFT))
  /\ rshift' = ((rshift \/ code = RSHIFT) /\ code # Release(RSHIFT))

\* The key of such a byte, under the modifiers as it leaves them.
PlainKey(code) ==
  IF RELEASED(code) \/ (~ numlock' /\ IsKeypadDigit(code)) THEN NoKey
  ELSE scancode_to_char(code, lshift' \/ rshift', capslock')

\* The handler gives the key c.
Give(c) ==
  /\ keyboard_push(c)
  /\ given' = IF c = NoKey THEN given ELSE Append(given, c)

\* Mutant: the byte after E0 is also looked at for modifiers.
AfterExtended_Modifiers(code) ==
  /\ Modifiers(code)
  /\ Give(handle_extended(code))

\* Exactly one byte after E0.
AfterExtended(code) ==
  /\ UNCHANGED <<numlock, numlock_down, capslock, lshift, rshift>>
  /\ Give(handle_extended(code))

classic_keyboard_handle_interrupt ==
  /\ wire # <<>>
  /\ wire' = Tail(wire)
  /\ LET code == Head(wire)
     IN  \/ /\ pause_bytes_left > 0
            /\ pause_bytes_left' = pause_bytes_left - 1
            /\ UNCHANGED <<extended, numlock, numlock_down, capslock, lshift, rshift,
                           buffer, tail, given>>
         \/ /\ pause_bytes_left = 0
            /\ extended
            /\ extended' = FALSE
            /\ AfterExtended(code)
            /\ UNCHANGED pause_bytes_left
         \/ /\ pause_bytes_left = 0
            /\ ~ extended
            /\ code \in {EXTENDED, PAUSE}
            /\ extended' = (code = EXTENDED)
            /\ pause_bytes_left' = IF code = PAUSE THEN PAUSE_PAYLOAD ELSE 0
            /\ UNCHANGED <<numlock, numlock_down, capslock, lshift, rshift, buffer, tail, given>>
         \/ /\ pause_bytes_left = 0
            /\ ~ extended
            /\ code \notin {EXTENDED, PAUSE}
            /\ Modifiers(code)
            /\ Give(PlainKey(code))
            /\ UNCHANGED <<extended, pause_bytes_left>>
  /\ UNCHANGED <<head, live, owner, key, held, num_on, meant>>

-------------------------------------------------------------------------------
(* The keyboard and the hand on it.  Bytes come in order and none is lost. *)

Shifted == held \cap {"lshift", "rshift"} # {}

\* The bytes of a press and of a release.  A key with the prefix may come with fake
\* shifts around it, which undo Shift or Num Lock for old programs.
Fake == {<<>>, <<EXTENDED, LSHIFT>>, <<EXTENDED, Release(LSHIFT)>>, <<EXTENDED, Release(RSHIFT)>>}

Code == [k \in AllKeys |->
           CASE k = "a" -> 30 [] k = "1" -> 2 [] k = "keypad" -> 72 [] k = "up" -> 72
             [] k = "enter2" -> 28 [] k = "lshift" -> LSHIFT [] k = "rshift" -> RSHIFT
             [] k = "caps" -> CAPSLOCK [] k = "num" -> NUMLOCK [] k = "prtsc" -> 55
             [] k = "pause" -> 29]

Prefixed(k) == k \in {"up", "enter2", "prtsc"}

Makes(k) ==
  IF k = "pause" THEN {<<PAUSE, 29, 69, PAUSE, Release(29), Release(69)>>}
  ELSE IF Prefixed(k) THEN {f \o <<EXTENDED, Code[k]>> : f \in Fake}
  ELSE {<<Code[k]>>}

Breaks(k) ==
  IF k = "pause" THEN {<<>>}
  ELSE IF Prefixed(k) THEN {<<EXTENDED, Release(Code[k])>> \o f : f \in Fake}
  ELSE {<<Release(Code[k])>>}

\* What the keys mean to the person who presses them.
Meaning(k) ==
  CASE k = "a"      -> IF Shifted = capslock THEN <<"a">> ELSE <<"A">>
    [] k = "1"      -> IF Shifted THEN <<"!">> ELSE <<"1">>
    [] k = "keypad" -> IF num_on THEN <<"8">> ELSE <<>>
    [] k = "up"     -> <<"KEY_UP">>
    [] k = "enter2" -> <<"enter">>
    [] OTHER        -> <<>>

\* A key is pressed, or repeats while it is down.
Press(k) ==
  /\ wire = <<>>
  /\ wire' \in Makes(k)
  /\ held' = IF k = "pause" THEN held ELSE held \cup {k}
  /\ Cardinality(held') <= MaxHeld
  /\ num_on' = IF k = "num" /\ k \notin held THEN ~ num_on ELSE num_on
  /\ meant' = Meaning(k)
  /\ given' = <<>>
  /\ UNCHANGED <<decoder, queues>>

LetGo(k) ==
  /\ wire = <<>>
  /\ k \in held
  /\ wire' \in Breaks(k)
  /\ held' = held \ {k}
  /\ meant' = <<>>
  /\ given' = <<>>
  /\ UNCHANGED <<decoder, queues, num_on>>

-------------------------------------------------------------------------------
Init ==
  /\ extended = FALSE /\ pause_bytes_left = 0
  /\ numlock = TRUE /\ numlock_down = FALSE /\ capslock = FALSE
  /\ lshift = FALSE /\ rshift = FALSE
  /\ buffer = [p \in Processes |-> [i \in 0 .. BufferSize - 1 |-> NoKey]]
  /\ head = [p \in Processes |-> 0]
  /\ tail = [p \in Processes |-> 0]
  /\ live = {Min(Processes)} /\ owner = Min(Processes)
  /\ key = NoKey
  /\ wire = <<>> /\ held = {} /\ num_on = TRUE /\ meant = <<>> /\ given = <<>>

Next ==
  \/ classic_keyboard_handle_interrupt
  \/ \E p \in Processes : keyboard_pop(p) \/ process_load(p) \/ process_terminate(p)
  \/ \E k \in Keyboard : Press(k) \/ LetGo(k)

Spec == Init /\ [][Next]_vars

-------------------------------------------------------------------------------
(* Properties *)

Characters == {"a", "A", "1", "!", "8", "*", "KEY_UP", "enter"}

\* Types of the decoder's and the queues' state (classic.c, process.h).
TypeOK ==
  /\ {extended, numlock, numlock_down, capslock, lshift, rshift} \subseteq BOOLEAN
  /\ pause_bytes_left \in 0 .. 2
  /\ buffer \in [Processes -> [0 .. BufferSize - 1 -> Characters \cup {NoKey}]]
  /\ head \in [Processes -> 0 .. CounterWord - 1]
  /\ tail \in [Processes -> 0 .. CounterWord - 1]
  /\ live \subseteq Processes /\ owner \in live
  /\ key \in Characters \cup {NoKey}
  /\ held \subseteq Keyboard /\ num_on \in BOOLEAN

\* Once all bytes of a press or release are in, the decoder is in step: it waits for
\* no further byte, its Shift and Num Lock states are those of the keys that are down,
\* and it has given the key that was meant and no other.  So neither Pause nor Print
\* Screen nor the fake shifts around a prefixed key change a modifier or type anything.
InStep ==
  /\ TypeOK
  /\ wire = <<>> =>
    /\ ~ extended /\ pause_bytes_left = 0
    /\ lshift <=> "lshift" \in held
    /\ rshift <=> "rshift" \in held
    /\ numlock = num_on
    /\ given = meant

\* The keys in a queue, oldest first.
Queue(p) ==
  [i \in 1 .. Difference(tail[p], head[p]) |->
     buffer[p][keyboard_buffer_index(head[p] + i - 1)]]

Promise == INSTANCE KeyQueues WITH
  Keys  <- Characters,
  None  <- NoKey,
  Room  <- BufferSize,
  queue <- [p \in Processes |-> Queue(p)],
  got   <- key

\* The ring buffers implement queues, for ever: also when the counters have wrapped, a
\* full queue drops the new key and keeps the old ones, an empty one gives no key, and
\* keys come out in the order in which they went in.
ImplementsKeyQueues == Promise!Spec
=================================================================================
