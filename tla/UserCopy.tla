-------------------------------- MODULE UserCopy -------------------------------
(***************************************************************************)
(* The kernel's copies to and from the memory of a program (task/task.c).    *)
(* Every call goes through the memory in fragments, each within one region   *)
(* that the process owns and one page of its address space; one step is one  *)
(* fragment.  Interrupts are off: the regions and the pages stay as they are *)
(* during a call.  ProcessMemory shows how they come about.  A behaviour is  *)
(* one call, whatever memory holds when it begins.                           *)
(***************************************************************************)
EXTENDS Integers, FiniteSets

CONSTANTS
  PAGING_PAGE_SIZE,
  UINT32_MAX,
  BufferSize,  \* bytes of the kernel's buffer
  Layouts      \* the address spaces there may be

Address == 0 .. UINT32_MAX
Page(a) == a \div PAGING_PAGE_SIZE

\* An address space: the regions process_user_span looks through, with their bytes, and
\* the user pages that are mapped, each to a frame of its own.  The addresses of config.h
\* keep every region below the last byte of the address space.
ASSUME UserCopyAssumption ==
  /\ PAGING_PAGE_SIZE \in Nat \ {0} /\ UINT32_MAX \in Nat /\ BufferSize \in Nat
  /\ \A l \in Layouts :
       /\ \A r \in l.regions :
            /\ r.start \in Address /\ r.size \in Nat /\ r.start + r.size <= UINT32_MAX
            /\ r.write \in BOOLEAN
       /\ \A p \in DOMAIN l.pages : l.pages[p].frame \in Nat /\ l.pages[p].write \in BOOLEAN
       /\ \A p, q \in DOMAIN l.pages : l.pages[p].frame = l.pages[q].frame => p = q

VARIABLES
  layout,  \* the address space of the program
  user,    \* of each byte of the frames: what it holds
  buffer,  \* of each byte of the kernel's buffer: what it holds
  copy,    \* the call: its arguments, local variables and result
  initial  \* history: user and buffer when the call began

copyVars == <<layout, user, buffer, copy, initial>>

NUL == "NUL"
Idle == [op |-> "none", at |-> "done", result |-> "none", write |-> FALSE, address |-> 0,
         size |-> 0, current |-> 0, remaining |-> 0, position |-> 0, available |-> 0]

ready == copy.at = "done"

-------------------------------------------------------------------------------
(* process_user_span and paging_user_translate *)

RegionsOf(a, write) ==
  {r \in layout.regions : a # 0 /\ a >= r.start /\ a - r.start < r.size /\ (write => r.write)}

Translates(a, write) ==
  Page(a) \in DOMAIN layout.pages /\ (write => layout.pages[Page(a)].write)

Physical(a) == layout.pages[Page(a)].frame * PAGING_PAGE_SIZE + (a % PAGING_PAGE_SIZE)

\* A byte that the program owns and can reach.
Granted(a, write) == RegionsOf(a, write) # {} /\ Translates(a, write)

PageRemaining(a) == PAGING_PAGE_SIZE - (a % PAGING_PAGE_SIZE)

Least(a, b) == IF a <= b THEN a ELSE b

\* Mutant: a fragment may go on to the end of the page, past its region.
Fragments_WholePage(a, remaining, write) ==
  IF Translates(a, write)
  THEN {Least(remaining, PageRemaining(a)) : r \in RegionsOf(a, write)} ELSE {}

\* task_user_fragment: how long the fragment at a is, if there is one.
Fragments(a, remaining, write) ==
  IF Translates(a, write)
  THEN {Least(Least(remaining, r.size - (a - r.start)), PageRemaining(a)) : r \in RegionsOf(a, write)}
  ELSE {}

-------------------------------------------------------------------------------
(* The calls.  task_get_stack_item is a copy from the program's stack. *)

\* A call whose arguments are wrong is over at once.
Begin(op, at, valid, write, address, size) ==
  /\ copy = Idle
  /\ copy' = [Idle EXCEPT !.op = op, !.write = write, !.address = address, !.size = size,
                          !.current = address, !.remaining = size,
                          !.at = IF valid THEN at ELSE "done",
                          !.result = IF valid THEN "none" ELSE "EINVARG"]
  /\ initial' = [user |-> user, buffer |-> buffer]
  /\ UNCHANGED <<layout, user, buffer>>

\* size - 1 <= UINT32_MAX - address
ValidSpan(address, size) == address # 0 /\ size # 0 /\ size - 1 <= UINT32_MAX - address

Ends(result) == copy' = [copy EXCEPT !.at = "done", !.result = result]

\* Mutant: nothing is looked at before it is copied.
task_copy_user_OnePass(write, address, size) ==
  Begin("copy", "copy", ValidSpan(address, size), write, address, size)

\* task_copy_from_user and task_copy_to_user begin with the preflight.
task_copy_user(write, address, size) ==
  Begin("copy", "preflight", ValidSpan(address, size), write, address, size)

task_validate_user_span(write, address, size) ==
  Begin("validate", "span", ValidSpan(address, size), write, address, size)

task_copy_path_from_user(address, size) ==
  Begin("path", "string", address # 0 /\ size # 0, FALSE, address, size)

\* The last byte is kept for the terminator.
copy_string_from_task(address, max) ==
  Begin("string", "string", address # 0 /\ max > 0, FALSE, address, max - 1)

\* The loop that is over: the next pass, or the end of the call.
Pass ==
  /\ copy.at \in {"preflight", "copy"} /\ copy.remaining = 0
  /\ IF copy.at = "preflight"
     THEN copy' = [copy EXCEPT !.at = "copy", !.current = copy.address, !.remaining = copy.size,
                               !.position = 0]
     ELSE Ends("ok")
  /\ UNCHANGED <<layout, user, buffer, initial>>

NoFragment ==
  /\ copy.at \in {"preflight", "copy"} /\ copy.remaining > 0
  /\ Fragments(copy.current, copy.remaining, copy.write) = {}
  /\ Ends("EINVARG")
  /\ UNCHANGED <<layout, user, buffer, initial>>

Advance(fragment) ==
  copy' = [copy EXCEPT !.current = @ + fragment, !.position = @ + fragment, !.remaining = @ - fragment]

\* memcpy between the frame and the buffer, n bytes at their positions.
ToUser(n) ==
  user' = [f \in DOMAIN user |->
             LET i == f - Physical(copy.current)
             IN  IF i >= 0 /\ i < n THEN buffer[copy.position + i] ELSE user[f]]
FromUser(n) ==
  buffer' = [b \in DOMAIN buffer |->
               LET i == b - copy.position
               IN  IF i >= 0 /\ i < n THEN user[Physical(copy.current) + i] ELSE buffer[b]]

Fragment ==
  /\ copy.at \in {"preflight", "copy"} /\ copy.remaining > 0
  /\ \E fragment \in Fragments(copy.current, copy.remaining, copy.write) :
       /\ Advance(fragment)
       /\ IF copy.at = "copy" /\ copy.write THEN ToUser(fragment) ELSE UNCHANGED user
       /\ IF copy.at = "copy" /\ ~ copy.write THEN FromUser(fragment) ELSE UNCHANGED buffer
  /\ UNCHANGED <<layout, initial>>

-------------------------------------------------------------------------------
(* task_validate_user_span: the region is looked up once, then its pages *)

ValidateSpan ==
  /\ copy.at = "span"
  /\ LET regions == RegionsOf(copy.current, copy.write)
     IN  \/ copy.remaining = 0 /\ Ends("ok")
         \/ copy.remaining > 0 /\ regions = {} /\ Ends("EINVARG")
         \/ /\ copy.remaining > 0
            /\ \E r \in regions :
                 copy' = [copy EXCEPT !.at = "pages",
                            !.available = Least(copy.remaining, r.size - (copy.current - r.start))]
  /\ UNCHANGED <<layout, user, buffer, initial>>

\* Mutant: only the first page of a region is looked at.
ValidatePage_First ==
  /\ copy.at = "pages"
  /\ \/ copy.available = 0 /\ copy' = [copy EXCEPT !.at = "span"]
     \/ copy.available > 0 /\ ~ Translates(copy.current, copy.write) /\ Ends("EINVARG")
     \/ /\ copy.available > 0 /\ Translates(copy.current, copy.write)
        /\ copy' = [copy EXCEPT !.current = @ + copy.available, !.remaining = @ - copy.available,
                                !.available = 0]
  /\ UNCHANGED <<layout, user, buffer, initial>>

ValidatePage ==
  /\ copy.at = "pages"
  /\ \/ copy.available = 0 /\ copy' = [copy EXCEPT !.at = "span"]
     \/ copy.available > 0 /\ ~ Translates(copy.current, copy.write) /\ Ends("EINVARG")
     \/ /\ copy.available > 0 /\ Translates(copy.current, copy.write)
        /\ LET fragment == Least(copy.available, PageRemaining(copy.current))
           IN  copy' = [copy EXCEPT !.current = @ + fragment, !.remaining = @ - fragment,
                                    !.available = @ - fragment]
  /\ UNCHANGED <<layout, user, buffer, initial>>

-------------------------------------------------------------------------------
(* Strings *)

Terminate == buffer' = [buffer EXCEPT ![copy.position] = NUL]

\* There is no room left, or no fragment.
StringEnds ==
  /\ copy.at = "string"
  /\ \/ copy.remaining = 0 /\ copy.op = "string" /\ Terminate /\ Ends("ok")
     \/ copy.remaining = 0 /\ copy.op = "path" /\ UNCHANGED buffer /\ Ends("EINVARG")
     \/ /\ copy.remaining > 0 /\ Fragments(copy.current, copy.remaining, FALSE) = {}
        /\ IF copy.op = "string" THEN Terminate ELSE UNCHANGED buffer
        /\ Ends("EINVARG")
  /\ UNCHANGED <<layout, user, initial>>

\* No NUL in the fragment: the next one, unless the address space is at its end.
AfterFragment(fragment) ==
  IF fragment > UINT32_MAX - copy.current
  THEN IF copy.op = "path" THEN FromUser(fragment) /\ Ends("EINVARG")
       ELSE /\ buffer' = [b \in DOMAIN buffer |->
                            LET i == b - copy.position
                            IN  IF i = 0 THEN NUL
                                ELSE IF i > 0 /\ i < fragment THEN user[Physical(copy.current) + i]
                                ELSE buffer[b]]
            /\ Ends("ok")
  ELSE Advance(fragment) /\ FromUser(fragment)

\* A fragment is copied up to a NUL, if it has one.
StringFragment ==
  /\ copy.at = "string" /\ copy.remaining > 0
  /\ \E fragment \in Fragments(copy.current, copy.remaining, FALSE) :
       LET nuls == {k \in 0 .. fragment - 1 : user[Physical(copy.current) + k] = NUL}
       IN  \/ \E k \in nuls : /\ \A j \in nuls : k <= j
                              /\ FromUser(k + 1)
                              /\ Ends("ok")
           \/ nuls = {} /\ AfterFragment(fragment)
  /\ UNCHANGED <<layout, user, initial>>

-------------------------------------------------------------------------------
CopyNext ==
  \/ \E address \in Address, size \in 0 .. BufferSize :
       \/ \E write \in BOOLEAN : \/ task_copy_user(write, address, size)
                                 \/ task_validate_user_span(write, address, size)
       \/ task_copy_path_from_user(address, size)
       \/ copy_string_from_task(address, size)
  \/ Pass \/ NoFragment \/ Fragment
  \/ ValidateSpan \/ ValidatePage
  \/ StringEnds \/ StringFragment

\* The bytes of the frames, and of the buffer, are any.
Frames == UNION {layout.pages[p].frame * PAGING_PAGE_SIZE
                     .. layout.pages[p].frame * PAGING_PAGE_SIZE + PAGING_PAGE_SIZE - 1 :
                   p \in DOMAIN layout.pages}

CopyInit ==
  /\ layout \in Layouts
  /\ \E nuls \in SUBSET Frames :
       user = [f \in Frames |-> IF f \in nuls THEN NUL ELSE <<"user", f>>]
  /\ buffer = [b \in 0 .. BufferSize - 1 |-> <<"kernel", b>>]
  /\ copy = Idle
  /\ initial = [user |-> user, buffer |-> buffer]

CopySpec == CopyInit /\ [][CopyNext]_copyVars

-------------------------------------------------------------------------------
(* Properties *)

Span == copy.address .. copy.address + copy.size - 1

\* A copy, and a validation, succeeds just when the program owns every byte of the span and
\* can reach it in that way; so a copy of a part of a validated span does not fail.
JustTheGranted ==
  ready /\ copy.op \in {"copy", "validate"} /\ copy.size > 0 =>
    (copy.result = "ok" <=> \A a \in Span : Granted(a, copy.write))

Copied(write) == copy.op = "copy" /\ copy.result = "ok" /\ copy.write = write

\* A copy changes nothing if it fails, even if it fails at the last byte, and if it
\* succeeds, the bytes asked for and no other.
AllOrNothing ==
  ready /\ copy.op \in {"copy", "validate"} =>
    /\ \A f \in DOMAIN user :
         user[f] = initial.user[f] \/ (Copied(TRUE) /\ \E a \in Span : Physical(a) = f)
    /\ Copied(TRUE) => \A a \in Span : user[Physical(a)] = buffer[a - copy.address]
    /\ \A b \in DOMAIN buffer :
         buffer[b] = IF Copied(FALSE) /\ b < copy.size THEN user[Physical(copy.address + b)]
                     ELSE initial.buffer[b]

\* The bytes before the first NUL of the buffer.
\* A copy does just what it was asked for, or nothing, and which of the two depends only on
\* what the program owns: JustTheGranted and AllOrNothing.
CopiesExact == JustTheGranted /\ AllOrNothing

Length == CHOOSE n \in 0 .. BufferSize : /\ n < BufferSize => buffer[n] = NUL
                                         /\ \A b \in 0 .. n - 1 : buffer[b] # NUL

\* A string that was copied is the program's string up to its NUL, or so much of it as
\* there is room for, all of it bytes the program owns; a path is never
\* cut.  Nothing is written past the end that was given.
StringsArePrefixes ==
  ready /\ copy.op \in {"string", "path"} =>
    /\ user = initial.user
    /\ \A b \in 0 .. BufferSize - 1 :
         b > copy.size \/ (copy.op = "path" /\ b = copy.size) => buffer[b] = initial.buffer[b]
    /\ copy.result = "ok" =>
         LET a == copy.address + Length
         IN  /\ Length < BufferSize
             /\ \A i \in 0 .. Length - 1 : /\ Granted(copy.address + i, FALSE)
                                           /\ buffer[i] = user[Physical(copy.address + i)]
             /\ \/ Granted(a, FALSE) /\ user[Physical(a)] = NUL
                \/ copy.op = "string" /\ Length = copy.size
================================================================================
