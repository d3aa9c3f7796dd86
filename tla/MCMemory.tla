--------------------------------- MODULE MCMemory --------------------------------
(***************************************************************************)
(* The instances of KernelHeap, ElfLoader and UserCopy that TLC checks.  They *)
(* share no state: "which" says whether a behaviour uses the heap, loads a   *)
(* file or makes a copy, and what it does not do has one value.  The heap    *)
(* has four blocks of two bytes in 16 addresses.                             *)
(***************************************************************************)
EXTENDS KernelHeap, ElfLoader, UserCopy, TLC

VARIABLE which

-------------------------------------------------------------------------------
(* Files of a size of 6 in a machine of 16 addresses with programs in 4 .. 11 *)

P(type, offset, vaddr, filesz, memsz, align, exec) ==
  [type |-> type, offset |-> offset, vaddr |-> vaddr, filesz |-> filesz, memsz |-> memsz,
   align |-> align, exec |-> exec]

F(phdrs, n) == [size |-> 6, signature |-> TRUE, ident |-> TRUE, phoff |-> 2, phnum |-> n,
                entry |-> 7, phdrs |-> phdrs]

\* Headers of every kind, alone in their file.
AnyPhdr ==
  {P(t, 0, 0, 0, 0, 0, FALSE) : t \in {"INTERP", "DYNAMIC", "NOTE"}}
  \cup {P("LOAD", o, v, f, m, a, x) : o \in {0, 1, 2, 7}, v \in {2, 4, 6, 7, 11, 12}, f \in {0, 2, 4},
                                      m \in {0, 1, 3, 10, 13}, a \in {0, 3, 4}, x \in BOOLEAN}

\* Headers that come in pairs: they follow each other, touch, overlap or wrap around.
UsualPhdr == {P("LOAD", v % 2, v, f, m, 2, TRUE) : v \in 4 .. 9, f \in {0, 2}, m \in (0 .. 4) \cup {11}}

MCFiles ==
  {F([i \in 0 .. 0 |-> p], 1) : p \in AnyPhdr}
  \cup {F([i \in 0 .. 1 |-> IF i = 0 THEN p ELSE q], 2) : p \in UsualPhdr, q \in UsualPhdr}
  \cup {[F([i \in 0 .. 1 |-> P("LOAD", i, 4 + 3 * i, 2, 2, 2, TRUE)], 2)
           EXCEPT !.size = s, !.signature = g, !.ident = d, !.phoff = o, !.entry = e] :
          s \in {1, 3, 5, 6}, g \in BOOLEAN, d \in BOOLEAN, o \in {1, 2, 3, 9}, e \in 3 .. 6}

-------------------------------------------------------------------------------
(* Address spaces of 8 bytes: two regions that may touch or share a page, over  *)
(* pages of which one is not mapped or may be read only                         *)

Region(at, size, write) == [start |-> at, size |-> size, write |-> write]
Mapped(frame, write) == [frame |-> frame, write |-> write]

MCLayouts ==
  {[regions |-> {Region(1, z, TRUE), Region(t, y, w)}, pages |-> p] :
     z \in {1, 3}, t \in {4, 5}, y \in {1, 2}, w \in BOOLEAN,
     p \in {0 :> Mapped(2, TRUE) @@ 1 :> Mapped(0, w2) @@ 2 :> Mapped(3, TRUE) : w2 \in BOOLEAN}
           \cup {0 :> Mapped(1, TRUE) @@ 2 :> Mapped(3, TRUE) @@ 3 :> Mapped(0, TRUE)}}

\* Strings end at one byte of the memory or at none.
OneEnd == Cardinality({f \in DOMAIN user : user[f] = NUL}) <= 1

-------------------------------------------------------------------------------
OneFile == CHOOSE f \in Files : f.phnum = 1
OneLayout == CHOOSE l \in Layouts : TRUE

NoCopy ==
  /\ layout = OneLayout /\ user = <<>> /\ buffer = <<>> /\ copy = Idle
  /\ initial = [user |-> <<>>, buffer |-> <<>>]

MCInit ==
  /\ kheap_init
  /\ \/ which = "heap" /\ ElfInit /\ file = OneFile /\ NoCopy
     \/ which = "elf" /\ ElfInit /\ NoCopy
     \/ which = "copy" /\ ElfInit /\ file = OneFile /\ CopyInit /\ OneEnd

MCNext ==
  \/ which = "heap" /\ Next /\ UNCHANGED <<elfVars, copyVars, which>>
  \/ which = "elf" /\ ElfNext /\ UNCHANGED <<vars, copyVars, which>>
  \/ which = "copy" /\ CopyNext /\ UNCHANGED <<vars, elfVars, which>>

MCSpec == MCInit /\ [][MCNext]_<<vars, elfVars, copyVars, which>>
==================================================================================
