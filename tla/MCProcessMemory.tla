----------------------------- MODULE MCProcessMemory -----------------------------
(***************************************************************************)
(* The instance of ProcessMemory that TLC checks: pages of two bytes, a    *)
(* stack of two, a window of three.                                        *)
(***************************************************************************)
EXTENDS ProcessMemory

\* A segment that starts at an offset in the window.
Seg(at, memsz, write) == [load |-> TRUE, vaddr |-> Window * PageSize + at, memsz |-> memsz, write |-> write]

\* Text of one page, a header that loads nothing, data that starts inside a page and has
\* two, and an empty segment.
Elf == [elf |-> TRUE, valid |-> TRUE, size |-> 2,
        phdrs |-> <<Seg(0, 2, FALSE),
                    [load |-> FALSE, vaddr |-> 0, memsz |-> 2, write |-> FALSE],
                    Seg(3, 3, TRUE), Seg(0, 0, TRUE)>>]
BadElf == [elf |-> TRUE, valid |-> FALSE, size |-> 1, phdrs |-> <<>>]
Raw    == [elf |-> FALSE, valid |-> FALSE, size |-> 3, phdrs |-> <<>>]
Empty  == [elf |-> FALSE, valid |-> FALSE, size |-> 0, phdrs |-> <<>>]

AllPrograms == {Elf, BadElf, Raw, Empty}
==================================================================================
