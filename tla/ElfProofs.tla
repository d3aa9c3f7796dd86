------------------------------- MODULE ElfProofs -------------------------------
(***************************************************************************)
(* Proofs that the validation of an ELF file makes its loading safe, for     *)
(* every file, every number of program headers, every page size and window.  *)
(***************************************************************************)
EXTENDS ElfLoader, TLAPS

-------------------------------------------------------------------------------
(* Words and pages *)

LEMMA Constants ==
  /\ Modulus \in Nat /\ PageSize \in Nat /\ PhdrSize \in Nat /\ Start \in Nat /\ Limit \in Nat
  /\ Modulus > 0 /\ PageSize > 0 /\ PhdrSize > 0 /\ Limit + PageSize <= Modulus
BY ElfAssumption

LEMMA Positive == Start > 0
BY ElfAssumption

\* A sum that does not reach 2^32 does not wrap.
LEMMA NoWrap ==
  ASSUME NEW a \in Nat, a < Modulus
  PROVE  a % Modulus = a
BY Constants

\* Rounding down takes away less than a page.
LEMMA Rounding ==
  ASSUME NEW a \in Nat
  PROVE  /\ InPage(a) \in Nat /\ InPage(a) < PageSize
         /\ Down(a) \in Nat /\ Down(a) <= a /\ a < Down(a) + PageSize
<1>1. InPage(a) \in Nat /\ InPage(a) < PageSize /\ InPage(a) <= a
  BY Constants, Z3 DEF InPage
<1> QED BY <1>1, Constants DEF Down

\* Rounding up adds less than a page, where that does not wrap.
LEMMA RoundingUp ==
  ASSUME NEW a \in Nat, a <= Limit
  PROVE  Up(a) \in Nat /\ a <= Up(a) /\ Up(a) < a + PageSize
<1> DEFINE b == a + PageSize - 1
<1>1. b \in Nat /\ b < Modulus BY Constants
<1>2. Up(a) = Down(b) BY <1>1, NoWrap DEF Up
<1>3. Down(b) \in Nat /\ Down(b) <= b /\ b < Down(b) + PageSize BY <1>1, Rounding
<1> QED BY <1>2, <1>3, Constants

\* As many headers as fit by division fit.
LEMMA TableFits ==
  ASSUME NEW room \in Nat, NEW d \in Nat, d > 0, NEW n \in Nat, n <= room \div d
  PROVE  n * d <= room
<1> DEFINE q == room \div d
<1>1. q \in Nat /\ q * d <= room BY Z3
<1>2. n * d <= q * d BY <1>1, Z3
<1>3. n * d \in Nat /\ q * d \in Nat BY <1>1
<1> QED BY <1>1, <1>2, <1>3

-------------------------------------------------------------------------------
(* The inductive invariant *)

Program(i) == file.phdrs[i]

\* A segment the validation has let pass.
Fit(i) ==
  /\ Program(i).vaddr >= Start /\ Program(i).vaddr + Program(i).memsz <= Limit
  /\ Program(i).filesz <= Program(i).memsz
  /\ Program(i).offset + Program(i).filesz <= file.size

Holds(i) ==
  Program(i).exec /\ file.entry >= Program(i).vaddr /\ file.entry < Program(i).vaddr + Program(i).memsz

\* The segments among the first n headers are in the window, one after the other.
Passed(n) ==
  /\ \A i \in Segments : i < n => Fit(i)
  /\ \A i, j \in Segments : i < j /\ j < n =>
       Program(i).vaddr + Program(i).memsz <= Down(Program(j).vaddr)

Types ==
  /\ file \in Files
  /\ elf \in [at : {"header", "phdr", "load", "done"},
              result : {"none", "ok", "EINFORMAT", "EINVARG", "ENOMEM"}, i : Nat]
  /\ elf.i <= file.phnum
  /\ previous_end \in Nat /\ entry_found \in BOOLEAN
  /\ memory \in [0 .. file.phnum - 1 -> Nat]
  /\ range \in [base : Nat, end : Nat]
  /\ range.base = 0 \/ Start <= range.base

Validating ==
  elf.at = "phdr" =>
    /\ Passed(elf.i)
    /\ \A i \in Segments : i < elf.i => Program(i).vaddr + Program(i).memsz <= previous_end
    /\ entry_found => \E i \in Segments : Holds(i)

Valid == Passed(file.phnum) /\ \E i \in Segments : Holds(i)

\* So much of the range is known after n headers.
Encloses(n) ==
  \A i \in Segments : i < n =>
    /\ Start <= range.base /\ range.base <= Program(i).vaddr
    /\ Program(i).vaddr + Program(i).memsz <= range.end

IInv ==
  /\ Types
  /\ elf.at = "header" => elf.i = 0 /\ ~ entry_found
  /\ elf.result = "ok" => elf.at = "done"
  /\ HeadersInFile
  /\ Validating
  /\ elf.at = "load" \/ elf.result = "ok" => Valid
  /\ elf.at = "load" => Encloses(elf.i)
  /\ elf.result = "ok" => Encloses(file.phnum)
  /\ CopiesInBounds

\* What the fields of a file and of a header are.
LEMMA Fields ==
  ASSUME Types
  PROVE  /\ file.size \in Nat /\ file.phoff \in Nat /\ file.phnum \in Nat /\ file.entry \in Nat
         /\ \A i \in 0 .. file.phnum - 1 :
              /\ Program(i).offset \in Nat /\ Program(i).vaddr \in Nat /\ Program(i).filesz \in Nat
              /\ Program(i).memsz \in Nat /\ Program(i).vaddr < Modulus /\ Program(i).memsz < Modulus
              /\ Program(i).type \in {"LOAD", "INTERP", "DYNAMIC", "NOTE"}
              /\ Program(i).exec \in BOOLEAN
<1> USE DEF Types
<1>1. file.size \in Uint32 /\ file.phoff \in Uint32 /\ file.phnum \in Uint32 /\ file.entry \in Uint32
      /\ file.phdrs \in [0 .. file.phnum - 1 -> Phdr]
  BY ElfAssumption
<1>2. \A w \in Uint32 : w \in Nat /\ w < Modulus
  BY Constants DEF Uint32
<1>3. ASSUME NEW i \in 0 .. file.phnum - 1
      PROVE  Program(i) \in Phdr
  BY <1>1 DEF Program
<1> QED BY <1>1, <1>2, <1>3 DEF Phdr

\* The memory of a segment that passed: the sum does not wrap, and it is just large enough.
LEMMA Memory ==
  ASSUME NEW v \in Nat, NEW m \in Nat, v >= Start, v + m <= Limit
  PROVE  LET s == Down((InPage(v) + m + PageSize - 1) % Modulus)
         IN  /\ s \in Nat
             /\ InPage(v) + m <= s
             /\ Down(v) + s >= v + m /\ Down(v) + s < v + m + PageSize
<1> DEFINE x == InPage(v) + m + PageSize - 1
<1>1. InPage(v) \in Nat /\ Down(v) = v - InPage(v) /\ Down(v) \in Nat
  BY Rounding DEF Down
<1>2. x \in Nat /\ x < Modulus
  BY <1>1, Constants
<1>3. x % Modulus = x
  BY <1>2, NoWrap
<1>4. Down(x) \in Nat /\ Down(x) <= x /\ x < Down(x) + PageSize
  BY <1>2, Rounding
<1>5. Down((InPage(v) + m + PageSize - 1) % Modulus) = Down(x)
  BY <1>3
<1> HIDE DEF x
<1>6. x = InPage(v) + m + PageSize - 1
  BY DEF x
<1> QED BY <1>1, <1>4, <1>5, <1>6, Constants

-------------------------------------------------------------------------------
(* The steps *)

LEMMA Initially == ElfInit => IInv
<1> SUFFICES ASSUME ElfInit PROVE IInv
  OBVIOUS
<1>1. Types
  <2>1. file.phnum \in Nat
    BY ElfAssumption, Constants DEF ElfInit, Uint32
  <2>2. elf \in [at : {"header", "phdr", "load", "done"},
                 result : {"none", "ok", "EINFORMAT", "EINVARG", "ENOMEM"}, i : Nat]
        /\ elf.i = 0
    BY DEF ElfInit
  <2>3. memory \in [0 .. file.phnum - 1 -> Nat] /\ range \in [base : Nat, end : Nat] /\ range.base = 0
    BY DEF ElfInit
  <2>4. file \in Files /\ previous_end \in Nat /\ entry_found \in BOOLEAN
    BY Constants DEF ElfInit
  <2> QED BY <2>1, <2>2, <2>3, <2>4 DEF Types
<1>2. CopiesInBounds
  <2>1. \A i \in Segments : memory[i] = 0 BY DEF ElfInit, Segments
  <2> QED BY <2>1 DEF CopiesInBounds
<1>3. elf.at = "header" /\ elf.i = 0 /\ elf.result = "none" /\ entry_found = FALSE
  BY DEF ElfInit
<1> QED BY <1>1, <1>2, <1>3 DEF IInv, HeadersInFile, Validating

\* A step that only ends the call.
LEMMA FailsKeeps ==
  ASSUME IInv, NEW r \in {"EINFORMAT", "EINVARG", "ENOMEM"}, Fails(r)
  PROVE  IInv'
<1> USE DEF Fails
<1>1. Types' BY DEF IInv, Types
<1>2. elf'.at = "done" /\ elf'.result # "ok" /\ elf'.result = r BY DEF IInv, Types
<1>3. CopiesInBounds' BY DEF IInv, CopiesInBounds, Segments
<1> QED BY <1>1, <1>2, <1>3 DEF IInv, HeadersInFile, Validating

LEMMA HeaderKeeps ==
  ASSUME IInv, elf_validate_header
  PROVE  IInv'
<1>1. CASE \E r \in {"EINFORMAT", "EINVARG"} : Fails(r)
  BY <1>1, FailsKeeps
<1>2. CASE file.signature /\ ValidHeader /\ elf' = [elf EXCEPT !.at = "phdr"]
           /\ UNCHANGED <<file, previous_end, entry_found, memory, range>>
  <2> USE <1>2
  <2>1. Types' BY DEF IInv, Types
  <2>2. HeadersInFile'
    <3>1. file.size \in Nat /\ file.phoff \in Nat /\ file.phnum \in Nat
      BY Fields DEF IInv
    <3>2. file.size - file.phoff \in Nat BY <3>1 DEF ValidHeader
    <3>3. file.phnum * PhdrSize <= file.size - file.phoff
      BY <3>1, <3>2, TableFits, Constants DEF ValidHeader
    <3>4. file.phnum * PhdrSize \in Nat BY <3>1, Constants
    <3> QED BY <3>1, <3>3, <3>4 DEF HeadersInFile
  <2>3. CopiesInBounds' BY DEF IInv, CopiesInBounds, Segments
  <2>4. elf.at = "header" /\ elf'.at = "phdr" /\ elf'.i = 0 /\ elf'.result = elf.result
    BY DEF IInv, Types, elf_validate_header
  <2>5. elf'.result # "ok" BY <2>4 DEF IInv
  <2>6. Validating'
    <3>1. \A i \in Segments' : ~ (i < 0)
      BY Fields DEF IInv, Segments
    <3> QED BY <2>4, <3>1 DEF IInv, Validating, Passed
  <2> QED BY <2>1, <2>2, <2>3, <2>4, <2>5, <2>6 DEF IInv
<1> QED BY <1>1, <1>2 DEF elf_validate_header

\* A header that is passed over: its number is that of no segment.
LEMMA SkipKeeps ==
  ASSUME IInv, elf.at = "phdr" \/ elf.at = "load", elf.i < file.phnum, elf.i \notin Segments,
         NextPhdr, UNCHANGED <<file, previous_end, entry_found, memory, range>>
  PROVE  IInv'
<1>1. elf'.at = elf.at /\ elf'.result = elf.result /\ elf'.i = elf.i + 1 /\ elf.i \in Nat
  BY DEF IInv, Types, NextPhdr
<1>2. Types'
  <2>1. file.phnum \in Nat BY Fields DEF IInv
  <2> QED BY <1>1, <2>1 DEF IInv, Types, NextPhdr
<1>3. \A i \in Segments : i < elf.i + 1 => i < elf.i
  BY <1>1, Fields DEF IInv, Segments
<1>4. Segments' = Segments /\ \A i : Program(i)' = Program(i)
  BY DEF Segments, Program
<1>5. Validating'
  BY <1>1, <1>3, <1>4 DEF IInv, Validating, Passed, Fit, Holds
<1>6. (elf.at = "load" => Encloses(elf.i))'
  BY <1>1, <1>3, <1>4 DEF IInv, Encloses
<1>7. (elf.at = "load" => Valid)'
  BY <1>1, <1>4 DEF IInv, Valid, Passed, Fit, Holds
<1>8. CopiesInBounds' BY DEF IInv, CopiesInBounds, Segments
<1>9. HeadersInFile' BY <1>1 DEF IInv, HeadersInFile
<1>10. elf'.result # "ok" /\ elf'.at # "header" BY <1>1 DEF IInv
<1> QED BY <1>2, <1>5, <1>6, <1>7, <1>8, <1>9, <1>10 DEF IInv

\* A segment that the validation lets pass.
LEMMA SegmentKeeps ==
  ASSUME IInv, elf.at = "phdr", elf.i < file.phnum, phdr.type = "LOAD", FitsFile,
         phdr.memsz # 0, FitsWindow, AfterSegment, NextPhdr, UNCHANGED <<file, memory, range>>
  PROVE  IInv'
<1> DEFINE n == elf.i
           v == phdr.vaddr
           m == phdr.memsz
<1>1. elf'.at = "phdr" /\ elf'.result = elf.result /\ elf'.i = n + 1 /\ n \in Nat
  BY DEF IInv, Types, NextPhdr
<1>2. Segments' = Segments /\ \A i : Program(i)' = Program(i)
  BY DEF Segments, Program
<1>3. n \in 0 .. file.phnum - 1 /\ phdr = Program(n) /\ file.phnum \in Nat
  BY <1>1, Fields DEF IInv, phdr, Program
<1>4. v \in Nat /\ m \in Nat /\ phdr.offset \in Nat /\ phdr.filesz \in Nat /\ file.size \in Nat
      /\ file.entry \in Nat /\ v < Modulus
  BY <1>3, Fields DEF IInv
<1>5. n \in Segments
  BY <1>3, <1>4 DEF Segments, Program
<1>6. v >= Start /\ v + m <= Limit
  BY <1>4, Constants DEF FitsWindow
<1>7. End = v + m
  <2>1. v + m \in Nat /\ v + m < Modulus BY <1>4, <1>6, Constants
  <2> QED BY <2>1, NoWrap DEF End
<1>8. Up(End) \in Nat /\ v + m <= Up(End)
  BY <1>4, <1>6, <1>7, RoundingUp
<1>9. Down(v) \in Nat /\ Down(v) <= v /\ previous_end <= Down(v)
  BY <1>4, Rounding DEF FitsWindow
<1>10. Fit(n)
  BY <1>3, <1>4, <1>6 DEF Fit, FitsFile
<1>11. previous_end' = Up(End) /\ previous_end \in Nat
  BY DEF AfterSegment, IInv, Types
<1> HIDE DEF v, m
<1>12. Types'
  <2>1. entry_found' \in BOOLEAN BY DEF AfterSegment
  <2>2. elf' \in [at : {"header", "phdr", "load", "done"},
                 result : {"none", "ok", "EINFORMAT", "EINVARG", "ENOMEM"}, i : Nat]
    BY <1>1 DEF IInv, Types, NextPhdr
  <2>3. elf'.i <= file'.phnum
    BY <1>1, <1>3 DEF IInv, Types, NextPhdr
  <2>4. previous_end' \in Nat BY <1>8, <1>11
  <2> QED BY <1>1, <2>1, <2>2, <2>3, <2>4 DEF IInv, Types
<1>13. \A i \in Segments : i \in Nat /\ Program(i).vaddr \in Nat /\ Program(i).memsz \in Nat
  BY Fields DEF IInv, Segments
<1>14. \A i \in Segments : i < n => Program(i).vaddr + Program(i).memsz <= previous_end
  BY DEF IInv, Validating
<1>15. Program(n).vaddr = v /\ Program(n).memsz = m
  BY <1>3 DEF v, m
<1>16. \A i \in Segments : i < n + 1 => Program(i).vaddr + Program(i).memsz <= Up(End)
  <2> SUFFICES ASSUME NEW i \in Segments, i < n + 1
               PROVE  Program(i).vaddr + Program(i).memsz <= Up(End)
    OBVIOUS
  <2>1. CASE i = n BY <2>1, <1>8, <1>15
  <2>2. CASE i < n
    <3>1. Program(i).vaddr + Program(i).memsz <= previous_end BY <2>2, <1>14
    <3>2. v \in Nat /\ m \in Nat BY <1>4 DEF v, m
    <3> QED BY <3>1, <3>2, <1>8, <1>9, <1>11, <1>13
  <2> QED BY <2>1, <2>2, <1>1, <1>13
<1>17. Passed(n + 1)
  <2>1. ASSUME NEW i \in Segments, i < n + 1 PROVE Fit(i)
    <3>1. i = n \/ i < n BY <2>1, <1>1, <1>13
    <3> QED BY <3>1, <1>10, <1>1 DEF IInv, Validating, Passed
  <2>2. ASSUME NEW i \in Segments, NEW j \in Segments, i < j, j < n + 1
        PROVE  Program(i).vaddr + Program(i).memsz <= Down(Program(j).vaddr)
    <3>1. j = n \/ j < n BY <2>2, <1>1, <1>13
    <3>2. CASE j < n BY <2>2, <3>2 DEF IInv, Validating, Passed
    <3>3. CASE j = n
      <4>1. Program(i).vaddr + Program(i).memsz <= previous_end BY <2>2, <3>3, <1>14
      <4>2. Down(Program(j).vaddr) = Down(v) BY <3>3, <1>15
      <4> QED BY <4>1, <4>2, <1>9, <1>11, <1>13
    <3> QED BY <3>1, <3>2, <3>3
  <2> QED BY <2>1, <2>2 DEF Passed
<1>18. entry_found' => \E i \in Segments : Holds(i)
  <2>1. CASE entry_found BY <2>1 DEF IInv, Validating
  <2>2. CASE phdr.exec /\ file.entry >= phdr.vaddr /\ file.entry < End
    BY <2>2, <1>3, <1>5, <1>7 DEF Holds, v, m
  <2> QED BY <2>1, <2>2 DEF AfterSegment
<1>19. Validating'
  BY <1>1, <1>2, <1>11, <1>16, <1>17, <1>18 DEF Validating, Passed, Fit, Holds
<1>20. CopiesInBounds' BY DEF IInv, CopiesInBounds, Segments
<1>21. HeadersInFile' BY <1>1 DEF IInv, HeadersInFile
<1>22. elf'.result # "ok" BY <1>1 DEF IInv
<1> QED BY <1>1, <1>12, <1>19, <1>20, <1>21, <1>22 DEF IInv

LEMMA PhdrKeeps ==
  ASSUME IInv, elf_validate_phdr
  PROVE  IInv'
<1> USE DEF elf_validate_phdr
<1>1. CASE Fails("EINVARG") BY <1>1, FailsKeeps
<1>2. CASE (phdr.type = "NOTE" \/ phdr.memsz = 0)
           /\ NextPhdr /\ UNCHANGED <<file, previous_end, entry_found, memory, range>>
  <2>1. elf.i \notin Segments
    BY <1>2 DEF Segments, phdr
  <2> QED BY <1>2, <2>1, SkipKeeps
<1>3. CASE /\ phdr.type = "LOAD" /\ FitsFile /\ phdr.memsz # 0 /\ FitsWindow /\ AfterSegment
           /\ NextPhdr /\ UNCHANGED <<file, memory, range>>
  BY <1>3, SegmentKeeps
<1> QED BY <1>1, <1>2, <1>3

\* The validation ends.
LEMMA EntryKeeps ==
  ASSUME IInv, elf_validate_entry
  PROVE  IInv'
<1> USE DEF elf_validate_entry
<1>1. CASE Fails("EINVARG") BY <1>1, FailsKeeps
<1>2. CASE entry_found /\ elf' = [elf EXCEPT !.at = "load", !.i = 0]
           /\ UNCHANGED <<file, previous_end, entry_found, memory, range>>
  <2> USE <1>2
  <2>1. elf'.at = "load" /\ elf'.i = 0 /\ elf'.result = elf.result
    BY DEF IInv, Types
  <2>2. Types'
    <3>1. file.phnum \in Nat BY Fields DEF IInv
    <3>2. file.phnum >= 0 BY <3>1
    <3> HIDE <3>1
    <3> QED BY <2>1, <3>2 DEF IInv, Types
  <2>3. Valid'
    BY DEF IInv, Validating, Valid, Passed, Fit, Holds, Segments, Program
  <2>4. Encloses(elf.i)'
    <3>1. \A i \in Segments' : ~ (i < 0) BY Fields DEF IInv, Segments
    <3> QED BY <2>1, <3>1 DEF Encloses
  <2>5. CopiesInBounds' BY DEF IInv, CopiesInBounds, Segments
  <2>6. HeadersInFile' BY DEF IInv, HeadersInFile
  <2>7. elf'.result # "ok" BY <2>1 DEF IInv
  <2> QED BY <2>1, <2>2, <2>3, <2>4, <2>5, <2>6, <2>7 DEF IInv, Validating
<1> QED BY <1>1, <1>2

\* A segment gets its memory.
LEMMA LoadKeeps ==
  ASSUME IInv, elf_process_phdr_pt_load
  PROVE  IInv'
<1> USE DEF elf_process_phdr_pt_load
<1>1. CASE (phdr.type # "LOAD" \/ phdr.memsz = 0) /\ NextPhdr /\ UNCHANGED <<memory, range>>
  <2>1. elf.i \notin Segments BY <1>1 DEF Segments, phdr
  <2> QED BY <1>1, <2>1, SkipKeeps
<1>2. CASE /\ phdr.type = "LOAD" /\ phdr.memsz # 0
           /\ memory' = [memory EXCEPT ![elf.i] = SegmentSize]
           /\ range' = Enclosing
           /\ NextPhdr
  <2> USE <1>2
  <2> DEFINE n == elf.i
             v == Program(n).vaddr
             m == Program(n).memsz
  <2>1. elf'.at = "load" /\ elf.at = "load" /\ elf'.result = elf.result /\ elf'.i = n + 1 /\ n \in Nat
    BY DEF IInv, Types, NextPhdr
  <2>2. n \in 0 .. file.phnum - 1 /\ phdr = Program(n) /\ file.phnum \in Nat
    BY <2>1, Fields DEF IInv, phdr, Program
  <2>3. v \in Nat /\ m \in Nat /\ Program(n).filesz \in Nat
    BY <2>2, Fields DEF IInv
  <2>4. n \in Segments
    BY <2>2, <2>3 DEF Segments, Program
  <2>5. Fit(n)
    BY <2>1, <2>2, <2>4, Fields DEF IInv, Valid, Passed, Segments
  <2>6. v >= Start /\ v + m <= Limit /\ Program(n).filesz <= m
        /\ Program(n).offset + Program(n).filesz <= file.size
    BY <2>5 DEF Fit
  <2>7. /\ SegmentSize \in Nat
        /\ InPage(v) + m <= SegmentSize
        /\ Down(v) + SegmentSize >= v + m /\ Down(v) + SegmentSize < v + m + PageSize
    <3>1. SegmentSize = Down((InPage(v) + m + PageSize - 1) % Modulus)
      BY <2>2 DEF SegmentSize
    <3> HIDE DEF v, m
    <3> QED BY <2>3, <2>6, <3>1, Memory
  <2>8. End = v + m
    <3>1. v + m \in Nat /\ v + m < Modulus BY <2>3, <2>6, Constants
    <3> QED BY <2>2, <3>1, NoWrap DEF End
  <2>9. Segments' = Segments /\ file' = file /\ \A i : Program(i)' = Program(i)
    BY DEF Segments, Program
  <2>10. \A i \in Segments : i \in Nat /\ Program(i).vaddr \in Nat /\ Program(i).memsz \in Nat
    BY Fields DEF IInv, Segments
  <2>11. range.base \in Nat /\ range.end \in Nat
    BY DEF IInv, Types
  <2> HIDE DEF v, m
  <2>12. range'.base \in Nat /\ range'.end \in Nat /\ range' \in [base : Nat, end : Nat]
    BY <2>2, <2>3, <2>8, <2>11 DEF Enclosing, v, m
  <2>13. range'.base <= v /\ (range.base = 0 \/ range'.base <= range.base)
    BY <2>2, <2>3, <2>11 DEF Enclosing, v
  <2>21. Start <= range'.base
    <3>1. CASE range'.base = phdr.vaddr BY <3>1, <2>2, <2>6 DEF v
    <3>2. CASE range'.base = range.base /\ range.base # 0
      BY <3>2 DEF IInv, Types
    <3> QED BY <3>1, <3>2 DEF Enclosing
  <2>14. v + m <= range'.end /\ range.end <= range'.end
    BY <2>2, <2>3, <2>8, <2>11 DEF Enclosing, m, v
  <2>15. Types'
    <3>1. file' \in Files /\ previous_end' \in Nat /\ entry_found' \in BOOLEAN
      BY DEF IInv, Types
    <3>2. elf' \in [at : {"header", "phdr", "load", "done"},
                   result : {"none", "ok", "EINFORMAT", "EINVARG", "ENOMEM"}, i : Nat]
      BY DEF IInv, Types, NextPhdr
    <3>3. elf'.i <= file'.phnum
      BY <2>1, <2>2, <2>9
    <3>4. memory' \in [0 .. file'.phnum - 1 -> Nat]
      <4>1. memory \in [0 .. file.phnum - 1 -> Nat] BY DEF IInv, Types
      <4>2. memory' = [memory EXCEPT ![elf.i] = SegmentSize] OBVIOUS
      <4> QED BY <4>1, <4>2, <2>7, <2>9
    <3> QED BY <3>1, <3>2, <3>3, <3>4, <2>12, <2>21 DEF Types
  <2>16. Encloses(elf.i)'
    <3> SUFFICES ASSUME NEW i \in Segments, i < n + 1
                 PROVE  /\ Start <= range'.base /\ range'.base <= Program(i).vaddr
                        /\ Program(i).vaddr + Program(i).memsz <= range'.end
      BY <2>1, <2>9 DEF Encloses
    <3>1. CASE i = n BY <3>1, <2>13, <2>14, <2>21 DEF v, m
    <3>2. CASE i < n
      <4>1. Start <= range.base /\ range.base <= Program(i).vaddr /\ Program(i).vaddr + Program(i).memsz <= range.end
        BY <3>2, <2>1 DEF IInv, Encloses
      <4>2. Program(i).vaddr >= Start BY <2>1, <2>2, <3>2, <2>10 DEF IInv, Valid, Passed, Fit
      <4>3. Program(i).vaddr + Program(i).memsz <= Down(v)
        BY <2>1, <2>2, <2>4, <3>2 DEF IInv, Valid, Passed, v
      <4>4. Program(i).memsz > 0 BY <2>10 DEF Segments, Program
      <4>5. Down(v) \in Nat /\ Down(v) <= v BY <2>3, Rounding DEF v
      <4>6. Program(i).vaddr \in Nat /\ Program(i).memsz \in Nat /\ v \in Nat
        BY <2>10, <2>3 DEF v
      <4>7. Program(i).vaddr < v BY <4>3, <4>4, <4>5, <4>6
      <4>8. ~ (range.base >= phdr.vaddr) /\ range.base # 0
        <5>1. phdr.vaddr = v BY <2>2 DEF v
        <5> QED BY <4>1, <4>6, <4>7, <5>1, <2>11, Positive, Constants
      <4>9. range'.base = range.base BY <4>8 DEF Enclosing
      <4> QED BY <4>1, <4>6, <4>9, <2>11, <2>12, <2>14
    <3> QED BY <3>1, <3>2, <2>1, <2>10
  <2>17. CopiesInBounds'
    <3> SUFFICES ASSUME NEW i \in Segments, memory'[i] # 0
                 PROVE  /\ Program(i).offset + Program(i).filesz <= file.size
                        /\ InPage(Program(i).vaddr) + Program(i).filesz <= memory'[i]
                        /\ Down(Program(i).vaddr) + memory'[i] >= Program(i).vaddr + Program(i).memsz
                        /\ Down(Program(i).vaddr) + memory'[i] < Program(i).vaddr + Program(i).memsz + PageSize
      BY <2>9 DEF CopiesInBounds, Program
    <3>1. CASE i = n
      <4>1. memory'[i] = SegmentSize
        BY <3>1, <2>2 DEF IInv, Types
      <4>2. InPage(v) \in Nat
        BY <2>3, Rounding DEF v
      <4> QED BY <3>1, <4>1, <4>2, <2>3, <2>6, <2>7 DEF v, m
    <3>2. CASE i # n
      BY <3>2, <2>2 DEF IInv, Types, CopiesInBounds, Program
    <3> QED BY <3>1, <3>2
  <2>18. Valid'
    BY <2>1, <2>9 DEF IInv, Valid, Passed, Fit, Holds
  <2>19. HeadersInFile' BY <2>1, <2>9 DEF IInv, HeadersInFile
  <2>20. elf'.result # "ok" BY <2>1 DEF IInv
  <2> QED BY <2>1, <2>15, <2>16, <2>17, <2>18, <2>19, <2>20 DEF IInv, Validating
<1> QED BY <1>1, <1>2

LEMMA LoadedKeeps ==
  ASSUME IInv, elf_process_loaded
  PROVE  IInv'
<1> USE DEF elf_process_loaded
<1>1. elf'.at = "done" /\ elf'.result = "ok" /\ elf'.i = elf.i /\ elf.i = file.phnum
  BY DEF IInv, Types
<1>2. Types' BY DEF IInv, Types
<1>3. Valid' BY DEF IInv, Valid, Passed, Fit, Holds, Segments, Program
<1>4. Encloses(file.phnum)' BY <1>1 DEF IInv, Encloses, Segments, Program
<1>5. CopiesInBounds' BY DEF IInv, CopiesInBounds, Segments
<1> QED BY <1>1, <1>2, <1>3, <1>4, <1>5 DEF IInv, HeadersInFile, Validating

LEMMA Invariance == ElfSpec => []IInv
<1>1. ASSUME IInv, [ElfNext]_elfVars PROVE IInv'
  <2> USE <1>1
  <2>1. CASE elf_validate_header BY <2>1, HeaderKeeps
  <2>2. CASE elf_validate_phdr BY <2>2, PhdrKeeps
  <2>3. CASE elf_validate_entry BY <2>3, EntryKeeps
  <2>4. CASE elf_process_phdr_pt_load BY <2>4, LoadKeeps
  <2>5. CASE NoMemory BY <2>5, FailsKeeps DEF NoMemory
  <2>6. CASE elf_process_loaded BY <2>6, LoadedKeeps
  <2>7. CASE UNCHANGED elfVars
    <3> USE <2>7 DEF elfVars
    <3>1. Types' BY DEF IInv, Types
    <3>2. HeadersInFile' /\ Validating' BY DEF IInv, HeadersInFile, Validating, Passed, Fit, Holds, Segments, Program
    <3>3. Valid' = Valid /\ Encloses(elf.i)' = Encloses(elf.i) /\ Encloses(file.phnum)' = Encloses(file.phnum)
      BY DEF Valid, Encloses, Passed, Fit, Holds, Segments, Program
    <3>4. CopiesInBounds' BY DEF IInv, CopiesInBounds, Segments
    <3> QED BY <3>1, <3>2, <3>3, <3>4 DEF IInv
  <2> QED BY <2>1, <2>2, <2>3, <2>4, <2>5, <2>6, <2>7 DEF ElfNext
<1> QED BY <1>1, Initially, PTL DEF ElfSpec

-------------------------------------------------------------------------------
(* The theorems *)

\* elf_validate_loaded lets no file pass whose program headers are not all in it.
THEOREM TableInFile == ElfSpec => []HeadersInFile
<1>1. IInv => HeadersInFile BY DEF IInv
<1> QED BY <1>1, Invariance, PTL

\* The segments of every file that elf_validate_loaded accepts are in the window, share no
\* page, and one of them holds the entry point.
THEOREM AcceptedFilesAreApart == ElfSpec => []SegmentsApart
<1>1. IInv => SegmentsApart
  <2> SUFFICES ASSUME IInv, Valid PROVE
         /\ \A i \in Segments : Program(i).vaddr >= Start /\ Program(i).vaddr + Program(i).memsz <= Limit
         /\ \A i, j \in Segments : i < j =>
              Program(i).vaddr + Program(i).memsz <= Down(Program(j).vaddr)
         /\ \E i \in Segments : Program(i).exec
              /\ file.entry \in Program(i).vaddr .. Program(i).vaddr + Program(i).memsz - 1
    BY DEF IInv, SegmentsApart, Program
  <2>1. \A i \in Segments : i < file.phnum /\ Program(i).vaddr \in Nat /\ Program(i).memsz \in Nat
    BY Fields DEF IInv, Segments
  <2>2. file.entry \in Nat BY Fields DEF IInv
  <2>3. \A i \in Segments : Fit(i) BY <2>1 DEF Valid, Passed
  <2>4. \A i, j \in Segments : i < j => Program(i).vaddr + Program(i).memsz <= Down(Program(j).vaddr)
    BY <2>1 DEF Valid, Passed
  <2>5. PICK i \in Segments : Holds(i) BY DEF Valid
  <2>6. Program(i).exec /\ file.entry \in Program(i).vaddr .. Program(i).vaddr + Program(i).memsz - 1
    BY <2>1, <2>2, <2>5 DEF Holds
  <2> QED BY <2>3, <2>4, <2>6 DEF Fit
<1> QED BY <1>1, Invariance, PTL

\* For every file, the copies of its segments stay within the file and within the memory
\* that elf_process_phdr_pt_load asks for.
THEOREM CopiesAreSafe == ElfSpec => []CopiesInBounds
<1>1. IInv => CopiesInBounds BY DEF IInv
<1> QED BY <1>1, Invariance, PTL

\* The base and the end that the loader reports enclose all segments of every loaded file.
THEOREM RangeIsWhole == ElfSpec => []RangeEncloses
<1>1. IInv => RangeEncloses
  <2> SUFFICES ASSUME IInv, elf.result = "ok" PROVE
         \A i \in Segments : range.base <= Program(i).vaddr
                             /\ Program(i).vaddr + Program(i).memsz <= range.end
    BY DEF RangeEncloses, Program
  <2>1. \A i \in Segments : i < file.phnum BY Fields DEF IInv, Segments
  <2> QED BY <2>1 DEF IInv, Encloses
<1> QED BY <1>1, Invariance, PTL

\* For every file, elf_validate_loaded keeps all reads and copies of the loader in bounds.
THEOREM LoadsAreInBounds == ElfSpec => []LoadsInBounds
<1>1. HeadersInFile /\ CopiesInBounds => LoadsInBounds BY DEF LoadsInBounds
<1> QED BY <1>1, TableInFile, CopiesAreSafe, PTL

\* For every file that is accepted, the segments are apart and within the range that the
\* loader reports.
THEOREM LoadsAreApart == ElfSpec => []LoadsApart
<1>1. SegmentsApart /\ RangeEncloses => LoadsApart BY DEF LoadsApart
<1> QED BY <1>1, AcceptedFilesAreApart, RangeIsWhole, PTL
================================================================================
