------------------------------- MODULE ElfLoader -------------------------------
(***************************************************************************)
(* The ELF loader (loader/formats/elfloader.c) once the file is in memory:   *)
(* the validation of the headers, program header by program header, and the  *)
(* copies into the memory of the segments, which rely on it.  Addresses and  *)
(* sizes are unsigned words and sums of them wrap.                           *)
(***************************************************************************)
EXTENDS Integers, FiniteSets

CONSTANTS
  Modulus,     \* 2^32
  PageSize,    \* PAGING_PAGE_SIZE
  Start,       \* RORTHOX_PROGRAM_VIRTUAL_ADDRESS
  Limit,       \* RORTHOX_PROGRAM_VIRTUAL_ADDRESS_LIMIT
  HeaderSize,  \* sizeof(struct elf_header)
  PhdrSize,    \* sizeof(struct elf32_phdr)
  Files        \* the files there may be

Uint32 == 0 .. Modulus - 1

Phdr == [type : {"LOAD", "INTERP", "DYNAMIC", "NOTE"}, offset : Uint32, vaddr : Uint32,
         filesz : Uint32, memsz : Uint32, align : Uint32, exec : BOOLEAN]

\* A file: does it begin with the signature, are the fields of its header that have one
\* possible value right, and the others.
File == {f \in [size : Uint32, signature : BOOLEAN, ident : BOOLEAN, phoff : Uint32, phnum : Uint32,
                entry : Uint32, phdrs : UNION {[0 .. n - 1 -> Phdr] : n \in Uint32}] :
           DOMAIN f.phdrs = 0 .. f.phnum - 1}

ASSUME ElfAssumption ==
  /\ {Modulus, PageSize, HeaderSize, PhdrSize} \subseteq Nat \ {0}
  /\ Start \in Nat \ {0} /\ Limit \in Nat /\ Start <= Limit /\ Limit + PageSize <= Modulus
  /\ Start % PageSize = 0 /\ Modulus % PageSize = 0
  /\ \A f \in Files :
       /\ {f.size, f.phoff, f.phnum, f.entry} \subseteq Uint32
       /\ {f.signature, f.ident} \subseteq BOOLEAN
       /\ f.phdrs \in [0 .. f.phnum - 1 -> Phdr]

VARIABLES
  file,          \* the file in memory
  elf,           \* what the call is at, its result, and the number of the program header
  previous_end,  \* of the last segment, rounded up to a page
  entry_found,   \* is the entry point in an executable segment?
  memory,        \* of each segment: the size of its memory, 0 if it has none
  range          \* virtual_base_address and virtual_end_address

elfVars == <<file, elf, previous_end, entry_found, memory, range>>

\* a & (PAGING_PAGE_SIZE - 1), a & ~(PAGING_PAGE_SIZE - 1), and the latter rounded up.
InPage(a) == a % PageSize
Down(a)   == a - InPage(a)
Up(a)     == Down((a + PageSize - 1) % Modulus)

phdr == file.phdrs[elf.i]

Fails(result) ==
  /\ elf' = [elf EXCEPT !.at = "done", !.result = result]
  /\ UNCHANGED <<file, previous_end, entry_found, memory, range>>

-------------------------------------------------------------------------------
(* elf_validate_loaded *)

\* Mutant: the table of program headers may end past the file.
ValidHeader_AnyTable ==
  /\ file.size >= HeaderSize
  /\ file.ident
  /\ file.phnum # 0 /\ file.phoff >= HeaderSize /\ file.phoff <= file.size

ValidHeader ==
  /\ file.size >= HeaderSize
  /\ file.ident
  /\ file.phnum # 0 /\ file.phoff >= HeaderSize /\ file.phoff <= file.size
  /\ file.phnum <= (file.size - file.phoff) \div PhdrSize

elf_validate_header ==
  /\ elf.at = "header"
  /\ \/ ~ file.signature /\ Fails("EINFORMAT")
     \/ file.signature /\ ~ ValidHeader /\ Fails("EINVARG")
     \/ /\ file.signature /\ ValidHeader
        /\ elf' = [elf EXCEPT !.at = "phdr"]
        /\ UNCHANGED <<file, previous_end, entry_found, memory, range>>

PowerOfTwo(n) == \E k \in 0 .. n : n = 2 ^ k

\* Mutant: more bytes may be copied than the segment has.
FitsFile_AnySize ==
  /\ phdr.offset <= file.size
  /\ phdr.filesz <= file.size - phdr.offset
  /\ InPage(phdr.vaddr) = InPage(phdr.offset)
  /\ phdr.align > 1 => /\ PowerOfTwo(phdr.align)
                       /\ phdr.vaddr % phdr.align = phdr.offset % phdr.align

\* Is a PT_LOAD header consistent with the file?
FitsFile ==
  /\ phdr.offset <= file.size
  /\ phdr.filesz <= file.size - phdr.offset /\ phdr.filesz <= phdr.memsz
  /\ InPage(phdr.vaddr) = InPage(phdr.offset)
  /\ phdr.align > 1 => /\ PowerOfTwo(phdr.align)
                       /\ phdr.vaddr % phdr.align = phdr.offset % phdr.align

End == (phdr.vaddr + phdr.memsz) % Modulus

\* Mutant: the end of the segment is added up first, and may have wrapped.
FitsWindow_Wraps ==
  /\ phdr.vaddr >= Start /\ phdr.vaddr < Limit
  /\ End <= Limit
  /\ Down(phdr.vaddr) >= previous_end
  /\ Up(End) <= Limit

\* Are its pages in the window, after those of the segment before it?
FitsWindow ==
  /\ phdr.vaddr >= Start /\ phdr.vaddr < Limit
  /\ phdr.memsz <= Limit - phdr.vaddr
  /\ Down(phdr.vaddr) >= previous_end
  /\ Up(End) <= Limit

NextPhdr == elf' = [elf EXCEPT !.i = @ + 1]

AfterSegment ==
  /\ previous_end' = Up(End)
  /\ entry_found' = (entry_found \/ (phdr.exec /\ file.entry >= phdr.vaddr /\ file.entry < End))

elf_validate_phdr ==
  /\ elf.at = "phdr" /\ elf.i < file.phnum
  /\ \/ phdr.type \in {"INTERP", "DYNAMIC"} /\ Fails("EINVARG")
     \/ /\ phdr.type = "NOTE"
        /\ NextPhdr /\ UNCHANGED <<file, previous_end, entry_found, memory, range>>
     \/ phdr.type = "LOAD" /\ ~ FitsFile /\ Fails("EINVARG")
     \/ /\ phdr.type = "LOAD" /\ FitsFile /\ phdr.memsz = 0
        /\ NextPhdr /\ UNCHANGED <<file, previous_end, entry_found, memory, range>>
     \/ phdr.type = "LOAD" /\ FitsFile /\ phdr.memsz # 0 /\ ~ FitsWindow /\ Fails("EINVARG")
     \/ /\ phdr.type = "LOAD" /\ FitsFile /\ phdr.memsz # 0 /\ FitsWindow
        /\ AfterSegment
        /\ NextPhdr /\ UNCHANGED <<file, memory, range>>

\* The last header was looked at.
elf_validate_entry ==
  /\ elf.at = "phdr" /\ elf.i = file.phnum
  /\ \/ ~ entry_found /\ Fails("EINVARG")
     \/ /\ entry_found
        /\ elf' = [elf EXCEPT !.at = "load", !.i = 0]
        /\ UNCHANGED <<file, previous_end, entry_found, memory, range>>

-------------------------------------------------------------------------------
(* elf_process_loaded *)

\* The size of a segment's memory: its pages.
SegmentSize == Down((InPage(phdr.vaddr) + phdr.memsz + PageSize - 1) % Modulus)

\* Mutant: the end is that of the first segment.
Enclosing_FirstEnd ==
  [base |-> IF range.base >= phdr.vaddr \/ range.base = 0 THEN phdr.vaddr ELSE range.base,
   end  |-> IF range.end = 0 THEN End ELSE range.end]

\* The base and the end, with this segment.
Enclosing ==
  [base |-> IF range.base >= phdr.vaddr \/ range.base = 0 THEN phdr.vaddr ELSE range.base,
   end  |-> IF range.end <= End \/ range.end = 0 THEN End ELSE range.end]

\* A program header is loaded, unless the heap has no memory for it.
elf_process_phdr_pt_load ==
  /\ elf.at = "load" /\ elf.i < file.phnum
  /\ \/ /\ phdr.type # "LOAD" \/ phdr.memsz = 0
        /\ NextPhdr /\ UNCHANGED <<memory, range>>
     \/ /\ phdr.type = "LOAD" /\ phdr.memsz # 0
        /\ memory' = [memory EXCEPT ![elf.i] = SegmentSize]
        /\ range' = Enclosing
        /\ NextPhdr
  /\ UNCHANGED <<file, previous_end, entry_found>>

\* kzalloc of the table of segments or of a segment's memory fails.
NoMemory == elf.at = "load" /\ Fails("ENOMEM")

elf_process_loaded ==
  /\ elf.at = "load" /\ elf.i = file.phnum
  /\ elf' = [elf EXCEPT !.at = "done", !.result = "ok"]
  /\ UNCHANGED <<file, previous_end, entry_found, memory, range>>

ElfInit ==
  /\ file \in Files
  /\ elf = [at |-> "header", result |-> "none", i |-> 0]
  /\ previous_end = Start
  /\ entry_found = FALSE
  /\ memory = [i \in 0 .. file.phnum - 1 |-> 0]
  /\ range = [base |-> 0, end |-> 0]

ElfNext ==
  \/ elf_validate_header
  \/ elf_validate_phdr
  \/ elf_validate_entry
  \/ elf_process_phdr_pt_load
  \/ NoMemory
  \/ elf_process_loaded

ElfSpec == ElfInit /\ [][ElfNext]_elfVars

-------------------------------------------------------------------------------
(* Properties *)

Segments == {i \in 0 .. file.phnum - 1 : file.phdrs[i].type = "LOAD" /\ file.phdrs[i].memsz > 0}

\* A program header is read only where the file in memory has one.
HeadersInFile ==
  elf.at \in {"phdr", "load"} => file.phoff + file.phnum * PhdrSize <= file.size

\* The segments of a file that is loaded have no page in common and lie in the window of
\* programs, none wraps around the end of memory, and the entry point is in one of them
\* that may be executed.
SegmentsApart ==
  elf.at = "load" \/ elf.result = "ok" =>
    /\ \A i \in Segments : LET p == file.phdrs[i]
                           IN  p.vaddr >= Start /\ p.vaddr + p.memsz <= Limit
    /\ \A i, j \in Segments : i < j =>
         LET p == file.phdrs[i] IN p.vaddr + p.memsz <= Down(file.phdrs[j].vaddr)
    /\ \E i \in Segments : LET p == file.phdrs[i]
                           IN  p.exec /\ file.entry \in p.vaddr .. p.vaddr + p.memsz - 1

\* The copy of a segment stays within the file and within the memory that was asked for,
\* which is as large as the pages process_map_elf will map to it.
CopiesInBounds ==
  \A i \in Segments : LET p == file.phdrs[i] IN
    memory[i] # 0 =>
      /\ p.offset + p.filesz <= file.size
      /\ InPage(p.vaddr) + p.filesz <= memory[i]
      /\ Down(p.vaddr) + memory[i] >= p.vaddr + p.memsz
      /\ Down(p.vaddr) + memory[i] < p.vaddr + p.memsz + PageSize

\* The base and the end that a loaded file reports enclose its segments.
RangeEncloses ==
  elf.result = "ok" =>
    \A i \in Segments : LET p == file.phdrs[i]
                        IN  range.base <= p.vaddr /\ p.vaddr + p.memsz <= range.end

\* Every header that is read lies in the file and every copy in the file and in the memory
\* asked for: HeadersInFile and CopiesInBounds.
LoadsInBounds == HeadersInFile /\ CopiesInBounds

\* Of an accepted file the segments are apart, and of a loaded one the range that is reported
\* encloses them: SegmentsApart and RangeEncloses.
LoadsApart == SegmentsApart /\ RangeEncloses
================================================================================
