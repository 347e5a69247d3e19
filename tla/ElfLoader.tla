----------------------------- MODULE ElfLoader ------------------------------
(***************************************************************************)
(* elf_loader.c.  An ELF file is its header, its program headers, and its  *)
(* bytes; the DRAM is kept as the bytes written since it was allocated,    *)
(* all others are zero.  Addresses are uint32_t, Modulus stands for 2^32.  *)
(***************************************************************************)
EXTENDS Integers, Sequences, TLC

CONSTANT Modulus

VARIABLES
  elf,       \* the file: [header, complete, entry, segments, bytes]
  loader,    \* idle, header, table, segments, fill, failed
  segment,   \* the index of the next program header
  dram,
  entry,
  open,      \* the files that are open
  phdrs      \* whether the table of program headers is allocated

elf_vars == <<elf, loader, segment, dram, entry, open, phdrs>>

ElfHeader ==
  [magic |-> TRUE, class |-> "ELFCLASS32", data |-> "ELFDATA2LSB", machine |-> "EM_RISCV",
   type |-> "ET_EXEC", phoff |-> TRUE, complete |-> TRUE]

(* The header is read whole, it is the one of a 32-bit little-endian       *)
(* RISC-V executable, and there are program headers.                       *)
read_elf_header == elf.header = ElfHeader /\ elf.segments # <<>>

OpenElf ==
  /\ loader = "idle"
  /\ loader' = "header" /\ open' = open \cup {"elf"}
  /\ UNCHANGED <<elf, segment, dram, entry, phdrs>>

(* A slip: the file stays open on the way out.                             *)
GiveUp_Open == loader' = "failed" /\ phdrs' = FALSE /\ open' = open

GiveUp == loader' = "failed" /\ phdrs' = FALSE /\ open' = open \ {"elf"}

HeaderIsRead ==
  /\ loader = "header" /\ read_elf_header
  /\ loader' = "table"
  /\ UNCHANGED <<elf, segment, dram, entry, open, phdrs>>

HeaderFails ==
  /\ loader = "header" /\ ~read_elf_header
  /\ GiveUp
  /\ UNCHANGED <<elf, segment, dram, entry>>

(* read_program_headers() *)
TableIsRead ==
  /\ loader = "table" /\ elf.complete
  /\ loader' = "segments" /\ phdrs' = TRUE /\ segment' = 1
  /\ UNCHANGED <<elf, dram, entry, open>>

(* malloc(), fseek() or fread() fails; only the latter depend on the file. *)
TableFails ==
  /\ loader = "table"
  /\ GiveUp
  /\ UNCHANGED <<elf, segment, dram, entry>>

LoadsSegments == loader = "segments" /\ segment <= Len(elf.segments)

Header == elf.segments[segment]

Exceeds(size) == (Header.vaddr + Header.memsz) % Modulus > size

(* A slip: the index stays where it is when a header is passed over.       *)
SkipSegment_Stays ==
  /\ LoadsSegments /\ Header.type # "PT_LOAD"
  /\ UNCHANGED <<elf, loader, segment, dram, entry, open, phdrs>>

SkipSegment ==
  /\ LoadsSegments /\ Header.type # "PT_LOAD"
  /\ segment' = segment + 1
  /\ UNCHANGED <<elf, loader, dram, entry, open, phdrs>>

Available == IF Header.offset + Header.filesz <= Len(elf.bytes) THEN Header.filesz
             ELSE IF Header.offset <= Len(elf.bytes) THEN Len(elf.bytes) - Header.offset ELSE 0

FromFile(count) ==
  [a \in Header.vaddr .. Header.vaddr + count - 1 |-> elf.bytes[Header.offset + a - Header.vaddr + 1]]

(* A slip: the part of the segment that is not in the file is left alone.  *)
Zeroed_Skipped == <<>>

Zeroed == [a \in Header.vaddr + Header.filesz .. Header.vaddr + Header.memsz - 1 |-> 0]

(* A block of bytes, written over what the memory holds.                   *)
Over(block, memory) ==
  [a \in DOMAIN block \cup DOMAIN memory |-> IF a \in DOMAIN block THEN block[a] ELSE memory[a]]

LoadSegment(size) ==
  /\ LoadsSegments /\ Header.type = "PT_LOAD"
  /\ ~Exceeds(size) /\ Available = Header.filesz
  /\ dram' = Over(Zeroed, Over(FromFile(Header.filesz), dram))
  /\ segment' = segment + 1
  /\ UNCHANGED <<elf, loader, entry, open, phdrs>>

(* The segment is too large, or the file ends: then what there is of it    *)
(* has been written.                                                       *)
SegmentFails(size) ==
  /\ LoadsSegments /\ Header.type = "PT_LOAD"
  /\ Exceeds(size) \/ Available < Header.filesz
  /\ dram' = IF Exceeds(size) THEN dram ELSE Over(FromFile(Available), dram)
  /\ GiveUp
  /\ UNCHANGED <<elf, segment, entry>>

SegmentsLoaded ==
  /\ loader = "segments" /\ segment > Len(elf.segments)
  /\ entry' = elf.entry
  /\ open' = open \ {"elf"} /\ phdrs' = FALSE
  /\ loader' = "fill"
  /\ UNCHANGED <<elf, segment, dram>>

ElfNext(size) ==
  \/ OpenElf
  \/ HeaderIsRead \/ HeaderFails
  \/ TableIsRead \/ TableFails
  \/ SkipSegment \/ LoadSegment(size) \/ SegmentFails(size)
  \/ SegmentsLoaded
=============================================================================
