------------------------------ MODULE Startup -------------------------------
(***************************************************************************)
(* main.c: the arguments, the configuration, the memory, the program, the  *)
(* simulation and what is shown after it.  The simulation itself is one    *)
(* step here; modules Pipeline and MemorySystem are about it, and module   *)
(* Toolchain about the lines of an object file.                            *)
(***************************************************************************)
EXTENDS Configuration, ElfLoader, JsonText

CONSTANTS
  Scenarios,   \* argument vectors with the files they name
  Dashed,      \* the arguments that start with a dash
  NoFile

(* The arguments are strings, and the options start with a dash.           *)
ArgumentAssumption ==
  /\ {"-p", "-t", "-m", "-r", "-l", "-a", "-e", "-c"} \subseteq Dashed
  /\ NoFile \notin STRING
  /\ \A s \in Scenarios : s.argv \in Seq(STRING)

(* Of a segment, no more is in the file than in the memory, and it ends in *)
(* the address space; load_segments() relies on both.                      *)
ProgramHeader == [type : STRING, offset : Nat, vaddr : Nat, filesz : Nat, memsz : Nat]

ElfAssumption ==
  /\ Modulus \in Nat
  /\ \A s \in Scenarios :
       s.elf # NoFile =>
         /\ s.elf.bytes \in Seq(Nat) /\ s.elf.segments \in Seq(ProgramHeader)
         /\ \A n \in 1 .. Len(s.elf.segments) :
              /\ s.elf.segments[n].filesz <= s.elf.segments[n].memsz
              /\ s.elf.segments[n].vaddr + s.elf.segments[n].memsz < Modulus

ASSUME StartupAssumption == ArgumentAssumption /\ ElfAssumption

VARIABLES
  argv, argument,   \* the arguments after the program's name; the next one
  flags,            \* pip, gen_trace, mem_dump, reg_dump, log
  given,            \* custom_object, elf_object, config
  files,            \* [config, object]: what the files other than the ELF file hold
  phase,            \* where main() is
  instructions,     \* the strings in instructions, -1 while it is NULL
  outcome           \* how the program ended

main_vars == <<argv, argument, flags, given, files, phase, instructions, outcome>>

vars == <<parser_vars, config_vars, elf_vars, main_vars>>

Flags == {"-p", "-t", "-m", "-r", "-l"}
FileOptions == {"-a", "-e", "-c"}

Excludes == [o \in FileOptions |-> IF o = "-c" THEN {"-c"} ELSE {"-a", "-e"}]

Init ==
  \E s \in Scenarios :
    /\ argv = s.argv /\ files = [config |-> s.config, object |-> s.object] /\ elf = s.elf
    /\ ParserInit(<<>>)
    /\ config = Defaults /\ total_number_of_instructions = 0
    /\ loader = "idle" /\ segment = 0 /\ dram = <<>> /\ entry = 0
    /\ open = {} /\ phdrs = FALSE
    /\ argument = 1 /\ flags = {} /\ given = [o \in FileOptions |-> NoFile]
    /\ phase = "options" /\ instructions = -1 /\ outcome = "none"

Final == {"stopped", "crashed"}

Stop(how) == phase' = "stopped" /\ outcome' = how

----------------------------------------------------------------------------
(* The arguments *)

Reads(arguments) ==
  /\ phase = "options" /\ argument <= Len(argv)
  /\ argv[argument] \in arguments

Flag ==
  /\ Reads(Flags \ flags)
  /\ flags' = flags \cup {argv[argument]}
  /\ argument' = argument + 1
  /\ UNCHANGED <<argv, given, files, phase, instructions, outcome>>

HasValue == argument < Len(argv) /\ argv[argument + 1] \notin Dashed

(* A slip: an ELF file is accepted after an object file.                   *)
IsFree_Itself(option) == given[option] = NoFile

IsFree(option) == \A o \in Excludes[option] : given[o] = NoFile

FileOption ==
  /\ Reads(FileOptions)
  /\ IsFree(argv[argument]) /\ HasValue
  /\ given' = [given EXCEPT ![argv[argument]] = argv[argument + 1]]
  /\ argument' = argument + 2
  /\ UNCHANGED <<argv, flags, files, phase, instructions, outcome>>

(* A duplicate, a second input, a missing file name, an unknown argument.  *)
BadArgument ==
  /\ phase = "options" /\ argument <= Len(argv)
  /\ argv[argument] \in FileOptions => ~(IsFree(argv[argument]) /\ HasValue)
  /\ argv[argument] \notin Flags \ flags
  /\ Stop("usage")
  /\ UNCHANGED <<argv, argument, flags, given, files, instructions>>

EndOfArguments ==
  /\ phase = "options" /\ argument > Len(argv)
  /\ phase' = "configure"
  /\ UNCHANGED <<argv, argument, flags, given, files, instructions, outcome>>

----------------------------------------------------------------------------
(* configure() *)

Moves(to) ==
  /\ phase' = to
  /\ UNCHANGED <<argv, argument, flags, given, files, instructions, outcome>>

SetDefaults ==
  /\ config' = Defaults
  /\ total_number_of_instructions' = Instructions(Defaults.global.text_segment_limit)

(* No file, or none that can be opened.                                    *)
KeepDefaults ==
  /\ phase = "configure"
  /\ given["-c"] = NoFile \/ files.config = NoFile
  /\ SetDefaults
  /\ Moves("allocate")
  /\ UNCHANGED parser_vars

ConfigBufferRefused ==
  /\ phase = "configure"
  /\ given["-c"] # NoFile /\ files.config # NoFile
  /\ SetDefaults
  /\ refused' = TRUE
  /\ Moves("allocate")
  /\ UNCHANGED <<json, offset, depth, heap, strings, calls, returned, root, parse>>

ReadConfig ==
  /\ phase = "configure"
  /\ given["-c"] # NoFile /\ files.config # NoFile
  /\ SetDefaults
  /\ json' = Spelled(files.config) /\ parse' = "start"
  /\ Moves("parse")
  /\ UNCHANGED <<offset, depth, heap, strings, calls, returned, root, refused>>

InvalidConfig ==
  /\ phase = "parse" /\ parse = "done" /\ root = NULL
  /\ parse' = "idle"
  /\ Moves("allocate")
  /\ UNCHANGED <<json, offset, depth, heap, strings, calls, returned, root, refused, config_vars>>

ApplyConfig ==
  /\ phase = "parse" /\ parse = "done" /\ root # NULL
  /\ Override
  /\ parse' = "idle"
  /\ Moves("allocate")
  /\ UNCHANGED <<json, offset, depth, calls, returned, refused>>

Allocatable == config.global.DRAM_SIZE >= 0 /\ \A l \in Levels : config[l].cache_size > -4

Allocate ==
  /\ phase = "allocate" /\ Allocatable
  /\ instructions' = 0
  /\ phase' = "trace"
  /\ UNCHANGED <<argv, argument, flags, given, files, outcome>>

(* The array of instructions is not among the blocks that are checked.     *)
InstructionsRefused ==
  /\ phase = "allocate" /\ Allocatable
  /\ Moves("trace")

(* A block is refused; a negative size is a very large one.                *)
AllocationRefused ==
  /\ phase = "allocate"
  /\ Stop("failure")
  /\ UNCHANGED <<argv, argument, flags, given, files, instructions>>

----------------------------------------------------------------------------
(* The program *)

OpenTraceFiles ==
  /\ phase = "trace"
  /\ open' = IF "-t" \in flags THEN open \cup {"instruction_trace", "data_trace"} ELSE open
  /\ Moves("load")
  /\ UNCHANGED <<elf, loader, segment, dram, entry, phdrs>>

TraceFails ==
  /\ phase = "trace" /\ "-t" \in flags
  /\ Stop("failure")
  /\ UNCHANGED <<argv, argument, flags, given, files, instructions>>

NoInput ==
  /\ phase = "load" /\ given["-e"] = NoFile /\ given["-a"] = NoFile
  /\ Stop("no input")
  /\ UNCHANGED <<argv, argument, flags, given, files, instructions>>

LoadElf ==
  /\ phase = "load" /\ given["-e"] # NoFile
  /\ elf # NoFile
  /\ ElfNext(config.global.DRAM_SIZE)
  /\ UNCHANGED main_vars

ElfFails ==
  /\ phase = "load" /\ given["-e"] # NoFile
  /\ elf = NoFile \/ loader = "failed"
  /\ Stop("load")
  /\ UNCHANGED <<argv, argument, flags, given, files, instructions>>

(* fill_instruction_strings() writes to what it allocates without a look.  *)
FillStrings ==
  /\ phase = "load" /\ loader = "fill"
  /\ \/ /\ instructions >= 0 \/ total_number_of_instructions = 0
        /\ phase' = "simulate"
        /\ instructions' = IF instructions < 0 THEN instructions ELSE total_number_of_instructions
        /\ UNCHANGED outcome
     \/ /\ total_number_of_instructions > 0
        /\ phase' = "crashed" /\ outcome' = "crash"
        /\ UNCHANGED instructions
  /\ UNCHANGED <<argv, argument, flags, given, files>>

Fits(words) ==
  /\ 4 * words - 1 < config.global.text_segment_limit
  /\ words <= total_number_of_instructions

(* custom_loader(): every word is stored with its string.                  *)
LoadObject ==
  /\ phase = "load" /\ given["-a"] # NoFile /\ given["-e"] = NoFile
  /\ files.object # NoFile /\ Fits(files.object)
  /\ instructions >= 0 \/ files.object = 0
  /\ phase' = "simulate"
  /\ instructions' = IF files.object = 0 THEN instructions ELSE files.object
  /\ entry' = 0
  /\ UNCHANGED <<argv, argument, flags, given, files, outcome>>

(* No such file, too many words, or a string is refused.                   *)
ObjectFails ==
  /\ phase = "load" /\ given["-a"] # NoFile /\ given["-e"] = NoFile
  /\ files.object = NoFile \/ files.object # 0
  /\ Stop("load")
  /\ UNCHANGED <<argv, argument, flags, given, files, instructions>>

ObjectCrashes ==
  /\ phase = "load" /\ given["-a"] # NoFile /\ given["-e"] = NoFile
  /\ files.object # NoFile /\ files.object > 0
  /\ instructions < 0 /\ Fits(1)
  /\ phase' = "crashed" /\ outcome' = "crash"
  /\ UNCHANGED <<argv, argument, flags, given, files, instructions>>

----------------------------------------------------------------------------
(* The simulation and after *)

(* free_instructions() looks at as many strings as there could be.         *)
CanFree == instructions >= 0 \/ total_number_of_instructions = 0

Simulate ==
  /\ phase = "simulate" /\ CanFree
  /\ instructions' = IF instructions = -1 THEN -1 ELSE 0
  /\ phase' = "dump"
  /\ UNCHANGED <<argv, argument, flags, given, files, outcome>>

SimulateCrashes ==
  /\ phase = "simulate" /\ ~CanFree
  /\ phase' = "crashed" /\ outcome' = "crash"
  /\ UNCHANGED <<argv, argument, flags, given, files, instructions>>

Dump ==
  /\ phase = "dump"
  /\ Stop("success")
  /\ UNCHANGED <<argv, argument, flags, given, files, instructions>>

(* A dump cannot be opened or written.                                     *)
DumpFails ==
  /\ phase = "dump" /\ flags \cap {"-r", "-m"} # {}
  /\ Stop("failure")
  /\ UNCHANGED <<argv, argument, flags, given, files, instructions>>

Stopped == phase \in Final /\ UNCHANGED vars

MainNext ==
  \/ Flag \/ FileOption \/ BadArgument \/ EndOfArguments
  \/ Allocate \/ InstructionsRefused \/ AllocationRefused
  \/ TraceFails \/ NoInput \/ ElfFails \/ FillStrings \/ ObjectFails \/ ObjectCrashes
  \/ Simulate \/ SimulateCrashes \/ Dump \/ DumpFails

ConfigureNext ==
  \/ KeepDefaults \/ ConfigBufferRefused \/ ReadConfig
  \/ InvalidConfig \/ ApplyConfig

Next ==
  \/ MainNext /\ UNCHANGED <<parser_vars, config_vars, elf_vars>>
  \/ ConfigureNext /\ UNCHANGED elf_vars
  \/ ParserNext /\ UNCHANGED <<config_vars, elf_vars, main_vars>>
  \/ OpenTraceFiles /\ UNCHANGED <<parser_vars, config_vars>>
  \/ LoadElf /\ UNCHANGED <<parser_vars, config_vars>>
  \/ LoadObject /\ UNCHANGED <<parser_vars, config_vars, elf, loader, segment, dram, open, phdrs>>
  \/ Stopped

Spec == Init /\ [][Next]_vars

FairSpec == Spec /\ WF_vars(Next)

----------------------------------------------------------------------------
(* Properties *)

TypeOK ==
  /\ offset \in 0 .. Len(json) /\ depth \in 0 .. NestingLimit
  /\ parse # "idle" => CanAccess(offset)
  /\ root \in {NULL} \cup DOMAIN heap
  /\ \A a \in DOMAIN heap : heap[a] \in cJSON
  /\ DOMAIN config = Sections
  /\ total_number_of_instructions \in Nat
  /\ \A a \in DOMAIN dram : a \in 0 .. Modulus - 1
  /\ argument \in 1 .. Len(argv) + 1
  /\ instructions \in -1 .. total_number_of_instructions
  /\ phase \in Final => outcome # "none"

(* The tree under an item as values; a list of the item and its followers. *)
Siblings(item) ==
  LET list[a \in Nat] ==
        IF a = NULL THEN <<>>
        ELSE <<[name  |-> IF heap[a].string = NULL THEN NoText ELSE strings[heap[a].string],
                type  |-> heap[a].type, value |-> heap[a].value,
                text  |-> IF heap[a].valuestring = NULL THEN NoText
                          ELSE strings[heap[a].valuestring],
                items |-> list[heap[a].child]]>> \o list[heap[a].next]
  IN  list[item]

(* A text is accepted just when it begins with a JSON value of the depth   *)
(* allowed, and the tree is that value: names, strings without their       *)
(* escapes, numbers cut to the range of an int, elements in their order.   *)
(* Only a refused allocation may spoil it (cJSON_ParseWithLengthOpts).     *)
ParsesExactly ==
  phase = "parse" /\ parse = "done" =>
    LET v == Denoted(files.config, NestingLimit)
    IN  IF root = NULL THEN v = None \/ refused
        ELSE v # None /\ Siblings(root) = <<Entry(NoText, v)>>

Supplied(v, name) ==
  LET named == IF v = None THEN {}
               ELSE {n \in DOMAIN v.items : v.items[n].name = Name[name]}
  IN  IF named = {} THEN None ELSE v.items[Least(named)]

SuppliedNumber(v, name, default) ==
  LET s == Supplied(v, name)
  IN  IF s = None THEN default ELSE IF s.type = "Number" THEN s.value ELSE default

(* The numbers the file supplies, the first of a name, override the        *)
(* defaults; everything else keeps its default, all of it when the file    *)
(* cannot be read or is not valid; and the number of instructions is that  *)
(* of the segment in force (configure.c, load_config_json).                *)
ConfigurationIsSupplied ==
  phase = "allocate" =>
    LET v == IF given["-c"] = NoFile \/ files.config = NoFile \/ refused THEN None
             ELSE Denoted(files.config, NestingLimit)
    IN  /\ \A g \in Globals :
             config.global[g] =
               IF g \in Unsigned THEN Wrapped(SuppliedNumber(v, g, Defaults.global[g]))
               ELSE SuppliedNumber(v, g, Defaults.global[g])
        /\ \A l \in Levels :
             /\ config[l].level = Defaults[l].level
             /\ \A f \in CacheFields :
                  config[l][f] = SuppliedNumber(Supplied(v, l), f, Defaults[l][f])
        /\ total_number_of_instructions = Wrapped(config.global.text_segment_limit + 1) \div 4

(* The arguments can be read as flags, and options with their file names,  *)
(* each at most once and not two inputs.                                   *)
Acceptable(v) ==
  \E role \in [DOMAIN v -> {"flag", "option", "value"}] :
    /\ \A n \in DOMAIN v :
         CASE role[n] = "flag" -> v[n] \in Flags
           [] role[n] = "option" -> v[n] \in FileOptions /\ n < Len(v) /\ role[n + 1] = "value"
           [] role[n] = "value" -> v[n] \notin Dashed /\ n > 1 /\ role[n - 1] = "option"
    /\ \A m, n \in DOMAIN v :
         m < n /\ "value" \notin {role[m], role[n]} =>
           v[m] # v[n] /\ {v[m], v[n]} # {"-a", "-e"}

(* Which arguments are accepted does not depend on their order, and what   *)
(* is accepted is in force (the loop of main()).                           *)
OptionsDecide ==
  /\ outcome = "usage" => ~Acceptable(argv)
  /\ phase = "configure" =>
       /\ Acceptable(argv)
       /\ flags = {argv[n] : n \in DOMAIN argv} \cap Flags
       /\ \A o \in FileOptions :
            given[o] = IF \E n \in DOMAIN argv : argv[n] = o
                       THEN argv[1 + CHOOSE n \in DOMAIN argv : argv[n] = o] ELSE NoFile

LoadSegments == {n \in DOMAIN elf.segments : elf.segments[n].type = "PT_LOAD"}

Covers(s, a) == a >= s.vaddr /\ a < s.vaddr + s.memsz

(* The byte the file asks for: that of the last segment with the address.  *)
Linked_Byte(a) ==
  LET over == {n \in LoadSegments : Covers(elf.segments[n], a)}
      s    == elf.segments[CHOOSE n \in over : \A m \in over : m <= n]
  IN  IF over = {} THEN 0
      ELSE IF a < s.vaddr + s.filesz THEN elf.bytes[s.offset + a - s.vaddr + 1] ELSE 0

Outside(n) == elf.segments[n].vaddr + elf.segments[n].memsz > config.global.DRAM_SIZE

(* What is simulated is the program of the file: an executable for this    *)
(* machine, all its segments in the DRAM and none beyond it (the test of   *)
(* elf_loader.c:139), zeros where the file has none.                       *)
(* A file that fits the DRAM and is not cut short is not turned down       *)
(* for its segments (elf_loader, load_segments).                           *)
LoadedAsLinked ==
  /\ phase = "simulate" /\ given["-e"] # NoFile =>
       /\ elf.header = ElfHeader /\ entry = elf.entry
       /\ \A n \in LoadSegments : ~Outside(n)
       /\ \A a \in DOMAIN dram \cup UNION {elf.segments[n].vaddr ..
                                             elf.segments[n].vaddr + elf.segments[n].memsz - 1 :
                                           n \in LoadSegments} :
            (IF a \in DOMAIN dram THEN dram[a] ELSE 0) = Linked_Byte(a)
  /\ loader = "failed" /\ segment > 0 =>
       \E n \in LoadSegments :
         \/ Outside(n)
         \/ elf.segments[n].offset + elf.segments[n].filesz > Len(elf.bytes)

(* Once the program is loaded, or is not, the loader has closed its file   *)
(* and freed its table, on every path; the tree of the configuration file  *)
(* and the strings of the instructions are gone at the end.                *)
ResourcesReturned ==
  /\ phase # "load" \/ loader \in {"idle", "fill", "failed"} => "elf" \notin open /\ ~phdrs
  /\ phase # "parse" => heap = <<>> /\ strings = <<>>
  /\ outcome = "success" => instructions <= 0

(* Every start comes to its end, whatever it is given: no text keeps the   *)
(* parser busy for ever and no file the loader.                            *)
Ends == <>(phase \in Final)
=============================================================================
