--------------------------- MODULE StartupProofs ----------------------------
(***************************************************************************)
(* The start of the simulator, for all arguments and files: what the       *)
(* arguments decide, what the loader puts into the memory, and that every  *)
(* block and file is given back (module Startup).                          *)
(***************************************************************************)
EXTENDS Startup, JsonProofs

-----------------------------------------------------------------------------
(* The parser is at work in one phase only, the loader in another. *)

Before == {"options", "configure", "parse", "allocate", "trace"}

After == {"simulate", "dump"} \cup Final

(* The parser starts with nothing and leaves its tree to the configuration. *)
ParserIsCalled ==
  /\ ParserInv
  /\ phase = "parse" <=> parse # "idle"

(* The file is open while the loader reads it, the table is allocated while *)
(* the segments are loaded.                                                 *)
LoaderIsCalled ==
  /\ phase \in Before \cup {"load"} \cup After
  /\ loader \in {"idle", "header", "table", "segments", "fill", "failed"}
  /\ "elf" \in open <=> loader \in {"header", "table", "segments"}
  /\ phdrs <=> loader = "segments"
  /\ phase \in Before => loader = "idle"
  /\ phase \in After => loader \in {"idle", "fill", "failed"}
  /\ elf = NoFile \/ (phase # "options" /\ given["-e"] = NoFile) => loader = "idle"

(* The strings of the instructions are freed before the dumps. *)
StringsAreFreed ==
  /\ phase = "dump" \/ outcome = "success" => instructions <= 0
  /\ outcome = "success" => phase = "stopped"

ResourcesInv == ParserIsCalled /\ LoaderIsCalled /\ StringsAreFreed

LEMMA ResourcesAtFirst ==
  ASSUME Init
  PROVE  ResourcesInv
<1>1. PICK s \in Scenarios :
        /\ ParserInit(<<>>)
        /\ loader = "idle" /\ open = {} /\ phdrs = FALSE
        /\ phase = "options" /\ instructions = -1 /\ outcome = "none"
  BY DEF Init
<1>2. /\ heap = <<>> /\ strings = <<>> /\ calls = <<>> /\ root = NULL /\ parse = "idle"
  BY <1>1 DEF ParserInit
<1>3. ParserIsCalled
  <2>1. Accounted(heap, strings, calls, root)
    BY <1>2, NothingToStore
  <2> QED
    BY <1>1, <1>2, <2>1 DEF ParserIsCalled, ParserInv, ParserControl
<1>4. LoaderIsCalled
  BY <1>1 DEF LoaderIsCalled, Before, After, Final
<1>5. StringsAreFreed
  BY <1>1 DEF StringsAreFreed
<1> QED
  BY <1>3, <1>4, <1>5 DEF ResourcesInv

(* The tree of the configuration file is deleted when it has been applied. *)
LEMMA ConfigurationGoes ==
  ASSUME ParserIsCalled, ConfigureNext
  PROVE  ParserIsCalled'
<1>1. CASE KeepDefaults
  <2>1. /\ heap' = heap /\ strings' = strings /\ calls' = calls /\ root' = root /\ parse' = parse
        /\ phase = "configure" /\ phase' = "allocate"
    BY <1>1 DEF KeepDefaults, Moves, parser_vars
  <2>2. Accounted(heap', strings', calls', root')
    BY <2>1 DEF ParserIsCalled, ParserInv
  <2> QED
    BY <2>1, <2>2 DEF ParserIsCalled, ParserInv, ParserControl
<1>2. CASE ConfigBufferRefused
  <2>1. /\ heap' = heap /\ strings' = strings /\ calls' = calls /\ root' = root /\ parse' = parse
        /\ phase = "configure" /\ phase' = "allocate"
    BY <1>2 DEF ConfigBufferRefused, Moves
  <2>2. Accounted(heap', strings', calls', root')
    BY <2>1 DEF ParserIsCalled, ParserInv
  <2> QED
    BY <2>1, <2>2 DEF ParserIsCalled, ParserInv, ParserControl
<1>3. CASE ReadConfig
  <2>1. /\ heap' = heap /\ strings' = strings /\ calls' = calls /\ root' = root /\ parse' = "start"
        /\ phase = "configure" /\ phase' = "parse"
    BY <1>3 DEF ReadConfig, Moves
  <2>2. Accounted(heap', strings', calls', root')
    BY <2>1 DEF ParserIsCalled, ParserInv
  <2> QED
    BY <2>1, <2>2 DEF ParserIsCalled, ParserInv, ParserControl
<1>4. CASE InvalidConfig
  <2>1. /\ heap' = heap /\ strings' = strings /\ calls' = calls /\ root' = root /\ parse' = "idle"
        /\ phase = "parse" /\ phase' = "allocate" /\ root = NULL
    BY <1>4 DEF InvalidConfig, Moves
  <2>2. Accounted(heap', strings', calls', root')
    BY <2>1 DEF ParserIsCalled, ParserInv
  <2> QED
    BY <2>1, <2>2 DEF ParserIsCalled, ParserInv, ParserControl
<1>5. CASE ApplyConfig
  <2>1. /\ phase = "parse" /\ phase' = "allocate" /\ parse = "done" /\ parse' = "idle"
        /\ root # NULL /\ root' = NULL /\ calls' = calls
        /\ heap' = Without(heap, Tree(heap, root))
        /\ strings' = Without(strings, StringsOf(heap, Tree(heap, root)))
    BY <1>5 DEF ApplyConfig, Override, cJSON_Delete, Moves
  <2>2. calls = <<>>
    BY <2>1 DEF ParserIsCalled, ParserInv, ParserControl
  <2>3. PICK o, l : Stored(heap, strings, calls, root, o, l)
    BY DEF ParserIsCalled, ParserInv, Accounted
  <2>4. heap' = <<>> /\ strings' = <<>>
    BY <2>1, <2>2, <2>3, RootIsDeleted
  <2>5. Accounted(heap', strings', calls', root')
    BY <2>1, <2>2, <2>4, NothingToStore
  <2> QED
    BY <2>1, <2>2, <2>4, <2>5 DEF ParserIsCalled, ParserInv, ParserControl
<1> QED
  BY <1>1, <1>2, <1>3, <1>4, <1>5 DEF ConfigureNext

(* What moves from phase to phase without the parser. *)
LEMMA ParserIsLeftAlone ==
  ASSUME ParserIsCalled, UNCHANGED parser_vars, phase # "parse", phase' # "parse"
  PROVE  ParserIsCalled'
<1>1. /\ heap' = heap /\ strings' = strings /\ calls' = calls /\ root' = root /\ parse' = parse
  BY DEF parser_vars
<1>2. Accounted(heap', strings', calls', root')
  BY <1>1 DEF ParserIsCalled, ParserInv
<1> QED
  BY <1>1, <1>2 DEF ParserIsCalled, ParserInv, ParserControl

LEMMA ParserIsCalledAlways ==
  ASSUME ParserIsCalled, [Next]_vars
  PROVE  ParserIsCalled'
<1>1. CASE MainNext /\ UNCHANGED <<parser_vars, config_vars, elf_vars>>
  <2>1. phase # "parse" /\ phase' # "parse"
    BY <1>1 DEF MainNext, Flag, FileOption, BadArgument, EndOfArguments, Reads, Allocate,
       InstructionsRefused, AllocationRefused, TraceFails, NoInput, ElfFails, FillStrings,
       ObjectFails, ObjectCrashes, Simulate, SimulateCrashes, Dump, DumpFails, Stop, Moves
  <2> QED
    BY <1>1, <2>1, ParserIsLeftAlone
<1>2. CASE ConfigureNext
  BY <1>2, ConfigurationGoes
<1>3. CASE ParserNext /\ UNCHANGED main_vars
  <2>1. ParserInv'
    BY <1>3, StepOfParser DEF ParserIsCalled
  <2>2. parse # "idle" /\ parse' # "idle"
    BY <1>3 DEF ParserNext, NewRoot, RootRefused, ParseLiteral, ParseString, ParseNumber,
       BufferRefused, Open, TooDeep, NotAValue, NextElement, NextMember, NotAMember, ItemRefused,
       Comma, EndOfList, ListFails, ParseFails, ParseSucceeds, At
  <2> QED
    BY <1>3, <2>1, <2>2 DEF ParserIsCalled, main_vars
<1>4. CASE (OpenTraceFiles \/ LoadElf \/ LoadObject) /\ UNCHANGED parser_vars
  <2>1. phase # "parse" /\ phase' # "parse"
    BY <1>4 DEF OpenTraceFiles, LoadElf, LoadObject, Moves, main_vars
  <2> QED
    BY <1>4, <2>1, ParserIsLeftAlone
<1>5. CASE UNCHANGED vars
  <2>1. /\ heap' = heap /\ strings' = strings /\ calls' = calls /\ root' = root /\ parse' = parse
        /\ phase' = phase
    BY <1>5 DEF vars, parser_vars, main_vars
  <2>2. Accounted(heap', strings', calls', root')
    BY <2>1 DEF ParserIsCalled, ParserInv
  <2> QED
    BY <2>1, <2>2 DEF ParserIsCalled, ParserInv, ParserControl
<1> QED
  BY <1>1, <1>2, <1>3, <1>4, <1>5 DEF Next, Stopped

LEMMA LoaderIsCalledAlways ==
  ASSUME LoaderIsCalled, [Next]_vars
  PROVE  LoaderIsCalled'
<1> USE DEF LoaderIsCalled, Before, After, Final
<1>1. CASE MainNext /\ UNCHANGED <<parser_vars, config_vars, elf_vars>>
  <2>1. /\ elf' = elf /\ loader' = loader /\ open' = open /\ phdrs' = phdrs
    BY <1>1 DEF elf_vars
  <2>2. CASE Flag \/ FileOption
    BY <2>1, <2>2 DEF Flag, FileOption, Reads
  <2>3. CASE BadArgument \/ EndOfArguments
    BY <2>1, <2>3 DEF BadArgument, EndOfArguments, Stop
  <2>4. CASE Allocate \/ InstructionsRefused \/ AllocationRefused
    BY <2>1, <2>4 DEF Allocate, InstructionsRefused, AllocationRefused, Stop, Moves
  <2>5. CASE TraceFails \/ NoInput
    BY <2>1, <2>5 DEF TraceFails, NoInput, Stop
  <2>6. CASE ElfFails \/ FillStrings
    BY <2>1, <2>6 DEF ElfFails, FillStrings, Stop
  <2>7. CASE ObjectFails \/ ObjectCrashes
    BY <2>1, <2>7 DEF ObjectFails, ObjectCrashes, Stop
  <2>8. CASE Simulate \/ SimulateCrashes \/ Dump \/ DumpFails
    BY <2>1, <2>8 DEF Simulate, SimulateCrashes, Dump, DumpFails, Stop
  <2> QED
    BY <1>1, <2>2, <2>3, <2>4, <2>5, <2>6, <2>7, <2>8 DEF MainNext
<1>2. CASE ConfigureNext /\ UNCHANGED elf_vars
  <2>1. /\ elf' = elf /\ loader' = loader /\ open' = open /\ phdrs' = phdrs
    BY <1>2 DEF elf_vars
  <2>2. phase \in {"configure", "parse"} /\ phase' \in {"allocate", "parse"} /\ given' = given
    BY <1>2 DEF ConfigureNext, KeepDefaults, ConfigBufferRefused, ReadConfig, InvalidConfig,
       ApplyConfig, Moves
  <2> QED
    BY <2>1, <2>2
<1>3. CASE UNCHANGED <<elf_vars, main_vars>>
  BY <1>3 DEF elf_vars, main_vars
<1>4. CASE OpenTraceFiles
  BY <1>4 DEF OpenTraceFiles, Moves
<1>5. CASE LoadElf
  <2>1. /\ phase = "load" /\ given["-e"] # NoFile /\ elf # NoFile
        /\ phase' = phase /\ given' = given /\ ElfNext(config.global.DRAM_SIZE)
    BY <1>5 DEF LoadElf, main_vars
  <2>2. elf' = elf
    BY <2>1 DEF ElfNext, OpenElf, HeaderIsRead, HeaderFails, TableIsRead, TableFails,
       SkipSegment, LoadSegment, SegmentFails, SegmentsLoaded
  <2>3. \/ /\ loader = "idle" /\ loader' = "header" /\ open' = open \cup {"elf"} /\ phdrs' = phdrs
        \/ /\ loader = "header" /\ loader' = "table" /\ open' = open /\ phdrs' = phdrs
        \/ /\ loader = "table" /\ loader' = "segments" /\ open' = open /\ phdrs' = TRUE
        \/ /\ loader = "segments" /\ loader' = "segments" /\ open' = open /\ phdrs' = phdrs
        \/ /\ loader' \in {"failed", "fill"} /\ open' = open \ {"elf"} /\ phdrs' = FALSE
    BY <2>1 DEF ElfNext, OpenElf, HeaderIsRead, HeaderFails, TableIsRead, TableFails,
       SkipSegment, LoadSegment, SegmentFails, SegmentsLoaded, GiveUp, LoadsSegments
  <2> QED
    BY <2>1, <2>2, <2>3
<1>6. CASE LoadObject /\ UNCHANGED <<elf, loader, open, phdrs>>
  BY <1>6 DEF LoadObject
<1> QED
  BY <1>1, <1>2, <1>3, <1>4, <1>5, <1>6 DEF Next, Stopped, vars

LEMMA StringsAreFreedAlways ==
  ASSUME StringsAreFreed, [Next]_vars
  PROVE  StringsAreFreed'
<1> USE DEF StringsAreFreed
<1>1. CASE MainNext
  <2>1. CASE Flag \/ FileOption \/ BadArgument \/ EndOfArguments
    BY <2>1 DEF Flag, FileOption, Reads, BadArgument, EndOfArguments, Stop
  <2>2. CASE Allocate \/ InstructionsRefused \/ AllocationRefused
    BY <2>2 DEF Allocate, InstructionsRefused, AllocationRefused, Stop, Moves
  <2>3. CASE TraceFails \/ NoInput \/ ElfFails \/ FillStrings
    BY <2>3 DEF TraceFails, NoInput, ElfFails, FillStrings, Stop
  <2>4. CASE ObjectFails \/ ObjectCrashes
    BY <2>4 DEF ObjectFails, ObjectCrashes, Stop
  <2>5. CASE Simulate
    <3>1. instructions' \in {-1, 0} /\ phase = "simulate" /\ phase' = "dump" /\ outcome' = outcome
      BY <2>5 DEF Simulate
    <3> QED
      BY <3>1
  <2>6. CASE SimulateCrashes \/ Dump \/ DumpFails
    BY <2>6 DEF SimulateCrashes, Dump, DumpFails, Stop
  <2> QED
    BY <1>1, <2>1, <2>2, <2>3, <2>4, <2>5, <2>6 DEF MainNext
<1>2. CASE ConfigureNext
  <2>1. phase \in {"configure", "parse"} /\ phase' \in {"allocate", "parse"}
        /\ outcome' = outcome /\ instructions' = instructions
    BY <1>2 DEF ConfigureNext, KeepDefaults, ConfigBufferRefused, ReadConfig, InvalidConfig,
       ApplyConfig, Moves
  <2> QED
    BY <2>1
<1>3. CASE UNCHANGED main_vars
  BY <1>3 DEF main_vars
<1>4. CASE OpenTraceFiles \/ LoadObject
  BY <1>4 DEF OpenTraceFiles, LoadObject, Moves
<1> QED
  BY <1>1, <1>2, <1>3, <1>4 DEF Next, Stopped, LoadElf, vars

LEMMA ResourcesInvAlways ==
  Spec => []ResourcesInv
<1>1. Init => ResourcesInv
  BY ResourcesAtFirst
<1>2. ResourcesInv /\ [Next]_vars => ResourcesInv'
  BY ParserIsCalledAlways, LoaderIsCalledAlways, StringsAreFreedAlways DEF ResourcesInv
<1> QED
  BY <1>1, <1>2, PTL DEF Spec

(* Nothing the parser allocates is lost, freed twice or used after it is    *)
(* freed, for every text, every limit of the nesting, and at whatever       *)
(* allocation it is stopped.                                                *)
THEOREM MemoryIsAlwaysOwned ==
  Spec => []MemoryIsOwned
<1>1. ResourcesInv => MemoryIsOwned
  BY StoredIsOwned DEF ResourcesInv, ParserIsCalled, ParserInv
<1> QED
  BY <1>1, ResourcesInvAlways, PTL

(* The lists of a tree can be walked both ways while the tree is built. *)
THEOREM ListsAreAlwaysLinked ==
  Spec => []ListsAreLinked
<1>1. ResourcesInv => ListsAreLinked
  BY StoredIsLinked DEF ResourcesInv, ParserIsCalled, ParserInv
<1> QED
  BY <1>1, ResourcesInvAlways, PTL

(* The ELF file is closed, its table, the tree of the configuration and the *)
(* strings of the instructions are freed, whatever fails on the way.        *)
THEOREM ResourcesAreReturned ==
  Spec => []ResourcesReturned
<1>1. ResourcesInv => ResourcesReturned
  <2> SUFFICES ASSUME ResourcesInv
               PROVE  ResourcesReturned
    OBVIOUS
  <2>1. phase # "load" \/ loader \in {"idle", "fill", "failed"} => "elf" \notin open /\ ~phdrs
    BY DEF ResourcesInv, LoaderIsCalled, Before, After
  <2>2. phase # "parse" => heap = <<>> /\ strings = <<>>
    BY DEF ResourcesInv, ParserIsCalled, ParserInv, ParserControl
  <2>3. outcome = "success" => instructions <= 0
    BY DEF ResourcesInv, StringsAreFreed
  <2> QED
    BY <2>1, <2>2, <2>3 DEF ResourcesReturned
<1> QED
  BY <1>1, ResourcesInvAlways, PTL

-----------------------------------------------------------------------------
(* The arguments.  What an argument is does not depend on those before it:  *)
(* flags and options start with a dash, file names do not.                  *)

(* The first p arguments can be read, each file name after its option. *)
Readable(v, p) ==
  /\ \A n \in 1 .. p :
       /\ v[n] \in Flags \/ v[n] \in FileOptions \/ v[n] \notin Dashed
       /\ v[n] \in FileOptions => n < p /\ v[n + 1] \notin Dashed
       /\ v[n] \notin Dashed => n > 1 /\ v[n - 1] \in FileOptions
  /\ \A m, n \in 1 .. p :
       m < n /\ v[m] \in Dashed /\ v[n] \in Dashed =>
         v[m] # v[n] /\ {v[m], v[n]} # {"-a", "-e"}

LEMMA OptionsAreDashed ==
  Flags \subseteq Dashed /\ FileOptions \subseteq Dashed /\ Flags \cap FileOptions = {}
BY StartupAssumption DEF ArgumentAssumption, Flags, FileOptions

(* There is only one way to read arguments. *)
LEMMA AcceptableIsReadable ==
  ASSUME NEW v \in Seq(STRING)
  PROVE  Acceptable(v) <=> Readable(v, Len(v))
<1>1. DOMAIN v = 1 .. Len(v) /\ Len(v) \in Nat
  OBVIOUS
<1> DEFINE Role == {"flag", "option", "value"}
           Plays(n, role) ==
             /\ role[n] = "flag" => v[n] \in Flags
             /\ role[n] = "option" => v[n] \in FileOptions /\ n < Len(v) /\ role[n + 1] = "value"
             /\ role[n] = "value" => v[n] \notin Dashed /\ n > 1 /\ role[n - 1] = "option"
           Differ(m, n, role) ==
             m < n /\ "value" \notin {role[m], role[n]} => v[m] # v[n] /\ {v[m], v[n]} # {"-a", "-e"}
<1>2. ASSUME Acceptable(v)
      PROVE  Readable(v, Len(v))
  <2>1. PICK role \in [DOMAIN v -> Role] :
          /\ \A n \in DOMAIN v : Plays(n, role)
          /\ \A m, n \in DOMAIN v : Differ(m, n, role)
    BY <1>2 DEF Acceptable
  <2>2. \A n \in 1 .. Len(v) : role[n] \in Role
    BY <1>1
  <2>3. \A n \in 1 .. Len(v) :
          /\ role[n] = "flag" <=> v[n] \in Flags
          /\ role[n] = "option" <=> v[n] \in FileOptions
          /\ role[n] = "value" <=> v[n] \notin Dashed
    BY <1>1, <2>1, <2>2, OptionsAreDashed
  <2>4. ASSUME NEW n \in 1 .. Len(v)
        PROVE  /\ v[n] \in Flags \/ v[n] \in FileOptions \/ v[n] \notin Dashed
               /\ v[n] \in FileOptions => n < Len(v) /\ v[n + 1] \notin Dashed
               /\ v[n] \notin Dashed => n > 1 /\ v[n - 1] \in FileOptions
    <3>1. Plays(n, role)
      BY <1>1, <2>1
    <3>2. v[n] \in Flags \/ v[n] \in FileOptions \/ v[n] \notin Dashed
      BY <2>2, <2>3
    <3>3. ASSUME v[n] \in FileOptions
          PROVE  n < Len(v) /\ v[n + 1] \notin Dashed
      <4>1. n < Len(v) /\ role[n + 1] = "value" /\ n + 1 \in 1 .. Len(v)
        BY <1>1, <2>3, <3>1, <3>3
      <4> QED
        BY <2>3, <4>1
    <3>4. ASSUME v[n] \notin Dashed
          PROVE  n > 1 /\ v[n - 1] \in FileOptions
      <4>1. n > 1 /\ role[n - 1] = "option" /\ n - 1 \in 1 .. Len(v)
        BY <1>1, <2>3, <3>1, <3>4
      <4> QED
        BY <2>3, <4>1
    <3> QED
      BY <3>2, <3>3, <3>4
  <2>5. ASSUME NEW m \in 1 .. Len(v), NEW n \in 1 .. Len(v),
               m < n, v[m] \in Dashed, v[n] \in Dashed
        PROVE  v[m] # v[n] /\ {v[m], v[n]} # {"-a", "-e"}
    <3>1. Differ(m, n, role)
      BY <1>1, <2>1
    <3>2. role[m] # "value" /\ role[n] # "value"
      BY <2>3, <2>5
    <3> QED
      BY <2>5, <3>1, <3>2
  <2> QED
    BY <2>4, <2>5 DEF Readable
<1>3. ASSUME Readable(v, Len(v))
      PROVE  Acceptable(v)
  <2> DEFINE role == [n \in DOMAIN v |-> IF v[n] \in Flags THEN "flag"
                                         ELSE IF v[n] \in FileOptions THEN "option" ELSE "value"]
  <2>1. role \in [DOMAIN v -> Role]
    OBVIOUS
  <2>2. \A n \in 1 .. Len(v) :
          /\ role[n] = "flag" <=> v[n] \in Flags
          /\ role[n] = "option" <=> v[n] \in FileOptions
          /\ role[n] = "value" <=> v[n] \notin Dashed
    BY <1>1, <1>3, OptionsAreDashed DEF Readable
  <2> HIDE DEF role
  <2>3. ASSUME NEW n \in 1 .. Len(v)
        PROVE  Plays(n, role)
    <3>1. ASSUME role[n] = "option"
          PROVE  v[n] \in FileOptions /\ n < Len(v) /\ role[n + 1] = "value"
      <4>1. n < Len(v) /\ v[n + 1] \notin Dashed /\ n + 1 \in 1 .. Len(v)
        BY <1>1, <1>3, <2>2, <3>1 DEF Readable
      <4> QED
        BY <2>2, <3>1, <4>1
    <3>2. ASSUME role[n] = "value"
          PROVE  v[n] \notin Dashed /\ n > 1 /\ role[n - 1] = "option"
      <4>1. n > 1 /\ v[n - 1] \in FileOptions /\ n - 1 \in 1 .. Len(v)
        BY <1>1, <1>3, <2>2, <3>2 DEF Readable
      <4> QED
        BY <2>2, <3>2, <4>1
    <3> QED
      BY <2>2, <3>1, <3>2
  <2>4. ASSUME NEW m \in 1 .. Len(v), NEW n \in 1 .. Len(v)
        PROVE  Differ(m, n, role)
    BY <1>3, <2>2 DEF Readable
  <2>5. \A n \in DOMAIN v :
          CASE role[n] = "flag" -> v[n] \in Flags
            [] role[n] = "option" -> v[n] \in FileOptions /\ n < Len(v) /\ role[n + 1] = "value"
            [] role[n] = "value" -> v[n] \notin Dashed /\ n > 1 /\ role[n - 1] = "option"
    BY <1>1, <2>1, <2>3
  <2>6. \A m, n \in DOMAIN v :
          m < n /\ "value" \notin {role[m], role[n]} =>
            v[m] # v[n] /\ {v[m], v[n]} # {"-a", "-e"}
    BY <1>1, <2>4
  <2> QED
    BY <2>1, <2>5, <2>6 DEF Acceptable
<1> QED
  BY <1>2, <1>3

(* What is in force after the first p arguments. *)
InForce(p) ==
  /\ Readable(argv, p)
  /\ flags = {argv[n] : n \in 1 .. p} \cap Flags
  /\ DOMAIN given = FileOptions
  /\ \A o \in FileOptions :
       /\ \A n \in 1 .. p : argv[n] = o => given[o] = argv[n + 1]
       /\ (\A n \in 1 .. p : argv[n] # o) => given[o] = NoFile

OptionsInv ==
  /\ argv \in Seq(STRING)
  /\ phase = "options" => argument \in 1 .. Len(argv) + 1 /\ InForce(argument - 1)
  /\ phase = "configure" => InForce(Len(argv))
  /\ outcome = "usage" => ~Readable(argv, Len(argv))

(* An option has been read when there is a file for it. *)
LEMMA GivenWhenRead ==
  ASSUME argv \in Seq(STRING), NEW p \in Nat, p <= Len(argv), InForce(p), NEW o \in FileOptions
  PROVE  given[o] = NoFile <=> \A n \in 1 .. p : argv[n] # o
<1>1. ASSUME NEW n \in 1 .. p, argv[n] = o
      PROVE  given[o] # NoFile
  <2>1. n < p /\ given[o] = argv[n + 1]
    BY <1>1 DEF InForce, Readable
  <2>2. n + 1 \in 1 .. Len(argv) /\ Len(argv) \in Nat
    BY <2>1
  <2>3. argv[n + 1] \in STRING
    BY <2>2
  <2> QED
    BY <2>1, <2>3, StartupAssumption DEF ArgumentAssumption
<1>2. (\A n \in 1 .. p : argv[n] # o) => given[o] = NoFile
  BY DEF InForce
<1> QED
  BY <1>1, <1>2

(* A flag that was not given before is in force. *)
LEMMA StepOfFlag ==
  ASSUME OptionsInv, Flag
  PROVE  OptionsInv'
<1> DEFINE n == argument
<1>1. /\ phase = "options" /\ n <= Len(argv) /\ argv[n] \in Flags /\ argv[n] \notin flags
      /\ flags' = flags \cup {argv[n]} /\ argument' = n + 1
      /\ given' = given /\ argv' = argv /\ phase' = phase /\ outcome' = outcome
  BY DEF Flag, Reads
<1> DEFINE p == n - 1
<1>2. n \in 1 .. Len(argv) + 1 /\ InForce(p) /\ argv \in Seq(STRING) /\ Len(argv) \in Nat
  BY <1>1 DEF OptionsInv
<1>3. p \in Nat /\ n = p + 1 /\ \A k \in 1 .. n : k \in 1 .. p \/ k = n
  BY <1>2
<1> HIDE DEF p
<1>4. argv[n] \in Dashed /\ argv[n] \notin FileOptions /\ argv[n] \notin {"-a", "-e"}
  BY <1>1, OptionsAreDashed DEF FileOptions
<1>5. \A m \in 1 .. p : argv[m] # argv[n]
  BY <1>1, <1>2 DEF InForce
<1>6. Readable(argv, n)
  <2>1. \A k \in 1 .. n :
          /\ argv[k] \in Flags \/ argv[k] \in FileOptions \/ argv[k] \notin Dashed
          /\ argv[k] \in FileOptions => k < n /\ argv[k + 1] \notin Dashed
          /\ argv[k] \notin Dashed => k > 1 /\ argv[k - 1] \in FileOptions
    BY <1>1, <1>2, <1>3, <1>4 DEF InForce, Readable
  <2>2. \A m, k \in 1 .. n :
          m < k /\ argv[m] \in Dashed /\ argv[k] \in Dashed =>
            argv[m] # argv[k] /\ {argv[m], argv[k]} # {"-a", "-e"}
    <3> SUFFICES ASSUME NEW m \in 1 .. n, NEW k \in 1 .. n,
                        m < k, argv[m] \in Dashed, argv[k] \in Dashed
                 PROVE  argv[m] # argv[k] /\ {argv[m], argv[k]} # {"-a", "-e"}
      OBVIOUS
    <3>1. m \in 1 .. p
      BY <1>3
    <3>2. CASE k = n
      <4>1. {argv[m], argv[k]} # {"-a", "-e"}
        BY <1>4, <3>2
      <4> QED
        BY <1>5, <3>1, <3>2, <4>1
    <3>3. CASE k \in 1 .. p
      BY <1>2, <3>1, <3>3 DEF InForce, Readable
    <3> QED
      BY <1>3, <3>2, <3>3
  <2> QED
    BY <2>1, <2>2 DEF Readable
<1>7. flags' = {argv[k] : k \in 1 .. n} \cap Flags
  BY <1>1, <1>2, <1>3 DEF InForce
<1>8. argument' - 1 = n /\ argument' \in 1 .. Len(argv) + 1
  BY <1>1, <1>2
<1>9. InForce(argument - 1)'
  <2>1. \A o \in FileOptions : argv[n] # o
    BY <1>4
  <2>2. \A o \in FileOptions :
          /\ \A k \in 1 .. n : argv[k] = o => given[o] = argv[k + 1]
          /\ (\A k \in 1 .. n : argv[k] # o) => given[o] = NoFile
    BY <1>2, <1>3, <2>1 DEF InForce
  <2>3. DOMAIN given = FileOptions
    BY <1>2 DEF InForce
  <2> QED
    BY <1>1, <1>6, <1>7, <1>8, <2>2, <2>3 DEF InForce
<1> QED
  BY <1>1, <1>2, <1>8, <1>9 DEF OptionsInv

(* An option and its file are in force, if no other input is. *)
LEMMA StepOfFileOption ==
  ASSUME OptionsInv, FileOption
  PROVE  OptionsInv'
<1> DEFINE n == argument
           option == argv[n]
<1>1. /\ phase = "options" /\ option \in FileOptions
      /\ \A o \in Excludes[option] : given[o] = NoFile
      /\ n < Len(argv) /\ argv[n + 1] \notin Dashed
      /\ given' = [given EXCEPT ![option] = argv[n + 1]] /\ argument' = n + 2
      /\ flags' = flags /\ argv' = argv /\ phase' = phase /\ outcome' = outcome
  BY DEF FileOption, Reads, IsFree, HasValue
<1> DEFINE p == n - 1
<1>2. n \in 1 .. Len(argv) + 1 /\ InForce(p) /\ argv \in Seq(STRING) /\ Len(argv) \in Nat
  BY <1>1 DEF OptionsInv
<1>3. /\ p \in Nat /\ n = p + 1 /\ p <= Len(argv) /\ n \in Nat
      /\ \A k \in 1 .. n + 1 : k \in 1 .. p \/ k = n \/ k = n + 1
  BY <1>1, <1>2
<1>4. option \in Dashed /\ option \notin Flags
  BY <1>1, OptionsAreDashed
<1>5. /\ \A m \in 1 .. p : argv[m] # option
      /\ option \in {"-a", "-e"} => \A m \in 1 .. p : argv[m] \notin {"-a", "-e"}
  <2>1. /\ option \in Excludes[option] /\ Excludes[option] \subseteq FileOptions
        /\ option \in {"-a", "-e"} => Excludes[option] = {"-a", "-e"}
    BY <1>1 DEF Excludes, FileOptions
  <2> HIDE DEF p, option, n
  <2>2. \A o \in Excludes[option] : \A m \in 1 .. p : argv[m] # o
    BY <1>1, <1>2, <1>3, <2>1, GivenWhenRead
  <2> QED
    BY <2>1, <2>2
<1>6. Readable(argv, p)
  BY <1>2 DEF InForce
<1> HIDE DEF p
<1>7. Readable(argv, n + 1)
  <2>1. \A k \in 1 .. n + 1 :
          /\ argv[k] \in Flags \/ argv[k] \in FileOptions \/ argv[k] \notin Dashed
          /\ argv[k] \in FileOptions => k < n + 1 /\ argv[k + 1] \notin Dashed
          /\ argv[k] \notin Dashed => k > 1 /\ argv[k - 1] \in FileOptions
    <3> SUFFICES ASSUME NEW k \in 1 .. n + 1
                 PROVE  /\ argv[k] \in Flags \/ argv[k] \in FileOptions \/ argv[k] \notin Dashed
                        /\ argv[k] \in FileOptions => k < n + 1 /\ argv[k + 1] \notin Dashed
                        /\ argv[k] \notin Dashed => k > 1 /\ argv[k - 1] \in FileOptions
      OBVIOUS
    <3>1. CASE k \in 1 .. p
      BY <1>3, <1>6, <3>1 DEF Readable
    <3>2. CASE k = n
      BY <1>1, <1>3, <1>4, <3>2
    <3>3. CASE k = n + 1
      <4>1. argv[k] \notin FileOptions /\ k > 1 /\ argv[k - 1] \in FileOptions
        BY <1>1, <1>3, <3>3, OptionsAreDashed
      <4> QED
        BY <1>1, <3>3, <4>1
    <3> QED
      BY <1>3, <3>1, <3>2, <3>3
  <2>2. \A m, k \in 1 .. n + 1 :
          m < k /\ argv[m] \in Dashed /\ argv[k] \in Dashed =>
            argv[m] # argv[k] /\ {argv[m], argv[k]} # {"-a", "-e"}
    <3> SUFFICES ASSUME NEW m \in 1 .. n + 1, NEW k \in 1 .. n + 1,
                        m < k, argv[m] \in Dashed, argv[k] \in Dashed
                 PROVE  argv[m] # argv[k] /\ {argv[m], argv[k]} # {"-a", "-e"}
      OBVIOUS
    <3>1. m \in 1 .. p /\ (k \in 1 .. p \/ k = n)
      BY <1>1, <1>3
    <3>2. CASE k = n
      <4>1. argv[m] # option
        BY <1>5, <3>1
      <4>2. {argv[m], option} # {"-a", "-e"}
        BY <1>5, <3>1
      <4> QED
        BY <3>2, <4>1, <4>2
    <3>3. CASE k \in 1 .. p
      BY <1>6, <3>1, <3>3 DEF Readable
    <3> QED
      BY <3>1, <3>2, <3>3
  <2> QED
    BY <2>1, <2>2 DEF Readable
<1>8. flags' = {argv[k] : k \in 1 .. n + 1} \cap Flags
  <2>1. argv[n + 1] \notin Flags
    BY <1>1, OptionsAreDashed
  <2> QED
    BY <1>1, <1>2, <1>3, <1>4, <2>1 DEF InForce
<1>9. ASSUME NEW o \in FileOptions
      PROVE  /\ \A k \in 1 .. n + 1 : argv[k] = o => given'[o] = argv[k + 1]
             /\ (\A k \in 1 .. n + 1 : argv[k] # o) => given'[o] = NoFile
  <2>1. argv[n + 1] # o
    BY <1>1, OptionsAreDashed
  <2>2. CASE o = option
    <3>1. given'[o] = argv[n + 1]
      BY <1>1, <1>2, <2>2 DEF InForce
    <3> QED
      BY <1>3, <1>5, <2>1, <2>2, <3>1
  <2>3. CASE o # option
    <3>1. given'[o] = given[o]
      BY <1>1, <1>2, <2>3 DEF InForce
    <3>2. /\ \A k \in 1 .. p : argv[k] = o => given[o] = argv[k + 1]
          /\ (\A k \in 1 .. p : argv[k] # o) => given[o] = NoFile
      BY <1>2 DEF InForce
    <3> QED
      BY <1>3, <2>1, <2>3, <3>1, <3>2
  <2> QED
    BY <2>2, <2>3
<1>10. argument' - 1 = n + 1 /\ argument' \in 1 .. Len(argv) + 1
  BY <1>1, <1>2, <1>3
<1>11. InForce(argument - 1)'
  <2>1. DOMAIN given' = FileOptions
    BY <1>1, <1>2 DEF InForce
  <2> QED
    BY <1>1, <1>7, <1>8, <1>9, <1>10, <2>1 DEF InForce
<1> QED
  BY <1>1, <1>2, <1>10, <1>11 DEF OptionsInv

(* What is refused could not be read, whatever follows it. *)
LEMMA BadArgumentIsUnreadable ==
  ASSUME OptionsInv, BadArgument
  PROVE  ~Readable(argv, Len(argv))
<1> DEFINE n == argument
           a == argv[n]
           p == n - 1
<1>1. /\ phase = "options" /\ n <= Len(argv) /\ a \notin Flags \ flags
      /\ a \in FileOptions =>
           \/ \E o \in Excludes[a] : given[o] # NoFile
           \/ ~(n < Len(argv) /\ argv[n + 1] \notin Dashed)
  BY DEF BadArgument, IsFree, HasValue
<1>2. n \in 1 .. Len(argv) + 1 /\ InForce(p) /\ argv \in Seq(STRING) /\ Len(argv) \in Nat
  BY <1>1 DEF OptionsInv
<1>3. /\ p \in Nat /\ n = p + 1 /\ p <= Len(argv) /\ n \in 1 .. Len(argv)
      /\ \A m \in 1 .. p : m \in 1 .. Len(argv) /\ m < n
  BY <1>1, <1>2
<1> SUFFICES ASSUME Readable(argv, Len(argv))
             PROVE  FALSE
  OBVIOUS
<1> HIDE DEF p
<1>4. CASE a \in Flags
  <2>1. PICK m \in 1 .. p : argv[m] = a
    BY <1>1, <1>2, <1>4 DEF InForce
  <2> QED
    BY <1>3, <1>4, <2>1, OptionsAreDashed DEF Readable
<1>5. CASE a \in FileOptions
  <2>1. n < Len(argv) /\ argv[n + 1] \notin Dashed
    BY <1>3, <1>5 DEF Readable
  <2>2. PICK o \in Excludes[a] : given[o] # NoFile
    BY <1>1, <1>5, <2>1
  <2>3. o \in FileOptions /\ (o = a \/ {o, a} = {"-a", "-e"})
    BY <1>5, <2>2 DEF Excludes, FileOptions
  <2>4. PICK m \in 1 .. p : argv[m] = o
    BY <1>2, <1>3, <2>2, <2>3, GivenWhenRead
  <2>5. m \in 1 .. Len(argv) /\ m < n /\ argv[m] \in Dashed /\ a \in Dashed
    BY <1>3, <1>5, <2>3, <2>4, OptionsAreDashed
  <2>6. argv[m] # a /\ {argv[m], a} # {"-a", "-e"}
    BY <1>3, <2>5 DEF Readable
  <2> QED
    BY <2>3, <2>4, <2>6
<1>6. CASE a \notin Flags /\ a \notin FileOptions
  <2>1. n > 1 /\ argv[n - 1] \in FileOptions
    BY <1>3, <1>6 DEF Readable
  <2>2. p \in 1 .. p
    BY <1>3, <2>1
  <2> QED
    BY <1>2, <2>1, <2>2 DEF InForce, Readable, p
<1> QED
  BY <1>4, <1>5, <1>6

LEMMA OptionsAtFirst ==
  ASSUME Init
  PROVE  OptionsInv
<1>1. PICK s \in Scenarios :
        /\ argv = s.argv /\ argument = 1 /\ flags = {} /\ given = [o \in FileOptions |-> NoFile]
        /\ phase = "options" /\ outcome = "none"
  BY DEF Init
<1>2. argv \in Seq(STRING)
  BY <1>1, StartupAssumption DEF ArgumentAssumption
<1>3. Len(argv) \in Nat
  BY <1>2
<1>4. InForce(0)
  BY <1>1 DEF InForce, Readable
<1> QED
  BY <1>1, <1>2, <1>3, <1>4 DEF OptionsInv

LEMMA OptionsAlways ==
  ASSUME OptionsInv, LoaderIsCalled, [Next]_vars
  PROVE  OptionsInv'
<1>1. CASE Flag
  BY <1>1, StepOfFlag
<1>2. CASE FileOption
  BY <1>2, StepOfFileOption
<1>3. CASE BadArgument
  <2>1. ~Readable(argv, Len(argv)) /\ argv' = argv /\ phase' = "stopped"
    BY <1>3, BadArgumentIsUnreadable DEF BadArgument, Stop
  <2> QED
    BY <2>1 DEF OptionsInv
<1>4. CASE EndOfArguments
  <2>1. /\ phase = "options" /\ argument > Len(argv) /\ phase' = "configure"
        /\ argv' = argv /\ flags' = flags /\ given' = given /\ outcome' = outcome
    BY <1>4 DEF EndOfArguments
  <2>2. argument \in 1 .. Len(argv) + 1 /\ InForce(argument - 1) /\ argv \in Seq(STRING)
    BY <2>1 DEF OptionsInv
  <2>3. argument - 1 = Len(argv)
    BY <2>1, <2>2
  <2>4. InForce(Len(argv))
    BY <2>2, <2>3
  <2>5. InForce(Len(argv))'
    BY <2>1, <2>4 DEF InForce
  <2> QED
    BY <2>1, <2>2, <2>5 DEF OptionsInv
<1>5. ASSUME argv' = argv, phase' \notin {"options", "configure"}, outcome' = "usage" => outcome = "usage"
      PROVE  OptionsInv'
  BY <1>5 DEF OptionsInv
<1>6. CASE UNCHANGED main_vars
  <2>1. InForce(argument - 1) => InForce(argument - 1)'
    BY <1>6 DEF InForce, main_vars
  <2>2. InForce(Len(argv)) => InForce(Len(argv))'
    BY <1>6 DEF InForce, main_vars
  <2> QED
    BY <1>6, <2>1, <2>2 DEF OptionsInv, main_vars
<1>7. CASE Allocate \/ InstructionsRefused \/ AllocationRefused
  BY <1>5, <1>7 DEF Allocate, InstructionsRefused, AllocationRefused, Stop, Moves
<1>8. CASE TraceFails \/ NoInput \/ ElfFails \/ FillStrings \/ ObjectFails \/ ObjectCrashes
  BY <1>5, <1>8 DEF TraceFails, NoInput, ElfFails, FillStrings, ObjectFails, ObjectCrashes, Stop
<1>9. CASE Simulate \/ SimulateCrashes \/ Dump \/ DumpFails
  BY <1>5, <1>9 DEF Simulate, SimulateCrashes, Dump, DumpFails, Stop
<1>10. CASE ConfigureNext
  BY <1>5, <1>10 DEF ConfigureNext, KeepDefaults, ConfigBufferRefused, ReadConfig, InvalidConfig,
     ApplyConfig, Moves
<1>11. CASE OpenTraceFiles \/ LoadObject
  BY <1>5, <1>11 DEF OpenTraceFiles, LoadObject, Moves
<1> QED
  BY <1>1, <1>2, <1>3, <1>4, <1>6, <1>7, <1>8, <1>9, <1>10, <1>11
  DEF Next, MainNext, Stopped, LoadElf, vars

(* Whether the arguments are accepted, and what is in force then, is        *)
(* decided by the arguments and not by their order: the loop of main().     *)
THEOREM OptionsAlwaysDecide ==
  Spec => []OptionsDecide
<1>1. Init => OptionsInv
  BY OptionsAtFirst
<1>2. OptionsInv /\ ResourcesInv /\ [Next]_vars => OptionsInv'
  BY OptionsAlways DEF ResourcesInv
<1>3. OptionsInv => OptionsDecide
  <2> SUFFICES ASSUME OptionsInv
               PROVE  OptionsDecide
    OBVIOUS
  <2>1. argv \in Seq(STRING) /\ DOMAIN argv = 1 .. Len(argv) /\ Len(argv) \in Nat
    BY DEF OptionsInv
  <2>2. Acceptable(argv) <=> Readable(argv, Len(argv))
    BY <2>1, AcceptableIsReadable
  <2>3. outcome = "usage" => ~Acceptable(argv)
    BY <2>2 DEF OptionsInv
  <2>4. ASSUME phase = "configure"
        PROVE  /\ Acceptable(argv)
               /\ flags = {argv[n] : n \in DOMAIN argv} \cap Flags
               /\ \A o \in FileOptions :
                    given[o] = IF \E n \in DOMAIN argv : argv[n] = o
                               THEN argv[1 + CHOOSE n \in DOMAIN argv : argv[n] = o] ELSE NoFile
    <3>1. InForce(Len(argv))
      BY <2>4 DEF OptionsInv
    <3>2. Acceptable(argv) /\ flags = {argv[n] : n \in DOMAIN argv} \cap Flags
      BY <2>1, <2>2, <3>1 DEF InForce
    <3>3. ASSUME NEW o \in FileOptions
          PROVE  given[o] = IF \E n \in DOMAIN argv : argv[n] = o
                            THEN argv[1 + CHOOSE n \in DOMAIN argv : argv[n] = o] ELSE NoFile
      <4>1. CASE \E n \in DOMAIN argv : argv[n] = o
        <5> DEFINE c == CHOOSE n \in DOMAIN argv : argv[n] = o
        <5>1. c \in DOMAIN argv /\ argv[c] = o
          BY <4>1
        <5> HIDE DEF c
        <5>2. given[o] = argv[c + 1] /\ c + 1 = 1 + c
          BY <2>1, <3>1, <5>1 DEF InForce
        <5> QED
          BY <4>1, <5>2 DEF c
      <4>2. CASE ~(\E n \in DOMAIN argv : argv[n] = o)
        BY <2>1, <3>1, <4>2 DEF InForce
      <4> QED
        BY <4>1, <4>2
    <3> QED
      BY <3>2, <3>3
  <2> QED
    BY <2>3, <2>4 DEF OptionsDecide
<1> QED
  BY <1>1, <1>2, <1>3, ResourcesInvAlways, PTL DEF Spec

-----------------------------------------------------------------------------
(* The ELF file.  A byte of the memory is that of the last segment loaded   *)
(* there, be it from the file or one of the zeros behind what the file has. *)

WellFormed ==
  /\ elf.bytes \in Seq(Nat) /\ elf.segments \in Seq(ProgramHeader)
  /\ \A n \in 1 .. Len(elf.segments) :
       /\ elf.segments[n].filesz <= elf.segments[n].memsz
       /\ elf.segments[n].vaddr + elf.segments[n].memsz < Modulus

ByteOf(s, a) == IF a < s.vaddr + s.filesz THEN elf.bytes[s.offset + a - s.vaddr + 1] ELSE 0

(* The segments before the k-th are loaded, and nothing else is. *)
Filled(k) ==
  /\ \A a \in DOMAIN dram :
       a \in Nat /\ \E n \in LoadSegments : n < k /\ Covers(elf.segments[n], a)
  /\ \A n \in LoadSegments, a \in Nat :
       /\ n < k /\ Covers(elf.segments[n], a)
       /\ \A m \in LoadSegments : m < k /\ Covers(elf.segments[m], a) => m <= n
       => a \in DOMAIN dram /\ dram[a] = ByteOf(elf.segments[n], a)

(* A segment that is not in the DRAM, or not in the file. *)
Unloadable ==
  \E n \in LoadSegments :
    \/ Outside(n)
    \/ elf.segments[n].offset + elf.segments[n].filesz > Len(elf.bytes)

(* The segments before the k-th are in the DRAM. *)
Inside(k) == \A n \in LoadSegments : n < k => ~Outside(n)

LoadedInv ==
  /\ elf # NoFile => WellFormed
  /\ loader \in {"idle", "header", "table"} => dram = <<>> /\ segment = 0
  /\ loader \in {"table", "segments", "fill"} => elf.header = ElfHeader
  /\ loader \in {"segments", "fill"} => segment \in 1 .. Len(elf.segments) + 1 /\ Filled(segment) /\ Inside(segment)
  /\ loader = "fill" => segment = Len(elf.segments) + 1 /\ entry = elf.entry
  /\ loader = "failed" /\ segment > 0 => Unloadable
  /\ phase = "simulate" /\ given["-e"] # NoFile => loader = "fill"

(* A finite set of numbers has a greatest one. *)
LEMMA GreatestExists ==
  ASSUME NEW N \in Nat, NEW S \in SUBSET (1 .. N), S # {}
  PROVE  \E n \in S : \A m \in S : m <= n
<1> DEFINE U == {k \in Nat : \A m \in S : m <= k}
           k == Least(U)
<1>1. N \in U
  OBVIOUS
<1>2. k \in U /\ \A j \in U : k <= j
  <2> HIDE DEF U
  <2>1. U \in SUBSET Nat /\ U # {}
    BY <1>1 DEF U
  <2> QED
    BY <2>1, LeastExists
<1> HIDE DEF k
<1>3. k \in S
  <2> SUFFICES ASSUME k \notin S
               PROVE  FALSE
    OBVIOUS
  <2>1. \A m \in S : m \in Nat /\ m >= 1 /\ m <= k - 1
    BY <1>2
  <2>2. k - 1 \in Nat
    <3>1. PICK m \in S : m >= 1 /\ m <= k - 1
      BY <2>1
    <3> QED
      BY <1>2, <3>1
  <2>3. k - 1 \in U
    BY <2>1, <2>2
  <2> QED
    BY <1>2, <2>3
<1> QED
  BY <1>2, <1>3

LEMMA LoadedAtFirst ==
  ASSUME Init
  PROVE  LoadedInv
<1>1. PICK s \in Scenarios :
        /\ elf = s.elf /\ loader = "idle" /\ segment = 0 /\ dram = <<>> /\ phase = "options"
  BY DEF Init
<1>2. elf # NoFile => WellFormed
  BY <1>1, StartupAssumption DEF ElfAssumption, WellFormed
<1> QED
  BY <1>1, <1>2 DEF LoadedInv

(* One block of bytes is written over another. *)
LEMMA WrittenOver ==
  ASSUME NEW f, NEW g
  PROVE  /\ DOMAIN Over(f, g) = DOMAIN f \cup DOMAIN g
         /\ \A a \in DOMAIN f : Over(f, g)[a] = f[a]
         /\ \A a \in DOMAIN g : a \notin DOMAIN f => Over(f, g)[a] = g[a]
BY DEF Over

(* What is written for the segment, over what was there. *)
LEMMA SegmentIsFilled ==
  ASSUME NEW k \in 1 .. Len(elf.segments), WellFormed, Filled(k), segment = k,
         Header.type = "PT_LOAD", dram' = Over(Zeroed, Over(FromFile(Header.filesz), dram)),
         UNCHANGED elf
  PROVE  Filled(k + 1)'
<1> DEFINE s == elf.segments[k]
           v == s.vaddr
           f == s.filesz
           z == s.memsz
           w == Over(Zeroed, Over(FromFile(Header.filesz), dram))
<1>1. Header = s /\ s \in ProgramHeader /\ DOMAIN elf.segments = 1 .. Len(elf.segments)
  BY DEF Header, WellFormed
<1>2. v \in Nat /\ f \in Nat /\ z \in Nat /\ f <= z /\ s.type = "PT_LOAD"
  BY <1>1 DEF ProgramHeader, WellFormed
<1>3. /\ DOMAIN Zeroed = v + f .. v + z - 1 /\ \A a \in v + f .. v + z - 1 : Zeroed[a] = 0
      /\ DOMAIN FromFile(f) = v .. v + f - 1
      /\ \A a \in v .. v + f - 1 : FromFile(f)[a] = elf.bytes[s.offset + a - v + 1]
  BY <1>1 DEF Zeroed, FromFile
<1> HIDE DEF s, v, f, z
<1>4. /\ \A a \in v .. v + z - 1 : a \in DOMAIN w /\ w[a] = ByteOf(s, a)
      /\ \A a \in DOMAIN dram : a \in DOMAIN w /\ (a \notin v .. v + z - 1 => w[a] = dram[a])
      /\ \A a \in DOMAIN w : a \in v .. v + z - 1 \/ a \in DOMAIN dram
  <2> DEFINE A == Zeroed
             B == FromFile(f)
  <2>1. w = Over(A, Over(B, dram))
    BY <1>1 DEF f
  <2> HIDE DEF A, B, w
  <2>2. /\ DOMAIN w = DOMAIN A \cup DOMAIN B \cup DOMAIN dram
        /\ \A a \in DOMAIN A : w[a] = A[a]
        /\ \A a \in DOMAIN B : a \notin DOMAIN A => w[a] = B[a]
        /\ \A a \in DOMAIN dram : a \notin DOMAIN A /\ a \notin DOMAIN B => w[a] = dram[a]
    <3> DEFINE x == Over(B, dram)
    <3>1. /\ DOMAIN x = DOMAIN B \cup DOMAIN dram
          /\ \A a \in DOMAIN B : x[a] = B[a]
          /\ \A a \in DOMAIN dram : a \notin DOMAIN B => x[a] = dram[a]
      BY WrittenOver
    <3> HIDE DEF x
    <3>2. /\ DOMAIN Over(A, x) = DOMAIN A \cup DOMAIN x
          /\ \A a \in DOMAIN A : Over(A, x)[a] = A[a]
          /\ \A a \in DOMAIN x : a \notin DOMAIN A => Over(A, x)[a] = x[a]
      BY WrittenOver
    <3>3. w = Over(A, x)
      BY <2>1 DEF x
    <3> QED
      BY <3>1, <3>2, <3>3
  <2>3. /\ DOMAIN A = v + f .. v + z - 1 /\ DOMAIN B = v .. v + f - 1
        /\ \A a \in v + f .. v + z - 1 : A[a] = ByteOf(s, a)
        /\ \A a \in v .. v + f - 1 : B[a] = ByteOf(s, a)
    BY <1>2, <1>3 DEF ByteOf, v, f, A, B
  <2>4. /\ \A a \in v .. v + z - 1 : a \in v + f .. v + z - 1 \/ a \in v .. v + f - 1
        /\ \A a \in v .. v + f - 1 : a \in v .. v + z - 1 /\ a \notin v + f .. v + z - 1
        /\ v + f .. v + z - 1 \subseteq v .. v + z - 1
    BY <1>2
  <2> QED
    BY <2>2, <2>3, <2>4
<1> HIDE DEF w
<1>5. \A a \in Nat : Covers(s, a) <=> a \in v .. v + z - 1
  BY <1>2 DEF Covers, v, z
<1>6. k \in LoadSegments /\ LoadSegments \subseteq Nat /\ k \in Nat
  BY <1>1, <1>2 DEF LoadSegments, s
<1>7. \A n \in LoadSegments : n < k + 1 <=> n < k \/ n = k
  BY <1>6
<1>8. \A a \in DOMAIN w : a \in Nat /\ \E n \in LoadSegments : n < k + 1 /\ Covers(elf.segments[n], a)
  <2> SUFFICES ASSUME NEW a \in DOMAIN w
               PROVE  a \in Nat /\ \E n \in LoadSegments : n < k + 1 /\ Covers(elf.segments[n], a)
    OBVIOUS
  <2>1. CASE a \in v .. v + z - 1
    BY <1>2, <1>5, <1>6, <1>7, <2>1 DEF s
  <2>2. CASE a \in DOMAIN dram
    BY <1>7, <2>2 DEF Filled
  <2> QED
    BY <1>4, <2>1, <2>2
<1>9. ASSUME NEW n \in LoadSegments, NEW a \in Nat, n < k + 1, Covers(elf.segments[n], a),
             \A m \in LoadSegments : m < k + 1 /\ Covers(elf.segments[m], a) => m <= n
      PROVE  a \in DOMAIN w /\ w[a] = ByteOf(elf.segments[n], a)
  <2>1. CASE n = k
    BY <1>4, <1>5, <1>9, <2>1 DEF s
  <2>2. CASE n < k
    <3>1. ~Covers(s, a)
      BY <1>6, <1>7, <1>9, <2>2 DEF s
    <3>2. a \in DOMAIN dram /\ dram[a] = ByteOf(elf.segments[n], a)
      BY <1>7, <1>9, <2>2 DEF Filled
    <3> QED
      BY <1>4, <1>5, <3>1, <3>2
  <2> QED
    BY <1>7, <1>9, <2>1, <2>2
<1>10. dram' = w /\ elf' = elf
  BY DEF w
<1> QED
  BY <1>8, <1>9, <1>10 DEF Filled, LoadSegments, ByteOf

(* A segment that is passed over needs no bytes. *)
LEMMA SegmentIsSkipped ==
  ASSUME NEW k \in 1 .. Len(elf.segments), Filled(k), elf.segments[k].type # "PT_LOAD",
         UNCHANGED <<elf, dram>>
  PROVE  Filled(k + 1)'
<1>1. k \in Nat /\ \A n \in LoadSegments : n \in Nat /\ n # k
  BY DEF LoadSegments
<1>2. \A n \in LoadSegments : n < k + 1 <=> n < k
  BY <1>1
<1> QED
  BY <1>2 DEF Filled, LoadSegments, ByteOf

(* The segments stay in the DRAM when one more is passed. *)
LEMMA SegmentIsInside ==
  ASSUME NEW k \in 1 .. Len(elf.segments), Inside(k), k \in LoadSegments => ~Outside(k),
         UNCHANGED <<elf, config>>
  PROVE  Inside(k + 1)'
<1>1. \A n \in LoadSegments : n < k + 1 <=> n < k \/ n = k
  BY DEF LoadSegments
<1>2. \A n \in LoadSegments : n < k + 1 => ~Outside(n)
  BY <1>1 DEF Inside
<1> QED
  BY <1>2 DEF Inside, LoadSegments, Outside

(* A segment that passes the test of the loader lies in the DRAM. *)
LEMMA LoadedIsInside ==
  ASSUME WellFormed, NEW k \in 1 .. Len(elf.segments), segment = k, Header.type = "PT_LOAD",
         ~Exceeds(config.global.DRAM_SIZE)
  PROVE  ~Outside(k)
<1>1. Header \in ProgramHeader /\ Header = elf.segments[k] /\ DOMAIN elf.segments = 1 .. Len(elf.segments)
  BY DEF Header, WellFormed
<1>2. Header.vaddr \in Nat /\ Header.memsz \in Nat
  BY <1>1 DEF ProgramHeader
<1>3. Modulus \in Nat
  BY StartupAssumption DEF ElfAssumption
<1>4. k \in LoadSegments
  BY <1>1 DEF LoadSegments
<1>5. Header.vaddr + Header.memsz < Modulus
  BY <1>1, <1>4 DEF WellFormed
<1>6. (Header.vaddr + Header.memsz) % Modulus = Header.vaddr + Header.memsz
  BY <1>2, <1>3, <1>5
<1> QED
  BY <1>1, <1>6 DEF Exceeds, Outside

(* A segment is given up for what is wrong with it. *)
LEMMA FailedIsUnloadable ==
  ASSUME WellFormed, segment \in 1 .. Len(elf.segments), Header.type = "PT_LOAD",
         Exceeds(config.global.DRAM_SIZE) \/ Available < Header.filesz
  PROVE  Unloadable
<1>1. Header \in ProgramHeader /\ DOMAIN elf.segments = 1 .. Len(elf.segments)
  BY DEF Header, WellFormed
<1>2. segment \in LoadSegments /\ Header = elf.segments[segment]
  BY <1>1 DEF LoadSegments, Header
<1>3. /\ Header.vaddr + Header.memsz \in Nat /\ Header.vaddr + Header.memsz < Modulus
      /\ Header.offset \in Nat /\ Header.filesz \in Nat /\ Len(elf.bytes) \in Nat /\ Modulus \in Nat
  <2>1. Modulus \in Nat
    BY StartupAssumption DEF ElfAssumption
  <2>2. Len(elf.bytes) \in Nat
    BY DEF WellFormed
  <2>3. Header.vaddr + Header.memsz < Modulus
    BY <1>2 DEF WellFormed
  <2>4. /\ Header.offset \in Nat /\ Header.filesz \in Nat
        /\ Header.vaddr \in Nat /\ Header.memsz \in Nat
    BY <1>1 DEF ProgramHeader
  <2> QED
    BY <2>1, <2>2, <2>3, <2>4
<1>4. CASE Exceeds(config.global.DRAM_SIZE)
  <2>1. (Header.vaddr + Header.memsz) % Modulus = Header.vaddr + Header.memsz
    BY <1>3
  <2> QED
    BY <1>2, <1>4, <2>1 DEF Exceeds, Unloadable, Outside
<1>5. CASE Available < Header.filesz
  <2>1. ~(Header.offset + Header.filesz <= Len(elf.bytes))
    BY <1>3, <1>5 DEF Available
  <2> QED
    BY <1>2, <1>3, <2>1 DEF Unloadable
<1> QED
  BY <1>4, <1>5

(* Every step of the loader keeps what it has promised. *)
LEMMA LoaderStep ==
  ASSUME LoadedInv, LoadElf, UNCHANGED config
  PROVE  LoadedInv'
<1>1. /\ phase = "load" /\ elf # NoFile /\ WellFormed
      /\ phase' = phase /\ given' = given
  BY DEF LoadElf, LoadedInv, main_vars
<1>2. Len(elf.segments) \in Nat
  BY <1>1 DEF WellFormed
<1>3. ASSUME elf' = elf
      PROVE  WellFormed'
  BY <1>1, <1>3 DEF WellFormed
<1>4. CASE OpenElf
  BY <1>1, <1>3, <1>4 DEF OpenElf, LoadedInv
<1>5. CASE HeaderIsRead
  BY <1>1, <1>3, <1>5 DEF HeaderIsRead, read_elf_header, LoadedInv
<1>6. CASE HeaderFails \/ TableFails
  <2>1. /\ loader \in {"header", "table"} /\ loader' = "failed" /\ segment' = segment /\ elf' = elf
    BY <1>6 DEF HeaderFails, TableFails, GiveUp
  <2>2. segment = 0
    BY <2>1 DEF LoadedInv
  <2> QED
    BY <1>1, <1>3, <2>1, <2>2 DEF LoadedInv
<1>7. CASE TableIsRead
  <2>1. /\ loader = "table" /\ loader' = "segments" /\ segment' = 1 /\ elf' = elf /\ dram' = dram
    BY <1>7 DEF TableIsRead
  <2>2. dram = <<>> /\ elf.header = ElfHeader
    BY <2>1 DEF LoadedInv
  <2>3. \A n \in LoadSegments : ~(n < 1)
    BY <1>1 DEF LoadSegments, WellFormed
  <2>4. Filled(1)'
    BY <2>1, <2>2, <2>3 DEF Filled, LoadSegments
  <2>5. Inside(1)'
    BY <2>1, <2>3 DEF Inside, LoadSegments
  <2> QED
    BY <1>1, <1>2, <1>3, <2>1, <2>2, <2>4, <2>5 DEF LoadedInv
<1>8. ASSUME loader = "segments", loader' = "segments", elf' = elf, segment' = segment + 1,
             segment \in 1 .. Len(elf.segments),
             NEW k, segment = k, Filled(k + 1)', Inside(k + 1)'
      PROVE  LoadedInv'
  <2>1. elf.header = ElfHeader
    BY <1>8 DEF LoadedInv
  <2>2. segment' \in 1 .. Len(elf.segments) + 1 /\ segment' = k + 1
    BY <1>2, <1>8
  <2>3. Filled(segment)' /\ Inside(segment)'
    BY <1>8, <2>2 DEF Filled, Inside
  <2> QED
    BY <1>1, <1>3, <1>8, <2>1, <2>2, <2>3 DEF LoadedInv
<1>9. ASSUME LoadsSegments
      PROVE  /\ loader = "segments" /\ segment \in 1 .. Len(elf.segments) /\ Filled(segment)
             /\ Inside(segment) /\ \E k \in 1 .. Len(elf.segments) : segment = k
  BY <1>2, <1>9 DEF LoadsSegments, LoadedInv
<1>10. CASE SkipSegment
  <2>1. /\ loader' = loader /\ elf' = elf /\ dram' = dram /\ segment' = segment + 1
        /\ elf.segments[segment].type # "PT_LOAD" /\ LoadsSegments
    BY <1>10 DEF SkipSegment, Header
  <2>2. PICK k \in 1 .. Len(elf.segments) : segment = k
    BY <1>9, <2>1
  <2>3. Filled(k) /\ elf.segments[k].type # "PT_LOAD"
    BY <1>9, <2>1, <2>2
  <2>4. Filled(k + 1)'
    BY <2>1, <2>3, SegmentIsSkipped
  <2>5. Inside(k + 1)'
    <3>1. Inside(k) /\ k \notin LoadSegments
      BY <1>9, <2>1, <2>2, <2>3 DEF LoadSegments
    <3> QED
      BY <2>1, <3>1, SegmentIsInside
  <2> QED
    BY <1>8, <1>9, <2>1, <2>2, <2>4, <2>5
<1>11. CASE LoadSegment(config.global.DRAM_SIZE)
  <2>1. /\ loader' = loader /\ elf' = elf /\ segment' = segment + 1
        /\ dram' = Over(Zeroed, Over(FromFile(Header.filesz), dram))
        /\ Header.type = "PT_LOAD" /\ LoadsSegments /\ ~Exceeds(config.global.DRAM_SIZE)
    BY <1>11 DEF LoadSegment
  <2>2. PICK k \in 1 .. Len(elf.segments) : segment = k
    BY <1>9, <2>1
  <2>3. Filled(k)
    BY <1>9, <2>1, <2>2
  <2>4. Filled(k + 1)'
    BY <1>1, <2>1, <2>2, <2>3, SegmentIsFilled
  <2>5. Inside(k + 1)'
    <3>1. Inside(k)
      BY <1>9, <2>1, <2>2
    <3>2. ~Outside(k)
      BY <1>1, <2>1, <2>2, LoadedIsInside
    <3> QED
      BY <2>1, <3>1, <3>2, SegmentIsInside
  <2> QED
    BY <1>8, <1>9, <2>1, <2>2, <2>4, <2>5
<1>12. CASE SegmentFails(config.global.DRAM_SIZE)
  <2>1. /\ loader' = "failed" /\ elf' = elf /\ segment' = segment /\ LoadsSegments
        /\ Header.type = "PT_LOAD"
        /\ Exceeds(config.global.DRAM_SIZE) \/ Available < Header.filesz
    BY <1>12 DEF SegmentFails, GiveUp
  <2>2. segment \in 1 .. Len(elf.segments)
    BY <1>9, <2>1
  <2>3. Unloadable
    BY <1>1, <2>1, <2>2, FailedIsUnloadable
  <2>4. Unloadable'
    BY <2>1, <2>3 DEF Unloadable, LoadSegments, Outside
  <2> QED
    BY <1>1, <1>3, <2>1, <2>4 DEF LoadedInv
<1>13. CASE SegmentsLoaded
  <2>1. /\ loader = "segments" /\ loader' = "fill" /\ segment > Len(elf.segments)
        /\ entry' = elf.entry /\ elf' = elf /\ segment' = segment /\ dram' = dram
    BY <1>13 DEF SegmentsLoaded
  <2>2. segment \in 1 .. Len(elf.segments) + 1 /\ Filled(segment) /\ elf.header = ElfHeader
    BY <2>1 DEF LoadedInv
  <2>3. segment = Len(elf.segments) + 1
    BY <1>2, <2>1, <2>2
  <2>4. Filled(segment)'
    BY <2>1, <2>2 DEF Filled, LoadSegments, ByteOf
  <2>5. Inside(segment)'
    <3>1. Inside(segment)
      BY <2>1 DEF LoadedInv
    <3> QED
      BY <2>1, <3>1 DEF Inside, LoadSegments, Outside
  <2> QED
    BY <1>1, <1>3, <2>1, <2>2, <2>3, <2>4, <2>5 DEF LoadedInv
<1> QED
  BY <1>4, <1>5, <1>6, <1>7, <1>10, <1>11, <1>12, <1>13 DEF LoadElf, ElfNext

(* What the rest of the program does leaves the loader's promise alone. *)
LEMMA LoadedStays ==
  ASSUME LoadedInv, UNCHANGED <<elf, loader, segment, dram>>,
         loader = "fill" => entry' = entry,
         loader \in {"segments", "fill", "failed"} => config' = config,
         phase' = "simulate" /\ given'["-e"] # NoFile => loader = "fill"
  PROVE  LoadedInv'
<1>1. (elf # NoFile => WellFormed)'
  BY DEF LoadedInv, WellFormed
<1>2. Filled(segment) => Filled(segment)'
  BY DEF Filled, LoadSegments, ByteOf
<1>3. loader = "failed" /\ Unloadable => Unloadable'
  BY DEF Unloadable, LoadSegments, Outside
<1>4. loader \in {"segments", "fill"} /\ Inside(segment) => Inside(segment)'
  BY DEF Inside, LoadSegments, Outside
<1> QED
  BY <1>1, <1>2, <1>3, <1>4 DEF LoadedInv

(* So does every step of the program. *)
LEMMA LoadedAlways ==
  ASSUME ResourcesInv, LoadedInv, [Next]_vars
  PROVE  LoadedInv'
<1>1. LoaderIsCalled
  BY DEF ResourcesInv
<1>2. CASE MainNext /\ UNCHANGED <<config_vars, elf_vars>>
  <2>1. UNCHANGED <<elf, loader, segment, dram, entry, config>>
    BY <1>2 DEF elf_vars, config_vars
  <2>2. phase' = "simulate" /\ given'["-e"] # NoFile => loader = "fill"
    <3>1. CASE Flag \/ FileOption \/ BadArgument \/ EndOfArguments
      BY <3>1 DEF Flag, FileOption, BadArgument, EndOfArguments, Reads, Stop
    <3>2. CASE Allocate \/ InstructionsRefused \/ AllocationRefused
      BY <3>2 DEF Allocate, InstructionsRefused, AllocationRefused, Stop, Moves
    <3>3. CASE TraceFails \/ NoInput \/ ElfFails \/ FillStrings
      BY <3>3 DEF TraceFails, NoInput, ElfFails, FillStrings, Stop
    <3>4. CASE ObjectFails \/ ObjectCrashes
      BY <3>4 DEF ObjectFails, ObjectCrashes, Stop
    <3>5. CASE Simulate \/ SimulateCrashes \/ Dump \/ DumpFails
      BY <3>5 DEF Simulate, SimulateCrashes, Dump, DumpFails, Stop
    <3> QED
      BY <1>2, <3>1, <3>2, <3>3, <3>4, <3>5 DEF MainNext
  <2> QED
    BY <2>1, <2>2, LoadedStays
<1>3. CASE ConfigureNext /\ UNCHANGED elf_vars
  <2>1. UNCHANGED <<elf, loader, segment, dram, entry>>
    BY <1>3 DEF elf_vars
  <2>2. phase \in {"configure", "parse"} /\ phase' \in {"allocate", "parse"}
    BY <1>3 DEF ConfigureNext, KeepDefaults, ConfigBufferRefused, ReadConfig, InvalidConfig,
       ApplyConfig, Moves
  <2>3. loader = "idle"
    BY <1>1, <2>2 DEF LoaderIsCalled, Before
  <2> QED
    BY <2>1, <2>2, <2>3, LoadedStays
<1>4. CASE UNCHANGED <<config_vars, elf_vars, main_vars>>
  <2>1. UNCHANGED <<elf, loader, segment, dram, entry, config, phase, given>>
    BY <1>4 DEF elf_vars, config_vars, main_vars
  <2>2. phase = "simulate" /\ given["-e"] # NoFile => loader = "fill"
    BY DEF LoadedInv
  <2> QED
    BY <2>1, <2>2, LoadedStays
<1>5. CASE OpenTraceFiles /\ UNCHANGED config_vars
  <2>1. UNCHANGED <<elf, loader, segment, dram, entry, config>> /\ phase' = "load"
    BY <1>5 DEF OpenTraceFiles, Moves, config_vars
  <2> QED
    BY <2>1, LoadedStays
<1>6. CASE LoadElf /\ UNCHANGED config_vars
  BY <1>6, LoaderStep DEF config_vars
<1>7. CASE LoadObject /\ UNCHANGED <<config_vars, elf, loader, segment, dram>>
  <2>1. /\ UNCHANGED <<elf, loader, segment, dram, config, given>>
        /\ phase = "load" /\ given["-e"] = NoFile
    BY <1>7 DEF LoadObject, config_vars
  <2>2. loader = "idle"
    BY <1>1, <2>1 DEF LoaderIsCalled
  <2> QED
    BY <2>1, <2>2, LoadedStays
<1> QED
  BY <1>2, <1>3, <1>4, <1>5, <1>6, <1>7 DEF Next, Stopped, vars

(* With all segments loaded, every byte is the one the file asks for. *)
LEMMA LinkedByByte ==
  ASSUME WellFormed, Filled(Len(elf.segments) + 1), NEW a \in Nat
  PROVE  (IF a \in DOMAIN dram THEN dram[a] ELSE 0) = Linked_Byte(a)
<1> DEFINE N    == Len(elf.segments)
           over == {n \in LoadSegments : Covers(elf.segments[n], a)}
           last == CHOOSE n \in over : \A m \in over : m <= n
<1>1. N \in Nat /\ LoadSegments \subseteq 1 .. N /\ \A n \in LoadSegments : n < N + 1
  BY DEF WellFormed, LoadSegments
<1>2. Linked_Byte(a) = IF over = {} THEN 0 ELSE ByteOf(elf.segments[last], a)
  BY DEF Linked_Byte, ByteOf
<1>3. CASE over = {}
  <2>1. a \notin DOMAIN dram
    BY <1>3 DEF Filled
  <2> QED
    BY <1>2, <1>3, <2>1
<1>4. CASE over # {}
  <2>1. over \in SUBSET (1 .. N)
    BY <1>1
  <2>2. \E n \in over : \A m \in over : m <= n
    <3> HIDE DEF over, N
    <3> QED
      BY <1>1, <1>4, <2>1, GreatestExists
  <2>3. last \in over /\ \A m \in over : m <= last
    BY <2>2
  <2> HIDE DEF last
  <2>4. a \in DOMAIN dram /\ dram[a] = ByteOf(elf.segments[last], a)
    BY <1>1, <2>3 DEF Filled
  <2> QED
    BY <1>2, <1>4, <2>4
<1> QED
  BY <1>3, <1>4

(* What is simulated is the program of the file, byte by byte, for every    *)
(* list of segments, in whatever order and overlapping or not; all of them  *)
(* lie in the DRAM; and a file is turned down for a segment only if one     *)
(* does not fit (load_segments).                                            *)
THEOREM LoadedIsAlwaysLinked ==
  Spec => []LoadedAsLinked
<1>1. Init => LoadedInv
  BY LoadedAtFirst
<1>2. ResourcesInv /\ LoadedInv /\ [Next]_vars => LoadedInv'
  BY LoadedAlways
<1>3. ResourcesInv /\ LoadedInv => LoadedAsLinked
  <2> SUFFICES ASSUME ResourcesInv, LoadedInv
               PROVE  LoadedAsLinked
    OBVIOUS
  <2>1. loader = "failed" /\ segment > 0 => Unloadable
    BY DEF LoadedInv
  <2>2. ASSUME phase = "simulate", given["-e"] # NoFile
        PROVE  /\ elf.header = ElfHeader /\ entry = elf.entry
               /\ \A n \in LoadSegments : ~Outside(n)
               /\ \A a \in DOMAIN dram \cup UNION {elf.segments[n].vaddr ..
                                                     elf.segments[n].vaddr + elf.segments[n].memsz - 1 :
                                                   n \in LoadSegments} :
                    (IF a \in DOMAIN dram THEN dram[a] ELSE 0) = Linked_Byte(a)
    <3>1. loader = "fill"
      BY <2>2 DEF LoadedInv
    <3>2. elf # NoFile
      BY <3>1 DEF ResourcesInv, LoaderIsCalled
    <3>3. WellFormed /\ Filled(Len(elf.segments) + 1) /\ elf.header = ElfHeader /\ entry = elf.entry
      BY <3>1, <3>2 DEF LoadedInv
    <3>4. \A a \in DOMAIN dram : a \in Nat
      BY <3>3 DEF Filled
    <3>5. ASSUME NEW n \in LoadSegments
          PROVE  elf.segments[n].vaddr \in Nat /\ elf.segments[n].memsz \in Nat
      <4>1. elf.segments \in Seq(ProgramHeader) /\ n \in DOMAIN elf.segments
        BY <3>3, <3>5 DEF LoadSegments, WellFormed
      <4>2. elf.segments[n] \in ProgramHeader
        BY <4>1
      <4> QED
        BY <4>2 DEF ProgramHeader
    <3>6. \A n \in LoadSegments :
            \A a \in elf.segments[n].vaddr .. elf.segments[n].vaddr + elf.segments[n].memsz - 1 : a \in Nat
      BY <3>5
    <3>7. \A n \in LoadSegments : ~Outside(n)
      <4>1. segment = Len(elf.segments) + 1 /\ Inside(segment)
        BY <3>1 DEF LoadedInv
      <4>2. \A n \in LoadSegments : n < Len(elf.segments) + 1
        BY <3>3 DEF WellFormed, LoadSegments
      <4> QED
        BY <4>1, <4>2 DEF Inside
    <3> QED
      BY <3>3, <3>4, <3>6, <3>7, LinkedByByte
  <2> QED
    BY <2>1, <2>2 DEF LoadedAsLinked, Unloadable
<1> QED
  BY <1>1, <1>2, <1>3, ResourcesInvAlways, PTL DEF Spec
=============================================================================
