----------------------------- MODULE MCStartup ------------------------------
(* Arguments, configuration files and ELF files for checking module Startup. *)
EXTENDS Startup, SequencesExt

Names ==
  <<"CACHE_LEVELS", "L1_SPLIT", "DRAM_READ_LATENCY", "DRAM_WRITE_LATENCY", "DRAM_SIZE",
    "FORWARDING_SWITCH", "BRANCH_PREDICTION_STRATEGY", "text_segment_limit",
    "rodata_segment_limit", "cache_size", "block_size", "associativity", "read_latency",
    "write_latency", "write_miss_policy", "replacement_policy", "write_policy",
    "l1_d", "l1_i", "l2", "l3">>

MCName == [n \in ToSet(Names) |-> <<260 + CHOOSE i \in DOMAIN Names : Names[i] = n>>]

Quoted(characters) == <<Quote>> \o characters \o <<Quote>>

Backslashed(characters) == <<Backslash>> \o characters

Says(type, value, text) == [type |-> type, value |-> value, text |-> text]

(* Each lexeme with its characters and what it says. *)
Marks ==
  [m \in {"[", "]", "{", "}", ",", ":"} |->
     <<CASE m = "[" -> <<91>> [] m = "]" -> <<93>> [] m = "{" -> <<123>>
         [] m = "}" -> <<125>> [] m = "," -> <<44>> [] m = ":" -> <<58>>,
       Says("mark", 0, NoText)>>]

Spaces ==
  [m \in {" ", "newline", "bom"} |->
     <<CASE m = " " -> <<32>> [] m = "newline" -> <<13, 10>> [] m = "bom" -> <<Bom>>,
       Says("space", 0, NoText)>>]

Number(characters, value) == <<characters, Says("Number", value, NoText)>>

Numbers ==
  ("1" :> Number(<<49>>, 1)) @@ ("8" :> Number(<<56>>, 8))
  @@ ("-8" :> Number(<<45, 56>>, -8))
  @@ ("0.5e+2" :> Number(<<48, 46, 53, 101, 43, 50>>, 50))
  @@ ("-15E-1" :> Number(<<45, 49, 53, 69, 45, 49>>, -1))
  @@ ("6e8" :> Number(<<54, 101, 56>>, IntMax))
  @@ ("-6e8" :> Number(<<45, 54, 101, 56>>, -IntMax - 1))
  @@ ("-" :> <<<<45>>, Says("bad", 0, NoText)>>)

String(characters, text) == <<Quoted(characters), Says("String", 0, text)>>

BadString(characters) == <<Quoted(characters), Says("bad", 0, NoText)>>

High == Backslashed(<<117, 100, 56, 51, 100>>)   \* \ud83d
Low == Backslashed(<<117, 68, 69, 48, 48>>)      \* \uDE00

Strings ==
  ("a" :> String(<<97>>, <<97>>))
  @@ ("tab" :> String(Backslashed(<<116>>) \o Backslashed(<<Quote>>), <<9, Quote>>))
  @@ ("controls" :> String(Backslashed(<<98>>) \o Backslashed(<<102>>) \o Backslashed(<<110>>)
                           \o Backslashed(<<114>>), <<8, 12, 10, 13>>))
  @@ ("u7f" :> String(Backslashed(<<117, 48, 48, 55, 70>>), <<127>>))
  @@ ("u7ff" :> String(Backslashed(<<117, 48, 55, 102, 102>>) \o <<97>>, <<223, 191, 97>>))
  @@ ("u20ac" :> String(Backslashed(<<117, 50, 48, 97, 67>>), <<226, 130, 172>>))
  @@ ("pair" :> String(High \o Low, <<240, 159, 152, 128>>))
  @@ ("nul" :> String(<<97>> \o Backslashed(<<117, 48, 48, 48, 48>>) \o <<97>>, <<97>>))
  @@ ("high" :> BadString(High)) @@ ("low" :> BadString(Low))
  @@ ("halves" :> BadString(High \o High)) @@ ("highThen" :> BadString(High \o <<97, 97, 97, 97, 97, 97>>))
  @@ ("short" :> BadString(Backslashed(<<117, 48, 48, 52>>)))
  @@ ("escape" :> BadString(Backslashed(<<97>>)))
  @@ ("open" :> <<<<Quote, 97>>, Says("bad", 0, NoText)>>)
  @@ ("openEscape" :> <<<<Quote, Backslash>>, Says("bad", 0, NoText)>>)

Words ==
  [m \in {"null", "true", "false"} |->
     <<<<CASE m = "null" -> NullWord [] m = "true" -> TrueWord [] m = "false" -> FalseWord>>,
       Says(CASE m = "null" -> "NULL" [] m = "true" -> "True" [] m = "false" -> "False",
            IF m = "true" THEN 1 ELSE 0, NoText)>>]

NameLexemes == [n \in ToSet(Names) |-> <<Quoted(MCName[n]), Says("String", 0, MCName[n])>>]

Lexemes == Marks @@ Spaces @@ Numbers @@ Strings @@ Words @@ NameLexemes

MCSpelling == [l \in DOMAIN Lexemes |-> Lexemes[l][1]]
MCMeaning == [l \in DOMAIN Lexemes |-> Lexemes[l][2]]

----------------------------------------------------------------------------
(* Texts: short ones, and longer ones with a mistake. *)

Alphabet == {"[", "]", "{", "}", ",", ":", "a", "1", " "}

Sentences ==
  {<<"[", "1", ",", " ", "a", "]">>, <<"[", "[", "[", "]", "]", "]">>,
   <<"{", "a", ":", "[", "1", "]", ",", "a", ":", "null", "}">>,
   <<"[", "{", "a", ":", "true", "}", ",", "[", "]", "]">>}

Mistaken(t) ==
  {RemoveAt(t, n) : n \in DOMAIN t}
  \cup {ReplaceAt(t, n, l) : n \in DOMAIN t, l \in Alphabet}
  \cup {InsertAt(t, n, l) : n \in DOMAIN t, l \in Alphabet}

(* Two numerals that touch are one. *)
Separate(t) == ~\E n \in 1 .. Len(t) - 1 : t[n] = "1" /\ t[n + 1] = "1"

Structures ==
  {t \in UNION {[1 .. n -> Alphabet] : n \in 0 .. 3} \cup UNION {Mistaken(t) : t \in Sentences}
         \cup Sentences : Separate(t)}

Values ==
  {<<"[", l, "newline", "]">> : l \in DOMAIN Numbers \cup DOMAIN Strings \cup {"null", "true", "false"}}
  \cup {<<"{", l, " ", ":", "1", "}">> : l \in DOMAIN Strings}
  \cup {<<l>> : l \in DOMAIN Numbers \cup {"open", "openEscape"}}
  \cup {<<"bom", l>> : l \in {" ", "a", "["}}

Member(name, value) == <<name, ":">> \o value

Object(members) ==
  <<"{">> \o FlattenSeq([n \in DOMAIN members |->
                           IF n = 1 THEN members[n] ELSE <<",">> \o members[n]]) \o <<"}">>

SomeMembers ==
  {Member(n, <<v>>) : n \in {"DRAM_SIZE", "text_segment_limit", "CACHE_LEVELS"}, v \in {"8", "-8", "-6e8", "a"}}
  \cup {Member("l2", Object(<<Member("cache_size", <<v>>)>>)) : v \in {"8", "-8", "null"}}
  \cup {Member("l1_d", Object(<<Member("associativity", <<"1">>), Member("cache_size", <<"0.5e+2">>)>>))}
  \cup {Member("l2", <<"1">>), Member("l3", <<"[", "1", "]">>), Member("a", Object(<<Member("DRAM_SIZE", <<"8">>)>>))}

Settings ==
  {Object(<<m>>) : m \in SomeMembers} \cup {Object(<<m, n>>) : m, n \in SomeMembers}
  \cup {<<"[">> \o Object(<<m>>) \o <<"]">> : m \in SomeMembers}

----------------------------------------------------------------------------
(* Files and arguments *)

Segment(type, offset_, vaddr, filesz, memsz) ==
  [type |-> type, offset |-> offset_, vaddr |-> vaddr, filesz |-> filesz, memsz |-> memsz]

SomeSegments ==
  {Segment("PT_LOAD", o, v, 2, m) : o \in {0, 2}, v \in {0, 1, 5}, m \in {2, 3}}
  \cup {Segment("PT_LOAD", 0, 1, 0, 3), Segment("PT_LOAD", 0, 8, 0, 0),
        Segment("PT_LOAD", 0, 6, 2, 3), Segment("PT_NOTE", 0, 0, 4, 4)}

Elf(header, segments, bytes) ==
  [header |-> header, complete |-> TRUE, entry |-> 1, segments |-> segments, bytes |-> bytes]

Programs ==
  {Elf(ElfHeader, s, b) : s \in UNION {[1 .. n -> SomeSegments] : n \in 0 .. 2},
                          b \in {<<11, 12, 13, 14>>, <<11, 12, 13>>}}

Foreign ==
  {Elf([ElfHeader EXCEPT ![f] = IF f \in {"magic", "phoff", "complete"} THEN FALSE ELSE "other"],
       <<Segment("PT_LOAD", 0, 0, 2, 3)>>, <<11, 12>>) : f \in DOMAIN ElfHeader}
  \cup {[Elf(ElfHeader, <<Segment("PT_LOAD", 0, 0, 2, 3)>>, <<11, 12>>) EXCEPT !.complete = FALSE]}

Plain == Elf(ElfHeader, <<Segment("PT_LOAD", 0, 0, 2, 3)>>, <<11, 12>>)

Arguments == {"-p", "-t", "-a", "-e", "-c", "f", "-x"}

Scenario(arguments, config_, elf_, object) ==
  [argv |-> arguments, config |-> config_, elf |-> elf_, object |-> object]

ArgumentScenarios ==
  {Scenario(v, NoFile, Plain, 2) : v \in UNION {[1 .. n -> Arguments] : n \in 0 .. 4}}
  \cup {Scenario(<<"-l", "-r", "-m", "-t", "-a", "f">>, NoFile, NoFile, n) : n \in {0, 40000, NoFile}}
  \cup {Scenario(<<"-e", "f">>, NoFile, NoFile, 0)}

ConfigScenarios ==
  {Scenario(<<"-c", "f">>, t, NoFile, NoFile) : t \in Structures \cup Values \cup Settings}
  \cup {Scenario(<<"-c", "f", "-a", "f">>, Object(<<Member("text_segment_limit", <<v>>)>>), NoFile, n) :
          v \in {"8", "-8", "0.5e+2"}, n \in {0, 1, 2, 3, 12, 13}}

ElfScenarios ==
  {Scenario(<<"-e", "f", "-c", "f">>,
            Object(<<Member("DRAM_SIZE", <<"8">>), Member("text_segment_limit", <<"8">>)>>), e, NoFile) :
     e \in Programs \cup Foreign}

MCScenarios == ArgumentScenarios \cup ConfigScenarios \cup ElfScenarios

MCDashed == Flags \cup FileOptions \cup {"-x"}
=============================================================================
