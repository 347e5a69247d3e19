----------------------------- MODULE JsonParser -----------------------------
(***************************************************************************)
(* The reading half of cJSON.c, which the simulator uses for its           *)
(* configuration file.  The recursive calls of parse_value, parse_array    *)
(* and parse_object are the stack calls; items and strings are allocated   *)
(* on a heap, and every allocation may be refused.                         *)
(*                                                                         *)
(* A character is its code; what stays together (null, a name) is one code *)
(* above 255.  The text ends in its NUL, which belongs to the buffer       *)
(* length.  Where a failed parse stopped is only reported, and not kept.   *)
(***************************************************************************)
EXTENDS Integers, Sequences, FiniteSets, TLC

CONSTANTS
  NestingLimit,   \* CJSON_NESTING_LIMIT
  IntMax          \* INT_MAX

ASSUME ParserAssumption == NestingLimit \in Nat /\ IntMax \in Nat

VARIABLES
  json,       \* the text
  offset,     \* of the parse buffer
  depth,      \* of the parse buffer
  heap,       \* the items that are allocated, by address
  strings,    \* the C strings that are allocated, by address
  calls,      \* the calls that have not returned, the innermost last
  returned,   \* what the call that returned last said
  root,       \* the item under construction, then the result
  parse,      \* idle, start, running, done
  refused     \* an allocation was refused (history)

parser_vars == <<json, offset, depth, heap, strings, calls, returned, root, parse, refused>>

NULL == 0

Quote == 34
Backslash == 92
NullWord == 256
FalseWord == 257
TrueWord == 258
Bom == 259
Digits == 48 .. 57

Top == calls[Len(calls)]

AtOffset(i) == json[i + 1]

CanAccess(i) == i < Len(json)

Least(S) == CHOOSE n \in S : \A m \in S : n <= m

(* A slip: white space at the end of the text is left behind with the NUL. *)
buffer_skip_whitespace_PastEnd(i) ==
  Least({j \in i .. Len(json) - 1 : AtOffset(j) > 32} \cup {Len(json)})

buffer_skip_whitespace(i) ==
  LET solid == {j \in i .. Len(json) - 1 : AtOffset(j) > 32}
  IN  IF ~CanAccess(i) THEN i
      ELSE IF solid = {} THEN Len(json) - 1
      ELSE Least(solid)

skip_utf8_bom == IF CanAccess(2) /\ AtOffset(0) = Bom THEN 1 ELSE 0

----------------------------------------------------------------------------
(* The heap *)

cJSON ==
  [type : {"Invalid", "NULL", "False", "True", "Number", "String", "array", "object"},
   value : Int, valuestring : Nat, string : Nat, child : Nat, next : Nat, prev : Nat]

cJSON_New_Item ==
  [type |-> "Invalid", value |-> 0, valuestring |-> NULL, string |-> NULL,
   child |-> NULL, next |-> NULL, prev |-> NULL]

Unused(blocks) == Least((1 .. Cardinality(DOMAIN blocks) + 1) \ DOMAIN blocks)

With(blocks, address, content) ==
  [a \in DOMAIN blocks \cup {address} |-> IF a = address THEN content ELSE blocks[a]]

Without(blocks, addresses) == [a \in DOMAIN blocks \ addresses |-> blocks[a]]

(* A set of items with everything they hang on. *)
Closure(h, items) ==
  \A a \in items : {h[a].child, h[a].next} \ {NULL} \subseteq items

(* What deleting an item reaches: the list from it on, and below.          *)
Tree(h, item) ==
  {a \in DOMAIN h : \A items \in SUBSET DOMAIN h :
     {item} \ {NULL} \subseteq items /\ Closure(h, items) => a \in items}

StringsOf(h, items) ==
  (UNION {{h[a].string, h[a].valuestring} : a \in items}) \ {NULL}

cJSON_Delete(h, s, item) ==
  /\ heap' = Without(h, Tree(h, item))
  /\ strings' = Without(s, StringsOf(h, Tree(h, item)))

----------------------------------------------------------------------------
(* Strings *)

HexDigit(c) ==
  CASE c \in Digits -> c - 48
    [] c \in 65 .. 70 -> c - 55
    [] c \in 97 .. 102 -> c - 87
    [] OTHER -> -1

parse_hex4(i) ==
  LET d(n) == HexDigit(AtOffset(i + n))
  IN  IF \E n \in 0 .. 3 : d(n) = -1 THEN 0
      ELSE 4096 * d(0) + 256 * d(1) + 16 * d(2) + d(3)

Utf8(code) ==
  LET Following(n) == 128 + ((code \div 64^n) % 64)
  IN  CASE code < 128 -> <<code>>
        [] code \in 128 .. 2047 -> <<192 + code \div 64, Following(0)>>
        [] code \in 2048 .. 65535 -> <<224 + code \div 4096, Following(1), Following(0)>>
        [] OTHER -> <<240 + code \div 262144, Following(2), Following(1), Following(0)>>

NotDecoded == [length |-> 0, bytes |-> <<>>]

(* The escape \uXXXX at i of a string that ends at end, or a pair of them. *)
utf16_literal_to_utf8(i, end) ==
  LET first  == parse_hex4(i + 2)
      second == parse_hex4(i + 8)
  IN  IF end - i < 6 \/ first \in 56320 .. 57343 THEN NotDecoded
      ELSE IF first \notin 55296 .. 56319 THEN [length |-> 6, bytes |-> Utf8(first)]
      ELSE IF \/ end - i < 12
              \/ AtOffset(i + 6) # Backslash \/ AtOffset(i + 7) # 117
              \/ second \notin 56320 .. 57343
           THEN NotDecoded
      ELSE [length |-> 12, bytes |-> Utf8(65536 + 1024 * (first % 1024) + (second % 1024))]

Escape(i, end) ==
  LET c == AtOffset(i + 1)
      Stands(byte) == [length |-> 2, bytes |-> <<byte>>]
  IN  CASE c = 98 -> Stands(8)
        [] c = 102 -> Stands(12)
        [] c = 110 -> Stands(10)
        [] c = 114 -> Stands(13)
        [] c = 116 -> Stands(9)
        [] c \in {Quote, Backslash, 47} -> Stands(c)
        [] c = 117 -> utf16_literal_to_utf8(i, end)
        [] OTHER -> NotDecoded

(* Where the string that starts at i is closed, or the end of the text.    *)
ClosingQuote(i) ==
  LET scan[j \in Nat] ==
        IF ~CanAccess(j) THEN Len(json)
        ELSE IF AtOffset(j) = Quote THEN j
        ELSE IF AtOffset(j) = Backslash THEN scan[j + 2]
        ELSE scan[j + 1]
  IN  scan[i + 1]

(* The bytes from i to end, -1 at the end when an escape is not valid.     *)
Decoded(i, end) ==
  LET decode[j \in Nat] ==
        IF j >= end THEN <<>>
        ELSE IF AtOffset(j) # Backslash THEN <<AtOffset(j)>> \o decode[j + 1]
        ELSE IF Escape(j, end).length = 0 THEN <<-1>>
        ELSE Escape(j, end).bytes \o decode[j + Escape(j, end).length]
  IN  decode[i]

(* The part of a buffer that counts as a C string.                         *)
CString(bytes) ==
  SubSeq(bytes, 1, Least({n \in 1 .. Len(bytes) : bytes[n] = 0} \cup {Len(bytes) + 1}) - 1)

(* parse_string: what is read and where it ends; an allocation is needed.  *)
parse_string(i) ==
  LET end   == ClosingQuote(i)
      bytes == Decoded(i + 1, end)
  IN  IF AtOffset(i) # Quote \/ ~CanAccess(end) \/ (bytes # <<>> /\ bytes[Len(bytes)] = -1)
      THEN [ok |-> FALSE, text |-> <<>>, offset |-> i]
      ELSE [ok |-> TRUE, text |-> CString(bytes), offset |-> end + 1]

----------------------------------------------------------------------------
(* Numbers *)

NumberCharacters == Digits \cup {43, 45, 46, 69, 101}

FirstOutside(i, set) ==
  Least({j \in i .. Len(json) - 1 : AtOffset(j) \notin set} \cup {Len(json)})

(* The decimal number that the digits from i to end - 1 spell, others      *)
(* passed over.                                                            *)
Decimal(i, end) ==
  LET value[n \in Nat] ==
        IF n = 0 THEN 0
        ELSE IF AtOffset(i + n - 1) \in Digits THEN 10 * value[n - 1] + AtOffset(i + n - 1) - 48
        ELSE value[n - 1]
  IN  value[end - i]

(* strtod() of the C library on a text that starts at i: the sign, the     *)
(* digits as one number, the power of ten it is scaled by, and the end;    *)
(* the end is i when there is no number.                                   *)
strtod(i) ==
  LET sign     == IF AtOffset(i) = 45 THEN 1 ELSE 0
      whole    == FirstOutside(i + sign, Digits)
      fraction == IF AtOffset(whole) = 46 THEN FirstOutside(whole + 1, Digits) ELSE whole
      places   == IF fraction = whole THEN 0 ELSE fraction - whole - 1
      marked   == AtOffset(fraction) \in {69, 101}
      signed   == marked /\ AtOffset(fraction + 1) \in {43, 45}
      power    == fraction + (IF signed THEN 2 ELSE 1)
      scaled   == marked /\ AtOffset(power) \in Digits
      end      == IF scaled THEN FirstOutside(power, Digits) ELSE fraction
      exponent == IF scaled THEN Decimal(power, end) ELSE 0
  IN  [end      |-> IF whole - i - sign + places = 0 THEN i ELSE end,
       negative |-> sign = 1,
       digits   |-> Decimal(i, fraction),
       scale    |-> (IF scaled /\ AtOffset(power - 1) = 45 THEN -exponent ELSE exponent) - places]

(* A slip: a number that is too small is not held at INT_MIN.              *)
Saturated_Above(n) == IF n >= IntMax THEN IntMax ELSE n

Saturated(n) ==
  IF n >= IntMax THEN IntMax ELSE IF n <= -IntMax - 1 THEN -IntMax - 1 ELSE n

(* parse_number: the fraction is cut off, and the range is respected.      *)
parse_number(i) ==
  LET number == strtod(i)
      size   == IF number.scale >= 0 THEN number.digits * 10^number.scale
                ELSE number.digits \div 10^(-number.scale)
  IN  [ok |-> number.end # i, offset |-> number.end,
       value |-> Saturated(IF number.negative THEN -size ELSE size)]

----------------------------------------------------------------------------
(* The parser *)

Value(item) == [fn |-> "value", at |-> "enter", item |-> item, head |-> NULL, current |-> NULL]

At(fns, place) == parse = "running" /\ calls # <<>> /\ Top.fn \in fns /\ Top.at = place

Callers == SubSeq(calls, 1, Len(calls) - 1)

Return(answer) ==
  /\ calls' = Callers
  /\ returned' = answer

(* The root item; then parse_value is called for it.                       *)
NewRoot ==
  /\ parse = "start"
  /\ root' = Unused(heap)
  /\ heap' = With(heap, root', cJSON_New_Item)
  /\ calls' = <<Value(root')>>
  /\ offset' = buffer_skip_whitespace(skip_utf8_bom)
  /\ depth' = 0
  /\ parse' = "running"
  /\ UNCHANGED <<json, strings, returned, refused>>

RootRefused ==
  /\ parse = "start"
  /\ root' = NULL /\ parse' = "done" /\ refused' = TRUE
  /\ UNCHANGED <<json, offset, depth, heap, strings, calls, returned>>

Literals ==
  (NullWord :> [type |-> "NULL", value |-> 0])
  @@ (FalseWord :> [type |-> "False", value |-> 0])
  @@ (TrueWord :> [type |-> "True", value |-> 1])

ParseLiteral ==
  /\ At({"value"}, "enter")
  /\ AtOffset(offset) \in DOMAIN Literals
  /\ heap' = [heap EXCEPT ![Top.item].type = Literals[AtOffset(offset)].type,
                          ![Top.item].value =
                             IF AtOffset(offset) = TrueWord THEN 1 ELSE @]
  /\ offset' = offset + 1
  /\ Return(TRUE)
  /\ UNCHANGED <<json, depth, strings, root, parse, refused>>

ParseString ==
  /\ At({"value"}, "enter")
  /\ AtOffset(offset) = Quote
  /\ \E s \in {parse_string(offset)}, buffer \in {Unused(strings)} :
       IF s.ok
       THEN /\ strings' = With(strings, buffer, s.text)
            /\ heap' = [heap EXCEPT ![Top.item].type = "String", ![Top.item].valuestring = buffer]
            /\ offset' = s.offset
       ELSE UNCHANGED <<strings, heap, offset>>
  /\ Return(parse_string(offset).ok)
  /\ UNCHANGED <<json, depth, root, parse, refused>>

StartsNumber == AtOffset(offset) = 45 \/ AtOffset(offset) \in Digits

ParseNumber ==
  /\ At({"value"}, "enter")
  /\ StartsNumber
  /\ \E n \in {parse_number(offset)} :
       IF n.ok
       THEN /\ heap' = [heap EXCEPT ![Top.item].type = "Number", ![Top.item].value = n.value]
            /\ offset' = n.offset
            /\ Return(TRUE)
       ELSE Return(FALSE) /\ UNCHANGED <<heap, offset>>
  /\ UNCHANGED <<json, depth, strings, root, parse, refused>>

(* The buffer of a string or of the digits of a number is refused.         *)
BufferRefused ==
  /\ At({"value"}, "enter")
  /\ StartsNumber \/ (AtOffset(offset) = Quote /\ CanAccess(ClosingQuote(offset)))
  /\ refused' = TRUE
  /\ Return(FALSE)
  /\ UNCHANGED <<json, offset, depth, heap, strings, root, parse>>

Opening == [array |-> 91, object |-> 123]
Closing == [array |-> 93, object |-> 125]

(* parse_array and parse_object, up to the first element.                  *)
Open ==
  /\ At({"value"}, "enter")
  /\ depth < NestingLimit
  /\ \E fn \in {"array", "object"} :
       /\ AtOffset(offset) = Opening[fn]
       /\ \E first \in {buffer_skip_whitespace(offset + 1)} :
            IF AtOffset(first) = Closing[fn]
            THEN /\ heap' = [heap EXCEPT ![Top.item].type = fn]
                 /\ offset' = first + 1
                 /\ Return(TRUE)
                 /\ UNCHANGED depth
            ELSE /\ offset' = first - 1
                 /\ depth' = depth + 1
                 /\ calls' = Append(Callers, [Top EXCEPT !.fn = fn, !.at = "next"])
                 /\ UNCHANGED <<heap, returned>>
  /\ UNCHANGED <<json, strings, root, parse, refused>>

TooDeep ==
  /\ At({"value"}, "enter")
  /\ AtOffset(offset) \in {Opening.array, Opening.object}
  /\ depth >= NestingLimit
  /\ Return(FALSE)
  /\ UNCHANGED <<json, offset, depth, heap, strings, root, parse, refused>>

NotAValue ==
  /\ At({"value"}, "enter")
  /\ AtOffset(offset) \notin DOMAIN Literals \cup {Quote, Opening.array, Opening.object}
  /\ ~StartsNumber
  /\ Return(FALSE)
  /\ UNCHANGED <<json, offset, depth, heap, strings, root, parse, refused>>

(* The next item at the end of the list of the innermost call.             *)
Linked(item) ==
  IF Top.head = NULL
  THEN With(heap, item, cJSON_New_Item)
  ELSE [With(heap, item, [cJSON_New_Item EXCEPT !.prev = Top.current])
          EXCEPT ![Top.current].next = item]

Extended(item) ==
  [Top EXCEPT !.head = IF @ = NULL THEN item ELSE @, !.current = item, !.at = "parsed"]

NextElement ==
  /\ At({"array"}, "next")
  /\ \E item \in {Unused(heap)} :
       /\ heap' = Linked(item)
       /\ calls' = Callers \o <<Extended(item), Value(item)>>
  /\ offset' = buffer_skip_whitespace(offset + 1)
  /\ UNCHANGED <<json, depth, strings, returned, root, parse, refused>>

(* A slip: the item keeps its name as its value, too.                      *)
Named_NotSwapped(item, name) ==
  [Linked(item) EXCEPT ![item].type = "String", ![item].string = name, ![item].valuestring = name]

(* parse_string has filled the item in; the string is its name.            *)
Named(item, name) ==
  [Linked(item) EXCEPT ![item].type = "String", ![item].string = name]

NextMember ==
  /\ At({"object"}, "next")
  /\ \E item \in {Unused(heap)}, name \in {Unused(strings)},
        s \in {parse_string(buffer_skip_whitespace(offset + 1))} :
       /\ s.ok
       /\ \E colon \in {buffer_skip_whitespace(s.offset)} :
            /\ AtOffset(colon) = 58
            /\ heap' = Named(item, name)
            /\ strings' = With(strings, name, s.text)
            /\ calls' = Callers \o <<Extended(item), Value(item)>>
            /\ offset' = buffer_skip_whitespace(colon + 1)
  /\ UNCHANGED <<json, depth, returned, root, parse, refused>>

(* No name, or no colon after it: the list with the new item is deleted.   *)
NotAMember ==
  /\ At({"object"}, "next")
  /\ \E item \in {Unused(heap)}, name \in {Unused(strings)},
        s \in {parse_string(buffer_skip_whitespace(offset + 1))} :
       IF s.ok
       THEN /\ AtOffset(buffer_skip_whitespace(s.offset)) # 58
            /\ cJSON_Delete(Named(item, name), With(strings, name, s.text), Extended(item).head)
       ELSE cJSON_Delete(Linked(item), strings, Extended(item).head)
  /\ Return(FALSE)
  /\ UNCHANGED <<json, offset, depth, root, parse, refused>>

(* The item, or the buffer for its name, is refused.                       *)
ItemRefused ==
  /\ At({"array", "object"}, "next")
  /\ cJSON_Delete(heap, strings, Top.head)
  /\ refused' = TRUE
  /\ Return(FALSE)
  /\ UNCHANGED <<json, offset, depth, root, parse>>

(* A slip: the list is closed without the link from its head to its tail.  *)
Closed_NoTail(fn) == [heap EXCEPT ![Top.item].type = fn, ![Top.item].child = Top.head]

Closed(fn) ==
  [heap EXCEPT ![Top.item].type = fn, ![Top.item].child = Top.head, ![Top.head].prev = Top.current]

(* After an element: a comma, the end of the list, or an error.            *)
Comma ==
  /\ At({"array", "object"}, "parsed")
  /\ returned
  /\ offset' = buffer_skip_whitespace(offset)
  /\ AtOffset(offset') = 44
  /\ calls' = Append(Callers, [Top EXCEPT !.at = "next"])
  /\ UNCHANGED <<json, depth, heap, strings, returned, root, parse, refused>>

EndOfList ==
  /\ At({"array", "object"}, "parsed")
  /\ returned
  /\ AtOffset(buffer_skip_whitespace(offset)) = Closing[Top.fn]
  /\ offset' = buffer_skip_whitespace(offset) + 1
  /\ depth' = depth - 1
  /\ heap' = Closed(Top.fn)
  /\ Return(TRUE)
  /\ UNCHANGED <<json, strings, root, parse, refused>>

ListFails ==
  /\ At({"array", "object"}, "parsed")
  /\ \/ ~returned
     \/ AtOffset(buffer_skip_whitespace(offset)) \notin {44, Closing[Top.fn]}
  /\ cJSON_Delete(heap, strings, Top.head)
  /\ Return(FALSE)
  /\ UNCHANGED <<json, offset, depth, root, parse, refused>>

ParseFails ==
  /\ parse = "running" /\ calls = <<>> /\ ~returned
  /\ cJSON_Delete(heap, strings, root)
  /\ root' = NULL /\ parse' = "done"
  /\ UNCHANGED <<json, offset, depth, calls, returned, refused>>

ParseSucceeds ==
  /\ parse = "running" /\ calls = <<>> /\ returned
  /\ parse' = "done"
  /\ UNCHANGED <<json, offset, depth, heap, strings, calls, returned, root, refused>>

ParserNext ==
  \/ NewRoot \/ RootRefused
  \/ ParseLiteral \/ ParseString \/ ParseNumber \/ BufferRefused
  \/ Open \/ TooDeep \/ NotAValue
  \/ NextElement \/ NextMember \/ NotAMember \/ ItemRefused
  \/ Comma \/ EndOfList \/ ListFails
  \/ ParseFails \/ ParseSucceeds

ParserInit(text) ==
  /\ json = text
  /\ offset = 0 /\ depth = 0
  /\ heap = <<>> /\ strings = <<>> /\ calls = <<>>
  /\ returned = FALSE /\ root = NULL
  /\ parse = "idle" /\ refused = FALSE

----------------------------------------------------------------------------
(* Properties *)

(* Where the blocks in use hang: the lists under construction and the root. *)
Anchors == {root} \cup {calls[n].head : n \in 1 .. Len(calls)}

Kept == UNION {Tree(heap, item) : item \in Anchors \ {NULL}}

References(field) == {heap[a][field] : a \in DOMAIN heap} \ {NULL}

Holders(block) ==
  {r \in (DOMAIN heap) \X {"string", "valuestring"} : heap[r[1]][r[2]] = block}

Owners(item) ==
  {r \in (DOMAIN heap) \X {"child", "next"} : heap[r[1]][r[2]] = item}

(* Every item and every string is in use and owned once: by the item it    *)
(* hangs on, by a list under construction or by the caller.  So nothing is *)
(* lost, freed twice or used after it is freed wherever the parse stops,   *)
(* for an error or because an allocation is refused (the fail paths of     *)
(* parse_array, parse_object and cJSON_ParseWithLengthOpts).               *)
MemoryIsOwned ==
  /\ Kept = DOMAIN heap
  /\ References("child") \cup References("next") \subseteq DOMAIN heap
  /\ \A a \in DOMAIN heap : Cardinality(Owners(a)) = IF a \in Anchors THEN 0 ELSE 1
  /\ References("string") \cup References("valuestring") = DOMAIN strings
  /\ \A block \in DOMAIN strings : Cardinality(Holders(block)) = 1

(* Lists that are complete can be walked both ways, and the head knows the *)
(* tail (parse_array and parse_object).                                    *)
ListsAreLinked ==
  \A a \in DOMAIN heap :
    /\ heap[a].next # NULL => heap[heap[a].next].prev = a
    /\ \E h \in {heap[a].child} :
         h # NULL => LET tail == heap[h].prev
                     IN  tail # NULL /\ heap[tail].next = NULL /\ tail \in Tree(heap, h)
=============================================================================
