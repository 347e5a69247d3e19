------------------------------ MODULE JsonText ------------------------------
(***************************************************************************)
(* What a JSON text means, said without a parser: a text is a sequence of  *)
(* lexemes, and the value of a span of it follows from the values of its   *)
(* parts.                                                                  *)
(***************************************************************************)
EXTENDS Integers, Sequences

CONSTANTS
  Spelling,   \* the characters of every lexeme
  Meaning     \* what a lexeme says: [type, value, text]

NoText == <<-1>>

None == [type |-> "none"]

LexemeTypes == {"NULL", "False", "True", "Number", "String", "space", "mark", "bad"}

(* The text as the characters of a buffer, closed by its NUL.              *)
Spelled(lexemes) ==
  LET spell[n \in Nat] == IF n = 0 THEN <<>> ELSE spell[n - 1] \o Spelling[lexemes[n]]
  IN  Append(spell[Len(lexemes)], 0)

Solid(lexemes) == SelectSeq(lexemes, LAMBDA l : Meaning[l].type # "space")

Entry(name, v) == [name |-> name, type |-> v.type, value |-> v.value, text |-> v.text, items |-> v.items]

(* The value of the lexemes from <<first>> to <<last>>: a list between its *)
(* brackets, split at a comma, an object's members with their names.       *)
ValueOf(t) ==
  LET IsList(i, j, open, close) == i < j /\ t[i] = open /\ t[j] = close
      Composed(type, items) == [type |-> type, value |-> 0, text |-> NoText, items |-> items]
      \* kind: a value, the elements of an array, the members of an object
      means[kind \in {"value", "array", "object"}, i \in Nat, j \in Nat] ==
        CASE kind = "value" /\ i = j /\ Meaning[t[i]].type \notin {"mark", "bad"} ->
               [type |-> Meaning[t[i]].type, value |-> Meaning[t[i]].value,
                text |-> Meaning[t[i]].text, items |-> <<>>]
          [] kind = "value" /\ (IsList(i, j, "[", "]") \/ IsList(i, j, "{", "}")) ->
               LET type == IF t[i] = "[" THEN "array" ELSE "object"
                   items == means[type, i + 1, j - 1]
               IN  IF i + 1 = j THEN Composed(type, <<>>)
                   ELSE IF items = None THEN None
                   ELSE Composed(type, items.list)
          [] kind # "value" /\ i <= j ->
               LET named == kind = "object"
                   isName == i + 1 < j /\ Meaning[t[i]].type = "String" /\ t[i + 1] = ":"
                   Item(last) == means["value", IF named THEN i + 2 ELSE i, last]
                   name == IF named THEN Meaning[t[i]].text ELSE NoText
                   ends == {k \in i .. j : /\ k = j \/ t[k + 1] = ","
                                           /\ Item(k) # None
                                           /\ k = j \/ (k + 2 <= j /\ means[kind, k + 2, j] # None)}
               IN  IF (named /\ ~isName) \/ ends = {} THEN None
                   ELSE LET k == CHOOSE k \in ends : TRUE
                            rest == IF k = j THEN <<>> ELSE means[kind, k + 2, j].list
                        IN  [type |-> "list", list |-> <<Entry(name, Item(k))>> \o rest]
          [] OTHER -> None
  IN  [i \in 1 .. Len(t), j \in 1 .. Len(t) |-> means["value", i, j]]

(* How deep the lists of the first n lexemes are nested.                   *)
Nesting(t, n) ==
  LET Count(marks, k) == Len(SelectSeq(SubSeq(t, 1, k), LAMBDA l : l \in marks))
      deep == {Count({"[", "{"}, k) - Count({"]", "}"}, k) : k \in 0 .. n}
  IN  CHOOSE d \in deep : \A e \in deep : e <= d

(* The value a text begins with; what follows it is not looked at.  None   *)
(* when the text does not begin with a value, or it is nested too deep.    *)
Denoted(lexemes, limit) ==
  LET t    == Solid(lexemes)
      ends == {n \in 1 .. Len(t) : ValueOf(t)[1, n] # None}
  IN  IF ends = {} THEN None
      ELSE LET n == CHOOSE n \in ends : \A m \in ends : n <= m
           IN  IF Nesting(t, n) > limit THEN None ELSE ValueOf(t)[1, n]
=============================================================================
