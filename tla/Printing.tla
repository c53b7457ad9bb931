------------------------------- MODULE Printing -------------------------------
(* native_value_to_text in native-core/shim/native_shim.c: the text of a      *)
(* value by its descriptor, for reading back (pr-str) or for display (str).   *)
(* Descriptors refer to one another, and may do so in a circle; those of a    *)
(* circle have no text.  A text is a sequence of symbols.                     *)
EXTENDS Integers, Sequences, FiniteSets

CONSTANTS
  Spelled,    \* the numbers and truth values, as Numerals spells them
  PrintedTexts,      \* the texts that are values
  Names,      \* the names of keywords
  MaxDepth,   \* NATIVE_VALUE_TEXT_MAX_DEPTH
  MaxTypes,   \* bound: descriptors
  MaxWeight   \* bound: how many values a value is made of

VARIABLE types  \* the descriptors: [kind, parts], parts the ones referred to

printingVars == <<types>>
NoPayload == 0
Type(kind, parts) == [kind |-> kind, parts |-> parts]
Kinds ==
  {Type(kind, <<>>) : kind \in {"scalar", "text", "keyword", "record", "union"}}
    \cup {Type("vector", <<e>>) : e \in 1..MaxTypes}
    \cup {Type("map", <<k, v>>) : k, v \in 1..MaxTypes}
    \cup {Type("union", <<a, b>>) : a, b \in NoPayload..MaxTypes}
PrintingInit == types = <<>>
AddType == Len(types) < MaxTypes /\ \E t \in Kinds : types' = Append(types, t)

-----------------------------------------------------------------------------
(* native_value_text_descriptor_inner: what may be printed at all.            *)
RECURSIVE Printable(_, _)
Printable(d, path) ==
  /\ d \in DOMAIN types
  /\ Len(path) < MaxDepth
  /\ d \notin {path[i] : i \in DOMAIN path}
  /\ types[d].kind # "record"
  /\ types[d].kind = "union" => types[d].parts # <<>>
  /\ \A i \in DOMAIN types[d].parts :
       types[d].parts[i] # NoPayload => Printable(types[d].parts[i], Append(path, d))

(* native_value_text_escaped and native_value_text_inner.  Inside a vector or *)
(* a map every text is written for reading back.                              *)
Escapes == {"\"", "\\", "\n"}
EscapeSymbol(s) == IF s = "\n" THEN "n" ELSE s
Escaped(s) == IF s \in Escapes THEN <<"\\", EscapeSymbol(s)>> ELSE <<s>>
RECURSIVE EscapedAll(_)
EscapedAll(text) ==
  IF text = <<>> THEN <<>> ELSE Escaped(Head(text)) \o EscapedAll(Tail(text))

PrintTrap == <<"trap">>
RECURSIVE Separated(_, _)
Separated(texts, separator) ==
  IF texts = <<>> THEN <<>>
  ELSE IF Len(texts) = 1 THEN texts[1]
  ELSE texts[1] \o separator \o Separated(Tail(texts), separator)
RECURSIVE Written(_, _, _, _)
Written(d, value, readable, depth) ==
  LET type == types[d]
      Part(i, v) == Written(type.parts[i], v, TRUE, depth + 1)
  IN  IF depth >= MaxDepth THEN PrintTrap
      ELSE CASE type.kind = "scalar" -> value
             [] type.kind = "text" ->
                  IF readable THEN <<"\"">> \o EscapedAll(value) \o <<"\"">> ELSE value
             [] type.kind = "keyword" -> <<":">> \o value
             [] type.kind = "union" ->
                  IF type.parts[value.tag] = NoPayload
                  THEN IF readable THEN <<"n", "i", "l">> ELSE <<>>
                  ELSE Written(type.parts[value.tag], value.payload, readable, depth + 1)
             [] type.kind = "vector" ->
                  <<"[">> \o Separated([i \in DOMAIN value |-> Part(1, value[i])], <<" ">>)
                    \o <<"]">>
             [] type.kind = "map" ->
                  <<"{">>
                    \o Separated([i \in DOMAIN value |->
                                    Part(1, value[i].key) \o <<" ">> \o Part(2, value[i].value)],
                                 <<",", " ">>)
                    \o <<"}">>
ToText(d, value, readable) ==
  IF Printable(d, <<>>) THEN Written(d, value, readable, 0) ELSE PrintTrap

-----------------------------------------------------------------------------
(* The values of a type that are made of at most w values, by their weight.   *)
Weighed(value, weight) == [value |-> value, weight |-> weight]
RECURSIVE ValuesOf(_, _), Lists(_, _), Entries(_, _)
Lists(d, w) ==
  {Weighed(<<>>, 0)}
    \cup UNION {{Weighed(<<v.value>> \o rest.value, v.weight + rest.weight) :
                   rest \in Lists(d, w - v.weight)} : v \in ValuesOf(d, w)}
Entries(parts, w) ==
  {Weighed(<<>>, 0)}
    \cup UNION {UNION {{Weighed(<<[key |-> k.value, value |-> v.value]>> \o rest.value,
                                k.weight + v.weight + rest.weight) :
                   rest \in {r \in Entries(parts, w - k.weight - v.weight) :
                               \A i \in DOMAIN r.value : r.value[i].key # k.value}} :
                   v \in ValuesOf(parts[2], w - k.weight)} : k \in ValuesOf(parts[1], w - 1)}
ValuesOf(d, w) ==
  LET type == types[d]
      Leaf(set) == {Weighed(v, 1) : v \in set}
      Inner(set) == {Weighed(v.value, v.weight + 1) : v \in set}
      Variants ==
        {Weighed([tag |-> i, payload |-> v.value], v.weight) :
           i \in {j \in DOMAIN type.parts : type.parts[j] = NoPayload}, v \in Leaf({<<>>})}
        \cup UNION {{Weighed([tag |-> i, payload |-> v.value], v.weight) :
                       v \in ValuesOf(type.parts[i], w)} :
                       i \in {j \in DOMAIN type.parts : type.parts[j] # NoPayload}}
  IN  IF w <= 0 THEN {}
      ELSE CASE type.kind = "scalar" -> Leaf(Spelled)
             [] type.kind = "text" -> Leaf(PrintedTexts)
             [] type.kind = "keyword" -> Leaf(Names)
             [] type.kind = "vector" -> Inner(Lists(type.parts[1], w - 1))
             [] type.kind = "map" -> Inner(Entries(type.parts, w - 1))
             [] OTHER -> Variants
Root == 1
RootValues == {v.value : v \in ValuesOf(Root, MaxWeight)}

(* The variants of a union are not named in the text: they are told apart     *)
(* only when their payloads are of different kinds and no payload is a union. *)
KindOf(d) == IF d \in DOMAIN types THEN types[d].kind ELSE "nil"
Telling(d) ==
  types[d].kind = "union" =>
    \A i, j \in DOMAIN types[d].parts :
      /\ KindOf(types[d].parts[i]) # "union"
      /\ i # j => KindOf(types[d].parts[i]) # KindOf(types[d].parts[j])

(* What may be printed is never refused while it is written, whatever the     *)
(* depth of its value; and no two values have the same text for reading back. *)
TextsAreUnambiguous ==
  Printable(Root, <<>>) =>
    LET readable == {ToText(Root, v, TRUE) : v \in RootValues}
    IN  /\ \A text \in readable : "trap" \notin {text[i] : i \in DOMAIN text}
        /\ (\A d \in DOMAIN types : Telling(d)) => Cardinality(readable) = Cardinality(RootValues)
=============================================================================
