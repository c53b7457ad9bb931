------------------------------ MODULE MCRuntime ------------------------------
(* The data of the native runtime: vectors, maps and sets, arenas, atoms, the *)
(* structural operations on values, and the algorithms on texts and numbers.  *)
(* They share no state, so a behaviour works with one of them, chosen at the  *)
(* start, and leaves the others alone.                                        *)
EXTENDS Vec, Maps, Arena, Atoms, Values, Utf8, Casing, Regex, Numerals, Printing

VARIABLE focus  \* what this behaviour works with

collectionVars == <<vecVars, mapsVars>>
storeVars == <<arenaVars, atomsVars, valuesVars>>
textVars == <<utf8Vars, casingVars, regexVars, numeralsVars, printingVars>>
runtimeVars == <<focus, collectionVars, storeVars, textVars>>

(* The least of the choices of a component's initial state.                   *)
Settled ==
  /\ focus # "maps" => kind = "f64"
  /\ focus # "arena" => arena.growable /\ arena.floor = 0
  /\ source = (focus = "values")
  /\ focus # "numerals" => alphabet.first = <<"%">>

Init ==
  /\ focus \in {"vectors", "maps", "arena", "atom", "values",
                "octets", "casing", "patterns", "numerals", "printing"}
  /\ VecInit /\ MapsInit /\ ArenaInit /\ AtomsInit /\ ValuesInit
  /\ Utf8Init /\ CasingInit /\ RegexInit /\ NumeralsInit /\ PrintingInit
  /\ Settled

Vectors == focus = "vectors" /\ VecNext /\ UNCHANGED <<focus, mapsVars, storeVars, textVars>>
MapsAndSets == focus = "maps" /\ MapsNext /\ UNCHANGED <<focus, vecVars, storeVars, textVars>>
Arenas ==
  /\ focus = "arena" /\ ArenaNext
  /\ UNCHANGED <<focus, collectionVars, atomsVars, valuesVars, textVars>>
AtomThreads ==
  /\ focus = "atom" /\ AtomsNext
  /\ UNCHANGED <<focus, collectionVars, arenaVars, valuesVars, textVars>>
ValueOperations ==
  /\ focus = "values" /\ ValuesNext
  /\ UNCHANGED <<focus, collectionVars, arenaVars, atomsVars, textVars>>
OctetStrings ==
  /\ focus = "octets" /\ AppendOctet
  /\ UNCHANGED <<focus, collectionVars, storeVars,
                 casingVars, regexVars, numeralsVars, printingVars>>
Cases ==
  /\ focus = "casing" /\ AppendPoint
  /\ UNCHANGED <<focus, collectionVars, storeVars,
                 utf8Vars, regexVars, numeralsVars, printingVars>>
Patterns ==
  /\ focus = "patterns" /\ AppendPiece
  /\ UNCHANGED <<focus, collectionVars, storeVars,
                 utf8Vars, casingVars, numeralsVars, printingVars>>
Spellings ==
  /\ focus = "numerals" /\ AppendSymbols
  /\ UNCHANGED <<focus, collectionVars, storeVars,
                 utf8Vars, casingVars, regexVars, printingVars>>
Printed ==
  /\ focus = "printing" /\ AddType
  /\ UNCHANGED <<focus, collectionVars, storeVars,
                 utf8Vars, casingVars, regexVars, numeralsVars>>

Next ==
  \/ Vectors \/ MapsAndSets \/ Arenas \/ AtomThreads \/ ValueOperations
  \/ OctetStrings \/ Cases \/ Patterns \/ Spellings \/ Printed
Spec == Init /\ [][Next]_runtimeVars

(* No use of an arena's memory outlives it: a stale handle of a buffer is     *)
(* refused, and what is promoted needs nothing of the arena it came from.     *)
NothingOutlivesItsArena == ArenaIsSound /\ PromotedStandsAlone

(* Texts are read as they were written, put in lower case by their words, and *)
(* matched by patterns as a search of every way to match would.               *)
TextsAreRead ==
  /\ focus = "octets" => TextsAgree
  /\ focus = "casing" => CasingAgrees
  /\ focus = "patterns" => PatternsAreMatched

(* Numbers are what their spellings say, and no two values are spelled alike. *)
SpellingsAgree ==
  /\ focus = "numerals" => NumeralsAreExact
  /\ focus = "printing" => TextsAreUnambiguous

-----------------------------------------------------------------------------
(* Numbers of which two are equal zeros and one is not a number, texts of     *)
(* which one begins another and two are equal under two handles, and keys     *)
(* whose hashes collide.                                                      *)
MCNotANumber == -1
MCNumbers ==
  {[num |-> 0, bits |-> 0], [num |-> 0, bits |-> 9], [num |-> MCNotANumber, bits |-> 7]}
MCTexts == <<<<1>>, <<1, 1>>, <<1>>>>
MCKey ==
  {[kind |-> "f64", value |-> n.num, bits |-> n.bits] : n \in MCNumbers}
    \cup {[kind |-> "text", value |-> k[1], bits |-> k[2]] :
            k \in {<<1, 1>>, <<1, 2>>, <<5, 3>>, <<9, 0>>}}
    \cup {[kind |-> "structural", value |-> n, bits |-> n] : n \in {1, 2}}
MCMix == [n \in -1..9 |-> IF n \in {-1, 0} THEN 3 ELSE n % 4]

(* The octets on either side of what the readers of UTF-8 tell apart, and one *)
(* number that is no octet; the code points written with them.                *)
MCOctet ==
  {32, 65, 128, 143, 144, 159, 160, 191, 193, 194, 224, 226, 237, 240, 244, 245, 256}
MCScalars ==
  {p \in 0..1114111 : IsScalar(p) /\ LET e == Encode(p) IN \A i \in DOMAIN e : e[i] \in MCOctet}
MCLimits == {-1, 0, 2}
MCNeedles ==
  {<<>>, <<32>>, <<65>>, <<65, 32>>, <<194, 160>>, <<224, 160, 128>>, <<240, 144, 128, 128>>}

(* Small tables with a point of every kind that the walks tell apart.         *)
MCRange(first, last, flags) == [first |-> first, last |-> last, flags |-> flags]
MCRanges ==
  <<MCRange(1, 3, {"letter", "cased"}), MCRange(4, 4, {"letter"}), MCRange(6, 6, {"number"}),
    MCRange(7, 7, {"number", "cased"}), MCRange(8, 8, {"format"}), MCRange(9, 9, {"enclosing"}),
    MCRange(10, 10, {"dash"}), MCRange(13, 13, {"letter"}),
    MCRange(14, 17, {"letter", "cased"})>>
MCLowers == <<[source |-> 1, target |-> 2]>>
MCSpecial == <<[source |-> 14, mapping |-> <<15, 8>>]>>

(* Pieces of patterns, whole and broken.                                      *)
MCPiece ==
  {<<s>> : s \in {"a", "b", "d", ".", "?", "*", "+", "(", ")", "^", "$", "[", "{", "\\"}}
    \cup {<<"[", "a", "-", "b", "]">>, <<"[", "^", "a", "]">>, <<"{", "2", "}">>}
MCReplacements == {<<>>, <<"x", "y">>}
MCOrdinal == [s \in {"a", "b"} |-> IF s = "a" THEN 1 ELSE 2]

(* Signed and decimal numerals, formats, and hexadecimal numerals whose       *)
(* exponents lie around every bound of the small floating-point values.       *)
MCSymbols(symbols) == {<<s>> : s \in symbols}
MCTails ==
  {<<"p">> \o e : e \in {<<>>, <<"0">>, <<"1", "f">>, <<"3">>, <<"-", "1">>, <<"-", "3">>, <<"-", "4">>,
                        <<"-", "5">>, <<"-", "7">>, <<"9", "9">>, <<"-", "9", "9">>}}
MCAlphabets ==
  {[first |-> <<>>, most |-> 5,
    pieces |-> MCSymbols({"0", "3", "6", ".", "e", "+", "-", " ", "d", "NaN"})],
   [first |-> <<"%">>, most |-> 4, pieces |-> MCSymbols({"0", "1", "2", "x", "-"})],
   [first |-> <<"0", "x">>, most |-> 4,
    pieces |-> MCSymbols({"0", "1", "3", "8", "F", "."}) \cup MCTails]}
MCExponents == -6..9

MCSpelled == {<<"0">>, <<"-", "1">>}
MCPrinted == {<<>>, <<"\"", " ", "\"">>, <<"\\">>}
MCNames == {<<"a">>}
=============================================================================
