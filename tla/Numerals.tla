------------------------------- MODULE Numerals -------------------------------
(* Numbers and their spellings in native-core/shim/native_shim.c: parsing and *)
(* writing integers, parsing floating-point numerals (the hexadecimal ones    *)
(* are rounded here, the decimal ones by a library), and the spelling of      *)
(* floating-point values.  A spelling is a sequence of symbols.               *)
EXTENDS Integers, Sequences, FiniteSets

CONSTANTS
  Alphabets,     \* [first, pieces, most]: how spellings are built, and bounds
  MaxInt,        \* INT64_MAX
  FractionBits, Bias,  \* of a floating-point value: 52 and 1023
  PrefixBits,    \* the bits of a numeral that are kept: 64
  ExponentCap,   \* NATIVE_F64_EXPONENT_CAP
  MaxWidth,      \* the widest field of a format: 64
  Exponents      \* the decimal exponents of the values that are spelled

VARIABLES
  alphabet,      \* the pieces a spelling is built from
  word,          \* the spelling
  length         \* how many pieces it has

numeralsVars == <<alphabet, word, length>>
NumeralsInit == alphabet \in Alphabets /\ word = alphabet.first /\ length = 0
AppendSymbols ==
  /\ length < alphabet.most
  /\ \E piece \in alphabet.pieces : word' = word \o piece
  /\ length' = length + 1
  /\ UNCHANGED alphabet

Digits == <<"0", "1", "2", "3", "4", "5", "6", "7", "8", "9">>
HexDigits == Digits \o <<"a", "b", "c", "d", "e", "f">>
UpperDigits == Digits \o <<"A", "B", "C", "D", "E", "F">>
In(symbol, table) == \E i \in DOMAIN table : table[i] = symbol
ValueIn(symbol, table) == (CHOOSE i \in DOMAIN table : table[i] = symbol) - 1
IsDigit(symbol) == In(symbol, Digits)
From(text, i) == SubSeq(text, i, Len(text))
Before(text, i) == SubSeq(text, 1, i - 1)
Signs == {"+", "-"}
Larger(a, b) == IF a > b THEN a ELSE b

(* How many symbols at the start of a text are digits.                        *)
Leading(text) ==
  LET runs == {n \in 0..Len(text) : \A i \in 1..n : IsDigit(text[i])}
  IN  CHOOSE n \in runs : \A m \in runs : m <= n

-----------------------------------------------------------------------------
(* Integers.  The magnitude is checked before it is multiplied, so that it    *)
(* stays below the limit, which for negative numbers is one higher.           *)
NotParsed == [ok |-> FALSE, value |-> 0]
RoomFor(magnitude, digit, limit) == magnitude <= (limit - digit) \div 10
RECURSIVE MagnitudeFrom(_, _, _)
MagnitudeFrom(text, magnitude, limit) ==
  LET digit == ValueIn(text[1], Digits)
  IN  IF text = <<>> THEN [ok |-> TRUE, value |-> magnitude]
      ELSE IF IsDigit(text[1]) /\ RoomFor(magnitude, digit, limit)
        THEN MagnitudeFrom(Tail(text), (magnitude * 10) + digit, limit)
        ELSE NotParsed
ParseI64(text) ==
  LET signed == text # <<>> /\ text[1] \in Signs
      negative == signed /\ text[1] = "-"
      rest == IF signed THEN Tail(text) ELSE text
      magnitude == MagnitudeFrom(rest, 0, IF negative THEN MaxInt + 1 ELSE MaxInt)
  IN  IF rest = <<>> THEN NotParsed
      ELSE IF negative THEN [magnitude EXCEPT !.value = -@] ELSE magnitude

Magnitude(n) == IF n < 0 THEN -n ELSE n
RECURSIVE Numeral(_, _)
Numeral(magnitude, table) ==
  LET last == <<table[(magnitude % Len(table)) + 1]>>
  IN  IF magnitude < Len(table) THEN last
      ELSE Numeral(magnitude \div Len(table), table) \o last
Signed(n, table) == (IF n < 0 THEN <<"-">> ELSE <<>>) \o Numeral(Magnitude(n), table)
FromInt(n) == Signed(n, Digits)

(* A format is `%', a width and `x'.  The field is filled with zeros from the *)
(* left, before the sign.                                                     *)
Traps == <<"trap">>
RECURSIVE WidthFrom(_, _)
WidthFrom(text, width) ==
  IF text = <<>> \/ width > MaxWidth THEN width
  ELSE WidthFrom(Tail(text), (width * 10) + ValueIn(text[1], Digits))
FormatInt(format, n) ==
  LET inner == SubSeq(format, 2, Len(format) - 1)
      spelled == Signed(n, HexDigits)
      width == WidthFrom(inner, 0)
      output == Larger(width, Len(spelled))
  IN  IF \/ Len(format) < 3 \/ format[1] # "%" \/ format[Len(format)] # "x"
         \/ \E i \in DOMAIN inner : ~IsDigit(inner[i])
         \/ width > MaxWidth \/ output > MaxWidth
      THEN Traps
      ELSE [i \in 1 .. output - Len(spelled) |-> "0"] \o spelled

-----------------------------------------------------------------------------
(* Floating-point numerals.                                                   *)
DecimalSyntax(text) ==
  LET whole == Leading(text)
      pointed == whole < Len(text) /\ text[whole + 1] = "."
      fraction == IF pointed THEN Leading(From(text, whole + 2)) ELSE 0
      rest == From(text, whole + fraction + (IF pointed THEN 2 ELSE 1))
      raised == rest # <<>> /\ rest[1] \in {"e", "E"}
      signed == raised /\ Len(rest) >= 2 /\ rest[2] \in Signs
      exponent == From(rest, IF signed THEN 3 ELSE 2)
  IN  /\ whole > 0 \/ fraction > 0
      /\ rest # <<>> => raised /\ exponent # <<>> /\ Leading(exponent) = Len(exponent)

RECURSIVE ExponentFrom(_, _)
ExponentFrom(text, magnitude) ==
  LET digit == ValueIn(text[1], Digits)
      next == IF magnitude >= ExponentCap THEN magnitude
              ELSE IF magnitude > (ExponentCap - digit) \div 10 THEN ExponentCap
              ELSE (magnitude * 10) + digit
  IN  IF text = <<>> THEN [ok |-> TRUE, value |-> magnitude]
      ELSE IF IsDigit(text[1]) THEN ExponentFrom(Tail(text), next) ELSE NotParsed
ParseExponent(text) ==
  LET signed == text # <<>> /\ text[1] \in Signs
      rest == IF signed THEN Tail(text) ELSE text
      magnitude == ExponentFrom(rest, 0)
  IN  IF rest = <<>> THEN NotParsed
      ELSE IF signed /\ text[1] = "-" THEN [magnitude EXCEPT !.value = -@] ELSE magnitude

(* Rounding: the bits of a numeral from its first one on are kept in a prefix *)
(* of limited length; of the others only whether one of them is set.          *)
HexValue(symbol) ==
  IF In(symbol, HexDigits) THEN ValueIn(symbol, HexDigits) ELSE ValueIn(symbol, UpperDigits)
IsHex(symbol) == In(symbol, HexDigits) \/ In(symbol, UpperDigits)
HexWidth(digit) == IF digit >= 8 THEN 4 ELSE IF digit >= 4 THEN 3 ELSE IF digit >= 2 THEN 2 ELSE 1
BitsOf(digit, width) == [i \in 1..width |-> (digit \div 2^(width - i)) % 2]
RECURSIVE BitsFrom(_)
BitsFrom(digits) ==
  IF digits = <<>> THEN <<>> ELSE BitsOf(HexValue(digits[1]), 4) \o BitsFrom(Tail(digits))
RECURSIVE BitsNumber(_)
BitsNumber(bits) ==
  IF bits = <<>> THEN 0 ELSE (2 * BitsNumber(Before(bits, Len(bits)))) + bits[Len(bits)]
(* Faulty: the bits that did not fit are forgotten.                           *)
WithoutTail(discarded, tail) == 1 \in {discarded[i] : i \in 2..Len(discarded)}
Sticky(discarded, tail) == tail \/ 1 \in {discarded[i] : i \in 2..Len(discarded)}
RoundPrefix(prefix, tail, keep) ==
  LET retained == BitsNumber(SubSeq(prefix, 1, keep))
      discarded == From(prefix, keep + 1)
      up == discarded[1] = 1 /\ (Sticky(discarded, tail) \/ retained % 2 = 1)
  IN  IF Len(prefix) <= keep THEN BitsNumber(prefix) * 2^(keep - Len(prefix))
      ELSE IF up THEN retained + 1 ELSE retained

Infinity == ((2 * Bias) + 1) * 2^FractionBits
RoundedBits(bits, top) ==
  LET prefix == SubSeq(bits, 1, IF Len(bits) < PrefixBits THEN Len(bits) ELSE PrefixBits)
      tail == 1 \in {bits[i] : i \in Len(prefix) + 1 .. Len(bits)}
      significand == RoundPrefix(prefix, tail, FractionBits + 1)
      carried == significand = 2^(FractionBits + 1)
      exponent == IF carried THEN top + 1 ELSE top
      kept == IF carried THEN 2^FractionBits ELSE significand
  IN  IF top > Bias THEN Infinity
      ELSE IF top < 0 - Bias - FractionBits THEN 0
      ELSE IF top < 1 - Bias THEN RoundPrefix(prefix, tail, top + Bias + FractionBits)
      ELSE IF exponent > Bias THEN Infinity
      ELSE ((exponent + Bias) * 2^FractionBits) + (kept % 2^FractionBits)

NoFloat == [ok |-> FALSE, kind |-> "none", negative |-> FALSE, bits |-> 0, text |-> <<>>]
Float(kind, negative, bits, text) ==
  [ok |-> TRUE, kind |-> kind, negative |-> negative, bits |-> bits, text |-> text]
ParseHex(text, negative) ==
  LET raised == {i \in DOMAIN text : text[i] \in {"p", "P"}}
      at == CHOOSE i \in raised : \A j \in raised : i <= j
      body == Before(text, at)
      points == {i \in DOMAIN body : body[i] = "."}
      digits == SelectSeq(body, LAMBDA s : s # ".")
      before == IF points = {} THEN Len(body) ELSE (CHOOSE i \in points : TRUE) - 1
      exponent == ParseExponent(From(text, at + 1))
      set == {i \in DOMAIN digits : digits[i] # "0"}
      first == CHOOSE i \in set : \A j \in set : i <= j
      width == HexWidth(HexValue(digits[first]))
      bits == BitsOf(HexValue(digits[first]), width) \o BitsFrom(From(digits, first + 1))
      top == exponent.value + (4 * (before - first)) + width - 1
  IN  IF \/ raised = {} \/ Cardinality(points) > 1 \/ digits = <<>>
         \/ \E i \in DOMAIN digits : ~IsHex(digits[i])
         \/ ~exponent.ok
      THEN NoFloat
      ELSE Float("hex", negative, IF set = {} THEN 0 ELSE RoundedBits(bits, top), text)

RECURSIVE Stripped(_)
Stripped(text) ==
  IF text # <<>> /\ text[1] = " " THEN Stripped(Tail(text))
  ELSE IF text # <<>> /\ text[Len(text)] = " " THEN Stripped(Before(text, Len(text)))
  ELSE text
Suffixes == {"f", "F", "d", "D"}
ParseF64(source) ==
  LET stripped == Stripped(source)
      signed == stripped # <<>> /\ stripped[1] \in Signs
      negative == signed /\ stripped[1] = "-"
      text == IF signed THEN Tail(stripped) ELSE stripped
      core == IF text[Len(text)] \in Suffixes THEN Before(text, Len(text)) ELSE text
  IN  IF text = <<>> THEN NoFloat
      ELSE IF text = <<"NaN">> THEN Float("NaN", FALSE, 0, text)
      ELSE IF text = <<"Infinity">> THEN Float("infinite", negative, Infinity, text)
      ELSE IF core = <<>> THEN NoFloat
      ELSE IF Len(core) >= 2 /\ core[1] = "0" /\ core[2] \in {"x", "X"}
        THEN ParseHex(From(core, 3), negative)
      ELSE IF DecimalSyntax(core) THEN Float("decimal", negative, 0, core)
      ELSE NoFloat

-----------------------------------------------------------------------------
(* Spelling.  What the library's %.*g writes for the digits d and the decimal *)
(* exponent e, with as many digits as there are: the digits, how many of them *)
(* are before the point, and the exponent.                                    *)
Zeros(n) == [i \in 1..n |-> "0"]
PercentG(d, e) ==
  IF e >= Len(d) \/ e < -4 THEN [digits |-> d, before |-> 1, exponent |-> e]
  ELSE IF e < 0 THEN [digits |-> Zeros(-e) \o d, before |-> 1, exponent |-> 0]
  ELSE [digits |-> d, before |-> e + 1, exponent |-> 0]

(* native_value_float_text: plain between 10^-3 and 10^7, scientific beyond,  *)
(* with a digit on either side of the point.                                  *)
OrZero(text) == IF text = <<>> THEN <<"0">> ELSE text
FloatText(negative, raw) ==
  LET count == Len(raw.digits)
      some == {i \in 1..count : raw.digits[i] # "0"}
      leading == IF some = {} THEN count ELSE CHOOSE i \in some : \A j \in some : i <= j
      trailing == IF some = {} THEN count ELSE CHOOSE i \in some : \A j \in some : j <= i
      digits == SubSeq(raw.digits, leading, trailing)
      point == raw.before + raw.exponent - (leading - 1)
      whole == [i \in 1..point |-> IF i <= Len(digits) THEN digits[i] ELSE "0"]
  IN  (IF negative THEN <<"-">> ELSE <<>>) \o
        IF point \in -2..0 THEN <<"0", ".">> \o Zeros(-point) \o digits
        ELSE IF point \in 1..7 THEN whole \o <<".">> \o OrZero(From(digits, point + 1))
        ELSE <<digits[1], ".">> \o OrZero(Tail(digits)) \o <<"E">> \o FromInt(point - 1)

-----------------------------------------------------------------------------
(* An integer is read exactly when it is a signed sequence of digits whose    *)
(* value is in range, and writing it gives a spelling that is read back.      *)
RECURSIVE ValueOf(_)
ValueOf(digits) ==
  IF digits = <<>> THEN 0
  ELSE (10 * ValueOf(Before(digits, Len(digits)))) + ValueIn(digits[Len(digits)], Digits)
AllDigits(text) == text # <<>> /\ \A i \in DOMAIN text : IsDigit(text[i])
IntegersAreRead ==
  LET signed == word # <<>> /\ word[1] \in Signs
      digits == IF signed THEN Tail(word) ELSE word
      value == IF signed /\ word[1] = "-" THEN -ValueOf(digits) ELSE ValueOf(digits)
      inRange == AllDigits(digits) /\ value \in -MaxInt - 1 .. MaxInt
  IN  /\ ParseI64(word) = IF inRange THEN [ok |-> TRUE, value |-> value] ELSE NotParsed
      /\ word = <<>> =>
           \A n \in -MaxInt - 1 .. MaxInt :
             ParseI64(FromInt(n)) = [ok |-> TRUE, value |-> n]

(* A field is as wide as asked and no wider than it need be.                  *)
FieldsAreFilled ==
  LET width == SubSeq(word, 2, Len(word) - 1)
      wellFormed == /\ AllDigits(width) /\ word[1] = "%" /\ word[Len(word)] = "x"
                    /\ ValueOf(width) <= MaxWidth
  IN  word # <<>> /\ word[1] = "%" =>
        \A n \in -MaxInt - 1 .. MaxInt :
          LET digits == Len(Numeral(Magnitude(n), HexDigits)) + (IF n < 0 THEN 1 ELSE 0)
          IN  IF wellFormed THEN Len(FormatInt(word, n)) = Larger(ValueOf(width), digits)
              ELSE FormatInt(word, n) = Traps

(* A hexadecimal numeral becomes the nearest of the values there are, the     *)
(* even one of two that are as near.  Values and the points halfway between   *)
(* them are counted in halves of the smallest value.                          *)
Scaled(bits) ==
  IF bits < 2^FractionBits THEN bits
  ELSE (2^FractionBits + (bits % 2^FractionBits)) * 2^((bits \div 2^FractionBits) - 1)
RECURSIVE HexNumber(_)
HexNumber(digits) ==
  IF digits = <<>> THEN 0
  ELSE (16 * HexNumber(Before(digits, Len(digits)))) + HexValue(digits[Len(digits)])
Exact(text) ==
  LET at == CHOOSE i \in DOMAIN text : text[i] \in {"p", "P"}
      body == Before(text, at)
      fraction == {i \in DOMAIN body : \E j \in 1 .. i - 1 : body[j] = "."}
  IN  [number |-> HexNumber(SelectSeq(body, LAMBDA s : s # ".")),
       power |-> ParseExponent(From(text, at + 1)).value - (4 * Cardinality(fraction))
                   + Bias + FractionBits]
AtLeast(exact, halves) ==
  IF exact.power >= 0 THEN exact.number * 2^exact.power >= halves
  ELSE exact.number >= halves * 2^(-exact.power)
AtMost(exact, halves) ==
  IF exact.power >= 0 THEN exact.number * 2^exact.power <= halves
  ELSE exact.number <= halves * 2^(-exact.power)
FarOut == 18
HexIsNearest ==
  LET parsed == ParseF64(word)
      exact == Exact(parsed.text)
      bits == parsed.bits
      Beside(b) == Scaled(b) + Scaled(b + 1)
      odd == IF bits % 2 = 1 THEN 1 ELSE 0
  IN  parsed.kind = "hex" =>
        IF exact.number = 0 \/ exact.power < -FarOut THEN bits = 0
        ELSE IF exact.power > FarOut THEN bits = Infinity
        ELSE /\ bits > 0 =>
                  /\ AtLeast(exact, Beside(bits - 1))
                  /\ odd = 1 => ~AtMost(exact, Beside(bits - 1))
             /\ bits < Infinity =>
                  /\ AtMost(exact, Beside(bits))
                  /\ odd = 1 => ~AtLeast(exact, Beside(bits))

(* What is taken for a numeral is what a split of it shows to be one.         *)
IsExponent(text) ==
  \/ AllDigits(text)
  \/ text # <<>> /\ text[1] \in Signs /\ AllDigits(Tail(text))
Fixed(text) ==
  \/ AllDigits(text)
  \/ \E i \in DOMAIN text :
       /\ text[i] = "." /\ Len(text) > 1
       /\ \A j \in DOMAIN text \ {i} : IsDigit(text[j])
IsDecimal(text) ==
  \/ Fixed(text)
  \/ \E i \in DOMAIN text :
       text[i] \in {"e", "E"} /\ Fixed(Before(text, i)) /\ IsExponent(From(text, i + 1))
Bare(text) ==
  LET signless == IF text # <<>> /\ text[1] \in Signs THEN Tail(text) ELSE text
  IN  \/ IsDecimal(signless)
      \/ /\ signless # <<>> /\ signless[Len(signless)] \in Suffixes
         /\ IsDecimal(Before(signless, Len(signless)))
DecimalsAreRecognised ==
  LET spans == {<<a, b>> \in (0..Len(word)) \X (0..Len(word)) :
                  /\ a < b
                  /\ \A i \in (1..a) \cup (b + 1 .. Len(word)) : word[i] = " "}
  IN  ParseF64(word).kind = "decimal" <=> \E s \in spans : Bare(SubSeq(word, s[1] + 1, s[2]))

(* A spelling has the digits and the magnitude of its value, and is read as a *)
(* numeral.                                                                   *)
Placed(text) ==
  LET raised == {i \in DOMAIN text : text[i] = "E"}
      at == IF raised = {} THEN Len(text) + 1 ELSE CHOOSE i \in raised : TRUE
      body == Before(text, at)
      dot == CHOOSE i \in DOMAIN body : body[i] = "."
      digits == SelectSeq(body, LAMBDA s : s # ".")
      some == {i \in DOMAIN digits : digits[i] # "0"}
      first == CHOOSE i \in some : \A j \in some : i <= j
      last == CHOOSE i \in some : \A j \in some : j <= i
      exponent == IF raised = {} THEN 0 ELSE ParseExponent(From(text, at + 1)).value
  IN  [digits |-> SubSeq(digits, first, last), exponent |-> exponent + dot - first - 1]
SpellingsKeepValues ==
  AllDigits(word) /\ (Len(word) = 1 \/ "0" \notin {word[1], word[Len(word)]}) =>
    \A e \in IF word = <<"0">> THEN {0} ELSE Exponents :
      LET text == FloatText(FALSE, PercentG(word, e))
      IN  /\ FloatText(TRUE, PercentG(word, e)) = <<"-">> \o text
          /\ ParseF64(text).kind = "decimal"
          /\ word # <<"0">> => Placed(text) = [digits |-> word, exponent |-> e]

NumeralsAreExact ==
  IntegersAreRead /\ FieldsAreFilled /\ HexIsNearest /\ DecimalsAreRecognised /\ SpellingsKeepValues
=============================================================================
