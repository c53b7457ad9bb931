-------------------------------- MODULE Utf8 --------------------------------
(* Octets and code points in native-core/shim/native_shim.c: three readers of *)
(* UTF-8 (the one that decodes, the one that checks, and the check the server *)
(* has of its own), the writer, and what is built on them: conversions from   *)
(* vectors of numbers, trimming, blank texts and the runs of letters and      *)
(* digits.  Offsets count octets from zero, as in the code.                   *)
EXTENDS Integers, Sequences, FiniteSets

CONSTANTS
  Octet,       \* the numbers a vector is built from; some may be no octet
  Scalars,     \* the code points whose encoding uses only these octets
  WordPoint,   \* those of them that are letters or decimal digits
  MaxOctets,   \* bound: the length of a vector
  Limits,      \* the limits a caller sets for a copy
  Needles      \* the texts looked for and compared with

VARIABLE octets  \* the vector that is being built

utf8Vars == <<octets>>
Utf8Init == octets = <<>>
AppendOctet ==
  Len(octets) < MaxOctets /\ \E o \in Octet : octets' = Append(octets, o)

IsOctet(n) == n \in 0..255
At(bytes, offset) == bytes[offset + 1]
Cut(bytes, start, end) == SubSeq(bytes, start + 1, end)
Continues(octet) == octet \in 128..191

-----------------------------------------------------------------------------
(* The writer.                                                                *)
Trail(point, unit) == 128 + ((point \div unit) % 64)
Encode(point) ==
  IF point < 128 THEN <<point>>
  ELSE IF point < 2048 THEN <<192 + (point \div 64), Trail(point, 1)>>
  ELSE IF point < 65536
    THEN <<224 + (point \div 4096), Trail(point, 64), Trail(point, 1)>>
  ELSE <<240 + (point \div 262144), Trail(point, 4096), Trail(point, 64), Trail(point, 1)>>
IsScalar(point) == point \in 0..1114111 /\ point \notin 55296..57343

(* native_utf8_next: the code point at an offset and the offset after it.     *)
Trailing(first) ==
  IF first \in 194..223 THEN 1 ELSE IF first \in 224..239 THEN 2
  ELSE IF first \in 240..244 THEN 3 ELSE 0
Bits(first) ==
  IF first >= 240 THEN first % 8 ELSE IF first >= 224 THEN first % 16 ELSE first % 32
Shortest(point, trailing) ==
  /\ trailing = 2 => point >= 2048
  /\ trailing = 3 => point >= 65536
(* Faulty: a form that is longer than it need be is taken.                    *)
InRangeOnly(point, trailing) == IsScalar(point)
Decodes(point, trailing) == Shortest(point, trailing) /\ IsScalar(point)

NoPoint == [ok |-> FALSE, point |-> 0, after |-> 0]
NextPoint(bytes, offset) ==
  LET first == At(bytes, offset)
      trailing == Trailing(first)
      value[i \in 0..trailing] ==
        IF i = 0 THEN Bits(first) ELSE (value[i - 1] * 64) + (At(bytes, offset + i) % 64)
  IN  IF offset >= Len(bytes) THEN NoPoint
      ELSE IF first < 128 THEN [ok |-> TRUE, point |-> first, after |-> offset + 1]
      ELSE IF /\ trailing > 0 /\ trailing <= Len(bytes) - offset - 1
              /\ \A i \in 1..trailing : Continues(At(bytes, offset + i))
              /\ Decodes(value[trailing], trailing)
        THEN [ok |-> TRUE, point |-> value[trailing], after |-> offset + trailing + 1]
        ELSE NoPoint

(* native_utf8_previous: back over continuations, then forward once.          *)
PreviousPoint(bytes, offset) ==
  LET starts == {s \in 0 .. offset - 1 : s = 0 \/ ~Continues(At(bytes, s))}
      start == CHOOSE s \in starts : \A r \in starts : r <= s
      there == NextPoint(bytes, start)
  IN  IF offset \in 1..Len(bytes) /\ there.ok /\ there.after = offset
      THEN [ok |-> TRUE, point |-> there.point, after |-> start]
      ELSE NoPoint

(* native_utf8_valid: whether the octets are UTF-8, without decoding them.    *)
RECURSIVE ValidFrom(_, _)
ValidFrom(bytes, i) ==
  LET first == At(bytes, i)
      second == At(bytes, i + 1)
      left == Len(bytes) - i
  IN  \/ i >= Len(bytes)
      \/ first <= 127 /\ ValidFrom(bytes, i + 1)
      \/ first \in 194..223 /\ left >= 2 /\ Continues(second) /\ ValidFrom(bytes, i + 2)
      \/ /\ first \in 224..239 /\ left >= 3
         /\ Continues(At(bytes, i + 2)) /\ Continues(second)
         /\ first = 224 => second >= 160
         /\ first = 237 => second <= 159
         /\ ValidFrom(bytes, i + 3)
      \/ /\ first \in 240..244 /\ left >= 4
         /\ Continues(second) /\ Continues(At(bytes, i + 2)) /\ Continues(At(bytes, i + 3))
         /\ first = 240 => second >= 144
         /\ first = 244 => second <= 143
         /\ ValidFrom(bytes, i + 4)
Utf8Valid(bytes) == ValidFrom(bytes, 0)

(* valid_utf8 of the server, for the texts of compiler values: by the range   *)
(* of the second octet, which depends on the first.                           *)
SecondOctets(first) ==
  IF first = 224 THEN 160..191 ELSE IF first = 237 THEN 128..159
  ELSE IF first = 240 THEN 144..191 ELSE IF first = 244 THEN 128..143 ELSE 128..191
RECURSIVE ValidUtf8(_)
ValidUtf8(bytes) ==
  bytes = <<>> \/
    LET n == IF Head(bytes) < 128 THEN 0 ELSE Trailing(Head(bytes))
    IN  /\ Head(bytes) < 128 \/ n > 0
        /\ Len(bytes) > n
        /\ n > 0 => bytes[2] \in SecondOctets(Head(bytes))
        /\ \A i \in 2..n : Continues(bytes[i + 1])
        /\ ValidUtf8(SubSeq(bytes, n + 2, Len(bytes)))

-----------------------------------------------------------------------------
(* Vectors of numbers.  A copy traps on a number that is no octet, and before *)
(* that on a vector that is longer than its limit; a decoding traps on what   *)
(* is not UTF-8.                                                              *)
FromIntsBounded(values, limit) ==
  IF limit < 0 THEN "invalid"
  ELSE IF Len(values) > limit THEN "outOfRange"
  ELSE IF \A i \in DOMAIN values : IsOctet(values[i]) THEN "copied" ELSE "invalid"
DecodesVector(values) ==
  (\A i \in DOMAIN values : IsOctet(values[i])) /\ Utf8Valid(values)

Whitespace(point) ==
  \/ point \in (9..13) \cup (28..32) \cup (8192..8198) \cup (8200..8202) \cup (8232..8233)
  \/ point \in {5760, 8287, 12288}

RECURSIVE BlankFrom(_, _)
BlankFrom(bytes, offset) ==
  \/ offset >= Len(bytes)
  \/ LET next == NextPoint(bytes, offset)
     IN  next.ok /\ Whitespace(next.point) /\ BlankFrom(bytes, next.after)
IsBlank(bytes) == BlankFrom(bytes, 0)

(* native_text_trim: from the first to the last point that is no whitespace;  *)
(* an octet that begins no code point stands for itself.                      *)
Lenient(bytes, offset) ==
  LET next == NextPoint(bytes, offset)
  IN  IF next.ok THEN next ELSE [ok |-> TRUE, point |-> At(bytes, offset), after |-> offset + 1]
RECURSIVE Inked(_, _)
Inked(bytes, offset) ==
  IF offset >= Len(bytes) THEN {}
  ELSE LET next == Lenient(bytes, offset)
       IN  Inked(bytes, next.after)
             \cup IF Whitespace(next.point) THEN {} ELSE {<<offset, next.after>>}
Trim(bytes) ==
  LET inked == Inked(bytes, 0)
      first == CHOOSE a \in inked : \A b \in inked : a[1] <= b[1]
      last == CHOOSE a \in inked : \A b \in inked : a[2] >= b[2]
  IN  IF inked = {} THEN <<>> ELSE Cut(bytes, first[1], last[2])

(* native_text_letter_decimal_runs: `run' is where the current run began.     *)
NoRun == -1
RECURSIVE RunsFrom(_, _, _)
RunsFrom(bytes, offset, run) ==
  LET next == NextPoint(bytes, offset)
      member == next.point \in WordPoint
      ended == IF run = NoRun THEN <<>> ELSE <<Cut(bytes, run, offset)>>
  IN  IF offset >= Len(bytes) THEN ended
      ELSE IF member THEN RunsFrom(bytes, next.after, IF run = NoRun THEN offset ELSE run)
      ELSE ended \o RunsFrom(bytes, next.after, NoRun)
Runs(bytes) == RunsFrom(bytes, 0, NoRun)

-----------------------------------------------------------------------------
(* Searching, ordering, joining and repeating.  What would read outside a     *)
(* text, or repeat it a negative number of times, traps.                      *)
NotFound == -1
TextTrap == <<NotFound>>
Places(source, needle) ==
  {i \in 0 .. Len(source) - Len(needle) : Cut(source, i, i + Len(needle)) = needle}
IndexOf(source, needle) ==
  LET places == Places(source, needle)
  IN  IF needle = <<>> THEN 0 ELSE IF places = {} THEN NotFound
      ELSE CHOOSE i \in places : \A j \in places : i <= j
LastIndexOf(source, needle) ==
  LET places == Places(source, needle)
  IN  IF needle = <<>> THEN Len(source) ELSE IF places = {} THEN NotFound
      ELSE CHOOSE i \in places : \A j \in places : j <= i
SliceText(source, start, end) ==
  IF end < start \/ end > Len(source) THEN TextTrap ELSE Cut(source, start, end)

(* memcmp of what both have, then the lengths.                                *)
CompareTexts(left, right) ==
  LET shared == IF Len(left) < Len(right) THEN Len(left) ELSE Len(right)
      differ == {i \in 1..shared : left[i] # right[i]}
      first == CHOOSE i \in differ : \A j \in differ : i <= j
  IN  IF differ # {} THEN IF left[first] < right[first] THEN -1 ELSE 1
      ELSE IF Len(left) < Len(right) THEN -1
      ELSE IF Len(left) > Len(right) THEN 1 ELSE 0

(* What is allocated is measured before anything is written.                  *)
RECURSIVE Concatenated(_), JoinSize(_, _), Join(_, _)
Concatenated(parts) == IF parts = <<>> THEN <<>> ELSE Head(parts) \o Concatenated(Tail(parts))
JoinSize(separator, parts) ==
  IF parts = <<>> THEN 0
  ELSE Len(parts[1]) + JoinSize(separator, Tail(parts))
         + IF Len(parts) > 1 THEN Len(separator) ELSE 0
Join(separator, parts) ==
  IF Len(parts) < 2 THEN Concatenated(parts)
  ELSE parts[1] \o separator \o Join(separator, Tail(parts))
Repeat(source, count) == IF count < 0 THEN TextTrap ELSE Concatenated([i \in 1..count |-> source])
VectorTrim(parts) == [i \in DOMAIN parts |-> Trim(parts[i])]
RemoveBlank(parts) == SelectSeq(parts, LAMBDA p : ~IsBlank(p))

-----------------------------------------------------------------------------
Octets == \A i \in DOMAIN octets : IsOctet(octets[i])

(* What the writer writes, and nothing else, is text to all three readers.    *)
WrittenForms == {Encode(point) : point \in Scalars}
RECURSIVE IsWritten(_)
IsWritten(bytes) ==
  bytes = <<>> \/ \E n \in 1..Len(bytes) :
    SubSeq(bytes, 1, n) \in WrittenForms /\ IsWritten(SubSeq(bytes, n + 1, Len(bytes)))
RECURSIVE Points(_, _)
Points(bytes, offset) ==
  IF offset >= Len(bytes) THEN <<>>
  ELSE LET next == NextPoint(bytes, offset)
       IN  IF next.ok THEN <<next.point>> \o Points(bytes, next.after) ELSE <<NoRun>>
ReadersAgree ==
  LET reads == NoRun \notin {Points(octets, 0)[i] : i \in DOMAIN Points(octets, 0)}
  IN  /\ IsWritten(octets) <=> reads
      /\ IsWritten(octets) <=> Utf8Valid(octets)
      /\ IsWritten(octets) <=> ValidUtf8(octets)

(* Reading backwards passes the same code points, in the other order.         *)
RECURSIVE PointsBack(_, _)
PointsBack(bytes, offset) ==
  IF offset = 0 THEN <<>>
  ELSE LET there == PreviousPoint(bytes, offset)
       IN  IF there.ok THEN PointsBack(bytes, there.after) \o <<there.point>> ELSE <<NoRun>>
BackIsForward ==
  Utf8Valid(octets) => PointsBack(octets, Len(octets)) = Points(octets, 0)

(* Trimming takes whitespace from both ends and nothing else, whatever the    *)
(* octets; a text is blank when nothing is left.                              *)
TrimTakesEnds ==
  LET ends == {<<a, b>> \in (0..Len(octets)) \X (0..Len(octets)) :
                 /\ a <= b /\ Trim(octets) = Cut(octets, a, b)
                 /\ IsBlank(Cut(octets, 0, a)) /\ IsBlank(Cut(octets, b, Len(octets)))}
  IN  /\ ends # {} /\ Trim(Trim(octets)) = Trim(octets)
      /\ IsBlank(octets) <=> Trim(octets) = <<>>

(* The runs are the longest pieces of letters and digits.                     *)
RunsAreMaximal ==
  Utf8Valid(octets) =>
    LET points == Points(octets, 0)
        word(i) == i \in DOMAIN points /\ points[i] \in WordPoint
        firsts == {i \in DOMAIN points : word(i) /\ ~word(i - 1)}
        letters == SelectSeq(points, LAMBDA p : p \in WordPoint)
        all[n \in 0..Len(Runs(octets))] ==
          IF n = 0 THEN <<>> ELSE all[n - 1] \o Points(Runs(octets)[n], 0)
    IN  Len(Runs(octets)) = Cardinality(firsts) /\ all[Len(Runs(octets))] = letters

(* Octets are ordered as the code points they stand for.                      *)
PointOrder(left, right) ==
  LET ahead(a, b) ==
        \E n \in 0..Len(a) :
          /\ n <= Len(b) /\ SubSeq(a, 1, n) = SubSeq(b, 1, n)
          /\ \/ n = Len(a) /\ n < Len(b)
             \/ n < Len(a) /\ n < Len(b) /\ a[n + 1] < b[n + 1]
  IN  IF ahead(left, right) THEN -1 ELSE IF ahead(right, left) THEN 1 ELSE 0
OrderIsByPoints ==
  Utf8Valid(octets) =>
    \A n \in Needles :
      Utf8Valid(n) => CompareTexts(octets, n) = PointOrder(Points(octets, 0), Points(n, 0))

(* Searches from either end find the same places, the outermost; joining the  *)
(* parts around one gives the text again.                                     *)
Mirrored(bytes) == [i \in DOMAIN bytes |-> bytes[Len(bytes) + 1 - i]]
NeedlesAreFound ==
  \A n \in Needles :
    LET first == IndexOf(octets, n)
        last == LastIndexOf(octets, n)
        mirrored == IndexOf(Mirrored(octets), Mirrored(n))
        parts == <<SliceText(octets, 0, first), SliceText(octets, first + Len(n), Len(octets))>>
    IN  /\ last = IF mirrored = NotFound THEN NotFound ELSE Len(octets) - Len(n) - mirrored
        /\ first # NotFound =>
             /\ Join(n, parts) = octets /\ JoinSize(n, parts) = Len(octets)
             /\ n # <<>> => IndexOf(SliceText(octets, 0, first + Len(n) - 1), n) = NotFound
             /\ RemoveBlank(VectorTrim(parts)) = VectorTrim(RemoveBlank(parts))
        /\ Repeat(n, 2) = Join(<<>>, <<n, n>>) /\ Repeat(n, -1) = TextTrap

(* A vector is decoded exactly when it can be encoded back.                   *)
VectorsConvert ==
  /\ DecodesVector(octets) <=> Octets /\ IsWritten(octets)
  /\ \A limit \in Limits :
       FromIntsBounded(octets, limit) = "copied" => Octets /\ Len(octets) <= limit

TextsAgree ==
  /\ Octets => ReadersAgree /\ BackIsForward /\ TrimTakesEnds /\ RunsAreMaximal
             /\ OrderIsByPoints /\ NeedlesAreFound
  /\ VectorsConvert
=============================================================================
