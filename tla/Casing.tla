------------------------------- MODULE Casing -------------------------------
(* Lower case in native-core/shim/native_shim.c.  Only capital sigma depends  *)
(* on what is around it: it becomes a final sigma when a cased letter comes   *)
(* before it in its word and none after it.  Words are found by walking away  *)
(* from the sigma, in either direction, by the properties a table gives.      *)
(* A text is a sequence of code points; Utf8 shows that reading octets gives  *)
(* the same points in both directions.                                        *)
EXTENDS Integers, Sequences, FiniteSets

CONSTANTS
  Ranges,         \* the table: [first, last, flags], sorted, without overlap
  Lowers,         \* the table: [source, target], sorted
  SpecialLowers,  \* the table: [source, mapping], sorted
  Sigma, SmallSigma, FinalSigma,
  Separate,       \* letters that are words of their own
  MidWords,       \* points that join letters, besides dashes and connectors
  MidNumbers,     \* points that join numbers
  SourcePoint, MaxPoints  \* bound: the points and the length of a text

VARIABLE points  \* the text that is being built

casingVars == <<points>>
CasingInit == points = <<>>
AppendPoint ==
  Len(points) < MaxPoints /\ \E p \in SourcePoint : points' = Append(points, p)

-----------------------------------------------------------------------------
(* The tables are searched by halves.  The lookup gives an index, or none.    *)
None == 0
LowerHalf(middle) == middle
RECURSIVE Search(_, _, _, _, _)
Search(table, point, First(_), Last(_), bounds) ==
  LET lower == bounds[1]
      upper == bounds[2]
      middle == lower + ((upper - lower) \div 2)
      entry == table[middle + 1]
  IN  IF lower >= upper THEN None
      ELSE IF point < First(entry)
        THEN Search(table, point, First, Last, <<lower, LowerHalf(middle)>>)
      ELSE IF point > Last(entry)
        THEN Search(table, point, First, Last, <<middle + 1, upper>>)
      ELSE middle + 1
Properties(point) ==
  LET i == Search(Ranges, point, LAMBDA r : r.first, LAMBDA r : r.last, <<0, Len(Ranges)>>)
  IN  IF i = None THEN {} ELSE Ranges[i].flags
BySource(table, point) ==
  Search(table, point, LAMBDA r : r.source, LAMBDA r : r.source, <<0, Len(table)>>)
SimpleLower(point) ==
  IF BySource(Lowers, point) = None THEN point ELSE Lowers[BySource(Lowers, point)].target

-----------------------------------------------------------------------------
(* What a point is in a word.                                                 *)
WordBase(point) ==
  IF {"letter", "spacing"} \cap Properties(point) # {} /\ point \notin Separate THEN "letter"
  ELSE IF "number" \in Properties(point) THEN "number"
  ELSE "none"
Mid(base, point) ==
  \/ base = "letter" /\ ({"dash", "connector"} \cap Properties(point) # {} \/ point \in MidWords)
  \/ base = "number" /\ point \in MidNumbers
Cased(point) == "cased" \in Properties(point)
Ignored(point) == {"format", "enclosing"} \cap Properties(point) # {}

(* A walk over the points that come next, nearest first, from a word of kind  *)
(* `current'; past a joining point, `Skipped' tells what is passed over.      *)
RECURSIVE DropWhile(_, _)
DropWhile(Skipped(_), rest) ==
  IF rest = <<>> \/ ~Skipped(Head(rest)) THEN rest ELSE DropWhile(Skipped, Tail(rest))
RECURSIVE MeetsCased(_, _, _)
MeetsCased(Skipped(_), rest, current) ==
  IF rest = <<>> THEN FALSE
  ELSE IF Ignored(Head(rest)) THEN MeetsCased(Skipped, Tail(rest), current)
  ELSE IF WordBase(Head(rest)) # "none"
    THEN Cased(Head(rest)) \/ MeetsCased(Skipped, Tail(rest), WordBase(Head(rest)))
  ELSE LET beyond == DropWhile(Skipped, Tail(rest))
       IN  /\ Mid(current, Head(rest)) /\ beyond # <<>>
           /\ WordBase(Head(beyond)) = current
           /\ Cased(Head(beyond)) \/ MeetsCased(Skipped, Tail(beyond), current)

(* Forwards only format characters are passed over after a joining point;     *)
(* backwards enclosing marks are as well.                                     *)
HasCasedAfter(text, i) ==
  MeetsCased(LAMBDA p : "format" \in Properties(p), SubSeq(text, i + 1, Len(text)), "letter")
Backwards(text) == [i \in DOMAIN text |-> text[Len(text) + 1 - i]]
HasCasedBefore(text, i) ==
  MeetsCased(Ignored, Backwards(SubSeq(text, 1, i - 1)), "letter")

(* native_jdk_lower_mapping and native_text_lower_root.                       *)
LowerMapping(text, i) ==
  LET special == BySource(SpecialLowers, text[i])
  IN  IF text[i] = Sigma
        THEN IF HasCasedBefore(text, i) /\ ~HasCasedAfter(text, i)
             THEN <<FinalSigma>> ELSE <<SmallSigma>>
      ELSE IF special # None THEN SpecialLowers[special].mapping
      ELSE <<SimpleLower(text[i])>>
LowerRoot(text) ==
  LET upTo[i \in 0..Len(text)] == IF i = 0 THEN <<>> ELSE upTo[i - 1] \o LowerMapping(text, i)
  IN  upTo[Len(text)]

-----------------------------------------------------------------------------
(* The search finds what the tables say of every point.                       *)
TablesAreRead ==
  \A p \in SourcePoint :
    /\ Properties(p) =
         UNION {Ranges[i].flags : i \in {j \in DOMAIN Ranges : p \in Ranges[j].first..Ranges[j].last}}
    /\ \A i \in DOMAIN Lowers : Lowers[i].source = p => SimpleLower(p) = Lowers[i].target

(* The word of a sigma, said of the whole stretch between it and the point: a *)
(* stretch of bases in which a joining point stands between two bases of the  *)
(* kind it joins, ignored points left out.                                    *)
Joined(stretch) ==
  LET word == SelectSeq(stretch, LAMBDA p : ~Ignored(p))
      before(i) == IF i = 1 THEN "letter" ELSE WordBase(word[i - 1])
  IN  \A i \in DOMAIN word :
        \/ WordBase(word[i]) # "none"
        \/ /\ i < Len(word) /\ before(i) # "none" /\ Mid(before(i), word[i])
           /\ WordBase(word[i + 1]) = before(i)
CasedBase(p) == Cased(p) /\ WordBase(p) # "none" /\ ~Ignored(p)
InWordAfter(i) ==
  \E j \in i + 1 .. Len(points) : CasedBase(points[j]) /\ Joined(SubSeq(points, i + 1, j))
InWordBefore(i) ==
  \E j \in 1 .. i - 1 : CasedBase(points[j]) /\ Joined(Backwards(SubSeq(points, j, i - 1)))

(* An enclosing mark after a joining point, with at most ignored points       *)
(* between them, is where the two directions differ.                          *)
MarkedJoint ==
  \E i, j \in DOMAIN points :
    /\ i < j /\ WordBase(points[i]) = "none" /\ ~Ignored(points[i])
    /\ "enclosing" \in Properties(points[j])
    /\ \A k \in i + 1 .. j : Ignored(points[k])

(* A sigma is final exactly when it ends the letters of its word.             *)
SigmaEndsWords ==
  \A i \in DOMAIN points :
    points[i] = Sigma /\ ~MarkedJoint =>
      (LowerMapping(points, i) = <<FinalSigma>> <=> InWordBefore(i) /\ ~InWordAfter(i))

(* What is in lower case stays as it is.                                      *)
LowerIsIdempotent == LowerRoot(LowerRoot(points)) = LowerRoot(points)

CasingAgrees == TablesAreRead /\ SigmaEndsWords /\ LowerIsIdempotent
=============================================================================
