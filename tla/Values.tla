------------------------------- MODULE Values -------------------------------
(* The structural operations of native-core/shim/native_shim.c on values with *)
(* a descriptor: validation, equality, hash, order, promotion into another    *)
(* arena, and the sort of a vector.  The values are those of one recursive    *)
(* type, a union of a number, a text, a vector of the type and a reference to *)
(* a record with fields of the type, so that every kind of descriptor that    *)
(* leads to others occurs.  Texts, vectors and records are cells of a heap,   *)
(* which lie in an arena each; what is said of texts goes for keywords and    *)
(* bytes as well.                                                             *)
EXTENDS Integers, Sequences, FiniteSets

CONSTANTS
  Numbers,    \* numbers: [num, bits], num what == compares
  Texts,      \* the texts a program starts with, a sequence of their characters
  NaN,        \* the num of what is not a number
  Fields,     \* the fields of a record
  MaxItems,   \* bound: elements and fields of all cells together
  MaxCells,   \* bound: cells a program makes
  MaxTies     \* bound: fields set after the record was made

VARIABLES
  heap,      \* the cells: [sort, items, chars, arena]
  promoted,  \* the value promoted last, and the copy
  source,    \* whether the arena the program works in still holds its cells
  ties       \* fields set so far

valuesVars == <<heap, promoted, source, ties>>

(* A value is a tag with its payload.                                         *)
Number(n) == [tag |-> 0, num |-> n.num, bits |-> n.bits]
Text(c) == [tag |-> 1, cell |-> c]
Vector(c) == [tag |-> 2, cell |-> c]
Reference(c) == [tag |-> 3, cell |-> c]
Null == 0
NoValue == Reference(Null)

TextValues == {Text(c) : c \in DOMAIN Texts}
Leaves == {Number(n) : n \in Numbers} \cup TextValues \cup {Text(Null), NoValue}
Pointers ==
  {IF heap[c].sort = "vector" THEN Vector(c) ELSE Reference(c) :
     c \in {c \in DOMAIN heap : heap[c].arena = "source" /\ heap[c].sort # "text"}}
Present == IF source THEN Leaves \cup Pointers ELSE {}

IsHandle(v) == v.tag # 0 /\ v.cell # Null
IsPointer(v) == IsHandle(v) /\ v.tag # 1
Items(v) == heap[v.cell].items
Chars(v) == IF v.cell = Null THEN <<>> ELSE heap[v.cell].chars

-----------------------------------------------------------------------------
(* native_dynamic_value_validate: a null text is refused, and so is a value   *)
(* that is part of itself; a value that is used twice is not.                 *)
NoNullText(v) == v.tag = 1 => v.cell # Null

RECURSIVE Validates(_, _)
Validates(v, path) ==
  /\ NoNullText(v)
  /\ IsPointer(v) =>
       /\ v.cell \notin path
       /\ \A i \in DOMAIN Items(v) : Validates(Items(v)[i], path \cup {v.cell})
Valid(v) == Validates(v, {})

(* native_value_equal: "trap" where the code traps; the first difference ends *)
(* the walk.                                                                  *)
FirstOf(answers, other) ==
  LET ends == {i \in DOMAIN answers : answers[i] # other}
  IN  IF ends = {} THEN other
      ELSE answers[CHOOSE i \in ends : \A j \in ends : i <= j]

TextEqual(l, r) ==
  IF l.cell = r.cell THEN "yes"
  ELSE IF l.cell = Null \/ r.cell = Null THEN "trap"
  ELSE IF Chars(l) = Chars(r) THEN "yes" ELSE "no"

RECURSIVE Equal(_, _)
Equal(l, r) ==
  IF l.tag # r.tag THEN "no"
  ELSE IF l.tag = 0 THEN IF l.num = r.num /\ l.num # NaN THEN "yes" ELSE "no"
  ELSE IF l.tag = 1 THEN TextEqual(l, r)
  ELSE IF l.cell = r.cell THEN "yes"
  ELSE IF l.cell = Null \/ r.cell = Null \/ Len(Items(l)) # Len(Items(r)) THEN "no"
  ELSE FirstOf([i \in DOMAIN Items(l) |-> Equal(Items(l)[i], Items(r)[i])], "yes")

(* native_value_hash, as what is fed to the hash: equal input, equal hash.    *)
NumberHashed(v) == IF v.num \in {0, NaN} THEN v.num ELSE v.bits

Trap == <<"trap">>
RECURSIVE Hashed(_), HashedAll(_)
HashedAll(items) ==
  IF items = <<>> THEN <<>> ELSE Hashed(Head(items)) \o HashedAll(Tail(items))
Hashed(v) ==
  <<v.tag>> \o
  (CASE v.tag = 0 -> <<NumberHashed(v)>>
     [] v.tag = 1 -> IF v.cell = Null THEN Trap ELSE <<Len(Chars(v))>> \o Chars(v)
     [] v.tag = 2 -> <<Len(Items(v))>> \o HashedAll(Items(v))
     [] v.tag = 3 -> IF v.cell = Null THEN <<0>>
                     ELSE <<1, Len(Items(v))>> \o HashedAll(Items(v)))

(* native_value_compare: numbers as numbers with NaN last, by its bits; texts *)
(* and vectors by the first difference, then by length; null first.           *)
Order(a, b) == IF a < b THEN -1 ELSE IF a > b THEN 1 ELSE 0
NumberOrder(l, r) ==
  IF l.num = NaN /\ r.num = NaN THEN Order(l.bits, r.bits)
  ELSE IF l.num = NaN THEN 1
  ELSE IF r.num = NaN THEN -1
  ELSE Order(l.num, r.num)
Smaller(a, b) == IF a < b THEN a ELSE b
ThenLength(compared, l, r) ==
  IF FirstOf(compared, 0) # 0 THEN FirstOf(compared, 0) ELSE Order(Len(l), Len(r))

RECURSIVE Compare(_, _)
Compare(l, r) ==
  IF l.tag # r.tag THEN Order(l.tag, r.tag)
  ELSE IF l.tag = 0 THEN NumberOrder(l, r)
  ELSE IF l.tag = 1
    THEN ThenLength([i \in 1..Smaller(Len(Chars(l)), Len(Chars(r))) |->
                       Order(Chars(l)[i], Chars(r)[i])], Chars(l), Chars(r))
  ELSE IF l.cell = r.cell THEN 0
  ELSE IF l.cell = Null THEN -1
  ELSE IF r.cell = Null THEN 1
  ELSE ThenLength([i \in 1..Smaller(Len(Items(l)), Len(Items(r))) |->
                     Compare(Items(l)[i], Items(r)[i])], Items(l), Items(r))

-----------------------------------------------------------------------------
(* What a value leads to, itself included.                                    *)
CellsOf(v) == IF IsHandle(v) THEN {v.cell} ELSE {}
Beyond(cells) ==
  cells \cup UNION {UNION {CellsOf(heap[c].items[i]) : i \in DOMAIN heap[c].items} : c \in cells}
Reachable(v) ==
  LET from[n \in 0..Len(heap)] == IF n = 0 THEN CellsOf(v) ELSE Beyond(from[n - 1])
  IN  from[Len(heap)]
Inside(c) == UNION {Reachable(heap[c].items[i]) : i \in DOMAIN heap[c].items}

(* native_value_promote: every cell the value leads to, a text too, is copied, *)
(* once for every way that leads to it; a null stays a null.  Nothing is       *)
(* validated, so a value that holds itself must not be given: its copy would   *)
(* not end.                                                                    *)
Acyclic(v) == \A c \in Reachable(v) : c \notin Inside(c)

(* Faulty: a text is copied as its handle, as a number is.                     *)
CopiesPointersOnly(v) == IsPointer(v)
ToCopy(v) == IsHandle(v)

RECURSIVE Promote(_, _), PromoteAll(_, _)
PromoteAll(items, cells) ==
  IF items = <<>> THEN [items |-> <<>>, cells |-> cells]
  ELSE LET first == Promote(Head(items), cells)
           rest == PromoteAll(Tail(items), first.cells)
       IN  [items |-> <<first.value>> \o rest.items, cells |-> rest.cells]
Promote(v, cells) ==
  IF ~ToCopy(v) THEN [value |-> v, cells |-> cells]
  ELSE LET inner == PromoteAll(cells[v.cell].items, cells)
       IN  [value |-> [v EXCEPT !.cell = Len(inner.cells) + 1],
            cells |-> Append(inner.cells, [cells[v.cell] EXCEPT !.items = inner.items,
                                                                !.arena = "destination"])]

(* native_vec_sort: an insertion sort of a copy; the held element moves left  *)
(* past every element that comes after it.                                    *)
(* Faulty: an equal element is passed as well.                                *)
PassesEqual(item, held) == Compare(item, held) < 0
StaysBefore(item, held) == Compare(item, held) <= 0
Insert(items, position) ==
  LET held == items[position]
      stays == {i \in 1..position - 1 : StaysBefore(items[i], held)}
      at == IF stays = {} THEN 1
            ELSE 1 + CHOOSE i \in stays : \A j \in stays : j <= i
  IN  [i \in DOMAIN items |->
         IF i = at THEN held
         ELSE IF at < i /\ i <= position THEN items[i - 1] ELSE items[i]]
Sorted(items) ==
  LET pass[n \in 0..Len(items)] == IF n < 2 THEN items ELSE Insert(pass[n - 1], n)
  IN  pass[Len(items)]

-----------------------------------------------------------------------------
ValuesInit ==
  /\ heap = [c \in DOMAIN Texts |->
               [sort |-> "text", items |-> <<>>, chars |-> Texts[c], arena |-> "source"]]
  /\ ties = 0
  /\ promoted = [of |-> NoValue, copy |-> NoValue]
  /\ source \in BOOLEAN

Make(sort, items) ==
  /\ source
  /\ heap' = Append(heap, [sort |-> sort, items |-> items, chars |-> <<>>,
                            arena |-> "source"])
  /\ UNCHANGED <<promoted, source, ties>>

MakeSorted(c) ==
  /\ heap[c].sort = "vector" /\ \A i \in DOMAIN heap[c].items : Valid(heap[c].items[i])
  /\ Make("vector", Sorted(heap[c].items))

(* A field of a record is set, to a value that may lead back to the record.   *)
Tie(c, i, v) ==
  /\ source /\ heap[c].sort = "record" /\ heap[c].arena = "source"
  /\ heap' = [heap EXCEPT ![c].items[i] = v]
  /\ ties' = ties + 1
  /\ UNCHANGED <<promoted, source>>

PromoteValue(v) ==
  LET done == Promote(v, heap)
  IN  /\ source /\ Acyclic(v)
      /\ heap' = done.cells
      /\ promoted' = [of |-> v, copy |-> done.value]
      /\ UNCHANGED <<source, ties>>

(* The arena the value was promoted out of is reset.                          *)
ResetSource ==
  /\ source /\ IsHandle(promoted.copy)
  /\ source' = FALSE
  /\ heap' = [c \in DOMAIN heap |->
                IF heap[c].arena = "source"
                  THEN [heap[c] EXCEPT !.items = <<>>, !.chars = <<>>, !.sort = "gone"]
                  ELSE heap[c]]
  /\ UNCHANGED <<promoted, ties>>

ItemsMade ==
  LET upTo[c \in 0..Len(heap)] == IF c = 0 THEN 0 ELSE upTo[c - 1] + Len(heap[c].items)
  IN  upTo[Len(heap)]
Few == UNION {[1..k -> Present] : k \in 0 .. MaxItems - ItemsMade}
(* Bound: a text that is promoted by itself is promoted before other cells.    *)
LoneTexts == IF Len(heap) = Len(Texts) THEN TextValues ELSE {}
ValuesNext ==
  \/ /\ Len(heap) < Len(Texts) + MaxCells
     /\ \/ \E items \in Few : Make("vector", items)
        \/ \E items \in [1..Fields -> Present] : Make("record", items)
        \/ \E c \in DOMAIN heap : MakeSorted(c)
  \/ \E c \in DOMAIN heap, i \in 1..Fields, v \in Pointers : ties < MaxTies /\ Tie(c, i, v)
  \/ \E v \in Pointers \cup LoneTexts : ~IsHandle(promoted.copy) /\ PromoteValue(v)
  \/ ResetSource

ValuesSpec == ValuesInit /\ [][ValuesNext]_valuesVars

-----------------------------------------------------------------------------
(* Validation refuses exactly the values that hold a null text or themselves: *)
(* it ends, and a value that is merely shared passes.                         *)
ValidationIsExact ==
  \A v \in Present :
    Valid(v) <=>
      /\ Acyclic(v)
      /\ v.tag = 1 => v.cell # Null
      /\ \A c \in Reachable(v) : \A i \in DOMAIN heap[c].items :
           heap[c].items[i].tag = 1 => heap[c].items[i].cell # Null

Validated == {v \in Present : Valid(v)}

(* On validated values nothing traps, equal values hash alike, and the order  *)
(* agrees with equality except that a NaN is in place next to itself.         *)
HasNaN(v) ==
  \/ v.tag = 0 /\ v.num = NaN
  \/ \E c \in Reachable(v) : \E i \in DOMAIN heap[c].items :
       heap[c].items[i].tag = 0 /\ heap[c].items[i].num = NaN
EqualityAgrees ==
  \A l, r \in Validated :
    /\ Equal(l, r) \in {"yes", "no"}
    /\ Equal(l, r) = Equal(r, l)
    /\ Equal(l, r) = "yes" => Hashed(l) = Hashed(r) /\ Compare(l, r) = 0
    /\ Compare(l, r) = 0 => Hashed(l) = Hashed(r) /\ (Equal(l, r) = "yes" \/ HasNaN(l))

(* The order is a total order of the validated values up to its own zero, as  *)
(* a sort needs: antisymmetric and transitive, NaN included.                  *)
CompareIsOrder ==
  \A l, m \in Validated :
    /\ Compare(l, m) = -Compare(m, l)
    /\ Compare(l, m) <= 0 =>
         \A r \in Validated : Compare(m, r) <= 0 => Compare(l, r) <= 0

(* A sorted vector holds the same elements in order, and elements the order   *)
(* does not tell apart as they were.                                          *)
SortIsStable ==
  \A c \in DOMAIN heap :
    heap[c].sort = "vector" /\ (\A i \in DOMAIN heap[c].items : Valid(heap[c].items[i])) =>
      LET items == heap[c].items
          rank(i) == Cardinality({j \in DOMAIN items :
                       \/ Compare(items[j], items[i]) < 0
                       \/ j <= i /\ Compare(items[j], items[i]) = 0})
      IN  \A i \in DOMAIN items : Sorted(items)[rank(i)] = items[i]

(* The operations agree with one another on every value, and a sort by them   *)
(* is stable.                                                                 *)
OperationsAgree == ValidationIsExact /\ EqualityAgrees /\ CompareIsOrder /\ SortIsStable

(* A promoted value is the value it was copied from, and leads to nothing in  *)
(* the arena it came from, neither to a vector or a record nor to a text: it  *)
(* outlives that arena.                                                       *)
PromotedStandsAlone ==
  IsHandle(promoted.copy) =>
    /\ \A c \in Reachable(promoted.copy) : heap[c].arena = "destination"
    /\ source /\ ties = 0 => Compare(promoted.of, promoted.copy) = 0
=============================================================================
