---------------------------- MODULE RuntimeProofs ----------------------------
(* Proofs about the data of the native runtime.  Vectors: whatever storage     *)
(* headers and builders share, they are the immutable values of                *)
(* ImmutableVectors.  Atoms: they are atomic registers, for any number of      *)
(* threads, operations and words.                                              *)
EXTENDS Vec, Atoms, SequenceTheorems, TLAPS

-----------------------------------------------------------------------------
(* Vectors.                                                                   *)

(* The state as three constants: storage b, headers hs, builders ds.          *)
Storage == [cells : Seq(Slot), mark : Nat \cup {NoMark}]
Header == [store : Nat, length : Nat]
Builder == [store : Nat, length : Nat, frozen : BOOLEAN]
Draft == [items : Seq(Slot), frozen : BOOLEAN]

(* A header or builder names storage of b that is long enough; what it holds. *)
Sound(b, holder) ==
  /\ holder.store \in DOMAIN b
  /\ holder.length <= Len(b[holder.store].cells)
Held(b, holder) == SubSeq(b[holder.store].cells, 1, holder.length)

(* What is held is the same in the storage c.                                 *)
Untouched(b, c, holder) ==
  /\ Sound(c, holder)
  /\ \A i \in 1..holder.length : b[holder.store].cells[i] = c[holder.store].cells[i]

Typing(b, hs, ds) ==
  /\ b \in Seq(Storage) /\ hs \in Seq(Header) /\ ds \in Seq(Builder)
  /\ \A h \in DOMAIN hs : Sound(b, hs[h])
  /\ \A d \in DOMAIN ds : Sound(b, ds[d])

(* MarksCover, and the same of what a frozen builder still names: no push     *)
(* writes there.                                                              *)
Covers(b, holder) ==
  LET s == b[holder.store]
  IN  IF s.cells = <<>> THEN s.mark = NoMark ELSE s.mark \in holder.length .. Len(s.cells)
Alone(b, hs, ds, d) ==
  /\ b[ds[d].store].mark = NoMark
  /\ \A h \in DOMAIN hs : hs[h].store # ds[d].store
  /\ \A c \in DOMAIN ds \ {d} : ds[c].store # ds[d].store
Covering(b, hs, ds) ==
  /\ \A h \in DOMAIN hs : Covers(b, hs[h])
  /\ \A d \in DOMAIN ds : IF ds[d].frozen THEN Covers(b, ds[d]) ELSE Alone(b, hs, ds, d)

Good(b, hs, ds) == Typing(b, hs, ds) /\ Covering(b, hs, ds)
VecInvariant == Good(blocks, headers, builders)

(* The values the state stands for.                                           *)
VectorsOf(b, hs) == [h \in DOMAIN hs |-> Held(b, hs[h])]
DraftsOf(b, ds) == [d \in DOMAIN ds |-> [items |-> Held(b, ds[d]), frozen |-> ds[d].frozen]]

-----------------------------------------------------------------------------
(* A sequence is one of whatever its elements are in.                         *)
LEMMA SeqOfElements ==
  ASSUME NEW S, NEW T, NEW s \in Seq(T), \A i \in DOMAIN s : s[i] \in S
  PROVE  s \in Seq(S)
<1>1. Len(s) \in Nat /\ s \in [1..Len(s) -> T] /\ DOMAIN s = 1..Len(s)
  BY LenProperties
<1>2. s \in [1..Len(s) -> S]
  BY <1>1
<1> QED
  BY <1>1, <1>2

(* The beginning of a sequence.                                               *)
LEMMA PrefixProperties ==
  ASSUME NEW S, NEW t \in Seq(S), NEW n \in Nat, n <= Len(t)
  PROVE  /\ SubSeq(t, 1, n) \in Seq(S)
         /\ Len(SubSeq(t, 1, n)) = n
         /\ \A i \in 1..n : SubSeq(t, 1, n)[i] = t[i]
<1>1. \A i \in 1..n : t[i] \in S
  BY ElementOfSeq, LenProperties
<1> QED
  BY <1>1, SubSeqProperties

(* Two sequences that begin alike have the same beginning.                    *)
LEMMA PrefixEqual ==
  ASSUME NEW S, NEW t \in Seq(S), NEW u \in Seq(S), NEW n \in Nat,
         n <= Len(t), n <= Len(u), \A i \in 1..n : t[i] = u[i]
  PROVE  SubSeq(t, 1, n) = SubSeq(u, 1, n)
<1>1. /\ SubSeq(t, 1, n) \in Seq(S) /\ Len(SubSeq(t, 1, n)) = n
      /\ \A i \in 1..n : SubSeq(t, 1, n)[i] = t[i]
  BY PrefixProperties
<1>2. /\ SubSeq(u, 1, n) \in Seq(S) /\ Len(SubSeq(u, 1, n)) = n
      /\ \A i \in 1..n : SubSeq(u, 1, n)[i] = u[i]
  BY PrefixProperties
<1> QED
  BY <1>1, <1>2, SeqEqual

(* Storage of a capacity that has room for a sequence holds it from the start *)
(* (native_vec_new).                                                          *)
LEMMA RoomHolds ==
  ASSUME NEW s \in Seq(Slot), NEW capacity \in Nat, Len(s) <= capacity
  PROVE  /\ Room(s, capacity) \in Seq(Slot)
         /\ Len(Room(s, capacity)) = capacity
         /\ SubSeq(Room(s, capacity), 1, Len(s)) = s
<1> DEFINE r == Room(s, capacity)
<1>1. Len(s) \in Nat /\ \A i \in 1..Len(s) : s[i] \in Slot
  BY LenProperties, ElementOfSeq
<1>2. r \in [1..capacity -> Slot]
  BY <1>1 DEF Room, Slot
<1>3. r \in Seq(Slot) /\ Len(r) = capacity
  BY <1>2
<1>4. \A i \in 1..Len(s) : r[i] = s[i]
  BY <1>1 DEF Room
<1>5. SubSeq(r, 1, Len(s)) = SubSeq(s, 1, Len(s))
  BY <1>1, <1>3, <1>4, PrefixEqual
<1> QED
  BY <1>3, <1>5, SubSeqFull

(* A full vector grows to room for one element more.                          *)
LEMMA GrownHolds ==
  ASSUME NEW length \in Nat
  PROVE  GrownVec(length) \in Nat /\ length + 1 <= GrownVec(length)
BY VecAssumption DEF GrownVec

-----------------------------------------------------------------------------
(* What a header or builder holds is as long as it says, slot by slot.        *)
LEMMA HeldProperties ==
  ASSUME NEW b \in Seq(Storage), NEW holder, Sound(b, holder), holder.length \in Nat
  PROVE  /\ Held(b, holder) \in Seq(Slot)
         /\ Len(Held(b, holder)) = holder.length
         /\ \A i \in 1..holder.length : Held(b, holder)[i] = b[holder.store].cells[i]
<1>1. b[holder.store] \in Storage
  BY ElementOfSeq, LenProperties DEF Sound
<1>2. b[holder.store].cells \in Seq(Slot)
  BY <1>1 DEF Storage
<1> QED
  BY <1>2, PrefixProperties DEF Sound, Held

(* Writing only behind what is held, or elsewhere, leaves it as it is.        *)
LEMMA HeldEqual ==
  ASSUME NEW b \in Seq(Storage), NEW c \in Seq(Storage), NEW holder,
         Sound(b, holder), Sound(c, holder), holder.length \in Nat,
         \A i \in 1..holder.length : b[holder.store].cells[i] = c[holder.store].cells[i]
  PROVE  Held(b, holder) = Held(c, holder)
<1>1. b[holder.store] \in Storage /\ c[holder.store] \in Storage
  BY ElementOfSeq, LenProperties DEF Sound
<1>2. b[holder.store].cells \in Seq(Slot) /\ c[holder.store].cells \in Seq(Slot)
  BY <1>1 DEF Storage
<1> QED
  BY <1>2, PrefixEqual DEF Sound, Held

(* The elements of a typed state.                                             *)
LEMMA Elements ==
  ASSUME NEW b, NEW hs, NEW ds, Typing(b, hs, ds)
  PROVE  /\ Len(b) \in Nat /\ DOMAIN b = 1..Len(b)
         /\ \A k \in DOMAIN b : /\ b[k] \in Storage /\ b[k].cells \in Seq(Slot)
                                /\ Len(b[k].cells) \in Nat /\ b[k].mark \in Nat \cup {NoMark}
         /\ Len(hs) \in Nat /\ DOMAIN hs = 1..Len(hs)
         /\ \A h \in DOMAIN hs :
              hs[h] \in Header /\ hs[h].store \in DOMAIN b /\ hs[h].length \in Nat
         /\ Len(ds) \in Nat /\ DOMAIN ds = 1..Len(ds)
         /\ \A d \in DOMAIN ds :
              /\ ds[d] \in Builder /\ ds[d].store \in DOMAIN b
              /\ ds[d].length \in Nat /\ ds[d].frozen \in BOOLEAN
<1>1. Len(b) \in Nat /\ DOMAIN b = 1..Len(b) /\ \A k \in DOMAIN b : b[k] \in Storage
  BY LenProperties, ElementOfSeq DEF Typing
<1>2. \A k \in DOMAIN b : /\ b[k].cells \in Seq(Slot) /\ Len(b[k].cells) \in Nat
                          /\ b[k].mark \in Nat \cup {NoMark}
  BY <1>1, LenProperties DEF Storage
<1>3. /\ Len(hs) \in Nat /\ DOMAIN hs = 1..Len(hs)
      /\ \A h \in DOMAIN hs : hs[h] \in Header /\ Sound(b, hs[h])
  BY LenProperties, ElementOfSeq DEF Typing
<1>4. /\ Len(ds) \in Nat /\ DOMAIN ds = 1..Len(ds)
      /\ \A d \in DOMAIN ds : ds[d] \in Builder /\ Sound(b, ds[d])
  BY LenProperties, ElementOfSeq DEF Typing
<1> QED
  BY <1>1, <1>2, <1>3, <1>4 DEF Header, Builder, Sound

(* The values a typed state stands for.                                       *)
LEMMA ValuesTyped ==
  ASSUME NEW b, NEW hs, NEW ds, Typing(b, hs, ds)
  PROVE  /\ VectorsOf(b, hs) \in Seq(Seq(Slot)) /\ Len(VectorsOf(b, hs)) = Len(hs)
         /\ \A h \in DOMAIN hs : VectorsOf(b, hs)[h] = Held(b, hs[h])
         /\ DraftsOf(b, ds) \in Seq(Draft) /\ Len(DraftsOf(b, ds)) = Len(ds)
<1>1. \A h \in DOMAIN hs : Held(b, hs[h]) \in Seq(Slot)
  BY Elements, HeldProperties DEF Typing
<1>2. \A d \in DOMAIN ds : Held(b, ds[d]) \in Seq(Slot) /\ ds[d].frozen \in BOOLEAN
  BY Elements, HeldProperties DEF Typing
<1>3. VectorsOf(b, hs) \in [1..Len(hs) -> Seq(Slot)]
  BY <1>1, Elements DEF VectorsOf
<1>4. DraftsOf(b, ds) \in [1..Len(ds) -> Draft]
  BY <1>2, Elements DEF DraftsOf, Draft
<1>5. VectorsOf(b, hs) \in Seq(Seq(Slot)) /\ Len(VectorsOf(b, hs)) = Len(hs)
  BY <1>3, Elements
<1>6. DraftsOf(b, ds) \in Seq(Draft) /\ Len(DraftsOf(b, ds)) = Len(ds)
  BY <1>4, Elements
<1> QED
  BY <1>5, <1>6 DEF VectorsOf

(* Holding one slot more appends what is in it.                               *)
LEMMA HeldLonger ==
  ASSUME NEW c \in Seq(Storage), NEW holder, holder.length \in Nat, Sound(c, holder),
         NEW e, e.store = holder.store, e.length = holder.length + 1, Sound(c, e),
         NEW x \in Slot, c[holder.store].cells[holder.length + 1] = x
  PROVE  Held(c, e) = Append(Held(c, holder), x)
<1> DEFINE n == holder.length
           v == Held(c, holder)
           w == Append(v, x)
<1>1. v \in Seq(Slot) /\ Len(v) = n /\ \A i \in 1..n : v[i] = c[holder.store].cells[i]
  BY HeldProperties
<1>2. /\ Held(c, e) \in Seq(Slot) /\ Len(Held(c, e)) = n + 1
      /\ \A i \in 1..(n + 1) : Held(c, e)[i] = c[holder.store].cells[i]
  BY HeldProperties
<1> HIDE DEF v
<1>3. w \in Seq(Slot) /\ Len(w) = n + 1 /\ w[n + 1] = x /\ \A i \in 1..n : w[i] = v[i]
  BY <1>1, AppendProperties
<1> HIDE DEF w
<1>4. \A i \in 1..(n + 1) : Held(c, e)[i] = w[i]
  BY <1>1, <1>2, <1>3
<1>5. Held(c, e) = w
  BY <1>2, <1>3, <1>4, SeqEqual
<1> QED
  BY <1>5 DEF v, w

-----------------------------------------------------------------------------
(* Storage may change where nobody holds anything.                            *)
LEMMA StorageChanged ==
  ASSUME NEW b, NEW hs, NEW ds, Typing(b, hs, ds), NEW c \in Seq(Storage),
         \A h \in DOMAIN hs : Untouched(b, c, hs[h]),
         \A d \in DOMAIN ds : Untouched(b, c, ds[d])
  PROVE  /\ Typing(c, hs, ds)
         /\ VectorsOf(c, hs) = VectorsOf(b, hs)
         /\ DraftsOf(c, ds) = DraftsOf(b, ds)
<1>1. ASSUME NEW h \in DOMAIN hs PROVE Held(b, hs[h]) = Held(c, hs[h])
  <2> DEFINE holder == hs[h]
  <2>1. holder.length \in Nat
    BY Elements
  <2>2. b \in Seq(Storage) /\ Sound(b, holder)
    BY DEF Typing
  <2>3. /\ Sound(c, holder)
        /\ \A i \in 1..holder.length : b[holder.store].cells[i] = c[holder.store].cells[i]
    BY DEF Untouched
  <2> HIDE DEF holder
  <2>4. Held(b, holder) = Held(c, holder)
    BY <2>1, <2>2, <2>3, HeldEqual
  <2> QED
    BY <2>4 DEF holder
<1>2. ASSUME NEW d \in DOMAIN ds PROVE Held(b, ds[d]) = Held(c, ds[d])
  <2> DEFINE holder == ds[d]
  <2>1. holder.length \in Nat
    BY Elements
  <2>2. b \in Seq(Storage) /\ Sound(b, holder)
    BY DEF Typing
  <2>3. /\ Sound(c, holder)
        /\ \A i \in 1..holder.length : b[holder.store].cells[i] = c[holder.store].cells[i]
    BY DEF Untouched
  <2> HIDE DEF holder
  <2>4. Held(b, holder) = Held(c, holder)
    BY <2>1, <2>2, <2>3, HeldEqual
  <2> QED
    BY <2>4 DEF holder
<1>3. VectorsOf(c, hs) = VectorsOf(b, hs)
  BY <1>1 DEF VectorsOf
<1>4. DraftsOf(c, ds) = DraftsOf(b, ds)
  BY <1>2 DEF DraftsOf
<1> QED
  BY <1>3, <1>4 DEF Typing, Untouched

(* New storage belongs to nobody yet.                                         *)
LEMMA StorageAppended ==
  ASSUME NEW b, NEW hs, NEW ds, Good(b, hs, ds), NEW s \in Storage
  PROVE  /\ Good(Append(b, s), hs, ds)
         /\ VectorsOf(Append(b, s), hs) = VectorsOf(b, hs)
         /\ DraftsOf(Append(b, s), ds) = DraftsOf(b, ds)
<1> DEFINE c == Append(b, s)
<1>1. Typing(b, hs, ds) /\ b \in Seq(Storage)
  BY DEF Good, Typing
<1>2. /\ c \in Seq(Storage) /\ DOMAIN b \subseteq DOMAIN c
      /\ \A k \in DOMAIN b : c[k] = b[k]
  <2>1. /\ c \in Seq(Storage) /\ Len(c) = Len(b) + 1
        /\ \A k \in 1..Len(b) : c[k] = b[k]
    BY <1>1, AppendProperties
  <2>2. DOMAIN c = 1..Len(c)
    BY <2>1, LenProperties
  <2> QED
    BY <1>1, <2>1, <2>2, Elements
<1> HIDE DEF c
<1>3. \A h \in DOMAIN hs : Sound(b, hs[h]) /\ Sound(c, hs[h])
  BY <1>1, <1>2 DEF Typing, Sound
<1>4. \A d \in DOMAIN ds : Sound(b, ds[d]) /\ Sound(c, ds[d])
  BY <1>1, <1>2 DEF Typing, Sound
<1>5. /\ Typing(c, hs, ds)
      /\ VectorsOf(c, hs) = VectorsOf(b, hs)
      /\ DraftsOf(c, ds) = DraftsOf(b, ds)
  BY <1>1, <1>2, <1>3, <1>4, StorageChanged DEF Sound, Untouched
<1>6. Covering(c, hs, ds)
  <2>1. Covering(b, hs, ds)
    BY DEF Good
  <2>2. \A h \in DOMAIN hs : c[hs[h].store] = b[hs[h].store]
    BY <1>2, <1>3 DEF Sound
  <2>3. \A d \in DOMAIN ds : c[ds[d].store] = b[ds[d].store]
    BY <1>2, <1>4 DEF Sound
  <2> QED
    BY <2>1, <2>2, <2>3 DEF Covering, Covers, Alone
<1> QED
  BY <1>5, <1>6 DEF Good, c

(* A header may name storage that no builder at work writes to, up to the     *)
(* watermark.                                                                 *)
LEMMA HeaderAppended ==
  ASSUME NEW b, NEW hs, NEW ds, Good(b, hs, ds), NEW e \in Header,
         Sound(b, e), Covers(b, e),
         \A d \in DOMAIN ds : ~ds[d].frozen => ds[d].store # e.store
  PROVE  /\ Good(b, Append(hs, e), ds)
         /\ VectorsOf(b, Append(hs, e)) = Append(VectorsOf(b, hs), Held(b, e))
<1> DEFINE gs == Append(hs, e)
<1>1. Typing(b, hs, ds) /\ hs \in Seq(Header) /\ b \in Seq(Storage)
  BY DEF Good, Typing
<1>2. /\ gs \in Seq(Header) /\ Len(gs) = Len(hs) + 1 /\ gs[Len(hs) + 1] = e
      /\ \A h \in 1..Len(hs) : gs[h] = hs[h]
  BY <1>1, AppendProperties
<1>3. DOMAIN gs = 1..(Len(hs) + 1) /\ DOMAIN hs = 1..Len(hs) /\ Len(hs) \in Nat
  BY <1>1, <1>2, LenProperties
<1> HIDE DEF gs
<1>4. \A h \in DOMAIN gs : gs[h] = IF h \in DOMAIN hs THEN hs[h] ELSE e
  BY <1>2, <1>3
<1>5. Typing(b, gs, ds)
  BY <1>1, <1>2, <1>4 DEF Typing
<1>6. Covering(b, gs, ds)
  BY <1>4 DEF Good, Covering, Alone
<1>7. VectorsOf(b, gs) = Append(VectorsOf(b, hs), Held(b, e))
  <2>1. /\ VectorsOf(b, hs) \in Seq(Seq(Slot)) /\ Len(VectorsOf(b, hs)) = Len(hs)
        /\ \A h \in DOMAIN hs : VectorsOf(b, hs)[h] = Held(b, hs[h])
    BY <1>1, ValuesTyped
  <2>2. /\ VectorsOf(b, gs) \in Seq(Seq(Slot)) /\ Len(VectorsOf(b, gs)) = Len(gs)
        /\ \A h \in DOMAIN gs : VectorsOf(b, gs)[h] = Held(b, gs[h])
    BY <1>5, ValuesTyped
  <2>3. Held(b, e) \in Seq(Slot)
    BY <1>1, HeldProperties DEF Header
  <2> DEFINE w == Append(VectorsOf(b, hs), Held(b, e))
  <2>4. /\ w \in Seq(Seq(Slot)) /\ Len(w) = Len(hs) + 1 /\ w[Len(hs) + 1] = Held(b, e)
        /\ \A h \in 1..Len(hs) : w[h] = VectorsOf(b, hs)[h]
    BY <2>1, <2>3, AppendProperties
  <2> HIDE DEF w
  <2> DEFINE v == VectorsOf(b, gs)
  <2>5. v \in Seq(Seq(Slot)) /\ Len(v) = Len(hs) + 1
    BY <1>2, <2>2
  <2>6. \A h \in 1..(Len(hs) + 1) : v[h] = w[h]
    <3> TAKE h \in 1..(Len(hs) + 1)
    <3>1. v[h] = Held(b, gs[h])
      BY <1>3, <2>2
    <3>2. CASE h \in 1..Len(hs)
      BY <1>2, <1>3, <2>1, <2>4, <3>1, <3>2
    <3>3. CASE h = Len(hs) + 1
      BY <1>2, <2>4, <3>1, <3>3
    <3> QED
      BY <1>3, <3>2, <3>3
  <2> HIDE DEF v
  <2>7. v = w
    BY <2>4, <2>5, <2>6, SeqEqual
  <2> QED
    BY <2>7 DEF v, w
<1> QED
  BY <1>5, <1>6, <1>7 DEF Good, gs

(* A new builder has storage of its own.                                      *)
LEMMA BuilderAppended ==
  ASSUME NEW b, NEW hs, NEW ds, Good(b, hs, ds), NEW e \in Builder,
         Sound(b, e), ~e.frozen, b[e.store].mark = NoMark,
         \A h \in DOMAIN hs : hs[h].store # e.store,
         \A d \in DOMAIN ds : ds[d].store # e.store
  PROVE  /\ Good(b, hs, Append(ds, e))
         /\ DraftsOf(b, Append(ds, e))
              = Append(DraftsOf(b, ds), [items |-> Held(b, e), frozen |-> FALSE])
<1> DEFINE es == Append(ds, e)
           new == [items |-> Held(b, e), frozen |-> FALSE]
<1>1. Typing(b, hs, ds) /\ ds \in Seq(Builder) /\ b \in Seq(Storage)
  BY DEF Good, Typing
<1>2. /\ es \in Seq(Builder) /\ Len(es) = Len(ds) + 1 /\ es[Len(ds) + 1] = e
      /\ \A d \in 1..Len(ds) : es[d] = ds[d]
  BY <1>1, AppendProperties
<1>3. DOMAIN es = 1..(Len(ds) + 1) /\ DOMAIN ds = 1..Len(ds) /\ Len(ds) \in Nat
  BY <1>1, <1>2, LenProperties
<1> HIDE DEF es
<1>4. \A d \in DOMAIN es : es[d] = IF d \in DOMAIN ds THEN ds[d] ELSE e
  BY <1>2, <1>3
<1>5. Typing(b, hs, es)
  BY <1>1, <1>2, <1>4 DEF Typing
<1>6. Covering(b, hs, es)
  <2>1. Covering(b, hs, ds)
    BY DEF Good
  <2>2. \A d \in DOMAIN es \ DOMAIN ds : d = Len(ds) + 1 /\ es[d] = e
    BY <1>2, <1>3
  <2>3. ASSUME NEW d \in DOMAIN es
        PROVE  IF es[d].frozen THEN Covers(b, es[d]) ELSE Alone(b, hs, es, d)
    <3>1. CASE d \in DOMAIN ds /\ ds[d].frozen
      BY <1>4, <2>1, <3>1 DEF Covering
    <3>2. CASE d \in DOMAIN ds /\ ~ds[d].frozen
      BY <1>4, <2>1, <3>2 DEF Covering, Alone
    <3>3. CASE d \notin DOMAIN ds
      BY <1>4, <2>2, <3>3 DEF Alone
    <3> QED
      BY <3>1, <3>2, <3>3
  <2> QED
    BY <2>1, <2>3 DEF Covering
<1>7. DraftsOf(b, es) = Append(DraftsOf(b, ds), new)
  <2>1. DraftsOf(b, ds) \in Seq(Draft) /\ Len(DraftsOf(b, ds)) = Len(ds)
    BY <1>1, ValuesTyped
  <2>2. DraftsOf(b, es) \in Seq(Draft) /\ Len(DraftsOf(b, es)) = Len(ds) + 1
    BY <1>2, <1>5, ValuesTyped
  <2>3. new \in Draft
    BY <1>1, HeldProperties DEF Draft, Builder
  <2> DEFINE w == Append(DraftsOf(b, ds), new)
             v == DraftsOf(b, es)
  <2>4. /\ w \in Seq(Draft) /\ Len(w) = Len(ds) + 1 /\ w[Len(ds) + 1] = new
        /\ \A d \in 1..Len(ds) : w[d] = DraftsOf(b, ds)[d]
    BY <2>1, <2>3, AppendProperties
  <2>5. v \in Seq(Draft) /\ Len(v) = Len(ds) + 1
    BY <2>2
  <2>6. \A d \in 1..(Len(ds) + 1) : v[d] = w[d]
    <3> TAKE d \in 1..(Len(ds) + 1)
    <3> HIDE DEF w
    <3>1. v[d] = [items |-> Held(b, es[d]), frozen |-> es[d].frozen]
      BY <1>3 DEF DraftsOf
    <3>2. CASE d \in 1..Len(ds)
      <4>1. DraftsOf(b, ds)[d] = [items |-> Held(b, ds[d]), frozen |-> ds[d].frozen]
        BY <1>3, <3>2 DEF DraftsOf
      <4> QED
        BY <1>2, <2>4, <3>1, <3>2, <4>1
    <3>3. CASE d = Len(ds) + 1
      <4>1. e.frozen = FALSE
        BY DEF Builder
      <4> QED
        BY <1>2, <2>4, <3>1, <3>3, <4>1
    <3> QED
      BY <1>3, <3>2, <3>3
  <2> HIDE DEF v, w
  <2>7. v = w
    BY <2>4, <2>5, <2>6, SeqEqual
  <2> QED
    BY <2>7 DEF v, w
<1> QED
  BY <1>5, <1>6, <1>7 DEF Good, es

(* A builder at work writes to its storage, moves to storage of its own, or   *)
(* ends; nobody else sees it.                                                 *)
BuilderMoves(b, c, hs, ds, d, e) ==
  /\ d \in DOMAIN ds /\ ~ds[d].frozen
  /\ c \in Seq(Storage) /\ DOMAIN c = DOMAIN b
  /\ \A k \in DOMAIN b \ {ds[d].store} : c[k] = b[k]
  /\ e \in Builder /\ Sound(c, e)
  /\ \/ e.store = ds[d].store
     \/ /\ \A h \in DOMAIN hs : hs[h].store # e.store
        /\ \A f \in DOMAIN ds : ds[f].store # e.store
  /\ IF e.frozen THEN Covers(c, e) ELSE c[e.store].mark = NoMark

(* Such a move keeps the invariant and changes that builder's draft alone.    *)
LEMMA BuilderWrites ==
  ASSUME NEW b, NEW c, NEW hs, NEW ds, NEW d, NEW e, Good(b, hs, ds),
         BuilderMoves(b, c, hs, ds, d, e)
  PROVE  /\ Good(c, hs, [ds EXCEPT ![d] = e])
         /\ VectorsOf(c, hs) = VectorsOf(b, hs)
         /\ DraftsOf(c, [ds EXCEPT ![d] = e])
              = [DraftsOf(b, ds) EXCEPT ![d] = [items |-> Held(c, e), frozen |-> e.frozen]]
<1>0. /\ d \in DOMAIN ds /\ ~ds[d].frozen
      /\ c \in Seq(Storage) /\ DOMAIN c = DOMAIN b
      /\ \A k \in DOMAIN b \ {ds[d].store} : c[k] = b[k]
      /\ e \in Builder /\ Sound(c, e)
      /\ \/ e.store = ds[d].store
         \/ /\ \A h \in DOMAIN hs : hs[h].store # e.store
            /\ \A f \in DOMAIN ds : ds[f].store # e.store
      /\ IF e.frozen THEN Covers(c, e) ELSE c[e.store].mark = NoMark
  BY DEF BuilderMoves
<1> DEFINE es == [ds EXCEPT ![d] = e]
<1>1. /\ Typing(b, hs, ds) /\ Covering(b, hs, ds)
      /\ b \in Seq(Storage) /\ hs \in Seq(Header) /\ ds \in Seq(Builder)
  BY DEF Good, Typing
<1>2. /\ es \in Seq(Builder) /\ DOMAIN es = DOMAIN ds
      /\ \A f \in DOMAIN ds : es[f] = IF f = d THEN e ELSE ds[f]
  BY <1>0, <1>1, Elements, ExceptSeq
<1>3. Alone(b, hs, ds, d)
  BY <1>0, <1>1 DEF Covering
<1>4. \A h \in DOMAIN hs :
        /\ Sound(b, hs[h]) /\ c[hs[h].store] = b[hs[h].store]
        /\ hs[h].store # e.store
  BY <1>0, <1>1, <1>3 DEF Typing, Sound, Alone
<1>5. \A f \in DOMAIN ds \ {d} :
        /\ Sound(b, ds[f]) /\ c[ds[f].store] = b[ds[f].store]
        /\ ds[f].store # e.store
  BY <1>0, <1>1, <1>3 DEF Typing, Sound, Alone
<1> HIDE DEF es
<1>6. Typing(c, hs, es)
  <2>1. \A h \in DOMAIN hs : Sound(c, hs[h])
    BY <1>0, <1>4 DEF Sound
  <2>2. \A f \in DOMAIN es : Sound(c, es[f])
    BY <1>0, <1>2, <1>5 DEF Sound
  <2> QED
    BY <1>0, <1>1, <1>2, <2>1, <2>2 DEF Typing
<1>7. Covering(c, hs, es)
  <2>1. \A h \in DOMAIN hs : Covers(c, hs[h])
    BY <1>1, <1>4 DEF Covering, Covers
  <2>2. ASSUME NEW f \in DOMAIN es
        PROVE  IF es[f].frozen THEN Covers(c, es[f]) ELSE Alone(c, hs, es, f)
    <3>1. CASE f = d
      BY <1>0, <1>2, <1>4, <1>5, <3>1 DEF Alone
    <3>2. CASE f # d /\ ds[f].frozen
      BY <1>1, <1>2, <1>5, <3>2 DEF Covering, Covers
    <3>3. CASE f # d /\ ~ds[f].frozen
      <4>1. Alone(b, hs, ds, f)
        BY <1>1, <1>2, <3>3 DEF Covering
      <4> QED
        BY <1>0, <1>2, <1>5, <3>3, <4>1 DEF Alone
    <3> QED
      BY <3>1, <3>2, <3>3
  <2> QED
    BY <2>1, <2>2 DEF Covering
<1>8. VectorsOf(c, hs) = VectorsOf(b, hs)
  BY <1>4 DEF VectorsOf, Held
<1>9. DraftsOf(c, es)
        = [DraftsOf(b, ds) EXCEPT ![d] = [items |-> Held(c, e), frozen |-> e.frozen]]
  <2>1. \A f \in DOMAIN ds \ {d} : Held(c, es[f]) = Held(b, ds[f]) /\ es[f] = ds[f]
    BY <1>2, <1>5 DEF Held
  <2> QED
    BY <1>2, <2>1 DEF DraftsOf
<1> QED
  BY <1>6, <1>7, <1>8, <1>9 DEF Good, es

(* native_vec_push in place: the slot at the watermark is nobody's, so a      *)
(* vector that takes it changes no other.                                     *)
LEMMA SlotTaken ==
  ASSUME NEW b, NEW hs, NEW ds, Good(b, hs, ds), NEW h \in DOMAIN hs, NEW x \in Slot,
         b[hs[h].store].mark = hs[h].length,
         hs[h].length < Len(b[hs[h].store].cells),
         NEW c \in Seq(Storage), DOMAIN c = DOMAIN b,
         \A j \in DOMAIN b \ {hs[h].store} : c[j] = b[j],
         c[hs[h].store].mark = hs[h].length + 1,
         Len(c[hs[h].store].cells) = Len(b[hs[h].store].cells),
         c[hs[h].store].cells[hs[h].length + 1] = x,
         \A i \in 1..hs[h].length : c[hs[h].store].cells[i] = b[hs[h].store].cells[i],
         NEW e \in Header, e.store = hs[h].store, e.length = hs[h].length + 1
  PROVE  /\ Good(c, Append(hs, e), ds)
         /\ VectorsOf(c, Append(hs, e))
              = Append(VectorsOf(b, hs), Append(VectorsOf(b, hs)[h], x))
         /\ DraftsOf(c, ds) = DraftsOf(b, ds)
<1> DEFINE k == hs[h].store
           n == hs[h].length
<1>1. /\ Typing(b, hs, ds) /\ Covering(b, hs, ds)
      /\ b \in Seq(Storage) /\ hs \in Seq(Header) /\ ds \in Seq(Builder)
  BY DEF Good, Typing
<1>2. /\ k \in DOMAIN b /\ DOMAIN b = 1..Len(b) /\ n \in Nat
      /\ b[k].cells \in Seq(Slot) /\ Len(b[k].cells) \in Nat
  BY <1>1, Elements
<1>3. Len(c[k].cells) > n /\ c[k].cells # <<>>
  BY <1>2, EmptySeq
<1>7. \A d \in DOMAIN ds : ~ds[d].frozen => ds[d].store # k
  BY <1>1 DEF Covering, Alone
<1>8. ASSUME NEW g \in DOMAIN hs
      PROVE  /\ Sound(c, hs[g]) /\ Covers(c, hs[g])
             /\ Untouched(b, c, hs[g])
  <2>1. /\ hs[g].length \in Nat /\ hs[g].store \in DOMAIN b
        /\ Sound(b, hs[g]) /\ Covers(b, hs[g])
    BY <1>1, Elements DEF Typing, Covering
  <2>2. CASE hs[g].store = k
    <3>1. hs[g].length <= n
      BY <1>2, <2>1, <2>2 DEF Covers, NoMark
    <3> QED
      BY <1>2, <1>3, <2>1, <2>2, <3>1 DEF Sound, Covers, Untouched
  <2>3. CASE hs[g].store # k
    BY <2>1, <2>3 DEF Sound, Covers, Untouched
  <2> QED
    BY <2>2, <2>3
<1>9. ASSUME NEW d \in DOMAIN ds
      PROVE  /\ Sound(c, ds[d]) /\ (ds[d].frozen => Covers(c, ds[d]))
             /\ Untouched(b, c, ds[d])
  <2>1. /\ ds[d].length \in Nat /\ ds[d].store \in DOMAIN b
        /\ Sound(b, ds[d]) /\ (ds[d].frozen => Covers(b, ds[d]))
    BY <1>1, Elements DEF Typing, Covering
  <2>2. CASE ds[d].store = k
    <3>1. ds[d].length <= n
      BY <1>2, <1>7, <2>1, <2>2 DEF Covers, NoMark
    <3> QED
      BY <1>2, <1>3, <2>1, <2>2, <3>1 DEF Sound, Covers, Untouched
  <2>3. CASE ds[d].store # k
    BY <2>1, <2>3 DEF Sound, Covers, Untouched
  <2> QED
    BY <2>2, <2>3
<1>10. /\ Typing(c, hs, ds)
       /\ VectorsOf(c, hs) = VectorsOf(b, hs)
       /\ DraftsOf(c, ds) = DraftsOf(b, ds)
  BY <1>1, <1>8, <1>9, StorageChanged
<1>11. Good(c, hs, ds)
  <2>1. \A d \in DOMAIN ds : ~ds[d].frozen => Alone(c, hs, ds, d)
    BY <1>1, <1>7, Elements DEF Covering, Alone
  <2> QED
    BY <1>8, <1>9, <1>10, <2>1 DEF Good, Covering
<1>12. Sound(c, e) /\ Covers(c, e)
  BY <1>2, <1>3 DEF Sound, Covers
<1>13. /\ Good(c, Append(hs, e), ds)
       /\ VectorsOf(c, Append(hs, e)) = Append(VectorsOf(b, hs), Held(c, e))
  BY <1>7, <1>10, <1>11, <1>12, HeaderAppended
<1>14. Held(c, e) = Append(VectorsOf(b, hs)[h], x)
  <2>1. VectorsOf(b, hs)[h] = Held(c, hs[h])
    BY <1>10, ValuesTyped
  <2>2. Sound(c, hs[h])
    BY <1>8
  <2> DEFINE holder == hs[h]
  <2>3. /\ holder.length \in Nat /\ Sound(c, holder) /\ Sound(c, e)
        /\ e.store = holder.store /\ e.length = holder.length + 1
        /\ c[holder.store].cells[holder.length + 1] = x
    BY <1>2, <1>12, <2>2
  <2> HIDE DEF holder, k, n
  <2>4. Held(c, e) = Append(Held(c, holder), x)
    BY <2>3, HeldLonger
  <2> QED
    BY <2>1, <2>4 DEF holder
<1> QED
  BY <1>10, <1>13, <1>14

-----------------------------------------------------------------------------
(* The values of the current state are what the refinement maps it to.        *)
Vectors == VectorsOf(blocks, headers)
Drafts == DraftsOf(blocks, builders)

(* The invariant of the proof says at least what the model's invariants say.  *)
LEMMA InvariantImplies == VecInvariant => VecTypeOK /\ MarksCover
<1> SUFFICES ASSUME VecInvariant PROVE VecTypeOK /\ MarksCover
  OBVIOUS
<1>1. Typing(blocks, headers, builders) /\ Covering(blocks, headers, builders)
  BY DEF VecInvariant, Good
<1>2. /\ headers \in Seq(Header)
      /\ \A h \in DOMAIN headers : headers[h] \in Header /\ Sound(blocks, headers[h])
  BY <1>1, Elements DEF Typing
<1>3. /\ builders \in Seq(Builder)
      /\ \A d \in DOMAIN builders : builders[d] \in Builder /\ Sound(blocks, builders[d])
  BY <1>1, Elements DEF Typing
<1>4. \A h \in DOMAIN headers : headers[h] \in [store : DOMAIN blocks, length : Nat]
  BY <1>2 DEF Header, Sound
<1>5. \A d \in DOMAIN builders :
        builders[d] \in [store : DOMAIN blocks, length : Nat, frozen : BOOLEAN]
  BY <1>3 DEF Builder, Sound
<1>6. headers \in Seq([store : DOMAIN blocks, length : Nat])
  BY <1>2, <1>4, SeqOfElements
<1>7. builders \in Seq([store : DOMAIN blocks, length : Nat, frozen : BOOLEAN])
  BY <1>3, <1>5, SeqOfElements
<1>8. VecTypeOK
  BY <1>1, <1>2, <1>3, <1>6, <1>7 DEF VecTypeOK, Typing, Storage, Sound, Slots
<1>9. MarksCover
  BY <1>1 DEF MarksCover, Covering, Covers, Alone
<1> QED
  BY <1>8, <1>9

(* The first vector is empty and in storage of no bytes.                      *)
LEMMA InitGood == VecInit => VecInvariant /\ Immutable!Init
<1> SUFFICES ASSUME VecInit PROVE VecInvariant /\ Immutable!Init
  OBVIOUS
<1> DEFINE s == [cells |-> <<>>, mark |-> NoMark]
           e == [store |-> 1, length |-> 0]
<1>1. s \in Storage /\ e \in Header
  BY DEF Storage, Header
<1>2. blocks = <<s>> /\ headers = <<e>> /\ builders = <<>>
  BY DEF VecInit
<1>3. /\ blocks \in Seq(Storage) /\ headers \in Seq(Header) /\ builders \in Seq(Builder)
      /\ DOMAIN blocks = {1} /\ DOMAIN headers = {1} /\ DOMAIN builders = {}
      /\ blocks[1] = s /\ headers[1] = e
  <2> HIDE DEF s, e
  <2> QED BY <1>1, <1>2
<1>4. Sound(blocks, headers[1]) /\ Covers(blocks, headers[1])
  BY <1>3 DEF Sound, Covers
<1>5. VecInvariant
  BY <1>3, <1>4 DEF VecInvariant, Good, Typing, Covering
<1>6. SubSeq(blocks[headers[1].store].cells, 1, headers[1].length) = <<>>
  BY <1>3, SubSeqEmpty
<1>7. Immutable!Init
  <2>1. [h \in DOMAIN headers |-> Contents(headers[h])] = <<<<>>>>
    BY <1>3, <1>6 DEF Contents, Slots
  <2>2. [b \in DOMAIN builders |->
          [items |-> Contents(builders[b]), frozen |-> builders[b].frozen]] = <<>>
    BY <1>3
  <2> QED
    BY <2>1, <2>2 DEF Immutable!Init
<1> QED
  BY <1>5, <1>7

(* An abstract step makes one vector more and leaves the rest.                *)
LEMMA Made ==
  ASSUME NEW s, Vectors' = Append(Vectors, s), Drafts' = Drafts
  PROVE  Immutable!Make(s)
BY DEF Immutable!Make, Vectors, Drafts, VectorsOf, DraftsOf, Held, Contents, Slots

(* Every operation that makes a vector on new storage (native_vec_new) keeps  *)
(* the invariant and makes just that vector.                                  *)
LEMMA NewVecMakes ==
  ASSUME VecInvariant, NEW s \in Seq(Slot), NEW capacity \in Nat, Len(s) <= capacity,
         NewVec(s, capacity)
  PROVE  VecInvariant' /\ Immutable!Make(s)
<1> DEFINE new == [cells |-> Room(s, capacity), mark |-> IF capacity = 0 THEN NoMark ELSE Len(s)]
           e == [store |-> Len(blocks) + 1, length |-> Len(s)]
<1>1. /\ blocks' = Append(blocks, new) /\ headers' = Append(headers, e)
      /\ builders' = builders
  BY DEF NewVec
<1>2. Good(blocks, headers, builders) /\ Typing(blocks, headers, builders)
  BY DEF VecInvariant, Good
<1>3. Len(s) \in Nat /\ Len(blocks) \in Nat /\ blocks \in Seq(Storage)
  BY <1>2, LenProperties DEF Typing
<1>4. /\ Room(s, capacity) \in Seq(Slot) /\ Len(Room(s, capacity)) = capacity
      /\ SubSeq(Room(s, capacity), 1, Len(s)) = s
  BY RoomHolds
<1>5. new \in Storage /\ e \in Header
  BY <1>3, <1>4 DEF Storage, Header
<1>6. /\ e.store = Len(blocks) + 1 /\ e.length = Len(s)
      /\ new.cells = Room(s, capacity)
      /\ IF capacity = 0 THEN new.mark = NoMark ELSE new.mark = Len(s)
  OBVIOUS
<1> HIDE DEF new, e
<1>7. /\ Good(blocks', headers, builders)
      /\ VectorsOf(blocks', headers) = Vectors
      /\ DraftsOf(blocks', builders) = Drafts
  BY <1>1, <1>2, <1>5, StorageAppended DEF Vectors, Drafts
<1>8. e.store \in DOMAIN blocks' /\ blocks'[e.store] = new
  <2>1. /\ blocks' \in Seq(Storage) /\ Len(blocks') = Len(blocks) + 1
        /\ blocks'[Len(blocks) + 1] = new
    BY <1>1, <1>3, <1>5, AppendProperties
  <2> QED
    BY <1>3, <1>6, <2>1, LenProperties
<1>9. Sound(blocks', e)
  BY <1>4, <1>6, <1>8 DEF Sound
<1>10. Covers(blocks', e)
  <2>1. CASE capacity = 0
    BY <1>4, <1>6, <1>8, <2>1, EmptySeq DEF Covers
  <2>2. CASE capacity # 0
    <3>1. Room(s, capacity) # <<>>
      BY <1>4, <2>2, EmptySeq
    <3> QED
      BY <1>3, <1>4, <1>6, <1>8, <2>2, <3>1 DEF Covers
  <2> QED
    BY <2>1, <2>2
<1>11. \A d \in DOMAIN builders : builders[d].store # e.store
  BY <1>2, <1>3, <1>6, Elements
<1>12. /\ Good(blocks', headers', builders)
       /\ VectorsOf(blocks', headers') = Append(Vectors, Held(blocks', e))
  BY <1>1, <1>5, <1>7, <1>9, <1>10, <1>11, HeaderAppended
<1>13. Held(blocks', e) = s
  BY <1>4, <1>6, <1>8 DEF Held
<1>14. Vectors' = Append(Vectors, s) /\ Drafts' = Drafts
  BY <1>1, <1>7, <1>12, <1>13 DEF Vectors, Drafts
<1> QED
  BY <1>1, <1>12, <1>14, Made DEF VecInvariant

(* What a header of a good state holds.                                       *)
LEMMA HeaderHolds ==
  ASSUME VecInvariant, NEW h \in DOMAIN headers
  PROVE  /\ headers[h].length \in Nat
         /\ headers[h].length <= Len(Slots(headers[h]))
         /\ Slots(headers[h]) \in Seq(Slot)
         /\ Contents(headers[h]) = Vectors[h]
         /\ Vectors[h] \in Seq(Slot) /\ Len(Vectors[h]) = headers[h].length
         /\ \A i \in 1..headers[h].length : Vectors[h][i] = Slots(headers[h])[i]
<1>1. Typing(blocks, headers, builders) /\ blocks \in Seq(Storage)
  BY DEF VecInvariant, Good, Typing
<1>2. headers[h].length \in Nat /\ Sound(blocks, headers[h]) /\ Slots(headers[h]) \in Seq(Slot)
  BY <1>1, Elements DEF Typing, Slots
<1>3. Vectors[h] = Held(blocks, headers[h])
  BY <1>1, ValuesTyped DEF Vectors
<1>4. /\ Vectors[h] \in Seq(Slot) /\ Len(Vectors[h]) = headers[h].length
      /\ \A i \in 1..headers[h].length : Vectors[h][i] = Slots(headers[h])[i]
  BY <1>1, <1>2, <1>3, HeldProperties DEF Slots
<1> QED
  BY <1>2, <1>3, <1>4 DEF Sound, Slots, Contents, Held

(* The abstract operations, by what they make.                                *)
LEMMA MakingIsAStep ==
  ASSUME NEW v \in DOMAIN headers, NEW s, Immutable!Make(s),
         \/ \E x \in Element : s = Append(Vectors[v], x)
         \/ \E i \in 1..Len(Vectors[v]), x \in Element : s = [Vectors[v] EXCEPT ![i] = x]
         \/ \E w \in DOMAIN headers : s = Vectors[v] \o Vectors[w]
         \/ \E from, to \in 0..Len(Vectors[v]) :
              from <= to /\ s = SubSeq(Vectors[v], from + 1, to)
         \/ s = [i \in 1..Len(Vectors[v]) |-> Vectors[v][Len(Vectors[v]) + 1 - i]]
  PROVE  Immutable!Next
<1> DEFINE V == [h \in DOMAIN headers |-> Contents(headers[h])]
<1>1. Vectors = V /\ DOMAIN V = DOMAIN headers
  BY DEF Vectors, VectorsOf, Held, Contents, Slots
<1> SUFFICES Immutable!Next
  OBVIOUS
<1>2. CASE \E x \in Element : s = Append(Vectors[v], x)
  <2>1. \E x \in Element : Immutable!Push(v, x)
    BY <1>1, <1>2 DEF Immutable!Push
  <2> QED
    BY <1>1, <2>1 DEF Immutable!Next
<1>3. CASE \E i \in 1..Len(Vectors[v]), x \in Element : s = [Vectors[v] EXCEPT ![i] = x]
  <2>1. PICK i \in 1..Len(V[v]), x \in Element : s = [V[v] EXCEPT ![i] = x]
    BY <1>1, <1>3
  <2>2. Immutable!Make([V[v] EXCEPT ![i] = x])
    BY <2>1
  <2>3. Immutable!Assoc(v, i, x)
    BY <2>2 DEF Immutable!Assoc
  <2> QED
    BY <1>1, <2>3 DEF Immutable!Next
<1>4. CASE \E w \in DOMAIN headers : s = Vectors[v] \o Vectors[w]
  <2>1. \E w \in DOMAIN V : Immutable!Concat(v, w)
    BY <1>1, <1>4 DEF Immutable!Concat
  <2> QED
    BY <1>1, <2>1 DEF Immutable!Next
<1>5. CASE \E from, to \in 0..Len(Vectors[v]) :
             from <= to /\ s = SubSeq(Vectors[v], from + 1, to)
  <2>1. \E from, to \in 0..Len(V[v]) : Immutable!Slice(v, from, to)
    BY <1>1, <1>5 DEF Immutable!Slice
  <2> QED
    BY <1>1, <2>1 DEF Immutable!Next
<1>6. CASE s = [i \in 1..Len(Vectors[v]) |-> Vectors[v][Len(Vectors[v]) + 1 - i]]
  <2>1. Immutable!Reverse(v)
    BY <1>1, <1>6 DEF Immutable!Reverse
  <2> QED
    BY <1>1, <2>1 DEF Immutable!Next
<1> QED
  BY <1>2, <1>3, <1>4, <1>5, <1>6

(* Replacing an element makes a copy (native_vec_assoc).                      *)
LEMMA AssocStep ==
  ASSUME VecInvariant, NEW h \in DOMAIN headers, NEW x \in Element,
         NEW i \in 1..headers[h].length, AssocVec(headers[h], i, x)
  PROVE  VecInvariant' /\ Immutable!Next
<1> DEFINE s == [Vectors[h] EXCEPT ![i] = x]
<1>1. /\ headers[h].length \in Nat /\ Contents(headers[h]) = Vectors[h]
      /\ Vectors[h] \in Seq(Slot) /\ Len(Vectors[h]) = headers[h].length
  BY HeaderHolds
<1>2. s \in Seq(Slot) /\ Len(s) = headers[h].length
  BY <1>1, ExceptSeq DEF Slot
<1>3. NewVec(s, headers[h].length)
  BY <1>1 DEF AssocVec
<1> HIDE DEF s
<1>4. VecInvariant' /\ Immutable!Make(s)
  BY <1>1, <1>2, <1>3, NewVecMakes
<1>5. \E j \in 1..Len(Vectors[h]), y \in Element : s = [Vectors[h] EXCEPT ![j] = y]
  BY <1>1 DEF s
<1> QED
  BY <1>4, <1>5, MakingIsAStep

(* The push that copies (native_vec_push).                                    *)
LEMMA PushOnCopyStep ==
  ASSUME VecInvariant, NEW h \in DOMAIN headers, NEW x \in Element,
         PushOnCopy(headers[h], x)
  PROVE  VecInvariant' /\ Immutable!Next
<1> DEFINE s == Append(Vectors[h], x)
<1>1. /\ headers[h].length \in Nat /\ Contents(headers[h]) = Vectors[h]
      /\ Vectors[h] \in Seq(Slot) /\ Len(Vectors[h]) = headers[h].length
  BY HeaderHolds
<1>2. s \in Seq(Slot) /\ Len(s) = headers[h].length + 1
  BY <1>1, AppendProperties DEF Slot
<1>3. NewVec(s, GrownVec(headers[h].length))
  BY <1>1 DEF PushOnCopy
<1>4. GrownVec(headers[h].length) \in Nat /\ Len(s) <= GrownVec(headers[h].length)
  BY <1>1, <1>2, GrownHolds
<1> HIDE DEF s
<1>5. VecInvariant' /\ Immutable!Make(s)
  BY <1>2, <1>3, <1>4, NewVecMakes
<1> QED
  BY <1>5, MakingIsAStep DEF s

(* Two vectors one after the other (native_vec_concat).                       *)
LEMMA ConcatStep ==
  ASSUME VecInvariant, NEW h \in DOMAIN headers, NEW g \in DOMAIN headers,
         Concat(headers[h], headers[g])
  PROVE  VecInvariant' /\ Immutable!Next
<1> DEFINE s == Vectors[h] \o Vectors[g]
<1>1. /\ headers[h].length \in Nat /\ Contents(headers[h]) = Vectors[h]
      /\ Vectors[h] \in Seq(Slot) /\ Len(Vectors[h]) = headers[h].length
      /\ headers[g].length \in Nat /\ Contents(headers[g]) = Vectors[g]
      /\ Vectors[g] \in Seq(Slot) /\ Len(Vectors[g]) = headers[g].length
  BY HeaderHolds
<1>2. s \in Seq(Slot) /\ Len(s) = headers[h].length + headers[g].length
  <2> DEFINE v == Vectors[h]
             w == Vectors[g]
  <2> HIDE DEF v, w
  <2>1. v \in Seq(Slot) /\ w \in Seq(Slot)
    BY <1>1 DEF v, w
  <2>2. v \o w \in Seq(Slot) /\ Len(v \o w) = Len(v) + Len(w)
    BY <2>1, ConcatProperties
  <2> QED
    BY <1>1, <2>2 DEF v, w
<1>3. NewVec(s, headers[h].length + headers[g].length)
  BY <1>1 DEF Concat
<1> HIDE DEF s
<1>4. VecInvariant' /\ Immutable!Make(s)
  BY <1>1, <1>2, <1>3, NewVecMakes
<1> QED
  BY <1>4, MakingIsAStep DEF s

(* A part of a vector, copied (native_vec_slice).                             *)
LEMMA SliceStep ==
  ASSUME VecInvariant, NEW h \in DOMAIN headers,
         NEW from \in 0..headers[h].length, NEW to \in 0..headers[h].length,
         Slice(headers[h], from, to)
  PROVE  VecInvariant' /\ Immutable!Next
<1> DEFINE n == headers[h].length
           cells == Slots(headers[h])
           v == Vectors[h]
           s == SubSeq(cells, from + 1, to)
<1>1. /\ n \in Nat /\ n <= Len(cells) /\ cells \in Seq(Slot)
      /\ v \in Seq(Slot) /\ Len(v) = n /\ \A i \in 1..n : v[i] = cells[i]
  BY HeaderHolds
<1>2. from <= to /\ to <= n /\ NewVec(s, to - from)
  BY DEF Slice
<1> HIDE DEF n, cells, v
<1>3. \A i \in (from + 1)..to : cells[i] \in Slot /\ v[i] = cells[i]
  BY <1>1, <1>2, ElementOfSeq DEF n
<1>4. /\ s \in Seq(Slot) /\ Len(s) = to - from
      /\ \A i \in 1..(to - from) : s[i] = cells[from + i]
  BY <1>1, <1>2, <1>3, SubSeqProperties DEF n
<1>5. /\ SubSeq(v, from + 1, to) \in Seq(Slot) /\ Len(SubSeq(v, from + 1, to)) = to - from
      /\ \A i \in 1..(to - from) : SubSeq(v, from + 1, to)[i] = v[from + i]
  BY <1>1, <1>2, <1>3, SubSeqProperties DEF n
<1> HIDE DEF s
<1>6. \A i \in 1..(to - from) : s[i] = SubSeq(v, from + 1, to)[i]
  <2> TAKE i \in 1..(to - from)
  <2>1. from \in Nat /\ to \in Nat
    BY <1>1 DEF n
  <2>2. from + i \in (from + 1)..to
    BY <2>1
  <2>3. v[from + i] = cells[from + i]
    BY <2>2, <1>3
  <2> QED
    BY <2>3, <1>4, <1>5
<1>7. s = SubSeq(v, from + 1, to)
  BY <1>4, <1>5, <1>6, SeqEqual
<1>8. VecInvariant' /\ Immutable!Make(s)
  BY <1>1, <1>2, <1>4, NewVecMakes DEF n
<1>9. \E j, k \in 0..Len(Vectors[h]) : j <= k /\ s = SubSeq(Vectors[h], j + 1, k)
  BY <1>1, <1>2, <1>7 DEF n, v
<1> QED
  BY <1>8, <1>9, MakingIsAStep

(* The elements in the other order, copied (native_vec_reverse).              *)
LEMMA ReverseStep ==
  ASSUME VecInvariant, NEW h \in DOMAIN headers, Reverse(headers[h])
  PROVE  VecInvariant' /\ Immutable!Next
<1> DEFINE n == headers[h].length
           cells == Slots(headers[h])
           s == [i \in 1..n |-> cells[n + 1 - i]]
<1>1. /\ n \in Nat /\ n <= Len(cells) /\ cells \in Seq(Slot)
      /\ Len(Vectors[h]) = n /\ \A i \in 1..n : Vectors[h][i] = cells[i]
  BY HeaderHolds
<1>2. NewVec(s, n)
  BY DEF Reverse
<1> HIDE DEF n, cells
<1>3. \A i \in 1..n : n + 1 - i \in 1..n /\ cells[n + 1 - i] \in Slot
  BY <1>1, ElementOfSeq
<1>4. s \in [1..n -> Slot]
  BY <1>3
<1>5. s = [i \in 1..Len(Vectors[h]) |-> Vectors[h][Len(Vectors[h]) + 1 - i]]
  BY <1>1, <1>3
<1> HIDE DEF s
<1>6. s \in Seq(Slot) /\ Len(s) = n
  BY <1>1, <1>4
<1>7. VecInvariant' /\ Immutable!Make(s)
  BY <1>1, <1>2, <1>6, NewVecMakes
<1> QED
  BY <1>5, <1>7, MakingIsAStep

(* The push that shares storage.                                              *)
LEMMA PushInPlaceStep ==
  ASSUME VecInvariant, NEW h \in DOMAIN headers, NEW x \in Element,
         PushInPlace(headers[h], x)
  PROVE  VecInvariant' /\ Immutable!Next
<1> DEFINE k == headers[h].store
           n == headers[h].length
           cells == [blocks[k].cells EXCEPT ![n + 1] = x]
           e == [store |-> k, length |-> n + 1]
<1>1. /\ Good(blocks, headers, builders) /\ Typing(blocks, headers, builders)
      /\ blocks \in Seq(Storage)
  BY DEF VecInvariant, Good, Typing
<1>2. /\ k \in DOMAIN blocks /\ DOMAIN blocks = 1..Len(blocks) /\ k \in Nat
      /\ n \in Nat /\ blocks[k].cells \in Seq(Slot) /\ Len(blocks[k].cells) \in Nat
  BY <1>1, Elements
<1>3. /\ blocks[k].mark = n /\ n < Len(blocks[k].cells)
      /\ blocks' = [blocks EXCEPT ![k] = [cells |-> cells, mark |-> n + 1]]
      /\ headers' = Append(headers, e) /\ builders' = builders
  BY <1>2 DEF PushInPlace, Extensible, Slots
<1>4. x \in Slot
  BY DEF Slot
<1>5. /\ cells \in Seq(Slot) /\ Len(cells) = Len(blocks[k].cells) /\ cells[n + 1] = x
      /\ \A i \in 1..n : cells[i] = blocks[k].cells[i]
  BY <1>2, <1>3, <1>4, ExceptSeq, SMTT(30)
<1>6. e \in Header /\ e.store = k /\ e.length = n + 1
  BY <1>2 DEF Header
<1> HIDE DEF cells, e
<1>7. [cells |-> cells, mark |-> n + 1] \in Storage
  BY <1>2, <1>5 DEF Storage
<1>8. /\ blocks' \in Seq(Storage) /\ DOMAIN blocks' = DOMAIN blocks
      /\ blocks'[k] = [cells |-> cells, mark |-> n + 1]
      /\ \A j \in DOMAIN blocks \ {k} : blocks'[j] = blocks[j]
  BY <1>1, <1>2, <1>3, <1>7, ExceptSeq
<1>9. /\ blocks'[k].mark = n + 1 /\ Len(blocks'[k].cells) = Len(blocks[k].cells)
      /\ blocks'[k].cells[n + 1] = x
      /\ \A i \in 1..n : blocks'[k].cells[i] = blocks[k].cells[i]
  BY <1>5, <1>8
<1>10. /\ Good(blocks', Append(headers, e), builders)
       /\ VectorsOf(blocks', Append(headers, e))
            = Append(VectorsOf(blocks, headers), Append(VectorsOf(blocks, headers)[h], x))
       /\ DraftsOf(blocks', builders) = DraftsOf(blocks, builders)
  <2>1. blocks[k].mark = n /\ n < Len(blocks[k].cells)
    BY <1>3
  <2>2. /\ blocks' \in Seq(Storage) /\ DOMAIN blocks' = DOMAIN blocks
        /\ \A j \in DOMAIN blocks \ {k} : blocks'[j] = blocks[j]
    BY <1>8
  <2> HIDE DEF k, n
  <2> QED
    BY <1>1, <1>4, <1>6, <1>9, <2>1, <2>2, SlotTaken, SMTT(30) DEF k, n
<1>11. /\ VecInvariant'
       /\ Vectors' = Append(Vectors, Append(Vectors[h], x)) /\ Drafts' = Drafts
  BY <1>3, <1>10 DEF VecInvariant, Vectors, Drafts
<1>12. Immutable!Make(Append(Vectors[h], x))
  BY <1>11, Made
<1> QED
  BY <1>11, <1>12, MakingIsAStep

(* What a builder of a good state holds.                                      *)
LEMMA BuilderHolds ==
  ASSUME VecInvariant, NEW d \in DOMAIN builders
  PROVE  /\ builders[d].store \in DOMAIN blocks /\ builders[d].length \in Nat
         /\ builders[d].frozen \in BOOLEAN
         /\ builders[d].length <= Len(Slots(builders[d]))
         /\ Slots(builders[d]) \in Seq(Slot)
         /\ Contents(builders[d]) = Held(blocks, builders[d])
         /\ Held(blocks, builders[d]) \in Seq(Slot)
         /\ Len(Held(blocks, builders[d])) = builders[d].length
         /\ ~builders[d].frozen =>
              blocks[builders[d].store].mark = NoMark /\ Alone(blocks, headers, builders, d)
<1>1. /\ Typing(blocks, headers, builders) /\ Covering(blocks, headers, builders)
      /\ blocks \in Seq(Storage)
  BY DEF VecInvariant, Good, Typing
<1>2. /\ builders[d].store \in DOMAIN blocks /\ builders[d].length \in Nat
      /\ builders[d].frozen \in BOOLEAN
      /\ Sound(blocks, builders[d]) /\ Slots(builders[d]) \in Seq(Slot)
  BY <1>1, Elements DEF Typing, Slots
<1>3. /\ Held(blocks, builders[d]) \in Seq(Slot)
      /\ Len(Held(blocks, builders[d])) = builders[d].length
  BY <1>1, <1>2, HeldProperties
<1> QED
  BY <1>1, <1>2, <1>3 DEF Sound, Slots, Contents, Held, Covering, Alone

(* The state's values are what the refinement names them.                     *)
LEMMA Mapped ==
  /\ Vectors = [h \in DOMAIN headers |-> Contents(headers[h])]
  /\ Drafts = [b \in DOMAIN builders |->
                [items |-> Contents(builders[b]), frozen |-> builders[b].frozen]]
  /\ DOMAIN Vectors = DOMAIN headers /\ DOMAIN Drafts = DOMAIN builders
BY DEF Vectors, Drafts, VectorsOf, DraftsOf, Held, Contents, Slots

(* A builder starts with a copy of a vector (native_transient_vec_new).       *)
LEMMA TransientNewStep ==
  ASSUME VecInvariant, NEW h \in DOMAIN headers, TransientNew(headers[h])
  PROVE  VecInvariant' /\ Immutable!Next
<1> DEFINE v == Vectors[h]
           new == [cells |-> v, mark |-> NoMark]
           e == [store |-> Len(blocks) + 1, length |-> headers[h].length, frozen |-> FALSE]
<1>1. /\ headers[h].length \in Nat /\ Contents(headers[h]) = v
      /\ v \in Seq(Slot) /\ Len(v) = headers[h].length
  BY HeaderHolds
<1>2. /\ Good(blocks, headers, builders) /\ Typing(blocks, headers, builders)
      /\ blocks \in Seq(Storage) /\ Len(blocks) \in Nat
  BY LenProperties DEF VecInvariant, Good, Typing
<1>3. /\ blocks' = Append(blocks, new) /\ builders' = Append(builders, e)
      /\ headers' = headers
  BY <1>1 DEF TransientNew
<1>4. new \in Storage /\ e \in Builder
  BY <1>1, <1>2 DEF Storage, Builder
<1>5. /\ e.store = Len(blocks) + 1 /\ e.length = Len(v) /\ ~e.frozen
      /\ new.cells = v /\ new.mark = NoMark
  BY <1>1
<1> HIDE DEF v, new, e
<1>6. /\ Good(blocks', headers, builders)
      /\ VectorsOf(blocks', headers) = Vectors
      /\ DraftsOf(blocks', builders) = Drafts
  BY <1>2, <1>3, <1>4, StorageAppended DEF Vectors, Drafts
<1>7. e.store \in DOMAIN blocks' /\ blocks'[e.store] = new
  <2>1. /\ blocks' \in Seq(Storage) /\ Len(blocks') = Len(blocks) + 1
        /\ blocks'[Len(blocks) + 1] = new
    BY <1>2, <1>3, <1>4, AppendProperties
  <2> QED
    BY <1>2, <1>5, <2>1, LenProperties
<1>8. Sound(blocks', e) /\ Held(blocks', e) = v
  <2>1. Sound(blocks', e)
    BY <1>1, <1>5, <1>7 DEF Sound
  <2>2. SubSeq(v, 1, Len(v)) = v
    BY <1>1, SubSeqFull
  <2> QED
    BY <1>5, <1>7, <2>1, <2>2 DEF Held
<1>9. /\ \A g \in DOMAIN headers : headers[g].store # e.store
      /\ \A d \in DOMAIN builders : builders[d].store # e.store
  BY <1>2, <1>5, Elements
<1>10. /\ Good(blocks', headers, builders')
       /\ DraftsOf(blocks', builders') = Append(Drafts, [items |-> v, frozen |-> FALSE])
  BY <1>3, <1>4, <1>5, <1>6, <1>7, <1>8, <1>9, BuilderAppended
<1>11. /\ VecInvariant'
       /\ Vectors' = Vectors /\ Drafts' = Append(Drafts, [items |-> v, frozen |-> FALSE])
  BY <1>3, <1>6, <1>10 DEF VecInvariant, Vectors, Drafts
<1>12. Immutable!Open(h)
  BY <1>11, Mapped DEF Immutable!Open, v, Vectors, Drafts, VectorsOf, DraftsOf, Held,
       Contents, Slots
<1> QED
  BY <1>11, <1>12, Mapped DEF Immutable!Next

(* Records of a draft's fields are equal when their fields are.               *)
LEMMA DraftEqual ==
  ASSUME NEW S, NEW T, NEW u \in [items : S, frozen : T], NEW v \in [items : S, frozen : T],
         u.items = v.items, u.frozen = v.frozen
  PROVE  u = v
OBVIOUS

(* A draft with other items, or frozen, is the record one would write.        *)
LEMMA DraftLonger ==
  ASSUME NEW a, NEW w, NEW f, NEW r, r = [items |-> a, frozen |-> f]
  PROVE  [r EXCEPT !.items = w] = [items |-> w, frozen |-> f]
<1> DEFINE s == [[items |-> a, frozen |-> f] EXCEPT !.items = w]
           q == [items |-> w, frozen |-> f]
<1>1. s \in [items : {a, w}, frozen : {f}] /\ s.items = w /\ s.frozen = f
  OBVIOUS
<1>2. q \in [items : {a, w}, frozen : {f}] /\ q.items = w /\ q.frozen = f
  OBVIOUS
<1> HIDE DEF s, q
<1>3. s = q
  BY <1>1, <1>2, DraftEqual
<1> QED
  BY <1>3 DEF s, q

(* The same of a draft that is frozen.                                        *)
LEMMA DraftFrozen ==
  ASSUME NEW a, NEW f, NEW g, NEW r, r = [items |-> a, frozen |-> f]
  PROVE  [r EXCEPT !.frozen = g] = [items |-> a, frozen |-> g]
<1> DEFINE s == [[items |-> a, frozen |-> f] EXCEPT !.frozen = g]
           q == [items |-> a, frozen |-> g]
<1>1. s \in [items : {a}, frozen : {f, g}] /\ s.items = a /\ s.frozen = g
  OBVIOUS
<1>2. q \in [items : {a}, frozen : {f, g}] /\ q.items = a /\ q.frozen = g
  OBVIOUS
<1> HIDE DEF s, q
<1>3. s = q
  BY <1>1, <1>2, DraftEqual
<1> QED
  BY <1>3 DEF s, q

(* The abstract step that extends a draft.                                    *)
LEMMA Extended ==
  ASSUME NEW d \in DOMAIN builders, builders[d].frozen = FALSE, NEW x \in Element,
         Vectors' = Vectors,
         Drafts' = [Drafts EXCEPT ![d] =
                      [items |-> Append(Contents(builders[d]), x), frozen |-> FALSE]]
  PROVE  Immutable!Next
<1> DEFINE D == [b \in DOMAIN builders |->
                  [items |-> Contents(builders[b]), frozen |-> builders[b].frozen]]
<1>1. /\ D[d].frozen = builders[d].frozen /\ D[d].items = Contents(builders[d])
      /\ DOMAIN D = DOMAIN builders
  OBVIOUS
<1>2. [D EXCEPT ![d].items = Append(@, x)]
        = [D EXCEPT ![d] = [items |-> Append(Contents(builders[d]), x), frozen |-> FALSE]]
  <2>1. D[d] = [items |-> Contents(builders[d]), frozen |-> builders[d].frozen]
    OBVIOUS
  <2> HIDE DEF D
  <2> DEFINE longer == Append(Contents(builders[d]), x)
  <2>2. D[d].items = Contents(builders[d])
    BY <2>1
  <2>3. Append(D[d].items, x) = longer
    BY <2>2
  <2> HIDE DEF longer
  <2>4. [D[d] EXCEPT !.items = longer] = [items |-> longer, frozen |-> builders[d].frozen]
    BY <2>1, DraftLonger
  <2> QED
    BY <2>3, <2>4 DEF longer
<1>3. Immutable!Extend(d, x)
  BY <1>1, <1>2 DEF Immutable!Extend, Vectors, Drafts, VectorsOf, DraftsOf, Held,
       Contents, Slots
<1> QED
  BY <1>1, <1>3 DEF Immutable!Next

(* The abstract step that freezes a draft.                                    *)
LEMMA Frozen ==
  ASSUME NEW d \in DOMAIN builders, builders[d].frozen = FALSE,
         Vectors' = Append(Vectors, Contents(builders[d])),
         Drafts' = [Drafts EXCEPT ![d] =
                      [items |-> Contents(builders[d]), frozen |-> TRUE]]
  PROVE  Immutable!Next
<1> DEFINE D == [b \in DOMAIN builders |->
                  [items |-> Contents(builders[b]), frozen |-> builders[b].frozen]]
<1>1. /\ D[d].frozen = builders[d].frozen /\ D[d].items = Contents(builders[d])
      /\ DOMAIN D = DOMAIN builders
  OBVIOUS
<1>2. [D EXCEPT ![d].frozen = TRUE]
        = [D EXCEPT ![d] = [items |-> Contents(builders[d]), frozen |-> TRUE]]
  <2>1. D[d] = [items |-> Contents(builders[d]), frozen |-> builders[d].frozen]
    OBVIOUS
  <2> HIDE DEF D
  <2>2. \A g : [D[d] EXCEPT !.frozen = g] = [items |-> Contents(builders[d]), frozen |-> g]
    BY <2>1, DraftFrozen
  <2>3. [D[d] EXCEPT !.frozen = TRUE] = [items |-> Contents(builders[d]), frozen |-> TRUE]
    BY <2>2, Zenon
  <2> QED
    BY <2>3
<1>3. Immutable!Freeze(d)
  BY <1>1, <1>2 DEF Immutable!Freeze, Vectors, Drafts, VectorsOf, DraftsOf, Held,
       Contents, Slots
<1> QED
  BY <1>1, <1>3 DEF Immutable!Next

(* A builder with room writes the next slot of its own storage.               *)
LEMMA TransientPushInPlace ==
  ASSUME VecInvariant, NEW d \in DOMAIN builders, NEW x \in Element, TransientPush(d, x),
         builders[d].length # Len(Slots(builders[d]))
  PROVE  VecInvariant' /\ Immutable!Next
<1> DEFINE k == builders[d].store
           n == builders[d].length
           cells == [blocks[k].cells EXCEPT ![n + 1] = x]
           e == [store |-> k, length |-> n + 1, frozen |-> FALSE]
           held == Held(blocks, builders[d])
<1>1. /\ Good(blocks, headers, builders) /\ Typing(blocks, headers, builders)
      /\ blocks \in Seq(Storage)
  BY DEF VecInvariant, Good, Typing
<1>2. /\ k \in DOMAIN blocks /\ DOMAIN blocks = 1..Len(blocks) /\ k \in Nat
      /\ n \in Nat /\ blocks[k].cells \in Seq(Slot) /\ Len(blocks[k].cells) \in Nat
      /\ blocks[k] \in Storage /\ x \in Slot
  BY <1>1, Elements DEF Slot
<1>3. /\ builders[d].frozen = FALSE /\ blocks[k].mark = NoMark /\ n < Len(blocks[k].cells)
      /\ Contents(builders[d]) = held
  BY <1>2, BuilderHolds DEF TransientPush, Slots
<1>4. /\ blocks' = [blocks EXCEPT ![k].cells[n + 1] = x]
      /\ builders' = [builders EXCEPT ![d] = e] /\ headers' = headers
  BY DEF TransientPush, Slots
<1>5. /\ cells \in Seq(Slot) /\ Len(cells) = Len(blocks[k].cells) /\ cells[n + 1] = x
      /\ \A i \in 1..n : cells[i] = blocks[k].cells[i]
  BY <1>2, <1>3, ExceptSeq
<1>6. e \in Builder /\ e.store = k /\ e.length = n + 1 /\ e.frozen = FALSE
  BY <1>2 DEF Builder
<1> HIDE DEF cells, e
<1> DEFINE new == [blocks[k] EXCEPT !.cells = cells]
<1>7. new \in Storage /\ new.cells = cells /\ new.mark = NoMark
  BY <1>2, <1>3, <1>5 DEF Storage
<1>8. blocks' = [blocks EXCEPT ![k] = new]
  BY <1>4 DEF cells
<1> HIDE DEF new
<1>9. /\ blocks' \in Seq(Storage) /\ DOMAIN blocks' = DOMAIN blocks /\ blocks'[k] = new
      /\ \A j \in DOMAIN blocks \ {k} : blocks'[j] = blocks[j]
  <2>1. /\ blocks' \in Seq(Storage) /\ Len(blocks') = Len(blocks)
        /\ \A j \in 1..Len(blocks) : blocks'[j] = IF j = k THEN new ELSE blocks[j]
    BY <1>1, <1>2, <1>7, <1>8, ExceptSeq
  <2> QED
    BY <1>2, <2>1, LenProperties
<1>10. /\ blocks'[k].cells = cells /\ blocks'[k].mark = NoMark
       /\ Len(blocks'[k].cells) = Len(blocks[k].cells)
  BY <1>5, <1>7, <1>9
<1>11. /\ Sound(blocks', e) /\ Sound(blocks', builders[d]) /\ Sound(blocks, builders[d])
  <2>1. k \in DOMAIN blocks' /\ n <= Len(blocks'[k].cells) /\ n + 1 <= Len(blocks'[k].cells)
    BY <1>2, <1>3, <1>9, <1>10
  <2> QED
    BY <1>2, <1>3, <1>6, <2>1 DEF Sound
<1>12. Held(blocks', builders[d]) = held
  <2>1. \A i \in 1..n : blocks[k].cells[i] = blocks'[k].cells[i]
    BY <1>5, <1>10
  <2> HIDE DEF held
  <2> QED
    BY <1>1, <1>2, <1>9, <1>11, <2>1, HeldEqual DEF held
<1>13. Held(blocks', e) = Append(held, x)
  <2>1. blocks'[k].cells[n + 1] = x
    BY <1>5, <1>10
  <2> HIDE DEF held
  <2> QED
    BY <1>2, <1>6, <1>9, <1>11, <1>12, <2>1, HeldLonger
<1>14. /\ Good(blocks', headers, builders')
       /\ VectorsOf(blocks', headers) = VectorsOf(blocks, headers)
       /\ DraftsOf(blocks', builders')
            = [DraftsOf(blocks, builders) EXCEPT ![d] =
                 [items |-> Held(blocks', e), frozen |-> e.frozen]]
  <2> DEFINE c == blocks'
             es == [builders EXCEPT ![d] = e]
  <2>1. c \in Seq(Storage) /\ DOMAIN c = DOMAIN blocks
    BY <1>9
  <2>2. \A j \in DOMAIN blocks \ {builders[d].store} : c[j] = blocks[j]
    BY <1>9
  <2>3. Sound(c, e)
    BY <1>11
  <2>4. e.store = builders[d].store
    BY <1>6
  <2>5. ~e.frozen /\ c[e.store].mark = NoMark
    BY <1>6, <1>10
  <2>6. ~builders[d].frozen /\ Good(blocks, headers, builders) /\ e \in Builder
    BY <1>1, <1>3, <1>6
  <2>7. builders' = es
    BY <1>4
  <2> HIDE DEF k, n, held, c
  <2>8. BuilderMoves(blocks, c, headers, builders, d, e)
    BY <2>1, <2>2, <2>3, <2>4, <2>5, <2>6 DEF BuilderMoves
  <2>9. /\ Good(c, headers, es)
        /\ VectorsOf(c, headers) = VectorsOf(blocks, headers)
        /\ DraftsOf(c, es)
             = [DraftsOf(blocks, builders) EXCEPT ![d] =
                  [items |-> Held(c, e), frozen |-> e.frozen]]
    BY <2>6, <2>8, BuilderWrites
  <2> QED
    BY <2>7, <2>9 DEF c
<1>15. /\ VecInvariant' /\ Vectors' = Vectors
       /\ Drafts' = [Drafts EXCEPT ![d] =
                       [items |-> Append(Contents(builders[d]), x), frozen |-> FALSE]]
  BY <1>3, <1>4, <1>6, <1>13, <1>14 DEF VecInvariant, Vectors, Drafts
<1> QED
  BY <1>3, <1>15, Extended

(* A full builder moves to storage of its own with room for more.             *)
LEMMA TransientPushOnCopy ==
  ASSUME VecInvariant, NEW d \in DOMAIN builders, NEW x \in Element, TransientPush(d, x),
         builders[d].length = Len(Slots(builders[d]))
  PROVE  VecInvariant' /\ Immutable!Next
<1> DEFINE n == builders[d].length
           held == Held(blocks, builders[d])
           longer == Append(held, x)
           new == [cells |-> Room(longer, GrownVec(n)), mark |-> NoMark]
           e == [store |-> Len(blocks) + 1, length |-> n + 1, frozen |-> FALSE]
<1>1. /\ Good(blocks, headers, builders) /\ Typing(blocks, headers, builders)
      /\ blocks \in Seq(Storage) /\ Len(blocks) \in Nat
  BY LenProperties DEF VecInvariant, Good, Typing
<1>2. /\ n \in Nat /\ held \in Seq(Slot) /\ Len(held) = n
      /\ Contents(builders[d]) = held /\ x \in Slot
  BY BuilderHolds DEF Slot
<1>3. /\ builders[d].frozen = FALSE
      /\ blocks' = Append(blocks, new)
      /\ builders' = [builders EXCEPT ![d] = e] /\ headers' = headers
  BY <1>2, BuilderHolds DEF TransientPush
<1> HIDE DEF held
<1>4. longer \in Seq(Slot) /\ Len(longer) = n + 1
  BY <1>2, AppendProperties
<1> HIDE DEF longer
<1>5. /\ Room(longer, GrownVec(n)) \in Seq(Slot)
      /\ Len(Room(longer, GrownVec(n))) = GrownVec(n)
      /\ SubSeq(Room(longer, GrownVec(n)), 1, n + 1) = longer
      /\ GrownVec(n) \in Nat /\ n + 1 <= GrownVec(n)
  <2>1. GrownVec(n) \in Nat /\ n + 1 <= GrownVec(n)
    BY <1>2, GrownHolds
  <2> QED
    BY <1>4, <2>1, RoomHolds
<1>6. new \in Storage /\ e \in Builder
  BY <1>1, <1>2, <1>5 DEF Storage, Builder
<1>7. /\ e.store = Len(blocks) + 1 /\ e.length = n + 1 /\ e.frozen = FALSE
      /\ new.cells = Room(longer, GrownVec(n)) /\ new.mark = NoMark
  OBVIOUS
<1> HIDE DEF new, e, n
<1>8. /\ Good(blocks', headers, builders)
      /\ VectorsOf(blocks', headers) = Vectors
      /\ DraftsOf(blocks', builders) = Drafts
  BY <1>1, <1>3, <1>6, StorageAppended DEF Vectors, Drafts
<1>9. e.store \in DOMAIN blocks' /\ blocks'[e.store] = new /\ blocks' \in Seq(Storage)
  <2>1. /\ blocks' \in Seq(Storage) /\ Len(blocks') = Len(blocks) + 1
        /\ blocks'[Len(blocks) + 1] = new
    BY <1>1, <1>3, <1>6, AppendProperties
  <2> QED
    BY <1>1, <1>7, <2>1, LenProperties
<1>10. Sound(blocks', e) /\ Held(blocks', e) = longer
  BY <1>5, <1>7, <1>9 DEF Sound, Held
<1>11. /\ \A g \in DOMAIN headers : headers[g].store # e.store
       /\ \A f \in DOMAIN builders : builders[f].store # e.store
  BY <1>1, <1>7, Elements
<1>12. /\ Good(blocks', headers, builders')
       /\ VectorsOf(blocks', headers) = Vectors
       /\ DraftsOf(blocks', builders')
            = [Drafts EXCEPT ![d] = [items |-> longer, frozen |-> FALSE]]
  <2> DEFINE c == blocks'
             es == [builders EXCEPT ![d] = e]
  <2>1. ~e.frozen /\ c[e.store].mark = NoMark /\ ~builders[d].frozen
    BY <1>3, <1>7, <1>9
  <2>2. c \in Seq(Storage) /\ Sound(c, e) /\ Good(c, headers, builders) /\ builders' = es
    BY <1>3, <1>8, <1>9, <1>10
  <2> HIDE DEF c
  <2>3. BuilderMoves(c, c, headers, builders, d, e)
    BY <1>6, <1>11, <2>1, <2>2 DEF BuilderMoves
  <2>5. Good(c, headers, builders)
    BY <2>2
  <2>4. /\ Good(c, headers, es)
        /\ DraftsOf(c, es)
             = [DraftsOf(c, builders) EXCEPT ![d] =
                  [items |-> Held(c, e), frozen |-> e.frozen]]
    BY <2>3, <2>5, BuilderWrites
  <2> QED
    BY <1>7, <1>8, <1>10, <2>2, <2>4 DEF c
<1>13. /\ VecInvariant' /\ Vectors' = Vectors
       /\ Drafts' = [Drafts EXCEPT ![d] =
                       [items |-> Append(Contents(builders[d]), x), frozen |-> FALSE]]
  BY <1>2, <1>3, <1>12 DEF VecInvariant, Vectors, Drafts, longer
<1> QED
  BY <1>3, <1>13, Extended

(* A frozen builder is the record one would write.                            *)
LEMMA BuilderFrozen ==
  ASSUME NEW S, NEW T, NEW U, NEW r \in [store : S, length : T, frozen : U], NEW g
  PROVE  [r EXCEPT !.frozen = g] = [store |-> r.store, length |-> r.length, frozen |-> g]
<1> DEFINE s == [r EXCEPT !.frozen = g]
           q == [store |-> r.store, length |-> r.length, frozen |-> g]
<1>1. /\ s \in [store : S, length : T, frozen : U \cup {g}]
      /\ s.store = r.store /\ s.length = r.length /\ s.frozen = g
  OBVIOUS
<1>2. /\ q \in [store : S, length : T, frozen : U \cup {g}]
      /\ q.store = r.store /\ q.length = r.length /\ q.frozen = g
  OBVIOUS
<1> HIDE DEF s, q
<1>3. s = q
  BY <1>1, <1>2
<1> QED
  BY <1>3 DEF s, q

(* Freezing makes a vector of the builder's storage, which nobody writes to   *)
(* below the watermark it gets.                                               *)
LEMMA TransientFreezeStep ==
  ASSUME VecInvariant, NEW d \in DOMAIN builders, TransientFreeze(d)
  PROVE  VecInvariant' /\ Immutable!Next
<1> DEFINE k == builders[d].store
           n == builders[d].length
           m == IF blocks[k].cells = <<>> THEN NoMark ELSE n
           new == [blocks[k] EXCEPT !.mark = m]
           e == [store |-> k, length |-> n, frozen |-> TRUE]
           h == [store |-> k, length |-> n]
           held == Held(blocks, builders[d])
<1>1. /\ Good(blocks, headers, builders) /\ Typing(blocks, headers, builders)
      /\ blocks \in Seq(Storage)
  BY DEF VecInvariant, Good, Typing
<1>2. /\ k \in DOMAIN blocks /\ DOMAIN blocks = 1..Len(blocks) /\ k \in Nat
      /\ n \in Nat /\ blocks[k].cells \in Seq(Slot) /\ Len(blocks[k].cells) \in Nat
      /\ blocks[k] \in Storage /\ n <= Len(blocks[k].cells)
      /\ Contents(builders[d]) = held /\ builders[d] \in Builder
      /\ builders[d].frozen \in BOOLEAN
  BY <1>1, Elements, BuilderHolds DEF Slots
<1>3. /\ ~builders[d].frozen
      /\ blocks' = [blocks EXCEPT ![k].mark = m]
      /\ builders' = [builders EXCEPT ![d].frozen = TRUE]
      /\ headers' = Append(headers, h)
  BY DEF TransientFreeze, Slots
<1>4. builders[d].frozen = FALSE
  BY <1>2, <1>3
<1>5. m \in Nat \cup {NoMark}
  BY <1>2
<1>6. blocks' = [blocks EXCEPT ![k] = new]
  BY <1>3
<1>7. new \in Storage /\ new.cells = blocks[k].cells /\ new.mark = m
  <2> HIDE DEF m
  <2> QED BY <1>2, <1>5 DEF Storage
<1>8. builders' = [builders EXCEPT ![d] = e]
  <2>1. builders[d] \in [store : Nat, length : Nat, frozen : BOOLEAN]
    BY <1>2 DEF Builder
  <2>2. \A g : [builders[d] EXCEPT !.frozen = g] = [store |-> k, length |-> n, frozen |-> g]
    BY <2>1, BuilderFrozen
  <2>3. [builders[d] EXCEPT !.frozen = TRUE] = e
    BY <2>2, Zenon
  <2> QED
    BY <1>3, <2>3
<1>9. /\ e \in Builder /\ e.store = k /\ e.length = n /\ e.frozen = TRUE
      /\ h \in Header /\ h.store = k /\ h.length = n
  BY <1>2 DEF Builder, Header
<1> HIDE DEF new, e, h
<1>10. /\ blocks' \in Seq(Storage) /\ DOMAIN blocks' = DOMAIN blocks /\ blocks'[k] = new
       /\ \A j \in DOMAIN blocks \ {k} : blocks'[j] = blocks[j]
  <2>1. /\ blocks' \in Seq(Storage) /\ Len(blocks') = Len(blocks)
        /\ \A j \in 1..Len(blocks) : blocks'[j] = IF j = k THEN new ELSE blocks[j]
    BY <1>1, <1>2, <1>6, <1>7, ExceptSeq
  <2> QED
    BY <1>2, <2>1, LenProperties
<1>11. blocks'[k].cells = blocks[k].cells /\ blocks'[k].mark = m
  BY <1>7, <1>10
<1>12. blocks[k].cells # <<>> => m \in n .. Len(blocks[k].cells)
  BY <1>2
<1>13. /\ Sound(blocks', e) /\ Sound(blocks', h)
       /\ Covers(blocks', e) /\ Covers(blocks', h)
  BY <1>2, <1>9, <1>10, <1>11, <1>12 DEF Sound, Covers
<1>14. Held(blocks', e) = held /\ Held(blocks', h) = held
  BY <1>9, <1>11 DEF Held
<1> DEFINE c == blocks'
           es == [builders EXCEPT ![d] = e]
<1>15. /\ Good(c, headers, es)
       /\ VectorsOf(c, headers) = VectorsOf(blocks, headers)
       /\ DraftsOf(c, es)
            = [DraftsOf(blocks, builders) EXCEPT ![d] =
                 [items |-> Held(c, e), frozen |-> e.frozen]]
  <2>1. c \in Seq(Storage) /\ DOMAIN c = DOMAIN blocks
    BY <1>10
  <2>2. \A j \in DOMAIN blocks \ {builders[d].store} : c[j] = blocks[j]
    BY <1>10
  <2>3. Sound(c, e) /\ Covers(c, e) /\ e.store = builders[d].store /\ e.frozen
    BY <1>9, <1>13
  <2> HIDE DEF c
  <2>4. BuilderMoves(blocks, c, headers, builders, d, e)
    BY <1>3, <1>9, <2>1, <2>2, <2>3 DEF BuilderMoves
  <2>5. Good(blocks, headers, builders)
    BY <1>1
  <2> HIDE DEF k, n, m, held
  <2> QED
    BY <2>4, <2>5, BuilderWrites
<1>16. \A f \in DOMAIN es : ~es[f].frozen => es[f].store # h.store
  <2>1. Alone(blocks, headers, builders, d)
    BY <1>3, BuilderHolds
  <2>2. ASSUME NEW f \in DOMAIN builders \ {d} PROVE es[f].store # h.store
    BY <1>9, <2>1, <2>2 DEF Alone
  <2>3. es[d].frozen
    BY <1>9
  <2> QED
    BY <2>2, <2>3
<1> HIDE DEF es, c
<1>17. /\ Good(c, Append(headers, h), es)
       /\ VectorsOf(c, Append(headers, h)) = Append(VectorsOf(c, headers), Held(c, h))
  BY <1>9, <1>13, <1>15, <1>16, HeaderAppended DEF c
<1>18. /\ VecInvariant' /\ Vectors' = Append(Vectors, Contents(builders[d]))
       /\ Drafts' = [Drafts EXCEPT ![d] =
                       [items |-> Contents(builders[d]), frozen |-> TRUE]]
  BY <1>2, <1>3, <1>8, <1>9, <1>14, <1>15, <1>17
     DEF VecInvariant, Vectors, Drafts, c, es
<1> QED
  BY <1>4, <1>18, Frozen

-----------------------------------------------------------------------------
(* Every operation keeps the invariant and is the operation it stands for.    *)
LEMMA VecStep ==
  ASSUME VecInvariant, VecNext
  PROVE  VecInvariant' /\ Immutable!Next
<1>1. CASE \E h \in DOMAIN headers : FromVector(headers[h])
  <2>1. PICK h \in DOMAIN headers : FromVector(headers[h])
    BY <1>1
  <2>2. CASE \E x \in Element : PushInPlace(headers[h], x)
    BY <2>2, PushInPlaceStep
  <2>3. CASE \E x \in Element : PushOnCopy(headers[h], x)
    BY <2>3, PushOnCopyStep
  <2>4. CASE \E x \in Element, i \in 1..headers[h].length : AssocVec(headers[h], i, x)
    BY <2>4, AssocStep
  <2>5. CASE \E g \in DOMAIN headers : Concat(headers[h], headers[g])
    BY <2>5, ConcatStep
  <2>6. CASE \E from, to \in 0..headers[h].length : Slice(headers[h], from, to)
    BY <2>6, SliceStep
  <2>7. CASE Reverse(headers[h])
    BY <2>7, ReverseStep
  <2> QED
    BY <2>1, <2>2, <2>3, <2>4, <2>5, <2>6, <2>7 DEF FromVector
<1>2. CASE \E d \in DOMAIN builders : TransientFreeze(d)
  BY <1>2, TransientFreezeStep
<1>3. CASE \E h \in DOMAIN headers : TransientNew(headers[h])
  BY <1>3, TransientNewStep
<1>4. CASE \E d \in DOMAIN builders, x \in Element : TransientPush(d, x)
  BY <1>4, TransientPushInPlace, TransientPushOnCopy
<1> QED
  BY <1>1, <1>2, <1>3, <1>4 DEF VecNext

(* Nothing changes when the state does not.                                   *)
LEMMA VecStutter ==
  ASSUME UNCHANGED vecVars
  PROVE  /\ VecInvariant <=> VecInvariant'
         /\ [h \in DOMAIN headers |-> Contents(headers[h])]'
              = [h \in DOMAIN headers |-> Contents(headers[h])]
         /\ [b \in DOMAIN builders |->
               [items |-> Contents(builders[b]), frozen |-> builders[b].frozen]]'
              = [b \in DOMAIN builders |->
                  [items |-> Contents(builders[b]), frozen |-> builders[b].frozen]]
<1>1. blocks' = blocks /\ headers' = headers /\ builders' = builders
  BY DEF vecVars
<1> QED
  BY <1>1 DEF VecInvariant, Contents, Slots

(* The storage discipline of native_vec_push, native_vec_set_length and the   *)
(* transient vectors: every header and builder stays within storage that      *)
(* exists, a watermark is past every vector of its storage, and a builder at  *)
(* work has its storage to itself.                                            *)
THEOREM VecSafe == VecSpec => [](VecTypeOK /\ MarksCover)
<1>1. VecInit => VecInvariant
  BY InitGood
<1>2. VecInvariant /\ [VecNext]_vecVars => VecInvariant'
  BY VecStep, VecStutter
<1>3. VecInvariant => VecTypeOK /\ MarksCover
  BY InvariantImplies
<1> QED
  BY <1>1, <1>2, <1>3, PTL DEF VecSpec

(* The vectors of the runtime are immutable values: whatever storage they     *)
(* share, every operation makes the vector it should and changes no other, a  *)
(* push in place and the freezing of a builder included.                      *)
THEOREM VectorsAreImmutable == VecSpec => ImplementsImmutable
<1>1. VecInit => VecInvariant /\ Immutable!Init
  BY InitGood
<1>2. VecInvariant /\ [VecNext]_vecVars => VecInvariant'
  BY VecStep, VecStutter
<1>3. VecInvariant /\ [VecNext]_vecVars =>
        [Immutable!Next]_<<[h \in DOMAIN headers |-> Contents(headers[h])],
                           [b \in DOMAIN builders |->
                             [items |-> Contents(builders[b]),
                              frozen |-> builders[b].frozen]]>>
  <2> SUFFICES ASSUME VecInvariant, [VecNext]_vecVars
               PROVE  [Immutable!Next]_<<[h \in DOMAIN headers |-> Contents(headers[h])],
                           [b \in DOMAIN builders |->
                             [items |-> Contents(builders[b]),
                              frozen |-> builders[b].frozen]]>>
    OBVIOUS
  <2>1. CASE VecNext
    BY <2>1, VecStep
  <2>2. CASE UNCHANGED vecVars
    BY <2>2, VecStutter
  <2> QED
    BY <2>1, <2>2
<1> QED
  BY <1>1, <1>2, <1>3, PTL DEF VecSpec, ImplementsImmutable, Immutable!Spec

-----------------------------------------------------------------------------
(* Atoms.                                                                     *)
Places == {"idle", "spinning", "reading", "holding", "writing", "releasing", "returned"}
Locking == {"reading", "holding", "writing", "releasing"}

Threads ==
  [op : Operations \cup {"none"}, at : Places,
   local : [Word -> Int], copied : 0..Words, saw : Int]

TypeOK ==
  /\ locked \in BOOLEAN
  /\ memory \in [Word -> Int]
  /\ register \in Int
  /\ thread \in [Thread -> Threads]

(* Between the exchange that takes the lock and its release one thread has it.*)
OneHolder ==
  /\ \A t \in Thread : thread[t].at \in Locking => locked
  /\ \A t, u \in Thread :
       thread[t].at \in Locking /\ thread[u].at \in Locking => t = u

(* What the register holds after an operation.                                *)
After(op) ==
  IF op = "reset" THEN ResetTo
  ELSE IF op = "swap" \/ (op = "exchange" /\ register = Expected) THEN Updated(register)
  ELSE register

(* How far the holder of the lock has come: the memory is the register's until *)
(* it writes, the words it has written are the new ones, and then all are.    *)
Progress(r) ==
  /\ r.at = "spinning" => r.copied = 0 /\ r.op \in Operations
  /\ r.at \in Locking => r.saw = register /\ r.op \in Operations
  /\ r.at = "reading" =>
       /\ r.copied < Words /\ memory = Whole(register)
       /\ \A w \in 1..r.copied : r.local[w] = register
  /\ r.at = "holding" => memory = Whole(register) /\ r.local = Whole(register)
  /\ r.at = "writing" =>
       /\ r.copied < Words /\ r.local = Whole(After(r.op)) /\ r.op # "deref"
       /\ \A w \in 1..r.copied : memory[w] = After(r.op)
  /\ r.at = "releasing" =>
       /\ memory = Whole(After(r.op))
       /\ r.op = "deref" => r.local = Whole(r.saw)
HolderWorks == \A t \in Thread : Progress(thread[t])

AtomsInv == TypeOK /\ OneHolder /\ HolderWorks /\ AtomIsRegister

-----------------------------------------------------------------------------
(* A new atom is free and holds its value.                                    *)
LEMMA AtomsInvInit == AtomsInit => AtomsInv
<1> SUFFICES ASSUME AtomsInit PROVE AtomsInv
  OBVIOUS
<1> USE DEF AtomsInit
<1>1. \A t \in Thread : thread[t] = Idle
  OBVIOUS
<1>2. Whole(0) \in [Word -> Int]
  BY DEF Whole
<1>3. TypeOK
  <2>1. 0 \in 0..Words
    BY AtomsAssumption
  <2>2. Idle \in Threads
    BY <1>2, <2>1 DEF Threads, Idle, Places
  <2>3. memory \in [Word -> Int] /\ register \in Int
    BY <1>2
  <2>4. locked \in BOOLEAN
    OBVIOUS
  <2> QED BY <2>2, <2>3, <2>4 DEF TypeOK, Threads
<1>4. OneHolder /\ HolderWorks /\ AtomIsRegister
  BY <1>1 DEF OneHolder, HolderWorks, Progress, AtomIsRegister, Idle, Locking
<1> QED BY <1>3, <1>4 DEF AtomsInv

(* A thread that does not hold the lock takes a step that leaves the atom      *)
(* alone, and does not take the lock either.                                  *)
LEMMA OutsideSafe ==
  ASSUME AtomsInv, NEW t \in Thread, NEW r,
         r \in [op : Operations \cup {"none"}, at : Places \ Locking,
                local : [Word -> Int], copied : 0..Words, saw : Int],
         r.op = "deref" /\ r.at = "returned" => r.local = Whole(r.saw),
         r.at = "spinning" => r.copied = 0 /\ r.op \in Operations,
         thread' = [thread EXCEPT ![t] = r],
         UNCHANGED <<locked, memory, register>>
  PROVE  AtomsInv'
<1> USE DEF AtomsInv
<1>1. \A u \in Thread : thread'[u] = IF u = t THEN r ELSE thread[u]
  BY DEF TypeOK, Threads
<1>2. TypeOK'
  <2>1. r \in Threads
    BY DEF Threads
  <2> QED BY <2>1 DEF TypeOK, Threads
<1>3. r.at \notin Locking
  OBVIOUS
<1>4. OneHolder'
  BY <1>1, <1>3 DEF OneHolder
<1>5. ASSUME NEW u \in Thread PROVE Progress(thread[u])'
  <2>1. CASE u = t
    BY <1>1, <1>3, <2>1 DEF Progress, Locking
  <2>2. CASE u # t
    BY <1>1, <2>2 DEF HolderWorks, Progress, After
  <2> QED BY <2>1, <2>2
<1>6. AtomIsRegister'
  <2>1. ~locked' => memory' = Whole(register)'
    BY DEF AtomIsRegister, Whole
  <2>2. ASSUME NEW u \in Thread, thread'[u].op = "deref", thread'[u].at = "returned"
        PROVE  thread'[u].local = Whole(thread'[u].saw)
    BY <1>1, <2>2 DEF AtomIsRegister
  <2>3. \A u \in Thread : Whole(thread'[u].saw) = Whole(thread[u].saw)'
    BY DEF Whole
  <2> QED BY <2>1, <2>2, <2>3 DEF AtomIsRegister
<1> QED BY <1>2, <1>4, <1>5, <1>6 DEF HolderWorks

(* The holder takes a step and keeps the lock: what it says of itself next     *)
(* suffices, since nobody else holds it.                                      *)
LEMMA InsideSafe ==
  ASSUME AtomsInv, NEW t \in Thread, thread[t].at \in Locking, TypeOK',
         NEW r, r.at \in Locking, thread' = [thread EXCEPT ![t] = r],
         UNCHANGED <<locked, register>>, Progress(thread[t])'
  PROVE  AtomsInv'
<1> USE DEF AtomsInv
<1>1. \A u \in Thread : thread'[u] = IF u = t THEN r ELSE thread[u]
  BY DEF TypeOK, Threads
<1>2. locked /\ \A u \in Thread \ {t} : thread[u].at \notin Locking
  BY DEF OneHolder
<1>3. OneHolder'
  BY <1>1, <1>2 DEF OneHolder
<1>4. ASSUME NEW u \in Thread, u # t PROVE Progress(thread[u])'
  BY <1>1, <1>2, <1>4 DEF HolderWorks, Progress, Locking
<1>5. HolderWorks'
  BY <1>4 DEF HolderWorks
<1>6. AtomIsRegister'
  BY <1>1, <1>2 DEF AtomIsRegister, Locking
<1> QED BY <1>3, <1>5, <1>6
-----------------------------------------------------------------------------
(* The steps of a thread.                                                     *)

Outside ==
  [op : Operations \cup {"none"}, at : Places \ Locking,
   local : [Word -> Int], copied : 0..Words, saw : Int]
LEMMA IdleOutside == Idle \in Outside /\ Idle.at = "idle" /\ Idle.copied = 0
<1>1. 0 \in 0..Words /\ Whole(0) \in [Word -> Int]
  BY AtomsAssumption DEF Whole
<1> QED BY <1>1 DEF Idle, Outside, Places, Locking

LEMMA CallSafe ==
  ASSUME AtomsInv, NEW t \in Thread, NEW op \in Operations, Call(t, op)
  PROVE  AtomsInv'
<1> DEFINE r == [Idle EXCEPT !.op = op, !.at = "spinning"]
<1>1. r \in Outside /\ r.at = "spinning" /\ r.copied = 0 /\ r.op = op
  BY IdleOutside DEF Outside, Places, Locking
<1>2. thread' = [thread EXCEPT ![t] = r]
  BY DEF Call
<1> HIDE DEF r
<1> QED BY <1>1, <1>2, OutsideSafe DEF Call, Outside

LEMMA ReturnSafe ==
  ASSUME AtomsInv, NEW t \in Thread, Return(t)
  PROVE  AtomsInv'
BY IdleOutside, OutsideSafe DEF Return, Outside

(* The lock is taken where it was free, so the memory is the register's.       *)
LEMMA AcquireSafe ==
  ASSUME AtomsInv, NEW t \in Thread, Acquire(t)
  PROVE  AtomsInv'
<1> USE DEF AtomsInv
<1> DEFINE r == [thread[t] EXCEPT !.at = "reading", !.saw = register]
<1>1. \A u \in Thread : thread'[u] = IF u = t THEN r ELSE thread[u]
  BY DEF TypeOK, Threads, Acquire
<1>2. TypeOK'
  <2>1. \A q \in Threads, x \in Int : [q EXCEPT !.at = "reading", !.saw = x] \in Threads
    BY DEF Threads, Places
  <2>2. thread[t] \in Threads /\ register \in Int
    BY DEF TypeOK, Threads
  <2>3. r \in Threads
    BY <2>1, <2>2
  <2>4. thread' \in [Thread -> Threads]
    BY <2>3 DEF TypeOK, Threads, Acquire
  <2> QED BY <2>4 DEF TypeOK, Threads, Acquire
<1>3. \A u \in Thread : thread[u].at \notin Locking
  BY DEF OneHolder, Acquire
<1>4. OneHolder'
  BY <1>1, <1>3 DEF OneHolder, Acquire
<1>5. memory = Whole(register)
  BY DEF Acquire, AtomIsRegister
<1>6. AtomIsRegister'
  BY <1>1 DEF AtomIsRegister, Acquire, TypeOK, Threads
<1>7. Progress(thread[t])'
  <2>1. thread[t].copied = 0 /\ thread[t].at = "spinning" /\ thread[t].op \in Operations
    BY DEF HolderWorks, Progress, Acquire
  <2>2. r.at = "reading" /\ r.saw = register /\ r.copied = 0 /\ r.op \in Operations
    BY <2>1 DEF TypeOK, Threads
  <2>3. thread'[t] = r /\ register' = register /\ memory' = memory
    BY <1>1 DEF Acquire
  <2>4. Whole(register') = Whole(register)
    BY <2>3
  <2> HIDE DEF r
  <2> QED BY <1>5, <2>2, <2>3, <2>4, AtomsAssumption DEF Progress, Locking, Whole
<1>8. ASSUME NEW u \in Thread, u # t PROVE Progress(thread[u])'
  BY <1>1, <1>3, <1>8 DEF HolderWorks, Progress, Locking
<1> QED BY <1>2, <1>4, <1>6, <1>7, <1>8 DEF HolderWorks

LEMMA ReadSafe ==
  ASSUME AtomsInv, NEW t \in Thread, Read(t)
  PROVE  AtomsInv'
<1> DEFINE w == thread[t].copied + 1
           at == IF w = Words THEN "holding" ELSE "reading"
           local == [thread[t].local EXCEPT ![w] = memory[w]]
           r == [thread[t] EXCEPT !.at = at, !.local = local, !.copied = w]
<1>1. /\ thread[t].at = "reading" /\ thread[t].at \in Locking
      /\ memory = Whole(register) /\ thread[t].saw = register
      /\ thread[t].op \in Operations
      /\ \A v \in 1..thread[t].copied : thread[t].local[v] = register
  BY DEF Read, AtomsInv, HolderWorks, Progress, Locking
<1>2. w \in Word /\ w \in 0..Words /\ thread[t].copied < Words /\ thread[t].copied \in Nat
  BY AtomsAssumption DEF Read, AtomsInv, TypeOK, Threads, HolderWorks, Progress, Word
<1>3. thread[t].local \in [Word -> Int] /\ memory \in [Word -> Int] /\ register \in Int
  BY DEF AtomsInv, TypeOK, Threads
<1>4. local \in [Word -> Int] /\ at \in Locking
  BY <1>2, <1>3 DEF Locking
<1>5. Move(t, at, local, w) /\ UNCHANGED <<locked, memory, register>>
  BY DEF Read
<1>6. local[w] = register /\ \A v \in Word \ {w} : local[v] = thread[t].local[v]
  BY <1>1, <1>2, <1>3 DEF Whole
<1>7. \A v \in 1..w : local[v] = register
  BY <1>1, <1>2, <1>6 DEF Word
<1>8. at = "holding" => local = Whole(register)
  BY <1>2, <1>4, <1>7, AtomsAssumption DEF Whole, Word
<1>9. at = "reading" => w < Words
  BY <1>2, AtomsAssumption
<1>10. at \in {"holding", "reading"}
  OBVIOUS
<1> HIDE DEF at, local, w
<1>11. /\ thread' = [thread EXCEPT ![t] = r]
       /\ thread' \in [Thread -> Threads]
       /\ thread'[t].at = at /\ thread'[t].local = local /\ thread'[t].copied = w
       /\ thread'[t].saw = thread[t].saw /\ thread'[t].op = thread[t].op
  BY <1>1, <1>2, <1>4, <1>5 DEF Move, AtomsInv, TypeOK, Threads, Places, Locking
<1>12. TypeOK'
  BY <1>5, <1>11 DEF AtomsInv, TypeOK, Threads
<1>13. r.at \in Locking
  BY <1>4, <1>11 DEF AtomsInv, TypeOK, Threads
<1>14. Whole(register)' = Whole(register)
  BY <1>5 DEF Whole
<1>15. Progress(thread[t])'
  BY <1>1, <1>5, <1>7, <1>8, <1>9, <1>10, <1>11, <1>14 DEF Progress, Locking
<1> QED BY <1>1, <1>5, <1>11, <1>12, <1>13, <1>15, InsideSafe

(* What an operation is to store is what it makes of the register.             *)
LEMMA DecideSafe ==
  ASSUME AtomsInv, NEW t \in Thread, Decide(t)
  PROVE  AtomsInv'
<1> DEFINE op == thread[t].op
           held == thread[t].local
           new == IF op = "reset" THEN Whole(ResetTo) ELSE [w \in Word |-> Updated(held[w])]
           keeps == op = "deref" \/ (op = "exchange" /\ held # Whole(Expected))
           at == IF keeps THEN "releasing" ELSE "writing"
           local == IF keeps THEN held ELSE new
           r == [thread[t] EXCEPT !.at = at, !.local = local, !.copied = 0]
<1>1. /\ thread[t].at = "holding" /\ thread[t].at \in Locking
      /\ memory = Whole(register) /\ held = Whole(register)
      /\ thread[t].saw = register /\ op \in Operations
  BY DEF Decide, AtomsInv, HolderWorks, Progress, Locking
<1>2. register \in Int
  BY DEF AtomsInv, TypeOK, Threads
<1>3. Whole(register) = Whole(Expected) => register = Expected
  <2>1. 1 \in Word
    BY AtomsAssumption DEF Word
  <2>2. \A n : Whole(n)[1] = n
    BY <2>1 DEF Whole
  <2> QED BY <2>2
<1>4. keeps => After(op) = register
  BY <1>1, <1>3 DEF After
<1>5. ~keeps => op # "deref" /\ new = Whole(After(op))
  BY <1>1, <1>3 DEF After, Whole, Operations
<1>6. local \in [Word -> Int] /\ at \in Locking
  BY <1>1, <1>2 DEF Whole, Updated, ResetTo, Locking
<1>7. Move(t, at, local, 0) /\ UNCHANGED <<locked, memory, register>>
  BY DEF Decide
<1>8. /\ keeps => at = "releasing" /\ local = held
      /\ ~keeps => at = "writing" /\ local = new
  OBVIOUS
<1> HIDE DEF at, local, new, keeps, held
<1>9. /\ thread' = [thread EXCEPT ![t] = r]
      /\ thread' \in [Thread -> Threads]
      /\ thread'[t].at = at /\ thread'[t].local = local /\ thread'[t].copied = 0
      /\ thread'[t].saw = thread[t].saw /\ thread'[t].op = op
  <2>1. 0 \in 0..Words /\ at \in Places
    BY <1>6, AtomsAssumption DEF Places, Locking
  <2>2. thread' = [thread EXCEPT ![t].at = at, ![t].local = local, ![t].copied = 0]
    BY <1>7 DEF Move
  <2>3. thread \in [Thread -> Threads]
    BY DEF AtomsInv, TypeOK, Threads
  <2> QED BY <1>6, <2>1, <2>2, <2>3 DEF Threads
<1>10. TypeOK'
  BY <1>7, <1>9 DEF AtomsInv, TypeOK, Threads
<1>11. r.at \in Locking
  BY <1>6, <1>9 DEF AtomsInv, TypeOK, Threads
<1>12. /\ Whole(register)' = Whole(register) /\ After(op)' = After(op)'
       /\ \A o : After(o)' = After(o)
       /\ \A n : Whole(n)' = Whole(n)
  BY <1>7 DEF Whole, After
<1>13. Progress(thread[t])'
  <2>1. CASE keeps
    BY <1>1, <1>4, <1>7, <1>8, <1>9, <1>12, <2>1 DEF Progress, Locking
  <2>2. CASE ~keeps
    BY <1>1, <1>5, <1>7, <1>8, <1>9, <1>12, <2>2, AtomsAssumption DEF Progress, Locking
  <2> QED BY <2>1, <2>2
<1> QED BY <1>1, <1>7, <1>9, <1>10, <1>11, <1>13, InsideSafe

(* A word is copied in; the last one completes the new value.                  *)
LEMMA WriteSafe ==
  ASSUME AtomsInv, NEW t \in Thread, Write(t)
  PROVE  AtomsInv'
<1> DEFINE w == thread[t].copied + 1
           op == thread[t].op
           local == thread[t].local
           at == IF w = Words THEN "releasing" ELSE "writing"
           r == [thread[t] EXCEPT !.at = at, !.local = local, !.copied = w]
<1>1. /\ thread[t].at = "writing" /\ thread[t].at \in Locking
      /\ local = Whole(After(op)) /\ thread[t].saw = register
      /\ op \in Operations /\ op # "deref"
      /\ \A v \in 1..thread[t].copied : memory[v] = After(op)
  BY DEF Write, AtomsInv, HolderWorks, Progress, Locking
<1>2. w \in Word /\ w \in 0..Words /\ thread[t].copied < Words /\ thread[t].copied \in Nat
  BY AtomsAssumption DEF Write, AtomsInv, TypeOK, Threads, HolderWorks, Progress, Word
<1>3. local \in [Word -> Int] /\ memory \in [Word -> Int]
  BY DEF AtomsInv, TypeOK, Threads
<1>4. memory' = [memory EXCEPT ![w] = local[w]] /\ memory' \in [Word -> Int]
  BY <1>2, <1>3 DEF Write
<1>5. local[w] = After(op)
  BY <1>1, <1>2 DEF Whole
<1>6. \A v \in 1..w : memory'[v] = After(op)
  BY <1>1, <1>2, <1>3, <1>4, <1>5 DEF Word
<1>7. w = Words => memory' = Whole(After(op))
  BY <1>4, <1>6 DEF Whole, Word
<1>8. at \in Locking /\ (w # Words => w < Words)
  BY <1>2, AtomsAssumption DEF Locking
<1>9. Move(t, at, local, w) /\ UNCHANGED <<locked, register>>
  BY DEF Write
<1>10. (w = Words => at = "releasing") /\ (w # Words => at = "writing")
  OBVIOUS
<1> HIDE DEF at, local, w
<1>11. /\ thread' = [thread EXCEPT ![t] = r]
       /\ thread' \in [Thread -> Threads]
       /\ thread'[t].at = at /\ thread'[t].local = local /\ thread'[t].copied = w
       /\ thread'[t].saw = thread[t].saw /\ thread'[t].op = op
  <2>1. at \in Places
    BY <1>8 DEF Places, Locking
  <2>2. thread' = [thread EXCEPT ![t].at = at, ![t].local = local, ![t].copied = w]
    BY <1>9 DEF Move
  <2>3. thread \in [Thread -> Threads]
    BY DEF AtomsInv, TypeOK, Threads
  <2> QED BY <1>2, <1>3, <2>1, <2>2, <2>3 DEF Threads
<1>12. TypeOK'
  BY <1>4, <1>9, <1>11 DEF AtomsInv, TypeOK, Threads
<1>13. r.at \in Locking
  BY <1>8, <1>11 DEF AtomsInv, TypeOK, Threads
<1>14. (\A o : After(o)' = After(o)) /\ (\A n : Whole(n)' = Whole(n))
  BY <1>9 DEF Whole, After
<1>15. Progress(thread[t])'
  <2>1. CASE w = Words
    BY <1>1, <1>7, <1>9, <1>10, <1>11, <1>14, <2>1 DEF Progress, Locking
  <2>2. CASE w # Words
    BY <1>1, <1>6, <1>8, <1>9, <1>10, <1>11, <1>14, <2>2 DEF Progress, Locking
  <2> QED BY <2>1, <2>2
<1> QED BY <1>1, <1>9, <1>11, <1>12, <1>13, <1>15, InsideSafe

(* The register takes the value the memory has by now.                        *)
LEMMA ReleaseSafe ==
  ASSUME AtomsInv, NEW t \in Thread, Release(t)
  PROVE  AtomsInv'
<1> USE DEF AtomsInv
<1> DEFINE r == [thread[t] EXCEPT !.at = "returned"]
<1>1. /\ thread[t].at = "releasing" /\ thread[t].at \in Locking
      /\ thread[t].op \in Operations /\ thread[t].saw = register
      /\ memory = Whole(After(thread[t].op))
      /\ thread[t].op = "deref" => thread[t].local = Whole(thread[t].saw)
  BY DEF Release, HolderWorks, Progress, Locking
<1>2. register' = After(thread[t].op)
  BY <1>1 DEF Release, After, Operations
<1>3. /\ \A u \in Thread : thread'[u] = IF u = t THEN r ELSE thread[u]
      /\ thread' = [thread EXCEPT ![t].at = "returned"]
  BY DEF Release, TypeOK, Threads
<1>4. r.at = "returned" /\ r.op = thread[t].op /\ r.local = thread[t].local /\ r.saw = thread[t].saw
  BY DEF TypeOK, Threads
<1>5. \A u \in Thread \ {t} : thread[u].at \notin Locking
  BY <1>1 DEF OneHolder
<1>6. \A u \in Thread : thread'[u].at \notin Locking
  BY <1>3, <1>4, <1>5 DEF Locking
<1>7. register' \in Int
  BY <1>2 DEF TypeOK, Threads, After, ResetTo, Updated
<1>8. TypeOK'
  <2>1. \A q \in Threads : [q EXCEPT !.at = "returned"] \in Threads
    BY DEF Threads, Places
  <2>2. thread[t] \in Threads
    BY DEF TypeOK, Threads
  <2>3. r \in Threads
    BY <2>1, <2>2
  <2>4. thread' \in [Thread -> Threads]
    BY <1>3, <2>3 DEF TypeOK, Threads
  <2>5. locked' \in BOOLEAN /\ memory' = memory
    BY DEF Release
  <2> QED BY <1>7, <2>4, <2>5 DEF TypeOK, Threads
<1>9. OneHolder'
  BY <1>6 DEF OneHolder
<1>10. \A u \in Thread : thread'[u].at = "spinning" => u # t
  BY <1>3, <1>4
<1>11. ASSUME NEW u \in Thread PROVE Progress(thread[u])'
  BY <1>3, <1>6, <1>10 DEF HolderWorks, Progress, Locking
<1>12. \A n : Whole(n)' = Whole(n)
  BY DEF Whole
<1>13. memory' = Whole(register)'
  BY <1>1, <1>2, <1>12 DEF Release
<1>14. ASSUME NEW u \in Thread, thread'[u].op = "deref", thread'[u].at = "returned"
       PROVE  thread'[u].local = Whole(thread'[u].saw)
  BY <1>1, <1>3, <1>4, <1>14 DEF AtomIsRegister
<1>15. AtomIsRegister'
  BY <1>12, <1>13, <1>14 DEF AtomIsRegister
<1> QED BY <1>8, <1>9, <1>11, <1>15 DEF HolderWorks

-----------------------------------------------------------------------------
LEMMA AtomsInvStep == AtomsInv /\ [AtomsNext]_atomsVars => AtomsInv'
<1> SUFFICES ASSUME AtomsInv, [AtomsNext]_atomsVars PROVE AtomsInv'
  OBVIOUS
<1>1. CASE UNCHANGED atomsVars
  BY <1>1 DEF atomsVars, AtomsInv, TypeOK, Threads, OneHolder, HolderWorks, Progress, After,
              AtomIsRegister, Whole
<1>2. ASSUME NEW t \in Thread, NEW op \in Operations, Call(t, op) PROVE AtomsInv'
  BY <1>2, CallSafe
<1>3. ASSUME NEW t \in Thread, Step(t) PROVE AtomsInv'
  BY <1>3, AcquireSafe, ReadSafe, DecideSafe, WriteSafe, ReleaseSafe, ReturnSafe DEF Step
<1> QED BY <1>1, <1>2, <1>3 DEF AtomsNext

(* An atom is one atomic register: no update is lost and no value torn,        *)
(* whatever the number of threads and of words.                               *)
THEOREM AtomsAreRegisters == AtomsSpec => []AtomIsRegister
<1>1. AtomsInv => AtomIsRegister
  BY DEF AtomsInv
<1> QED BY AtomsInvInit, AtomsInvStep, <1>1, PTL DEF AtomsSpec
=============================================================================
