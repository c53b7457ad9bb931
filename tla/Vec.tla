--------------------------------- MODULE Vec ---------------------------------
(* The vectors of native-core/shim/native_shim.c.  A vector is a header over *)
(* storage that other headers may use as well; a push writes in place when   *)
(* the slot after the vector's last element is still free, and copies        *)
(* otherwise.  The watermark of a storage says where its free slots begin.   *)
(* A trap ends the program, so a guard is what an operation does not trap on.*)
EXTENDS Integers, Sequences

CONSTANTS
  Element,        \* what the vectors hold
  Unset,        \* what a slot holds before it is written
  MinCapacity,  \* NATIVE_VEC_MIN_CAPACITY
  MaxVectors,   \* bound: vectors made
  MaxDrafts,    \* bound: transient vectors made
  MaxElements     \* bound: elements of a vector

ASSUME VecAssumption ==
  /\ MinCapacity \in Nat \ {0} /\ Unset \notin Element
  /\ MaxVectors \in Nat /\ MaxDrafts \in Nat /\ MaxElements \in Nat

VARIABLES
  blocks,   \* storage: its slots, and its watermark where it has one
  headers,  \* native_vec: the storage and the length
  builders  \* native_transient_vec: storage, length, frozen

vecVars == <<blocks, headers, builders>>

NoMark == -1
Slot == Element \cup {Unset}

Slots(h) == blocks[h.store].cells
Contents(h) == SubSeq(Slots(h), 1, h.length)

(* Storage of a capacity that holds s, and what a full one grows to.        *)
Room(s, capacity) ==
  [i \in 1..capacity |-> IF i <= Len(s) THEN s[i] ELSE Unset]
GrownVec(length) ==
  IF 2 * length < MinCapacity THEN MinCapacity ELSE 2 * length

(* native_vec_new with room for capacity, filled with s, and                *)
(* native_vec_set_length: a storage of no bytes has no watermark.           *)
NewVec(s, capacity) ==
  /\ blocks' = Append(blocks, [cells |-> Room(s, capacity),
                               mark |-> IF capacity = 0 THEN NoMark ELSE Len(s)])
  /\ headers' = Append(headers, [store |-> Len(blocks) + 1, length |-> Len(s)])
  /\ UNCHANGED builders

VecInit ==
  /\ blocks = <<[cells |-> <<>>, mark |-> NoMark]>>
  /\ headers = <<[store |-> 1, length |-> 0]>>
  /\ builders = <<>>

-----------------------------------------------------------------------------
AssocVec(h, i, x) ==
  /\ i \in 1..h.length
  /\ NewVec([Contents(h) EXCEPT ![i] = x], h.length)

(* native_vec_push: in place when the storage has a free slot and nobody    *)
(* has taken it, on a copy otherwise.                                      *)
(* Faulty: any free slot will do.                                          *)
HasRoom(h) == h.length < Len(Slots(h))
Extensible(h) == blocks[h.store].mark = h.length /\ h.length < Len(Slots(h))

PushInPlace(h, x) ==
  /\ Extensible(h)
  /\ blocks' = [blocks EXCEPT ![h.store] =
                  [cells |-> [@.cells EXCEPT ![h.length + 1] = x],
                   mark |-> h.length + 1]]
  /\ headers' = Append(headers, [store |-> h.store, length |-> h.length + 1])
  /\ UNCHANGED builders

PushOnCopy(h, x) ==
  /\ ~Extensible(h)
  /\ NewVec(Append(Contents(h), x), GrownVec(h.length))

Concat(h, g) == NewVec(Contents(h) \o Contents(g), h.length + g.length)

Slice(h, from, to) ==
  /\ from <= to /\ to <= h.length
  /\ NewVec(SubSeq(Slots(h), from + 1, to), to - from)

Reverse(h) ==
  NewVec([i \in 1..h.length |-> Slots(h)[h.length + 1 - i]], h.length)

-----------------------------------------------------------------------------
(* A transient vector has storage of its own, without a watermark.          *)
TransientNew(h) ==
  /\ blocks' = Append(blocks, [cells |-> Contents(h), mark |-> NoMark])
  /\ builders' = Append(builders, [store |-> Len(blocks) + 1, length |-> h.length,
                                   frozen |-> FALSE])
  /\ UNCHANGED headers

TransientPush(b, x) ==
  LET draft == builders[b]
      full == draft.length = Len(Slots(draft))
  IN  /\ ~draft.frozen
      /\ blocks' = IF full
           THEN Append(blocks, [cells |-> Room(Append(Contents(draft), x),
                                               GrownVec(draft.length)),
                                mark |-> NoMark])
           ELSE [blocks EXCEPT ![draft.store].cells[draft.length + 1] = x]
      /\ builders' = [builders EXCEPT ![b] =
                        [store |-> IF full THEN Len(blocks) + 1 ELSE draft.store,
                         length |-> draft.length + 1, frozen |-> FALSE]]
      /\ UNCHANGED headers

(* Freezing hands the storage over: it gets its watermark, the builder ends.*)
TransientFreeze(b) ==
  LET draft == builders[b]
  IN  /\ ~draft.frozen
      /\ builders' = [builders EXCEPT ![b].frozen = TRUE]
      /\ blocks' = [blocks EXCEPT ![draft.store].mark =
                      IF Slots(draft) = <<>> THEN NoMark ELSE draft.length]
      /\ headers' = Append(headers, [store |-> draft.store, length |-> draft.length])

-----------------------------------------------------------------------------
Fits(n) == n <= MaxElements
FromVector(h) ==
  \/ \E x \in Element : Fits(h.length + 1) /\ (PushInPlace(h, x) \/ PushOnCopy(h, x))
  \/ \E x \in Element, i \in 1..h.length : AssocVec(h, i, x)
  \/ \E g \in DOMAIN headers : Fits(h.length + headers[g].length) /\ Concat(h, headers[g])
  \/ \E from, to \in 0..h.length : Slice(h, from, to)
  \/ Reverse(h)

VecNext ==
  \/ /\ Len(headers) < MaxVectors
     /\ \/ \E h \in DOMAIN headers : FromVector(headers[h])
        \/ \E b \in DOMAIN builders : TransientFreeze(b)
  \/ /\ Len(builders) < MaxDrafts
     /\ \E h \in DOMAIN headers : TransientNew(headers[h])
  \/ \E b \in DOMAIN builders, x \in Element :
       Fits(builders[b].length + 1) /\ TransientPush(b, x)

VecSpec == VecInit /\ [][VecNext]_vecVars

-----------------------------------------------------------------------------
(* The types of the state: every header and builder stays within storage   *)
(* that exists.                                                            *)
VecTypeOK ==
  /\ blocks \in Seq([cells : Seq(Slot), mark : Nat \cup {NoMark}])
  /\ headers \in Seq([store : DOMAIN blocks, length : Nat])
  /\ builders \in Seq([store : DOMAIN blocks, length : Nat, frozen : BOOLEAN])
  /\ \A h \in DOMAIN headers : headers[h].length <= Len(Slots(headers[h]))
  /\ \A b \in DOMAIN builders : builders[b].length <= Len(Slots(builders[b]))

(* The watermark of a storage is past every vector in it, and past it only  *)
(* slots nobody has been handed: this is why a push may write in place.    *)
(* (native_vec_set_length warns that lowering a shared watermark unfreezes  *)
(* elements another header already holds.)                                 *)
MarksCover ==
  /\ \A h \in DOMAIN headers :
       LET s == blocks[headers[h].store]
       IN  IF s.cells = <<>> THEN s.mark = NoMark
           ELSE s.mark \in headers[h].length .. Len(s.cells)
  /\ \A b \in DOMAIN builders :
       ~builders[b].frozen =>
         /\ blocks[builders[b].store].mark = NoMark
         /\ \A h \in DOMAIN headers : headers[h].store # builders[b].store
         /\ \A c \in DOMAIN builders \ {b} : builders[c].store # builders[b].store

(* The vectors are immutable values: every operation makes the vector it    *)
(* should, and changes no other, whatever storage they share.              *)
Immutable == INSTANCE ImmutableVectors WITH
  vectors <- [h \in DOMAIN headers |-> Contents(headers[h])],
  drafts <- [b \in DOMAIN builders |->
               [items |-> Contents(builders[b]), frozen |-> builders[b].frozen]]
ImplementsImmutable == Immutable!Spec
=============================================================================
