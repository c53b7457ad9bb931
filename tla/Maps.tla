-------------------------------- MODULE Maps --------------------------------
(* The maps and sets of native-core/shim/native_shim.c: entries in the order *)
(* they were inserted, a persistent update on a copy, a transient one in     *)
(* place, and for the maps that are long enough a hash index over the        *)
(* entries, which updates copy, share, rebuild or drop.                      *)
EXTENDS Integers, Sequences, FiniteSets

CONSTANTS
  Key,         \* keys: [kind, value, bits], value what == compares
  Value,       \* values, numbers
  NoNumber,    \* the value of a key that is not a number
  Mix,         \* native_map_hash_mix, by what is hashed
  MinLength,   \* NATIVE_MAP_INDEX_MIN_LENGTH
  MinSlots,    \* NATIVE_MAP_INDEX_MIN_SLOTS
  MaxEntries,  \* NATIVE_MAP_INDEX_MAX_ENTRIES
  FirstRoom,   \* the capacity of a new transient collection, 4
  MaxLength,   \* bound: entries of a map or set
  MaxMaps,     \* bound: maps made
  MaxSets      \* bound: sets made

VARIABLES
  kind,     \* the kind of key the program's maps and sets hold
  stores,   \* the keys and values arrays: sequences of [key, val]
  indexes,  \* slot tables: [slots, entries]
  maps,     \* native_map: [store, length, capacity, state, index]
  sets      \* native_set: [store, length, capacity, state]

mapsVars == <<kind, stores, indexes, maps, sets>>

NoIndex == 0
Absent == 0
Trapped == -1
Keys == {k \in Key : k.kind = kind}
NullText(k) == k.kind = "text" /\ k.bits = 0

-----------------------------------------------------------------------------
(* native_collection_equal: numbers are equal as numbers are, so that NaN is *)
(* unequal to itself; a text is equal to itself unread, and a null handle    *)
(* traps when it is compared with another.                                   *)
Same(j, k) ==
  IF j.kind = "text" THEN j.bits = k.bits \/ j.value = k.value
  ELSE j.value = k.value /\ j.value # NoNumber
CompareTraps(j, k) == j.bits # k.bits /\ (NullText(j) \/ NullText(k))

(* native_map_hash_key: by the bits, but for -0.0 and NaN; by the bytes of a *)
(* text; a null handle and a structural key have no hash.                    *)
Hashable(k) == k.kind # "structural" /\ ~NullText(k)
Hash(k) ==
  Mix[IF k.kind = "text" \/ k.value \in {0, NoNumber} THEN k.value ELSE k.bits]

MinOf(S) == CHOOSE m \in S : \A n \in S : m <= n

(* The scan of native_map_find and native_set_find over the first entries.   *)
Scan(rows, length, k) ==
  LET stops == {i \in 1..length : CompareTraps(rows[i].key, k) \/ Same(rows[i].key, k)}
  IN  IF stops = {} THEN Absent
      ELSE IF CompareTraps(rows[MinOf(stops)].key, k) THEN Trapped
      ELSE MinOf(stops)

-----------------------------------------------------------------------------
(* The hash index.  A slot holds the number of an entry, 0 when it is free;  *)
(* the table is probed from the hash on, around its end.                     *)
SlotsOf(index) == Cardinality(DOMAIN index.slots)
ProbeAt(index, hash, d) == (hash + d) % SlotsOf(index)

RECURSIVE SlotCount(_, _)
SlotCount(slots, length) ==
  IF (slots \div 4) * 3 < length THEN SlotCount(2 * slots, length) ELSE slots

EmptyIndex(slots) == [slots |-> [i \in 0..slots - 1 |-> 0], entries |-> 0]

Place(index, hash, entry) ==
  LET free == {d \in 0..SlotsOf(index) - 1 : index.slots[ProbeAt(index, hash, d)] = 0}
  IN  [slots |-> [index.slots EXCEPT ![ProbeAt(index, hash, MinOf(free))] = entry],
       entries |-> index.entries + 1]

(* native_map_index_rebuild, as the id of the index and the table of all.    *)
Rebuilt(all, rows, length, reserve) ==
  LET wanted == IF reserve < length THEN length ELSE reserve
      filled[n \in 0..length] ==
        IF n = 0 THEN EmptyIndex(SlotCount(MinSlots, wanted))
        ELSE Place(filled[n - 1], Hash(rows[n].key), n)
  IN  IF \/ wanted < MinLength \/ wanted > MaxEntries \/ kind = "structural"
         \/ \E i \in 1..length : ~Hashable(rows[i].key)
        THEN [id |-> NoIndex, all |-> all]
        ELSE [id |-> Len(all) + 1, all |-> Append(all, filled[length])]

(* native_map_index_append, for the entry just put at the end of rows.       *)
Appended(all, id, rows, length) ==
  IF id = NoIndex /\ length < MinLength THEN [id |-> NoIndex, all |-> all]
  ELSE IF \/ id = NoIndex
          \/ all[id].entries # length - 1
          \/ length > MaxEntries
          \/ length * 4 > SlotsOf(all[id]) * 3
    THEN Rebuilt(all, rows, length, length)
  ELSE IF ~Hashable(rows[length].key) THEN [id |-> NoIndex, all |-> all]
  ELSE [id |-> id, all |-> [all EXCEPT ![id] = Place(@, Hash(rows[length].key), length)]]

(* Faulty: the entry is put into the index of the source.                    *)
AdoptedInPlace(source, rows, length) ==
  Appended(indexes, source.index, rows, length)
(* native_map_index_adopt, for the map an assoc makes from a source.         *)
Adopted(source, rows, length) ==
  LET parent == indexes[source.index]
  IN  IF length < MinLength \/ length > MaxEntries
        THEN [id |-> NoIndex, all |-> indexes]
      ELSE IF \/ source.index = NoIndex
              \/ parent.entries # source.length
              \/ length * 4 > SlotsOf(parent) * 3
        THEN Rebuilt(indexes, rows, length, length)
      ELSE IF length = source.length THEN [id |-> source.index, all |-> indexes]
      ELSE IF ~Hashable(rows[length].key) THEN [id |-> NoIndex, all |-> indexes]
      ELSE [id |-> Len(indexes) + 1,
            all |-> Append(indexes, Place(parent, Hash(rows[length].key), length))]

(* native_map_index_usable, native_map_index_lookup and native_map_find.     *)
Usable(all, id, length) ==
  id # NoIndex /\ all[id].entries = length /\ SlotsOf(all[id]) > length
Probe(index, rows, length, k) ==
  LET slot(d) == index.slots[ProbeAt(index, Hash(k), d)]
      stops == {d \in 0..SlotsOf(index) - 1 :
                  \/ slot(d) = 0
                  \/ slot(d) <= length /\ (\/ CompareTraps(rows[slot(d)].key, k)
                                           \/ Same(rows[slot(d)].key, k))}
      stop == slot(MinOf(stops))
  IN  IF stop # 0 /\ CompareTraps(rows[stop].key, k) THEN Trapped ELSE stop
Find(all, id, rows, length, k) ==
  IF Usable(all, id, length) /\ Hashable(k) THEN Probe(all[id], rows, length, k)
  ELSE Scan(rows, length, k)

-----------------------------------------------------------------------------
Row(k, x) == [key |-> k, val |-> x]
Rows(m) == SubSeq(stores[m.store], 1, m.length)
FindIn(m, k) == Find(indexes, m.index, stores[m.store], m.length, k)
Without(rows, i) == SubSeq(rows, 1, i - 1) \o SubSeq(rows, i + 1, Len(rows))
Grown(capacity) == IF capacity = 0 THEN 4 ELSE 2 * capacity

(* native_map_new, filled: a persistent collection of exactly these rows.    *)
MakeMap(rows, capacity, index) ==
  /\ stores' = Append(stores, rows)
  /\ indexes' = index.all
  /\ maps' = Append(maps, [store |-> Len(stores) + 1, length |-> Len(rows),
                           capacity |-> capacity, state |-> "persistent",
                           index |-> index.id])
  /\ UNCHANGED <<kind, sets>>

MapsInit ==
  /\ kind \in {k.kind : k \in Key}
  /\ stores = <<>> /\ indexes = <<>> /\ maps = <<>> /\ sets = <<>>

(* native_map_from_arrays, pair after pair, from an index with room for all. *)
FromArrays(pairs) ==
  LET step[n \in 0..Len(pairs)] ==
        IF n = 0 THEN [rows |-> <<>>, trap |-> FALSE,
                       index |-> Rebuilt(indexes, <<>>, 0, Len(pairs))]
        ELSE LET s == step[n - 1]
                 prior == Find(s.index.all, s.index.id, s.rows, Len(s.rows), pairs[n].key)
                 longer == Append(s.rows, pairs[n])
             IN  IF s.trap \/ prior = Trapped THEN [s EXCEPT !.trap = TRUE]
                 ELSE IF prior # Absent
                   THEN [s EXCEPT !.rows[prior].val = pairs[n].val]
                 ELSE [s EXCEPT !.rows = longer,
                         !.index = Appended(s.index.all, s.index.id, longer, Len(longer))]
      made == step[Len(pairs)]
  IN  ~made.trap /\ MakeMap(made.rows, Len(pairs), made.index)

Assoc(m, k, x) ==
  LET prior == FindIn(m, k)
      rows == IF prior = Absent THEN Append(Rows(m), Row(k, x))
              ELSE [Rows(m) EXCEPT ![prior].val = x]
  IN  /\ m.state = "persistent" /\ prior # Trapped
      /\ MakeMap(rows, Len(rows), Adopted(m, rows, Len(rows)))

Dissoc(m, k) ==
  LET found == FindIn(m, k)
      rows == Without(Rows(m), found)
  IN  /\ m.state = "persistent" /\ found \notin {Trapped, Absent}
      /\ MakeMap(rows, Len(rows), Rebuilt(indexes, rows, Len(rows), Len(rows)))

TransientOpen(m) ==
  /\ m.state = "persistent" /\ m.length = 0
  /\ stores' = Append(stores, <<>>)
  /\ maps' = Append(maps, [store |-> Len(stores) + 1, length |-> 0,
                           capacity |-> FirstRoom, state |-> "transient",
                           index |-> NoIndex])
  /\ UNCHANGED <<kind, indexes, sets>>

(* native_map_assoc_transient writes the arrays and the index in place; it   *)
(* moves to larger arrays when they are full.                                *)
AssocTransient(i, k, x) ==
  LET m == maps[i]
      prior == FindIn(m, k)
      rows == Append(Rows(m), Row(k, x))
      full == m.length = m.capacity
      index == Appended(indexes, m.index, rows, Len(rows))
  IN  /\ m.state = "transient" /\ prior # Trapped
      /\ IF prior # Absent
           THEN /\ stores' = [stores EXCEPT ![m.store][prior].val = x]
                /\ UNCHANGED <<indexes, maps>>
           ELSE /\ stores' = IF full THEN Append(stores, rows)
                             ELSE [stores EXCEPT ![m.store] = rows]
                /\ indexes' = index.all
                /\ maps' = [maps EXCEPT ![i] =
                     [store |-> IF full THEN Len(stores) + 1 ELSE m.store,
                      length |-> m.length + 1,
                      capacity |-> IF full THEN Grown(m.capacity) ELSE m.capacity,
                      state |-> "transient", index |-> index.id]]
      /\ UNCHANGED <<kind, sets>>

(* native_map_persistent_close: the header is copied, the transient retired. *)
PersistentClose(i) ==
  /\ maps[i].state = "transient"
  /\ maps' = Append([maps EXCEPT ![i].state = "retired"],
                    [maps[i] EXCEPT !.state = "persistent"])
  /\ UNCHANGED <<kind, stores, indexes, sets>>

-----------------------------------------------------------------------------
(* Sets have no index and no values.                                         *)
Item(k) == Row(k, Absent)
FindItem(s, k) == Scan(stores[s.store], s.length, k)
MakeSet(rows, capacity, state) ==
  /\ stores' = Append(stores, rows)
  /\ sets' = Append(sets, [store |-> Len(stores) + 1, length |-> Len(rows),
                           capacity |-> capacity, state |-> state])
  /\ UNCHANGED <<kind, indexes, maps>>

SetFromArray(items) ==
  LET step[n \in 0..Len(items)] ==
        IF n = 0 THEN [rows |-> <<>>, trap |-> FALSE]
        ELSE LET s == step[n - 1]
                 found == Scan(s.rows, Len(s.rows), items[n])
             IN  IF s.trap \/ found = Trapped THEN [s EXCEPT !.trap = TRUE]
                 ELSE IF found # Absent THEN s
                 ELSE [s EXCEPT !.rows = Append(@, Item(items[n]))]
      made == step[Len(items)]
  IN  ~made.trap /\ MakeSet(made.rows, Len(items), "persistent")

Conj(s, k) ==
  /\ s.state = "persistent" /\ FindItem(s, k) = Absent
  /\ MakeSet(Append(Rows(s), Item(k)), s.length + 1, "persistent")

Disj(s, k) ==
  /\ s.state = "persistent" /\ FindItem(s, k) \notin {Trapped, Absent}
  /\ MakeSet(Without(Rows(s), FindItem(s, k)), s.length - 1, "persistent")

SetTransientOpen(s) ==
  s.state = "persistent" /\ s.length = 0 /\ MakeSet(<<>>, FirstRoom, "transient")

ConjTransient(i, k) ==
  LET s == sets[i]
      full == s.length = s.capacity
      rows == Append(Rows(s), Item(k))
  IN  /\ s.state = "transient" /\ FindItem(s, k) = Absent
      /\ stores' = IF full THEN Append(stores, rows) ELSE [stores EXCEPT ![s.store] = rows]
      /\ sets' = [sets EXCEPT ![i] =
           [store |-> IF full THEN Len(stores) + 1 ELSE s.store, length |-> s.length + 1,
            capacity |-> IF full THEN Grown(s.capacity) ELSE s.capacity,
            state |-> "transient"]]
      /\ UNCHANGED <<kind, indexes, maps>>

SetPersistentClose(i) ==
  /\ sets[i].state = "transient"
  /\ sets' = Append([sets EXCEPT ![i].state = "retired"],
                    [sets[i] EXCEPT !.state = "persistent"])
  /\ UNCHANGED <<kind, stores, indexes, maps>>

-----------------------------------------------------------------------------
(* Bound: an entry is inserted with the least value, and replaced by any.    *)
Varies(m, k, x) ==
  m.length < MaxLength /\ (FindIn(m, k) = Absent => x = MinOf(Value))

MapStep ==
  \/ /\ Len(maps) < MaxMaps
     /\ \/ \E i \in DOMAIN maps :
             \/ \E k \in Keys :
                  \/ Dissoc(maps[i], k)
                  \/ \E x \in Value : Varies(maps[i], k, x) /\ Assoc(maps[i], k, x)
             \/ TransientOpen(maps[i]) \/ PersistentClose(i)
        \/ /\ maps = <<>> /\ sets = <<>>
           /\ \/ FromArrays(<<>>)
              \/ \E a, b, c \in Keys, x \in Value :
                   FromArrays(<<Row(a, x), Row(b, MinOf(Value)), Row(c, MinOf(Value))>>)
  \/ \E i \in DOMAIN maps, k \in Keys, x \in Value :
       Varies(maps[i], k, x) /\ AssocTransient(i, k, x)

SetStep ==
  \/ /\ Len(sets) < MaxSets
     /\ \/ \E i \in DOMAIN sets :
             \/ \E k \in Keys :
                  \/ Disj(sets[i], k)
                  \/ sets[i].length < MaxLength /\ Conj(sets[i], k)
             \/ SetTransientOpen(sets[i]) \/ SetPersistentClose(i)
        \/ /\ maps = <<>> /\ sets = <<>>
           /\ SetFromArray(<<>>) \/ \E a, b \in Keys : SetFromArray(<<a, b>>)
  \/ \E i \in DOMAIN sets, k \in Keys :
       sets[i].length < MaxLength /\ ConjTransient(i, k)

MapsNext == MapStep \/ SetStep
MapsSpec == MapsInit /\ [][MapsNext]_mapsVars

-----------------------------------------------------------------------------
(* An index never changes an answer: whatever became of a map's index on the *)
(* way, a lookup ends, and finds the entry the scan finds, or traps where the*)
(* scan does.  (The comment of native_map_hash_key claims the parity.)       *)
LookupIsScan ==
  \A i \in DOMAIN maps : \A k \in Keys :
    LET m == maps[i]
    IN  /\ Usable(indexes, m.index, m.length) =>
             \E d \in DOMAIN indexes[m.index].slots : indexes[m.index].slots[d] = 0
        /\ FindIn(m, k) = Scan(stores[m.store], m.length, k)

(* A map or set holds no two entries a lookup would take for one another.    *)
EntriesDiffer ==
  \A c \in {maps[i] : i \in DOMAIN maps} \cup {sets[i] : i \in DOMAIN sets} :
    \A i, j \in 1..c.length :
      i < j => ~Same(stores[c.store][i].key, stores[c.store][j].key)

(* The two together: a key is found, once, whatever finds it.                *)
MapsAreKeyed == LookupIsScan /\ EntriesDiffer

(* What has been made persistent never changes again, and neither does the   *)
(* index it is looked up with: not by an update of a map it shares arrays or *)
(* an index with, not by the transient it came from.                         *)
PersistentsStay ==
  [][ /\ \A i \in DOMAIN maps :
           maps[i].state = "persistent" =>
             /\ maps'[i] = maps[i] /\ Rows(maps[i])' = Rows(maps[i])
             /\ maps[i].index # NoIndex => indexes'[maps[i].index] = indexes[maps[i].index]
      /\ \A i \in DOMAIN sets :
           sets[i].state = "persistent" =>
             sets'[i] = sets[i] /\ Rows(sets[i])' = Rows(sets[i]) ]_mapsVars

(* A map is a value: keyed by equality, and the same for as long as it is     *)
(* held, whatever is made of it.                                              *)
MapsAreValues == []MapsAreKeyed /\ PersistentsStay
=============================================================================
