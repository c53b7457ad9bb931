-------------------------------- MODULE Arena --------------------------------
(* The arenas and buffers of native-core/shim/native_shim.c.  An arena hands *)
(* out aligned spans of its current chunk and, if it may grow, takes another *)
(* chunk when one is used up; a reset takes everything back.  A buffer is a  *)
(* span with a registration, which outlives resets and tells a live handle   *)
(* from a stale one.                                                        *)
EXTENDS Integers, Sequences, FiniteSets

CONSTANTS
  Bases,        \* the address of a fixed arena's storage, modulo alignment
  Floors,       \* growth_floor
  DefaultChunk, \* the capacity of a first chunk without a floor, 4096
  FixedSize,    \* the capacity of a fixed arena
  Alignments,   \* the alignments asked for
  MaxSize,      \* bound: bytes asked for at once
  Capability,   \* native_capability
  MaxBuffers,   \* bound: buffers registered
  MaxSpans,     \* bound: allocations between two resets
  MaxResets     \* bound: resets

VARIABLES
  arena,          \* growable, floor, chunk in use, capacity, offset, counters
  chunks,         \* every chunk so far: base, capacity, whether it is freed
  generation,     \* of the buffer registry, 0 without one
  registrations,  \* newest first: where the buffer lies, for whom, since when
  spans,          \* every allocation not taken back: chunk, from, to
  resets          \* resets so far

arenaVars == <<arena, chunks, generation, registrations, spans, resets>>

NoChunk == 0
Nowhere == [chunk |-> NoChunk, from |-> 0, to |-> 0]
MaxOf(a, b) == IF a < b THEN b ELSE a
Aligned(n, alignment) == ((n + alignment - 1) \div alignment) * alignment

-----------------------------------------------------------------------------
(* native_arena_add_chunk: double the capacity until the request fits.       *)
ChunkCapacity(a, required) ==
  LET first == IF MaxOf(a.capacity, a.floor) = 0 THEN DefaultChunk
               ELSE MaxOf(a.capacity, a.floor)
      sizes == {first * 2^k : k \in 0..required}
  IN  CHOOSE c \in sizes : c >= required /\ \A d \in sizes : d >= required => c <= d
AddChunk(a, required) ==
  [arena |-> [a EXCEPT !.chunk = Len(chunks) + 1, !.offset = 0,
                       !.capacity = ChunkCapacity(a, required)],
   chunks |-> Append(chunks, [base |-> 0, capacity |-> ChunkCapacity(a, required),
                              freed |-> FALSE])]

(* native_arena_alloc: the span, or a new chunk and the span at its start; a *)
(* fixed arena that is exhausted traps, and the program ends.                *)
Base(all, chunk) == IF chunk = NoChunk THEN 0 ELSE all[chunk].base
Allocation(size, alignment) ==
  LET base == Base(chunks, arena.chunk)
      start == Aligned(base + arena.offset, alignment) - base
      fits == start <= arena.capacity /\ size <= arena.capacity - start
      grown == AddChunk(arena, size + alignment - 1)
      at == IF fits THEN start ELSE Aligned(0, alignment)
      state == IF fits THEN [arena |-> arena, chunks |-> chunks] ELSE grown
  IN  [ok |-> fits \/ arena.growable,
       arena |-> [state.arena EXCEPT !.offset = at + size, !.count = @ + 1],
       chunks |-> state.chunks,
       span |-> [chunk |-> state.arena.chunk, from |-> at, to |-> at + size]]

ArenaInit ==
  /\ \/ \E base \in Bases :
          /\ arena = [growable |-> FALSE, floor |-> 0, chunk |-> 1, capacity |-> FixedSize,
                      offset |-> 0, count |-> 0, bytes |-> 0, high |-> 0]
          /\ chunks = <<[base |-> base, capacity |-> FixedSize, freed |-> FALSE]>>
     \/ \E floor \in Floors :
          /\ arena = [growable |-> TRUE, floor |-> floor, capacity |-> floor, offset |-> 0,
                      chunk |-> IF floor = 0 THEN NoChunk ELSE 1,
                      count |-> 0, bytes |-> 0, high |-> 0]
          /\ chunks = IF floor = 0 THEN <<>>
                      ELSE <<[base |-> 0, capacity |-> floor, freed |-> FALSE]>>
  /\ generation = 0 /\ registrations = <<>> /\ spans = {} /\ resets = 0

Alloc(size, alignment) ==
  LET a == Allocation(size, alignment)
  IN  /\ a.ok
      /\ arena' = a.arena /\ chunks' = a.chunks
      /\ spans' = spans \cup {a.span}
      /\ UNCHANGED <<generation, registrations, resets>>

(* native_arena_reset: the handles first, then the storage.                  *)
Reset ==
  /\ generation' = IF generation = 0 THEN 0 ELSE generation + 1
  /\ chunks' = IF arena.growable
                 THEN [c \in DOMAIN chunks |-> [chunks[c] EXCEPT !.freed = TRUE]]
                 ELSE chunks
  /\ arena' = [arena EXCEPT !.offset = 0, !.count = 0, !.bytes = 0,
                 !.chunk = IF arena.growable THEN NoChunk ELSE @,
                 !.capacity = IF arena.growable THEN 0 ELSE @]
  /\ spans' = {}
  /\ resets' = resets + 1
  /\ UNCHANGED registrations

-----------------------------------------------------------------------------
(* native_buffer_new: the registration keeps the facts of the allocation.    *)
BufferNew(capability, bytes, alignment) ==
  LET a == Allocation(bytes, alignment)
      registered == IF generation = 0 THEN 1 ELSE generation
      after == IF bytes = 0 THEN [arena |-> arena, chunks |-> chunks, span |-> Nowhere,
                                  ok |-> TRUE]
               ELSE a
      live == arena.bytes + bytes
  IN  /\ after.ok
      /\ generation' = registered
      /\ registrations' = <<[generation |-> registered, capability |-> capability,
                             bytes |-> bytes, span |-> after.span]>> \o registrations
      /\ chunks' = after.chunks
      /\ arena' = [after.arena EXCEPT !.bytes = live, !.high = MaxOf(@, live)]
      /\ spans' = IF bytes = 0 THEN spans ELSE spans \cup {a.span}
      /\ UNCHANGED resets

(* native_buffer_require, what an access by a handle passes; native_buffer_  *)
(* simd_f64_span asks the same.  A handle is its registration, counted from  *)
(* the oldest.                                                               *)
Handles == DOMAIN registrations
Registration(h) == registrations[Len(registrations) + 1 - h]
Accepted(h, capability) ==
  /\ generation # 0
  /\ Registration(h).generation = generation
  /\ Registration(h).capability = capability

(* native_arena_buffer_registration_count and ..._at: the live handles, the  *)
(* oldest first, found by walking the newest first.                          *)
LiveCount == Cardinality({i \in DOMAIN registrations :
                            registrations[i].generation = generation})
RegistrationAt(index) ==
  LET walked(i) == Cardinality({j \in 1..i : registrations[j].generation = generation})
      found == {i \in DOMAIN registrations :
                  /\ registrations[i].generation = generation
                  /\ walked(i) = LiveCount - index}
  IN  IF index < 0 \/ LiveCount - index <= 0 THEN 0
      ELSE CHOOSE h \in Handles : Len(registrations) + 1 - h \in found

(* native_arena_reserved_bytes.                                              *)
LiveChunks == {c \in DOMAIN chunks : ~chunks[c].freed}

ArenaNext ==
  \/ \E size \in 0..MaxSize, alignment \in Alignments :
       arena.count < MaxSpans /\ Alloc(size, alignment)
  \/ \E c \in Capability, bytes \in 0..MaxSize, alignment \in Alignments :
       /\ Len(registrations) < MaxBuffers /\ bytes % alignment = 0
       /\ BufferNew(c, bytes, alignment)
  \/ resets < MaxResets /\ Reset

ArenaSpec == ArenaInit /\ [][ArenaNext]_arenaVars

-----------------------------------------------------------------------------
(* A span that has not been taken back lies in a chunk that has not been     *)
(* freed, below what is handed out next, and overlaps no other.              *)
Overlap(s, t) == s.chunk = t.chunk /\ s.from < t.to /\ t.from < s.to
SpansAreApart ==
  \A s \in spans :
    /\ s.chunk # NoChunk => s.to <= chunks[s.chunk].capacity /\ ~chunks[s.chunk].freed
    /\ s.chunk = arena.chunk => s.to <= arena.offset
    /\ s.chunk = NoChunk => s.from = s.to
    /\ \A t \in spans \ {s} : ~Overlap(s, t)

(* A handle is accepted only while its buffer is, and under the capability   *)
(* it was made for: a handle from before a reset never reaches storage that  *)
(* has been freed or handed out again, and two handles never reach the same  *)
(* bytes.                                                                    *)
AcceptedHandlesAreLive ==
  \A h \in Handles, c \in Capability :
    Accepted(h, c) =>
      LET r == Registration(h)
      IN  /\ c = r.capability
          /\ r.bytes > 0 => r.span \in spans
          /\ \A g \in Handles \ {h} :
               Accepted(g, Registration(g).capability) => ~Overlap(r.span, Registration(g).span)

(* The published order of the live buffers is the order they were made in,   *)
(* the bytes counted as live are theirs, and the high-water mark is the most *)
(* there have been.                                                          *)
RegistryIsExact ==
  LET live == {h \in Handles : Registration(h).generation = generation}
      older(h) == Cardinality({g \in live : g < h})
      total[n \in 0..Len(registrations)] ==
        IF n = 0 THEN 0
        ELSE total[n - 1] + IF n \in live THEN Registration(n).bytes ELSE 0
  IN  /\ \A h \in live : RegistrationAt(older(h)) = h
      /\ arena.bytes = total[Len(registrations)] /\ arena.bytes <= arena.high

(* The storage and the handles of an arena agree.                            *)
ArenaIsSound == SpansAreApart /\ AcceptedHandlesAreLive /\ RegistryIsExact
=============================================================================
