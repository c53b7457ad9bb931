---------------------------- MODULE Generations ----------------------------
(* Who owns the memory of a store.  A request is decoded into an arena of its *)
(* own; a request that changes the store leaves that arena to the generation  *)
(* it publishes, which keeps its parent; compaction replaces the whole chain  *)
(* by one generation read back from the log.  Arenas and generations are      *)
(* counted, and the last to let go destroys.  In the server a thread lets go  *)
(* of its request after it has left the dispatch mutex, while another thread  *)
(* may be releasing the chain; an embedder lets go inside the mutex.          *)
(* Each atomic decrement is a step of its own.                                *)
EXTENDS Integers, Sequences, FiniteSets

CONSTANTS
  Worker,              \* the threads that call
  Hosts,               \* "server" and "embedded": who calls
  Budgets,             \* the memory budgets a host names; 0 names none
  GenerationBytes,     \* what one generation is taken to cost
  MinGenerations, DefaultGenerations,
  MaxOwners            \* bound: arenas ever created

VARIABLES
  host, limit,
  owner,       \* owner[o]: the references to an arena; none left: it is gone
  generation,  \* generation[g]: [refs, owner, parent, chain, gone]
  current,     \* the published generation, 0 when there is no store
  base,        \* compaction_base_generations
  spoiled,     \* store->poisoned
  mutex,       \* the thread inside the dispatch mutex, or Free
  thread      \* thread[w]: [pc, call, request, from, next, walk, after]

generationsVars == <<host, limit, owner, generation, current, base, spoiled, mutex, thread>>

None == 0
Free == "free"
Idle == [pc |-> "idle", call |-> "none", request |-> None, from |-> None,
         next |-> None, walk |-> None, after |-> "idle"]

ASSUME GenerationsAssumption ==
  /\ Free \notin Worker /\ Budgets \subseteq Nat
  /\ {GenerationBytes, MinGenerations, DefaultGenerations} \subseteq Nat \ {0}

Clamped(n, low, high) == IF n < low THEN low ELSE IF n > high THEN high ELSE n
DeriveLimits(budget) ==
  IF budget = 0 THEN DefaultGenerations
  ELSE Clamped(budget \div GenerationBytes, MinGenerations, DefaultGenerations)

(* The store has booted: one generation, which alone holds its arena.         *)
GenerationsInit ==
  /\ host \in Hosts
  /\ \E budget \in Budgets : limit = DeriveLimits(budget)
  /\ owner = <<1>>
  /\ generation = <<[refs |-> 1, owner |-> 1, parent |-> None, chain |-> 1, gone |-> FALSE]>>
  /\ current = 1 /\ base = 1
  /\ spoiled = FALSE /\ mutex = Free
  /\ thread = [w \in Worker |-> Idle]

To(w, pc) == thread' = [thread EXCEPT ![w].pc = pc]

-----------------------------------------------------------------------------
(* Letting go.                                                                *)

OwnerRelease(owners, o) == [owners EXCEPT ![o] = @ - 1]

(* generation_create: the new generation holds its arena and its parent.      *)
Created(owners, gens, o, parent) ==
  [owners |-> [owners EXCEPT ![o] = @ + 1],
   gens |-> Append(IF parent = None THEN gens ELSE [gens EXCEPT ![parent].refs = @ + 1],
              [refs |-> 1, owner |-> o, parent |-> parent, gone |-> FALSE,
               chain |-> 1 + IF parent = None THEN 0 ELSE gens[parent].chain])]
CreatedUnretained(owners, gens, o, parent) ==  \* mutant
  [Created(owners, gens, o, parent) EXCEPT !.owners = owners]
Create(owners, gens, o, parent) == Created(owners, gens, o, parent)

(* generation_release, as a loop over the chain: the decrement, and when it   *)
(* was the last, the arena and then the parent.                               *)
Decrement(w) ==
  LET g == thread[w].walk
      last == generation[g].refs = 1
  IN  /\ thread[w].pc = "walk"
      /\ generation' = [generation EXCEPT ![g].refs = @ - 1]
      /\ thread' = [thread EXCEPT ![w].pc = IF last THEN "walkOwner" ELSE thread[w].after,
                                  ![w].walk = IF last THEN g ELSE None]
      /\ UNCHANGED <<host, limit, owner, current, base, spoiled, mutex>>
FreeGeneration(w) ==
  LET g == thread[w].walk
      parent == generation[g].parent
  IN  /\ thread[w].pc = "walkOwner"
      /\ owner' = OwnerRelease(owner, generation[g].owner)
      /\ generation' = [generation EXCEPT ![g].gone = TRUE]
      /\ thread' = [thread EXCEPT ![w].walk = parent,
                                  ![w].pc = IF parent = None THEN thread[w].after ELSE "walk"]
      /\ UNCHANGED <<host, limit, current, base, spoiled, mutex>>

(* w releases generation g and goes on at the given place.                    *)
Walking(record, g, after) == [record EXCEPT !.pc = "walk", !.walk = g, !.after = after]

-----------------------------------------------------------------------------
(* A call.                                                                    *)

(* A packet is decoded into a new arena, outside the mutex in the server; a   *)
(* packet that does not decode releases the arena at once.                    *)
Decode(w) ==
  /\ thread[w].pc = "idle" /\ current # None
  /\ Len(owner) < MaxOwners
  /\ owner' = Append(owner, 1)
  /\ thread' = [thread EXCEPT ![w] = [Idle EXCEPT !.pc = "calling", !.call = "request",
                                                  !.request = Len(owner) + 1]]
  /\ UNCHANGED <<host, limit, generation, current, base, spoiled, mutex>>
DecodeFails(w) ==
  /\ thread[w].pc = "idle" /\ current # None
  /\ Len(owner) < MaxOwners
  /\ owner' = OwnerRelease(Append(owner, 1), Len(owner) + 1)
  /\ UNCHANGED <<host, limit, generation, current, base, spoiled, mutex, thread>>

(* The compiler's calls, which only an embedder makes, create their arena     *)
(* inside; the acceptor compacts when no client is being served.              *)
Compile(w) ==
  /\ thread[w].pc = "idle" /\ current # None
  /\ host = "embedded"
  /\ \E call \in {"query", "append"} :
       thread' = [thread EXCEPT ![w] = [Idle EXCEPT !.pc = "calling", !.call = call]]
  /\ UNCHANGED <<host, limit, owner, generation, current, base, spoiled, mutex>>
CompactIdle(w) ==
  /\ host = "server" /\ current # None
  /\ \A v \in Worker : thread[v].pc = "idle"
  /\ ~spoiled /\ generation[current].chain > base
  /\ thread' = [thread EXCEPT ![w] = [Idle EXCEPT !.pc = "calling", !.call = "compact"]]
  /\ UNCHANGED <<host, limit, owner, generation, current, base, spoiled, mutex>>

Enter(w) ==
  /\ thread[w].pc = "calling" /\ mutex = Free
  /\ mutex' = w
  /\ To(w, IF spoiled THEN "leaving" ELSE "entered")
  /\ UNCHANGED <<host, limit, owner, generation, current, base, spoiled>>

NeedsCompaction(w) ==
  \/ thread[w].call = "compact"
  \/ generation[current].chain - base >= limit
Ready(w) ==
  /\ thread[w].pc = "entered" /\ ~NeedsCompaction(w)
  /\ To(w, "ready")
  /\ UNCHANGED <<host, limit, owner, generation, current, base, spoiled, mutex>>

(* boot_generation_from_log creates an arena and a generation that holds it,  *)
(* and lets go of the arena.                                                  *)
Booted ==
  LET made == Create(Append(owner, 1), generation, Len(owner) + 1, None)
  IN  [made EXCEPT !.owners = OwnerRelease(@, Len(owner) + 1)]
AfterCompaction(w) == IF thread[w].call = "compact" THEN "leaving" ELSE "ready"
Compact(w) ==
  /\ thread[w].pc = "entered" /\ NeedsCompaction(w)
  /\ Len(owner) < MaxOwners
  /\ owner' = Booted.owners /\ generation' = Booted.gens
  /\ current' = Len(generation) + 1 /\ base' = 1
  /\ thread' = [thread EXCEPT ![w] = Walking(@, current, AfterCompaction(w))]
  /\ UNCHANGED <<host, limit, spoiled, mutex>>
(* The log cannot be read, or what it gives is refused and released.          *)
CompactFails(w) ==
  /\ thread[w].pc = "entered" /\ NeedsCompaction(w)
  /\ To(w, "leaving")
  /\ UNCHANGED <<host, limit, owner, generation, current, base, spoiled, mutex>>
CompactRefused(w) ==
  /\ thread[w].pc = "entered" /\ NeedsCompaction(w)
  /\ Len(owner) < MaxOwners
  /\ owner' = Booted.owners /\ generation' = Booted.gens
  /\ thread' = [thread EXCEPT ![w] = Walking(@, Len(generation) + 1, "leaving")]
  /\ UNCHANGED <<host, limit, current, base, spoiled, mutex>>

(* compile_query and compile_append create their arena; a key that is not     *)
(* valid leaves with the arena still held.                                    *)
CreateOwner(w) ==
  /\ thread[w].pc = "ready" /\ thread[w].request = None
  /\ Len(owner) < MaxOwners
  /\ owner' = Append(owner, 1)
  /\ \E pc \in {"ready", "leaving"} :
       thread' = [thread EXCEPT ![w].request = Len(owner) + 1, ![w].pc = pc]
  /\ UNCHANGED <<host, limit, generation, current, base, spoiled, mutex>>

(* The generated dispatch: it fails, answers from the current generation, or  *)
(* makes a next one, whose allocation may fail.                               *)
Dispatch(w) ==
  LET o == thread[w].request
      made == Create(owner, generation, o, current)
  IN  /\ thread[w].pc = "ready" /\ o # None
      /\ \/ /\ \E pc \in {"answering", "leaving"} :
                 thread' = [thread EXCEPT ![w].from = current, ![w].pc = pc]
            /\ UNCHANGED <<owner, generation>>
         \/ /\ thread[w].call # "query"
            /\ owner' = made.owners /\ generation' = made.gens
            /\ thread' = [thread EXCEPT ![w].from = current, ![w].pc = "appending",
                                        ![w].next = Len(generation) + 1]
      /\ UNCHANGED <<host, limit, current, base, spoiled, mutex>>

(* The log takes the record, and the next generation is published; or the     *)
(* append fails, which poisons the store.                                     *)
Publish(w) ==
  /\ thread[w].pc = "appending"
  /\ current' = thread[w].next
  /\ thread' = [thread EXCEPT ![w] = Walking([@ EXCEPT !.next = None], current, "answering")]
  /\ UNCHANGED <<host, limit, owner, generation, base, spoiled, mutex>>
AppendFails(w) ==
  /\ thread[w].pc = "appending"
  /\ spoiled' = TRUE
  /\ thread' = [thread EXCEPT ![w] = Walking([@ EXCEPT !.next = None], thread[w].next, "leaving")]
  /\ UNCHANGED <<host, limit, owner, generation, current, base, mutex>>

(* The image is written and the answer encoded or copied out of the arenas it *)
(* lies in; both may fail, and either way the call ends.                      *)
Answer(w) ==
  /\ thread[w].pc = "answering"
  /\ thread' = [thread EXCEPT ![w].pc = "leaving", ![w].from = None]
  /\ UNCHANGED <<host, limit, owner, generation, current, base, spoiled, mutex>>

(* The request's arena is let go inside the mutex by an embedder and by the   *)
(* compiler's calls, and outside it by a server's worker.                     *)
Inside(w) == mutex = w
MayRelease(w) == IF host = "embedded" THEN Inside(w) ELSE ~Inside(w)
ReleaseRequest(w) ==
  /\ thread[w].pc \in {"leaving", "left"} /\ thread[w].request # None
  /\ MayRelease(w)
  /\ owner' = OwnerRelease(owner, thread[w].request)
  /\ thread' = [thread EXCEPT ![w].request = None]
  /\ UNCHANGED <<host, limit, generation, current, base, spoiled, mutex>>
LeaveMutex(w) ==
  /\ thread[w].pc = "leaving" /\ mutex = w
  /\ host = "embedded" => thread[w].request = None
  /\ mutex' = Free
  /\ thread' = [thread EXCEPT ![w].pc = "left", ![w].from = None]
  /\ UNCHANGED <<host, limit, owner, generation, current, base, spoiled>>
Done(w) ==
  /\ thread[w].pc = "left" /\ thread[w].request = None
  /\ thread' = [thread EXCEPT ![w] = Idle]
  /\ UNCHANGED <<host, limit, owner, generation, current, base, spoiled, mutex>>

(* Nobody is calling; the store lets go of its chain.                         *)
Shutdown(w) ==
  /\ current # None /\ \A v \in Worker : thread[v].pc = "idle"
  /\ current' = None
  /\ thread' = [thread EXCEPT ![w] = Walking(Idle, current, "idle")]
  /\ UNCHANGED <<host, limit, owner, generation, base, spoiled, mutex>>

GenerationsNext ==
  \E w \in Worker :
    \/ Decode(w) \/ DecodeFails(w) \/ Compile(w) \/ CompactIdle(w)
    \/ Enter(w) \/ Ready(w) \/ Compact(w) \/ CompactFails(w) \/ CompactRefused(w)
    \/ CreateOwner(w) \/ Dispatch(w) \/ Publish(w) \/ AppendFails(w) \/ Answer(w)
    \/ Decrement(w) \/ FreeGeneration(w)
    \/ ReleaseRequest(w) \/ LeaveMutex(w) \/ Done(w) \/ Shutdown(w)

(* The threads of one process, from the store's opening on.                   *)
GenerationsSpec == GenerationsInit /\ [][GenerationsNext]_generationsVars

-----------------------------------------------------------------------------
(* What can be reached: from the store, from a call or from a release under    *)
(* way, by following parents; the least set that holds the first and is closed *)
(* under parents.                                                             *)
Entries == ({current} \cup {thread[w].from : w \in Worker}
              \cup {thread[w].next : w \in Worker} \cup {thread[w].walk : w \in Worker}) \ {None}
HoldsReach(S) == Entries \subseteq S /\ \A g \in S : generation[g].parent \in S \cup {None}
Reached ==
  {g \in DOMAIN generation : \A S \in SUBSET DOMAIN generation : HoldsReach(S) => g \in S}
Held ==
  {generation[g].owner : g \in Reached} \cup ({thread[w].request : w \in Worker} \ {None})

(* What a call or the store can still reach has not been destroyed: neither a *)
(* generation of the chain, nor an arena one of them or a request lies in.    *)
NothingDangles ==
  /\ \A g \in Reached : ~generation[g].gone
  /\ \A o \in Held : owner[o] > 0

(* What nobody can reach any more has been destroyed, once: the counts end at *)
(* zero, never below.                                                         *)
NothingLeft ==
  /\ \A g \in DOMAIN generation \ Reached : generation[g].gone /\ generation[g].refs = 0
  /\ \A o \in DOMAIN owner \ Held : owner[o] = 0

(* A chain grows by no more generations than the limit the budget gives.      *)
ChainIsBounded == current # None => generation[current].chain - base <= limit

MemoryIsOwned == NothingDangles /\ NothingLeft /\ ChainIsBounded
=============================================================================
