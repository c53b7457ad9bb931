# Beagle: TLA+ models and proofs

This directory holds the formal models of the Beagle repository: of Beagle Store
(`src/store/`), the append-only triple database, and of the native runtime
(`src/native-core/shim/`), the C library that the store's server and every native Beagle
program are linked with. It consists of TLA+ modules, TLC configurations, and proofs
that TLAPS checks. Every definition is a reading of the code; `PROJECT.json` maps it to
the lines it stands for.

Run one with `tlc -config Lease.cfg MCLease.tla`, check a proof with
`tlapm LeaseProofs.tla`.

## 1. The system

A *store* is one append-only log of transactions. A transaction is a vector of
operations, each asserting or retracting a proposition (a triple of Terms).
Everything else (what is live, what withdrew what, the indexes, leases, the
snapshot image) is derived from the log and rebuilt from it at boot. The native
server is a C host around code generated from Beagle (`*.bgl`); the same store can
be a library inside another program. The generated code, and any other native
Beagle program, keeps its data in the native runtime.

    client --socket--> acceptor + workers          native/server_host.c
                           | dispatch_mutex
    embedder --call-->     v                       native/store_embed.c
             store_server_store_dispatch           native/server_generated.c
                | fork of the published generation
                v
     dispatch!  (mutations, leases, reads)         native_dispatch, native_lease_ops
                | session: rotation + builder      schema, rotation, txn
                v
     term store: history and its fold              store.bgl
                | encoded record
                v
     log append, fsync, publish, image             log_codec, snapshot_codec
    -----------------------------------------------------------------------
     values, collections, texts, arenas, atoms, files, pipes, sockets,
     children, watches, worker pool                native_shim.c, native_parallel.c

### Inventory

| Component | State | Operations | What is hard | What makes it correct |
|---|---|---|---|---|
| Term store (`store.bgl`) | rows of transactions and operations, withdrawal targets, active buckets, next sequence | commit, replay, dump, load, rebuild | the same derived state is computed in three ways; equal propositions come and go | a retraction withdraws the newest live equal assertion; rebuild = incremental fold; what was built can be loaded |
| Log codec (`log_codec.bgl`) | bytes of the log | append a record, replay, detect a torn tail | crashes cut records anywhere; damage; the length is outside the CRC | no acknowledged record lost silently; appends go where the next replay looks |
| Snapshot image (`snapshot_codec.bgl`) | an image object beside the log, with a watermark | encode, decide at boot, install | rewritten in place, torn, older or newer than the log | an image changes how fast a boot is, never what it restores |
| Native server (`native_server.bgl`, `server_generated.c`) | published generation, generation chain, poisoned flag, counts of arenas | boot, repair, dispatch, compaction, checkpoint, shutdown | every call of the host can fail between two steps; process crash and power loss differ; memory is shared by threads that let go at different times | acknowledged = durable; served = durable; linearizable answers; memory is freed once, by the last |
| Host (`server_host.c`) | settings, authority, listener, list of clients, two mutexes, a condition variable, flags | start, accept, admit, serve, drain, idle compaction, the way down | lost wakeups, reuse of descriptors, caps, timeouts, half-closed sockets, two programs on one log | the drain ends and is complete; compaction runs alone; one writer; a whole packet is served |
| Embedding (`store_embed.c`) | a database handle, its mutex, buffers of two allocators | open, transact, query, add and get values, release, close | a call may fail after any step, and everything it holds has an owner | nothing stays, nothing of the store leaves, answers are whole |
| Rotation, builder (`rotation.bgl`, `txn.bgl`, `schema.bgl`) | base index, pending tail, version; operations of a builder, pinned sequence | project, refresh, staged, match, event-at; append, commit | reads fold a tail over a stale base; a builder outlives its sequence | answers equal a projection from scratch; promised coordinates hold |
| Authoring context (`resolve_read.bclj`) | a builder and a view with its own staged operations | context!, assert!, update-single!, commit! | reads of its own writes against a store others commit to | a staged read equals the read after the commit |
| Mutation dispatch (`native_dispatch.bgl`) | none of its own | plan, predict the response, fence check, commit | the response is encoded before the commit | the prediction tells what the commit did |
| Leases (`native_lease_ops.bgl`) | live `:kernel/lease` propositions | acquire, renew, release, check | delayed fences, a clock that is set back, client-written leases | at most one lease; fenced writes keep their order |
| Worker pool (`native_parallel.c`) | generation, active job, claims, scratch arrays | create, run a tiled step or a sum, cancel, grow, destroy | a worker is woken late, or still inside the kernel when the caller moves on; growth fails halfway | kernels stay within their call and partition; a call is a function of its arguments, and returns |
| Collections (`native_shim.c`) | vectors over shared storage, maps and sets with hash indexes, transients | the persistent and transient updates | a push in place, an index that is inherited | values are immutable |
| Arenas, atoms (`native_shim.c`) | chunks, registrations of buffers; a value of several words behind a spin lock | allocate, reset, register; deref, reset, exchange, swap | handles outlive resets; copies take several steps | stale handles are refused; the atom is an atomic register |
| Values (`native_shim.c`) | none: a descriptor and a value | validate, equal, hash, compare, promote, sort, print | NaN, the two zeros, recursion, descriptors that refer to themselves | the operations agree; the order is one; a promoted value stands alone |
| Texts, numbers, patterns (`native_shim.c`) | none | read UTF-8 in three ways, lower case, match, replace, split, parse and print | overlong forms, half points, context of a sigma, empty matches, rounding | each algorithm does what its definition says |
| Host calls (`native_shim.c`) | files, locks, pipes, sockets, children, watches | atomic write, bounded read, append, lease; lines, octets; capture; wait for a change | death and power loss between two calls; several writers; full pipes; missed events | paths hold whole texts; one holder; whole messages; calls end |
| Interning, queries, wire codec, text search, JVM server, branches, resolver, the compiler | | | | not modelled, see section 8 |

### How the components interact

* A worker reads one packet, takes `dispatch_mutex`, dispatches, releases it,
  lets go of the request's arena, writes the response with no lock held, and takes
  `clients_mutex` to leave. The acceptor shares the client list and the fatal flag
  under `clients_mutex`, and takes `dispatch_mutex` for idle compaction.
* A dispatch works on a fork of the published generation. A write becomes
  visible by one pointer assignment, after append and fsync; the generation keeps
  the arena of the request that made it, and its parent.
* The log is the only channel between a server and its successor. The image is
  a second object that a boot may use instead of the log's beginning. Programs
  that open the same log meet in the locks on it, and servers also in the authority
  of a file beside it.
* Sessions and contexts communicate only through the store's sequence.
* The parts of the runtime share the descriptor of a value and the arena it lies in;
  they keep no other common state. Processes meet in files, locks and pipes.

### Hazards

`PROJECT.json` lists them with the line where each bites. The families are:
crash between append, sync, publish, response; partly written records and
images; retries with a stale job still queued; staleness of rotations and
builders; predicted responses; delayed fences and expiry boundaries; thread
interleavings of the drain, of the counts of memory and of the worker pool; storage
shared by collections; error exits of the embedding; files, locks and pipes shared by
processes that die; and boundaries of texts and numbers.

Real, and covered by no property:

* `accept()` failing for want of descriptors ends the acceptor, unlike the failure to
  create a thread (`server_host.c:1114`): the models have the failure, and it is a clean end.
* A crash during the very first boot may leave a torn header, which later boots refuse
  (`log_codec.bgl:637`): the header is whole in `DurableServer`.
* A payload of any length is appended, one over 1 MiB is refused at boot
  (`log_codec.bgl:881`): payloads are abstract, so their length is not known.
* A boot from an image does not read the log before the watermark (`snapshot_codec.bgl:753`):
  damage and images are in different models.
* The response of an acquire is lost, and the holder must wait for the expiry
  (`native_lease_ops.bgl:296`): leases have no transport.
* A failed fsync followed by a successful one is taken to have made everything
  durable (`server_generated.c:1002`): an assumption of the models, see section 4.
* A fork shares the slot tables of the published generation (`store.bgl:156`): interning is
  not modelled.
* `read_line_deadline` looks at its deadline only when it polls, so a writer that keeps the
  pipe full can hold it past the deadline (`native_shim.c:12403`): time is abstract in `Streams`.

## 2. Modules

The store and its server:

| Module | Models | Correspondence |
|---|---|---|
| `OperationFold` | `apply-operation-state!` | the fold of one operation: `targets` is `withdrawal-targets`, `active` the active buckets; positions are 1-based |
| `TermStore` | `store.bgl` | `Commit`, `Replay`: the two boundaries; `AppendOperation`: one turn of `append-valid-transaction!`; `BeginLoad`, `RebuildOperation`, `InstallLoaded`: `load-term-store-result!` |
| `OccurrenceHistory` | the promise of the term store | a growing history and a withdrawal relation; `TermStore` refines it |
| `LogRecovery` | `log_codec.bgl` byte by byte | one action per way a turn of `consume-transaction-log-records!` ends; `FinishReplay` includes `repair_log_tail`; tears and damage are actions of the environment |
| `DurableServer`, `MCDurable` | the native server from request to disk | `turn.pc` is the place in `store_server_store_dispatch`; `host` the phase of boot and shutdown; `log`/`durable` what the page cache and the disk hold; `PowerLoss` and `ProcessCrash` differ in exactly that |
| `AtomicLog` | the promise of the server | an atomic log with conditional commits and linearizable answers; `DurableServer` refines it with `committed <- Durable` |
| `Session`, `MCSession` | rotation, builder, session, context, mutation plan | an index leaf is what its key selects from the base (`Indexed`, `Leaf`); `view` is a session's rotation, `context.view` a staged one |
| `Lease`, `MCLease` | lease operations and fence check | one action per operation, in one dispatch; `Mutate` is a mutation with its batch of actions on lease propositions, folded by `After`; `grants`, `ended`, `writes`, `raw`, `shared` are history variables |
| `Acceptor` | the threads of `server_host.c` | `loop` is the acceptor's place, `worker[c]` a worker's; lock and unlock of both mutexes and the condition variable are steps |
| `Packets` | one connection, octet by octet | `ReadPiece` and `WritePiece` move any number of octets, as `recv` and `send` do; an octet is its position |
| `Generations` | the counts of arenas and generations (`server_generated.c`) | each atomic decrement is a step; the server releases outside the dispatch mutex, an embedder inside it |
| `Embed` | `store_embed.c` | one action per call of an allocator, of the store or of the host; `Fails` gives every error exit; a block carries the allocator it came from |
| `Startup` | opening and closing of `server_host.c` and `store_embed.c` | settings, authority, locks, reading, repair, first record, listener; a kill at any place |

The native runtime:

| Module | Models | Correspondence |
|---|---|---|
| `Parallel` | `native_parallel.c` | one step per critical section of the runtime's mutex, one per stretch outside it; `thread[w]` is a worker's place, `caller` the caller's |
| `Vec` | `native_vec_*`, `native_transient_vec_*` | `headers` are the vectors, `blocks` their storage with the watermark |
| `ImmutableVectors` | the promise of the vectors | sequences that never change; `Vec` refines it |
| `Maps` | `native_map_*`, `native_set_*` | rows in insertion order, an optional index with slots that collide; the index is copied, shared, rebuilt or dropped as in the code |
| `Arena` | `native_arena_*`, `native_buffer_*` | chunks, spans, registrations with their generation; a program may keep any handle |
| `Atoms` | `native_atom_*` | threads over a spin lock; a copy takes one step per word |
| `Values` | `native_value_*` on descriptors | one recursive type with every kind of descriptor that leads to others; texts, vectors and records are cells, each in an arena, and `ToCopy` says which a promotion copies |
| `Utf8`, `Casing`, `Regex`, `Numerals`, `Printing` | the text and number algorithms | the code's algorithm as operators, next to a definition of what it should compute; the input is built one piece per step |
| `Files` | atomic writes, appends, bounded reads, renames | `program[g].at` is the place in a call; inodes and directory changes reach the disk later |
| `FileLease` | the flock lease | descriptors, open files and one lock; children share open files |
| `Streams`, `Sockets` | lines through a FIFO, octets through a socket | every `write`, `read`, `send`, `recv` is a step that moves what the kernel takes |
| `Capture` | a child with both outputs captured | the loop over the three pipes; the child writes, ends and is killed at any time |
| `Watch` | waiting for a change | watches, a bounded queue that overflows, two paths of one file |

`MCServer` composes `Acceptor`, `Generations`, `Embed`, `Startup` and `Packets`;
`MCRuntime` the data and the algorithms of the runtime; `MCHost` its calls of the host.
Their parts share no state, so a behaviour chooses one part at the start (`part`, `focus`,
`concern`) and leaves the others alone: the states are those of the parts, one after
the other, and no product of them is explored, since it would have no behaviour a
property here could tell. `TermStore` and `Session` share `OperationFold`: the first runs
it operation by operation, the second transaction by transaction. `LogRecovery` looks
inside the step `Consume` of `DurableServer`; `Acceptor`, `Packets` and `Generations`
inside its scheduling, its transport and its memory. They are not composed further: the
product of bytes, threads and histories has no instance small enough to check.

`TermStoreProofs`, `DurableProofs`, `LogRecoveryProofs`, `LeaseProofs`, `ServerProofs`,
`ParallelProofs`, `RuntimeProofs` and `HostProofs` hold the proofs: section 6.

Operators named "Faulty" in a comment are plausible bugs. `PROJECT.json`
("mutants") says which property each breaks; no specification uses them.

## 3. Runs

| Run | Instance | Properties | Distinct states |
|---|---|---|---|
| `termstore` | 2 propositions, 5 operations, batches to 2, sequences to 3 | `LivenessIsDerived`, `WithdrawsNewestLive`, `LoadRestoresFold`, refinement `ImplementsHistory` | 90,654 |
| `durable` | 2 writes and a read, or a write sent twice beside another, or 2 writes and a checkpoint; records in 2 pieces, compaction after 1 generation, 2 crashes | `AnswersAreDurable`, `LogStaysReadable`, `ImagesChangeNothing`, `FatalStops`, refinement `ImplementsAtomicLog` | 443,944 |
| `log_recovery` | 3 records of 1 or 2 bytes, 1 damaged field | `RecoveryIsHonest` | 65,965 |
| `log_recovery_length` | the same | `DamageIsLoud`, violated: section 5 | |
| `session_mutation` | 3 propositions, 3 operations, mutations of 2 actions, 1 staged | `ReadsAgree`, `DecisionsHold` | 66,089 |
| `session_context` | 2 values of one predicate, 5 operations, 3 staged | `StagingAgrees`, `ReceiptsHold` | 628,685 |
| `lease` | 1 resource, 2 holders, time to 3, 4 transactions, 6 batches of up to two actions | `OneLease`, `FencedWritesOrdered`, `EndedNeverAccepted`, `ValidLeaseStays` | 167,044 |
| `server` | 3 connections of which 2 are admitted; 2 callers and 5 owners of memory; 2 threads and 2 sessions of an embedder; 2 programs and 4 starts; a packet with a body of at most 2 octets | `ClientsAreAccounted`, `MemoryIsOwned`, `CallsAreClean`, `OpeningIsExclusive`, `RequestsAreServed` | 820,321 |
| `acceptor_progress` | 2 connections, I/O timeout on or off, fair | `StopEnds`, `SlotsAreFreed`, `QuietIsCompacted` | 44,626 |
| `parallel` | 1 or 2 workers, buffers of 3 cells, 2 faults, 2 pools, 2 calls, 1 cancellation, fair | `KernelsAreSafe`, `CallsAreFunctions`, `CallsReturn` | 1,039,108 |
| `runtime` | 4 vectors and a draft of 3 elements; maps of 4 rows; arenas of two kinds and 2 capabilities; 2 threads at an atom; values of 3 texts and 2 cells; texts of 4 octets or points, patterns of 3 pieces | refinement `ImplementsImmutable`, `MapsAreValues`, `NothingOutlivesItsArena`, `AtomIsRegister`, `OperationsAgree`, `TextsAreRead`, `SpellingsAgree` | 665,123 |
| `host` | 2 processes and 2 paths; 2 owners and 3 opens; 2 writers of messages longer and shorter than the pipe; a child that writes to both outputs; watches of 2 paths of one file or two | `FilesAreWhole`, `LeaseIsExclusive`, `MessagesAreWhole`, `HostCallsEnd` | 697,767 |

Type invariants are stated in their modules; they are parts of the inductive invariants
of section 6, or of the properties above where a run needs them.

### What the properties say

* **Term store.** Liveness is stored in buckets and never in rows, so the two can
  disagree; `LivenessIsDerived` and `WithdrawsNewestLive` tie them together
  after every operation, including in the middle of a transaction and of a load.
  `LoadRestoresFold` says that `validated-store!` cannot refuse a store that replay
  built, gaps included, and that a rebuild ends where folding was.
* **Server.** `AnswersAreDurable` is row D1 of `docs/guarantees.md`, and stronger: even a
  *read* never shows what a power loss may take back, which is why a boot ends with a
  sync; and a guarded write, sent twice, applies once (row I2). `LogStaysReadable` is
  what poisoning and tail repair are for. `ImagesChangeNothing` is row R3.
  `ImplementsAtomicLog` is the whole: each write takes effect at one moment between
  its question and its answer, and versions never go back, through crashes.
  `FatalStops`: a failed server does stop.
* **Log.** `RecoveryIsHonest` is row D5 for everything but a damaged length, and that
  memory and file agree end to end when serving starts.
* **Session.** `ReadsAgree`: the rotation answers every pattern, from any mix of base and
  tail, like the history folded from scratch *at the rotation's version*, also when it
  has fallen behind its store. `StagingAgrees`: a staged read equals the read after its
  own commit. `DecisionsHold`: the response encoded before the commit is true of the
  commit (row A2), though `plan-reads-live?` lets it skip the simulation.
* **Lease.** `EndedNeverAccepted` holds whatever clients write, except of a fence in
  `shared`: an epoch names a transaction, not a lease, so a batch that asserts two
  `:kernel/lease` propositions of one resource and holder leaves two leases with one
  fence. A release retracts the newer one only, and `fence-valid?` then accepts the
  released fence by the other; dropping the condition, TLC finds that run at once. No
  fence that the server granted is ever shared, which is the property's other half.
  `OneLease`, `FencedWritesOrdered` and `ValidLeaseStays` hold until a client writes
  such propositions itself (`raw`); the code lets it, and after a client's retraction an
  older lease can become current again, so the condition is needed.
* **Host.** `ClientsAreAccounted`: no descriptor is shut down after its worker closed it;
  compaction runs with no worker that could use what it frees; the drain leaves nobody
  behind. `RequestsAreServed`: what is dispatched is a whole packet, a client has a
  prefix of its answer, and a whole packet is answered unless its client vanishes or the
  server fails. `MemoryIsOwned`: nothing freed is used, at rest exactly what the chain
  holds is left, and the chain stays within its budget. `OpeningIsExclusive`: one program
  writes the log, an answered record stays through kills and repairs, locks come back.
* **Embedding.** `CallsAreClean`: after any exit nothing of a call stays, the store's
  memory never leaves it, each allocator gets back its own blocks.
* **Worker pool.** `KernelsAreSafe`: a kernel runs only in the call it was woken for, on a
  partition nobody else has, and sees just its halo; failed creation and growth leak
  nothing. `CallsAreFunctions`: a call is all or nothing, and what it reports does not
  depend on the number or the order of the workers. `CallsReturn`: no wake-up is lost.
* **Data.** `ImplementsImmutable` and `MapsAreValues`: no operation changes a value
  somebody holds, whatever arrays and indexes are shared, and a key is found whether the
  index or a scan looks for it. `NothingOutlivesItsArena`: a handle that is accepted is
  live, a promoted value leads to nothing it left: to no vector, record, text, keyword or
  bytes of the arena it came from. `AtomIsRegister`: an atom is linearizable. `OperationsAgree`: validation is exact, equal values compare and hash
  alike, the order is total also on NaN, a sort is stable.
* **Texts and numbers.** `TextsAreRead`: three readers refuse the same octets and find the same
  points in both directions; a capital sigma is final exactly at the end of a word; a
  pattern matches what a search over all ways to match finds first. `SpellingsAgree`: a
  hexadecimal numeral is rounded to the nearest value, ties to even; spellings read
  back; no two values have one text.
* **Host calls.** `FilesAreWhole`: a path holds a whole text, old or new, through deaths and
  power failures, and readers see a whole one; octets confirmed durable are on the disk. `LeaseIsExclusive`, `MessagesAreWhole`:
  see the comments in `FileLease`, `Streams`, `Sockets`. `HostCallsEnd`: a capture returns
  everything its child wrote and ends if the child does (and no process the child started keeps
  its pipes open); a change after a watch was added
  ends the wait, and a wait never ends without one.

### Bounds and why they are enough

* Two propositions (or two values of one predicate) and five operations reach
  every pattern of assert, assert, retract, retract over equal content with another
  proposition between; gaps need sequences to 3. Three propositions make every probed
  index leaf of `session_mutation` hold something its pattern must drop.
  `FoldCap` is 1 (512 in the code, in the same comparison), so tails fold at once.
* A record or image in two pieces has an incomplete prefix; a third piece adds
  prefixes no condition tells apart. Two crashes cover a crash during recovery
  from a crash. Two writes give an earlier and a later transaction; one of them
  guarded gives conflicts. Compaction after one generation makes each write meet it.
* Bytes: payloads of one and two bytes, with a maximal payload of 14, let a damaged
  length end inside the record, inside a later one, exactly at the end, past the
  end of the log and above the maximum.
* Two admitted of three connections reach the cap and refusals; two quiet polls
  tell "in a row" from "in total".
* Time 0..3 with ttl 1 and 2 has leases before, at and after their expiry, and
  grants refused by `max-time-ms`. Four transactions hold two leases, a renewal
  or release and a delayed write, or a batch that leaves two leases with one fence, the
  release of the newer and a write with the fence of both.
* Five owners let two callers, a chain of two generations and a replay hold arenas at the
  same time. Four starts let each of two programs open again after a kill of either.
  A header of two digits in base 2 announces bodies of 0..3 octets, one of them too long.
* Buffers of 3 cells in tiles of 1 or 2 give a last partition that is cut, and with two
  workers more partitions than workers; two calls show what survives from one to the next;
  two pools what survives a destruction.
* Four vectors are an origin, two pushes that compete for one slot, and one more that
  builds on either. A map of four rows passes `MinLength`, has an index that collides, grows
  once and drops it again. Two words are the least that can be torn.
* Four octets spell every form of UTF-8, whole and cut; four points have a sigma with a
  joining point and a letter on either side; three pieces of a pattern nest a repetition
  in a group behind another. Sixty-three for the largest integer, and two bits of fraction, keep every
  comparison of the code (overflow in the last digit, ties, subnormal and overflow bounds) within reach.
* A text of two units has a torn prefix; messages of one to four units around a `PIPE_BUF` of three
  and room for four are atomic, refused, and cut.
* `MaxOperations`, `MaxBatch`, `MaxStaged`, `MaxTries`, `MaxCrashes`, `MaxRecords`, `MaxDamages`,
  `MaxVersion`, `MaxVectors`, `MaxDrafts`, `MaxElements`, `MaxMaps`, `MaxSets`, `MaxOps`, `MaxOctets`, `MaxPoints`,
  `MaxPieces`, `MaxTypes`, `MaxPools`, `MaxCalls`, `MaxFaults`, `MaxCancels`, `MaxStarts`, `MaxOwners`, `MaxSessions`, `MaxRuns`
  and their like are bounds of the models only; the other constants are the code's, most of them smaller.

Deadlock checking is off throughout, because each model stops when its bound is
used up, and a server that was stopped stays stopped.

### Fairness

* `DurableServer`: a worker that holds the mutex goes on or fails; some queued
  job is dispatched or refused; some response is written or dropped; the acceptor
  sees the fatal flag (it polls with a timeout); the shutdown proceeds. Nothing
  is assumed of clients, signals, crashes or a supervisor.
* `Acceptor`: weak fairness of the acceptor and of each worker. A worker that
  writes to a peer that does not read is fair only with the I/O timeout or once its socket was
  shut down: nothing else ends that system call. `SlotsAreFreed` holds only with
  the I/O timeout (`timed`), and is stated so.
* `Packets`: the worker runs, and a client that waits for its answer takes what has come. A
  client need not send, nor stay.
* `Parallel`: the caller runs while it is in a call, and every worker runs. A thread that waits
  on a condition variable runs again only when it is signalled.
* `Capture`: the caller runs; the child goes on writing what it has to write, and ends. The
  code has no timeout, so a child that never ends is waited for.
* `Watch`: the caller runs. Changes are not assumed.

## 4. Assumptions and abstractions

* A successful fsync covers everything written before it, also after a failed
  one. A power loss keeps a prefix of the unsynced pieces; what a directory says reaches
  the disk later and in order. Pieces of an image do not
  reorder. The directory entry of a new log survives.
* A CRC or fingerprint detects every change of the bytes it covers.
* One write request is one transaction (guarantee A1). A failed boot is a process crash.
  `compile_append`, a second entry to the same append path, is not modelled.
* A commit and the refresh of the session that makes it are one step (one
  request, one mutex, or one thread). A commit by another context does not refresh
  it; `AssertSingle` is taken only by a session whose rotation is pinned, which the code leaves to callers.
* Positions start at 1; sequences and times are integers below the maximum the code
  compares with; the trap behind the largest sequence is a step of `TermStore`.
* An embedder closes a store when no other call on it is under way, as `store.h` asks.
* A trap of the runtime ends the program: an operation of a model has as its guard what the
  code does not trap on, and a trap within an algorithm is a result.
* The content of a value counts only where an operation looks at it: vectors hold
  names, kernels leave a mark, a text of a file is a length. Hashes are a parameter, chosen
  to collide. Names of types are opaque.
* The Unicode tables are generated, and reading and printing decimal fractions is the C
  library: `Casing` and `Numerals` take them as parameters and model how they are used.
* The integers and the floating-point numbers of `Numerals` are small (`MaxInt`, `FractionBits`,
  `Bias`), with every boundary the code compares with in the same order.

## 5. Where the code and its documents differ

`docs/guarantees.md`, row D5: "Damaged committed bytes are detected loudly on
replay; replay never silently produces a divergent image". The replay loop of
`log_codec.bgl` (line 481 of the file) takes a record whose claimed length reaches past the end of the
file for one that a crash has cut. The length field is not covered by the CRC,
so damage to it (to any value up to the 1 MiB maximum) makes acknowledged records look like a torn tail: replay
reports success, and the repair truncates them away. Run `log_recovery_length`
shows it in a few steps; `RecoveryIsHonest` says what does hold.

Behaviour of the code met on the way, modelled as it is, which no document contradicts:

* Splitting at an empty match drops the octet it moves past, `)` closes the group opened
  latest, and `^` anchors wherever it stands in a pattern (`Regex`).
* A format that asks for zero fill puts the zeros before the sign (`Numerals`).
* Looking for a cased letter after a sigma passes over format characters behind a joining
  point, looking before it over enclosing marks as well (`Casing`).
* The text of a union's value does not name its variant, so two variants of one shape have
  one text; `TextsAreUnambiguous` leaves them out (`Telling`). Descriptors that refer to
  themselves are refused by name, and by the limit of the depth as well (`Printing`).

## 6. Proofs

TLAPS proves these for every value of the constants, from the ASSUMEs of the
modules. They say: bounds, sizes and capacities are naturals, those that the code cannot
set to 0 are positive; `Batches` are sequences of actions on lease propositions; the three kinds of
requests of `DurableServer` are disjoint and the header of a log is none; payloads are of 1 to
`MaxPayload` bytes; no value stands for "nobody", "all" or "free" and for a program, thread or connection as
well; connections are finitely many.

* **`TermStoreProofs`**: `TypeCorrect`, `LivenessDerived`, `NewestWithdrawn`,
  `AtMostOneWithdrawal`. The invariant `FoldInv` says both folds, the store's and the one a load
  rebuilds, are exact for the rows they have folded: buckets ascending and equal to the unwithdrawn
  assertions, each retraction's target the newest live one at its turn. It must
  speak of the fold under reconstruction, because installing it is a step, and
  of every prefix of the rows, because a target is judged at its own turn.
  `FoldExact` is the heart: one more operation keeps exactness; it rests on
  `PopNewest`, `AppendNewer` and `PrefixFold`.
  Then `LoadsRestore`, and the refinement `StoreIsHistory`. `HistoryInv` adds
  to `FoldInv` what the rows are: each transaction takes up where the one before it ended,
  every one but the one being appended is whole, and of that one the rows so far are. So a dump
  between transactions passes every check of a load. It also says that a load agrees with
  the store's targets as far as it has come: a target is determined by the targets before
  it (`TargetDetermined`), and an ascending bucket by its elements, since
  the rank of an element is the number of smaller ones (`BucketUnique`, by cardinality). With
  `FoldUnique`, installing a load changes neither targets nor buckets. Appending a row is
  then one `Assert` or `Retract` of the abstract history (`AppendIsOccurrence`), and every other
  step leaves that history alone.

  Of sessions, `ReadsNeverDiffer`, `StagedReadsAgree`, `PromisesHold` and `ResponsesHold`. Two things were to
  be shown. First, what the recursive operators compute for every input, by induction over sequences
  (`SequenceInduction`): a fold continues where it stopped (`FoldContinues`), the fold of any history is
  exact (`FoldOfExact`, from the lemmas about `TermStore`), and the heart, `LiveOfAppend`: one more
  operation changes the live occurrences exactly as a turn of `merged-matching` changes an answer, because
  the newest live position of a proposition is the newest event equal to it. So folding a tail over an indexed leaf answers like the longer
  history (`AnswersLive`), for any pattern and any index, since an index only keeps what the pattern would drop
  later (`LeafNarrowed`). Second, the invariant `SessionCore`: the store is the fold of a history dated in order; what a session
  reads is, at its version, the base of some beginning of that history and the rest as the tail (`Rotates`);
  what a context reads is such a rotation of the history its commit would leave, as long as its sequence is
  the next. It must speak of *some* beginning, because folding a tail down moves it. `ReadsAgree` follows from it alone;
  for single values `SingleInv` adds that a context keeps its promises in the history it would leave, where an
  update retracts every live value of its key, newest first, and asserts one (`UpdateLeavesOne`).
  For `ResponsesHold`, `PlanFollows` says that a plan which reads the live propositions simulates at every turn what
  the store will hold at that turn of the commit (`PropsWithout`: removing the last equal proposition is removing the newest
  equal occurrence), and a plan that does not has no action that asks; `HeldBefore` leads from what is live at
  a turn to what `DecisionsHold` asks of the finished history.
* **`DurableProofs`**: `ServerIsSound` (the inductive invariant), `AnswersSurvive`,
  `LogIsReadable`, `ImagesAreAccelerators`, and the refinement `ServerIsAtomicLog`. `ServerInv`
  numbers the records: record `g` takes the pieces from `Before(g)` on, so how far the disk has come is one
  number, `Version`, and the log is at most one transaction ahead of it. It must speak of the pieces that a power
  loss may still take (`tail`), since a boot reads the log and cuts what is torn before
  they have gone; of both images, the written one and the one the disk has, since either may be what the next
  boot finds (`Fits`: an image shows a beginning of the log that is on the disk already); and of every response
  under way: what it says was true when it was made and no later commit makes it false
  (`RightAnswer`), which with the number of the try is why a duplicate of an old request is not
  taken for the answer to a new one. `Version` never falls (`LogGrows`), not in a power loss either. The refinement is then: a
  commit is the `fsync` that makes one more record durable, whoever still waits for it,
  an answer is `Deliver`, and every other step, crashes among them, leaves the abstract log as it is.
* **`LogRecoveryProofs`**: `RecoveryIsSound`, `BootsAreHonest`. `RecoveryInv` lays the records end to end with only the
  last one incomplete, says that what was replayed are the first of them, each
  with a CRC that matched, and that every acknowledged transaction still has a complete record
  at or behind its own place, as long as no length has been damaged. The place matters: a transaction that failed
  leaves a record that no acknowledgement counts, and a boot replays it as well.
* **`LeaseProofs`**: `LeaseTypeCorrect`, `LeaseIsUnique`, `FencesAreOrdered`, `EndedFencesAreDead`,
  `ValidLeasesStay`. `LeaseInv` adds to the three safety properties that no epoch or version
  exceeds the store's, that two live leases have one fence only if it is in `shared`, that
  the live lease of a resource is at least as new as its fenced writes, and that no live
  lease has an ended fence that is not shared. Every action is a transaction that gives
  leases up and asserts others under its own sequence: `TransactionKeeps` proves that once.
  What a batch of any length asserts, `AfterIs` takes from the fold, whose existence is
  proved by induction. Nothing is assumed about the clock: the orderings rest on epochs alone.
* **`ServerProofs`**: of the host, `HostIsSafe`. `AcceptorInv` says that a job is listed, and its socket
  named, exactly while its worker runs, which sockets are open, who holds each of the two mutexes, and
  that the loop compacts or ends only with no job. It must speak of the mutex, since the
  acceptor looks for jobs and drains under it while a worker closes its socket and leaves under it as well,
  and of the backlog, since a connection that is admitted twice would have two workers. The
  bound on clients is kept by counting: one job is added only below the cap.
  Of the start, `OpeningIsSound` and `OpeningsAreExclusive`: `StartupInv` says which locks a program holds at every step, and that what it has
  read of the log is what it cuts the tail by; the log changes only under both locks (`OneProgramMoves`), so nobody
  appends between the reading and the cut.
  Of the embedding, `EmbedIsSound` and `EmbeddedCallsAreClean`: `EmbedInv` gives every block to the thread of its call and says which of
  the blocks exist at each step, in each of its outcomes, so every path out of a call, with an error or without, leaves
  only the answer.
  Of the memory, `MemoryStaysOwned`, for any number of threads, calls and budgets. `GenerationsInv` counts: the
  references to a generation are one for the store that publishes it, one for the call that has made it, one for
  the release under way and one for its child; the references to an arena are one for its generation and one for its
  request. The counts add up only together with what the code leaves to its discipline: whoever makes or releases
  generations is alone with them, by the mutex or because the store shuts down (`AloneKeeps`); the generations
  that have not gone form lines, nobody has two children; and a child of the published generation
  is the newest and belongs to a call or a release. Arenas are let go outside the mutex too, so their counting is
  kept apart. What can be reached is then exactly what has not gone (`ReachedIsLiving`): the newest
  living generation that is not reached is still counted, for something that reaches it or for a child, newer
  and so reached itself.
* **`ParallelProofs`**: `PoolIsSafe`, `StepsAreTransactions`, `ReportsAreDeterministic`,
  `SumsAreDeterministic`, and so `CallsAreFunctionsOfTheirArguments`. `PoolInv` counts: the claimed partitions are
  the completed ones and one for each thread at work, the started threads those alive, the arrays
  what the capacities stand for. The first is why a job that counts partitions, not
  workers, is done only with no thread inside a kernel (`DoneIsIdle`), for a job that stops early too.
  `ClaimOrWaitSafe` is the critical section the workers share. `WindowsAreHalos` shows the
  window of every tile to be its halo, by the arithmetic of one wrap at the ends (`Wraps`).
  `CellsAreFresh` adds that what is covered was written by this call, in
  scratch storage that is large enough, so a copy of the whole buffer copies nothing older.
  `ReportsAreDeterministic`: `ReportInv` says that the lowest recorded failure is the least of the judged
  partitions that fail (`Judges`) and that what is covered is what the kernels that have run were to write
  (`Covers`). Partitions are claimed in order, so when a job that stopped is done, everything below a failure has
  been judged, and the least of the judged failures is the least of all (`EndingReports`).
  `SumsAreDeterministic`: the loop that pairs neighbours in place and doubles its stride computes, over the
  cells it was given, the tree that `PairTree` defines level by level (`ReductionIsPairTree`, by induction over the
  levels: after each, the cell at the beginning of a block holds the block); and every cell holds its tile's partial
  when the caller adds up, since the job is done. The three together are `CallsAreFunctions`.
* **`RuntimeProofs`**: of vectors, `VecSafe`, and the refinement `VectorsAreImmutable`: every step of `Vec` is the
  step of `ImmutableVectors` of the same name, or changes nothing. The invariant
  `VecInvariant` says of every header and builder that it stays within its storage, that the
  watermark of a storage is past every header in it, and that a builder at work has its
  storage to itself. It must say of a frozen builder what it says of a header, because
  the abstract draft keeps its elements: a later push in place must not reach them
  either. `StorageChanged` is the heart: values stay when storage changes only where nobody
  holds anything; `SlotTaken` applies it to the push in place, `BuilderWrites` to the
  transients, `NewVecMakes` covers every operation that copies.
  Of atoms, `AtomsAreRegisters`. `AtomsInv`: one thread at most is between taking and
  releasing the lock; the memory is the register's until that thread writes, then the words it has
  written are those of the new value, which is what its operation makes of the register.
  `OutsideSafe` and `InsideSafe` divide the steps by whether the thread holds the lock.
* **`HostProofs`**: `LeasesStayExclusive`, for the lease alone. `FileLeaseInv`: the open file with the kernel's lock is
  the one behind the descriptor that some owner was granted, or its owner has died and a child still shares it; the
  descriptor a process works with is never the granted one, so closing it cannot end the lease.
  `FilesStayWhole`, for the files alone. `FilesInv`: whatever a directory has ever said (a power loss may bring
  any of it back) leads to a whole text, on the disk, that nobody writes (`Frozen`); a reader's buffer is the
  beginning of such a file, so a rename under the reader changes nothing of it; an appender's part of
  the journal is counted by its call, since those of others lie between.
  `MessagesStayWhole`, for the composition. `StreamsInv` says there are places (`Laid`) at which the messages that the kernel has taken
  lie in the pipe one behind the other, and of the first of them, how much the reader has read and
  whether it still has room (`HasRead`); a message is in the pipe as a whole or not at all, because a writer knows beforehand that it fits
  `PIPE_BUF`. `SocketsInv` says that what arrived and what is on the wire are one sequence in which every
  octet follows its predecessor of the same call or begins a later call, and how much of the call under way is in it.

The library's induction theorems take an operator for a parameter, which the provers cannot instantiate. Its
theorem on well-founded relations can be used for sets: a set of numbers that is not empty has a least
element. From that come `Induction` and `SequenceInduction`, which speak of a *set* of numbers or of sequences, and
`IterationExists`: a recursive function with given steps exists, so the CHOOSE behind its definition is one of
them. So what a recursive *function* computes for every input is proved where the models are written with functions.

Only model-checked:

* Liveness everywhere: the prover does not handle fairness with ENABLED.
* What RECURSIVE operators compute: the algorithms of `Utf8`, `Casing`, `Regex`, `Numerals`, `Printing`, `Maps` and
  `Values`, and so `TextsAreRead`, `SpellingsAgree`, `MapsAreValues` and `OperationsAgree`; the prover has no SMT
  backend in a module that reaches one.
* `NothingOutlivesItsArena`, which is stated in a module that reaches recursive operators.
* `Capture`, `Watch` and `Packets`: their safety is within reach and not proved.

## 7. Plan

The order was: the fold and term store; the server from request to disk and its
abstract log; the byte-level log; leases; sessions; the threads; then what surrounds the
store (memory, embedding, start, transport), the worker pool, and the native runtime from
its data to its calls of the host. What would come next:

1. Models: handles of Terms and the sharing of slot tables between forks, paging cursors
   and historical reads of `store.bgl`, the result cache of a session,
   Datalog evaluation against its fixpoint, the JVM sequencer's group commit.
2. Proofs: the safety of `Arena`, `Capture`, `Watch` and `Packets`; `Utf8` and `Numerals`, after their RECURSIVE
   operators are written as functions.

## 8. Not modelled

* **Slots, queries, cursors**: see the plan.
* **Wire codec, text search, kernel vocabulary**: pure functions over bytes or
  words, whose errors unit tests reach.
* **JVM server and subscriptions**: a second implementation of the same
  guarantees with group commit; the native one came first since it owns the disk.
* **Branches, resolver, code graph tools**: users of the vocabulary modelled here. The boot
  of a branch from its ancestors' logs (`log_codec.bgl`, lines 727 to 879) is left out with
  them, so the log codec is modelled in part.
* **WebAssembly shim and its host**: the storage calls are forwarded to JavaScript, which is
  not part of the native build; `Embed` has both kinds of storage calls.
* **The rest of the native shim**: vectorised views of buffers, directory listings, path
  queries, clocks, environment, signals: one system call or one loop each, without a state
  that outlives the call.
* **The Beagle compiler and native core**: sequential translation; its
  correctness is a matter of language semantics, not of states and interleavings. Only
  the code it emits for atoms is in `Atoms`.
