------------------------------ MODULE Parallel ------------------------------
(* The worker pool of native-core/shim/native_parallel.c: its creation and  *)
(* destruction, the scratch storage, and the two jobs it runs, a tiled step *)
(* from one buffer into another and a sum.  A critical section of the       *)
(* runtime's mutex is one step; what runs outside it, the kernel, is        *)
(* another.  One thread calls the runtime (the caller); any thread may ask  *)
(* for a cancellation.                                                      *)
EXTENDS Integers, Sequences, FiniteSets

CONSTANTS
  WorkerCounts,  \* the worker counts the default runtime is configured with
  Lengths,       \* the lengths of the buffers
  Widths,        \* the tile widths
  Halos,         \* the halos, on either side
  MaxPools,      \* bound: runtimes created one after the other
  MaxFaults,     \* bound: partitions that fail and cells left unwritten, in a job
  MaxCalls,      \* bound: jobs
  MaxCancels     \* bound: cancellations

ASSUME ParallelAssumption ==
  /\ WorkerCounts \subseteq Nat \ {0}
  /\ \E m \in WorkerCounts : \A n \in WorkerCounts : n <= m
  /\ Lengths \subseteq Nat /\ Widths \subseteq Nat \ {0} /\ Halos \subseteq Nat

VARIABLES
  configured,  \* native_parallel_default_workers
  workers,     \* runtime->workers
  created,     \* runtime->thread_count
  thread,      \* where each worker thread is
  part,        \* the partition a worker has claimed
  seen,        \* the generation a worker has observed
  rt,          \* the job fields of the runtime, guarded by the mutex
  scratch,     \* element_capacity and partition_capacity
  stats,       \* started less joined workers, allocated less freed arrays
  caller,      \* where the calling thread is
  call,        \* the arguments of the job
  target,      \* the elements of `next`, each the call that wrote it
  shadow,      \* shadow_elements, likewise
  coverage,    \* the covered indices
  partials,    \* partials, each the order its additions are made in
  total,       \* the caller's `result` of a sum
  report,      \* the report of the last call
  budget       \* pools, calls and cancellations left

pool == <<configured, workers, created, scratch, stats>>
job == <<call, target, shadow, coverage, partials, total>>
vars == <<configured, workers, created, thread, part, seen, rt, scratch, stats,
          caller, call, target, shadow, coverage, partials, total, report,
          budget>>

-----------------------------------------------------------------------------
MaxOf(S) == CHOOSE m \in S : \A n \in S : n <= m
MinOf(S) == CHOOSE m \in S : \A n \in S : m <= n
ThreadIds == 0 .. MaxOf(WorkerCounts) - 1
None == -1
Junk == -1
Unwritten == 0
Cells(n) == 0 .. n - 1

(* native_parallel_partition_count, and the tile of a partition.           *)
PartitionCount(length, width) ==
  IF length = 0 THEN 0 ELSE 1 + (length - 1) \div width
TileLo(c, p) == p * c.width
TileHi(c, p) ==
  IF c.length - TileLo(c, p) < c.width THEN c.length ELSE TileLo(c, p) + c.width
Tile(c, p) == TileLo(c, p) .. TileHi(c, p) - 1

Smaller(a, b) == IF a < b THEN a ELSE b

(* The window native_parallel_partition_access lets a tile's kernel read.  *)
Window(c, p) ==
  LET lo == TileLo(c, p)
      hi == TileHi(c, p)
      low == lo - c.left
      high == hi + c.right
  IN  IF c.boundary = "bounded" \/ c.length = 0
        THEN (IF c.left > lo THEN 0 ELSE low) .. Smaller(high, c.length) - 1
      ELSE IF \/ c.left >= c.length \/ c.right >= c.length
              \/ c.left + c.right >= c.length - (hi - lo)
        THEN Cells(c.length)
      ELSE IF low < 0 THEN (0 .. high - 1) \cup (c.length + low .. c.length - 1)
      ELSE IF high > c.length
        THEN (low .. c.length - 1) \cup (0 .. high - c.length - 1)
      ELSE low .. high - 1

(* Faulty: a job that stops is done at once.                               *)
DoneOnceStopped(r) == r.stop \/ r.completed = r.count
(* native_parallel_job_done.                                               *)
JobDone(r) == IF r.stop THEN r.completed = r.claimed ELSE r.completed = r.count

Report(outcome, completed, failure) ==
  [outcome |-> outcome, completed |-> completed, failure |-> failure]
NoReport == Report("none", 0, None)

IdleRuntime ==
  [shutdown |-> FALSE, active |-> FALSE, cancel |-> FALSE, stop |-> FALSE,
   generation |-> 0, count |-> 0, next |-> 0, claimed |-> 0, completed |-> 0,
   lowest |-> None]
NoCall ==
  [kind |-> "step", length |-> 0, width |-> 1, left |-> 0, right |-> 0,
   boundary |-> "bounded", failing |-> {}, omitted |-> {}]

Init ==
  /\ configured = 1 /\ workers = 0 /\ created = 0
  /\ thread = [w \in ThreadIds |-> "unborn"]
  /\ part = [w \in ThreadIds |-> None]
  /\ seen = [w \in ThreadIds |-> 0]
  /\ rt = IdleRuntime
  /\ scratch = [elements |-> 0, partitions |-> 0]
  /\ stats = [threads |-> 0, arrays |-> 0]
  /\ caller = "none"
  /\ call = NoCall
  /\ target = <<>> /\ shadow = <<>> /\ coverage = {}
  /\ partials = <<>> /\ total = <<>>
  /\ report = NoReport
  /\ budget = [pools |-> MaxPools, calls |-> MaxCalls, cancels |-> MaxCancels]

-----------------------------------------------------------------------------
(* Creation and destruction.                                               *)

(* native_parallel_configure_default_workers: refused once a runtime is.   *)
Configure(n) ==
  /\ caller = "none" /\ budget.pools > 0
  /\ configured # n
  /\ configured' = n
  /\ UNCHANGED <<workers, created, thread, part, seen, rt, scratch, stats, caller,
                 job, report, budget>>

(* native_parallel_runtime_create up to its loop; one worker starts no     *)
(* thread.                                                                 *)
BeginCreate ==
  /\ caller = "none" /\ budget.pools > 0
  /\ budget' = [budget EXCEPT !.pools = @ - 1]
  /\ workers' = configured /\ created' = 0
  /\ thread' = [w \in ThreadIds |-> "unborn"]
  /\ seen' = [w \in ThreadIds |-> 0]
  /\ rt' = IdleRuntime
  /\ scratch' = [elements |-> 0, partitions |-> 0]
  /\ caller' = IF configured = 1 THEN "idle" ELSE "creating"
  /\ UNCHANGED <<configured, part, stats, job, report>>

CreateThread ==
  /\ caller = "creating"
  /\ thread' = [thread EXCEPT ![created] = "ready"]
  /\ created' = created + 1
  /\ stats' = [stats EXCEPT !.threads = @ + 1]
  /\ caller' = IF created + 1 = workers THEN "idle" ELSE "creating"
  /\ UNCHANGED <<configured, workers, part, seen, rt, scratch, job, report, budget>>

(* Setting `shutdown` and broadcasting `start`.                            *)
Wake(threads) ==
  [w \in ThreadIds |-> IF threads[w] = "waiting" THEN "ready" ELSE threads[w]]
Shutdown ==
  /\ rt' = [rt EXCEPT !.shutdown = TRUE]
  /\ thread' = Wake(thread)
  /\ caller' = "destroying"

(* A thread could not be created: the ones that were are stopped and joined.*)
CreateFails ==
  /\ caller = "creating"
  /\ Shutdown
  /\ call' = NoCall /\ target' = <<>>
  /\ report' = Report("runtime_failed", 0, None)
  /\ UNCHANGED <<pool, part, seen, shadow, coverage, partials, total, budget>>

(* native_parallel_runtime_destroy: stop, join in order, free.             *)
BeginDestroy ==
  /\ caller = "idle"
  /\ Shutdown
  /\ UNCHANGED <<pool, part, seen, job, report, budget>>

JoinThread ==
  /\ caller = "destroying"
  /\ \E w \in ThreadIds :
       /\ w < created /\ thread[w] = "exited"
       /\ \A v \in ThreadIds : v < w => thread[v] = "joined"
       /\ thread' = [thread EXCEPT ![w] = "joined"]
  /\ stats' = [stats EXCEPT !.threads = @ - 1]
  /\ UNCHANGED <<configured, workers, created, part, seen, rt, scratch, caller,
                 job, report, budget>>

(* Each of the two capacities stands for two arrays.                       *)
Pieces(s) ==
  (IF s.elements > 0 THEN 2 ELSE 0) + (IF s.partitions > 0 THEN 2 ELSE 0)

EndDestroy ==
  /\ caller = "destroying"
  /\ \A w \in ThreadIds : w < created => thread[w] = "joined"
  /\ stats' = [stats EXCEPT !.arrays = @ - Pieces(scratch)]
  /\ scratch' = [elements |-> 0, partitions |-> 0]
  /\ shadow' = <<>> /\ coverage' = {} /\ partials' = <<>>
  /\ caller' = "none"
  /\ UNCHANGED <<configured, workers, created, thread, part, seen, rt, call,
                 target, total, report, budget>>

-----------------------------------------------------------------------------
(* Scratch storage.                                                        *)

(* native_parallel_runtime_reserve: capacities only grow, a capacity by     *)
(* both of its arrays, and a growth that fails leaves everything as it was. *)
GrownScratch(elements, partitions) ==
  [elements |-> MaxOf({elements, scratch.elements}),
   partitions |-> MaxOf({partitions, scratch.partitions})]

(* How many arrays a growth allocates and how many old ones it then frees.  *)
Replaced(grown, held) ==
  (IF grown THEN 2 ELSE 0) - (IF grown /\ held > 0 THEN 2 ELSE 0)

Grow(elements, partitions) ==
  LET grownElements == elements > scratch.elements
      grownPartitions == partitions > scratch.partitions
  IN  /\ scratch' = GrownScratch(elements, partitions)
      /\ shadow' = IF grownElements THEN [i \in Cells(elements) |-> Junk] ELSE shadow
      /\ partials' = IF grownPartitions THEN [p \in Cells(partitions) |-> <<>>] ELSE partials
      /\ stats' = [stats EXCEPT
           !.arrays = @ + Replaced(grownElements, scratch.elements)
                        + Replaced(grownPartitions, scratch.partitions)]

(* The arrays that were allocated before one was not are freed.            *)
GrowthFails(elements, partitions) ==
  /\ elements > scratch.elements \/ partitions > scratch.partitions
  /\ UNCHANGED <<stats, scratch, shadow, partials>>

-----------------------------------------------------------------------------
(* A call: check, reserve, run under the mutex, then act on the report.    *)

(* The valid calls: a step has a kernel that fails on some partitions and   *)
(* leaves some cells unwritten, as the fixture kernel of the tests does.    *)
(* The halo only bears on the window, so faults come without one.          *)
Calls ==
  LET Step(n, w) ==
        {c \in [kind : {"step"}, length : {n}, width : {w},
                left : Halos, right : Halos, boundary : {"bounded", "periodic"},
                failing : SUBSET Cells(PartitionCount(n, w)),
                omitted : SUBSET Cells(n)] :
           /\ Cardinality(c.failing) + Cardinality(c.omitted) <= MaxFaults
           /\ c.left + c.right = 0 \/ c.failing \cup c.omitted = {}}
      SumCall(n, w) == [NoCall EXCEPT !.kind = "sum", !.length = n, !.width = w]
  IN  UNION {Step(n, w) \cup {SumCall(n, w)} : n \in Lengths, w \in Widths}

(* native_parallel_tiled_step_f64_v0 and native_parallel_f64_buffer_sum_v0 *)
(* up to native_parallel_run; an empty sum has its result by then.         *)
BeginCall(c) ==
  LET partitions == PartitionCount(c.length, c.width)
      elements == IF c.kind = "step" THEN c.length ELSE 0
  IN  /\ caller = "idle" /\ budget.calls > 0
      /\ budget' = [budget EXCEPT !.calls = @ - 1]
      /\ call' = c
      /\ target' = [i \in Cells(c.length) |-> Unwritten]
      /\ total' = <<>>
      /\ \/ /\ Grow(elements, partitions)
            /\ coverage' = {}
            /\ report' = NoReport
            /\ caller' = "called"
         \/ /\ GrowthFails(elements, partitions)
            /\ report' = Report("invalid", 0, None)
            /\ UNCHANGED <<coverage, caller>>
      /\ UNCHANGED <<configured, workers, created, thread, part, seen, rt>>

Started(r) ==
  [r EXCEPT !.generation = @ + 1, !.active = TRUE, !.stop = FALSE,
            !.count = PartitionCount(call.length, call.width),
            !.next = 0, !.claimed = 0, !.completed = 0, !.lowest = None]

(* Who sleeps on `start` when a job begins.                                *)
(* Faulty: the broadcast is left out.                                      *)
NobodyWakes(threads) == threads
StartSignalled(threads) == IF workers = 1 THEN threads ELSE Wake(threads)

(* native_parallel_run, its first critical section.                        *)
RunCancelled ==
  /\ caller = "called" /\ rt.cancel
  /\ rt' = [rt EXCEPT !.cancel = FALSE, !.generation = @ + 1]
  /\ report' = Report("cancelled", 0, None)
  /\ caller' = "ended"
  /\ UNCHANGED <<pool, thread, part, seen, job, budget>>

RunJob ==
  /\ caller = "called" /\ ~rt.cancel
  /\ IF PartitionCount(call.length, call.width) = 0
       THEN /\ rt' = [Started(rt) EXCEPT !.active = FALSE]
            /\ report' = Report("ok", 0, None)
            /\ caller' = "ended"
            /\ UNCHANGED thread
       ELSE /\ rt' = Started(rt)
            /\ thread' = StartSignalled(thread)
            /\ caller' = IF workers = 1 THEN "single" ELSE "asleep"
            /\ UNCHANGED report
  /\ UNCHANGED <<pool, part, seen, job, budget>>

(* native_parallel_execute_partition: the kernel writes the shadow and     *)
(* covers what it wrote, or fails; a sum adds up its tile.                 *)
ThisJob == MaxCalls - budget.calls
Execute(p) ==
  LET written == IF call.kind = "step" /\ p \notin call.failing
                   THEN Tile(call, p) \ call.omitted ELSE {}
  IN  /\ shadow' = [i \in DOMAIN shadow |-> IF i \in written THEN ThisJob ELSE shadow[i]]
      /\ coverage' = coverage \cup written
      /\ partials' = IF call.kind = "sum" THEN [partials EXCEPT ![p] = <<p>>] ELSE partials
      /\ UNCHANGED <<call, target, total>>

(* The partition's status is recorded; the lowest failing one is kept.     *)
Recorded(r, p) ==
  LET counted == [r EXCEPT !.completed = @ + 1]
  IN  IF p \notin call.failing THEN counted
      ELSE [counted EXCEPT !.stop = TRUE,
              !.lowest = IF @ < 0 \/ p < @ THEN p ELSE @]

(* The last critical section of native_parallel_run.                       *)
EndRun(r) ==
  /\ report' = Report(IF r.lowest < 0 THEN "ok" ELSE "worker_failed",
                      r.completed, r.lowest)
  /\ rt' = [r EXCEPT !.active = FALSE]
  /\ caller' = "ended"

(* One worker: the caller runs the partitions itself, in order.            *)
RunSingle ==
  /\ caller = "single"
  /\ Execute(rt.completed)
  /\ LET r == [Recorded(rt, rt.completed) EXCEPT !.claimed = @ + 1]
     IN  IF JobDone(r) THEN EndRun(r)
         ELSE rt' = r /\ UNCHANGED <<report, caller>>
  /\ UNCHANGED <<pool, thread, part, seen, budget>>

(* The caller wakes from `done` and looks again.                           *)
Recheck ==
  /\ caller = "awake"
  /\ IF JobDone(rt) THEN EndRun(rt)
     ELSE /\ caller' = "asleep"
          /\ UNCHANGED <<rt, report>>
  /\ UNCHANGED <<pool, thread, part, seen, job, budget>>

(* Faulty: nothing asks whether the tiles were written.                    *)
NothingMissing(c) == {}
Uncovered(c) == Cells(c.length) \ coverage

(* After the job, a step: every cell must be covered before the shadow is  *)
(* copied over the caller's buffer.                                        *)
EndStep ==
  /\ caller = "ended" /\ call.kind = "step"
  /\ LET missing == Uncovered(call)
     IN  IF report.outcome # "ok" THEN UNCHANGED <<target, report>>
         ELSE IF missing # {}
           THEN /\ report' = Report("worker_failed", report.completed,
                                    MinOf(missing) \div call.width)
                /\ UNCHANGED target
         ELSE /\ target' = [i \in Cells(call.length) |-> shadow[i]]
              /\ UNCHANGED report
  /\ caller' = "idle"
  /\ UNCHANGED <<pool, thread, part, seen, rt, call, shadow, coverage, partials,
                 total, budget>>

(* After the job, a sum: the partials are added in adjacent pairs, in      *)
(* place, until one is left.  A bracketing is written out as a sequence.   *)
Plus(a, b) == <<"(">> \o a \o b \o <<")">>
Halve(cells, active) ==
  [i \in DOMAIN cells |->
     IF i >= (active + 1) \div 2 THEN cells[i]
     ELSE IF 2 * i + 1 < active THEN Plus(cells[2 * i], cells[2 * i + 1])
     ELSE cells[2 * i]]
Reduction(cells, count) ==
  LET pass[k \in 0..count] ==
        IF k = 0 THEN [cells |-> cells, active |-> count]
        ELSE IF pass[k - 1].active <= 1 THEN pass[k - 1]
        ELSE [cells |-> Halve(pass[k - 1].cells, pass[k - 1].active),
              active |-> (pass[k - 1].active + 1) \div 2]
  IN  pass[count].cells

EndSum ==
  /\ caller = "ended" /\ call.kind = "sum"
  /\ IF report.outcome = "ok" /\ rt.count > 0
       THEN /\ partials' = Reduction(partials, rt.count)
            /\ total' = partials'[0]
       ELSE UNCHANGED <<partials, total>>
  /\ caller' = "idle"
  /\ UNCHANGED <<pool, thread, part, seen, rt, call, target, shadow, coverage,
                 report, budget>>

(* native_parallel_runtime_cancel_next, from any thread.                   *)
CancelNext ==
  /\ caller \notin {"none", "creating", "destroying"}
  /\ budget.cancels > 0
  /\ budget' = [budget EXCEPT !.cancels = @ - 1]
  /\ rt' = [rt EXCEPT !.cancel = TRUE]
  /\ UNCHANGED <<pool, thread, part, seen, caller, job, report>>

-----------------------------------------------------------------------------
(* native_parallel_worker_main.                                            *)

(* The rest of a critical section of a worker, from the runtime r on: claim *)
(* the next partition, or find none left, tell the caller, and wait.       *)
ClaimOrWait(w, r, signalled) ==
  IF ~r.stop /\ r.next < r.count
    THEN /\ part' = [part EXCEPT ![w] = r.next]
         /\ rt' = [r EXCEPT !.next = @ + 1, !.claimed = @ + 1]
         /\ thread' = [thread EXCEPT ![w] = "working"]
         /\ caller' = IF signalled /\ caller = "asleep" THEN "awake" ELSE caller
    ELSE /\ part' = [part EXCEPT ![w] = None]
         /\ rt' = r
         /\ thread' = [thread EXCEPT ![w] = "waiting"]
         /\ caller' = IF (signalled \/ JobDone(r)) /\ caller = "asleep"
                        THEN "awake" ELSE caller

(* A thread that starts, or wakes from `start`.                            *)
Exit(w) ==
  /\ thread[w] = "ready" /\ rt.shutdown
  /\ thread' = [thread EXCEPT ![w] = "exited"]
  /\ UNCHANGED <<pool, part, seen, rt, caller, job, report, budget>>

Sleep(w) ==
  /\ thread[w] = "ready" /\ ~rt.shutdown
  /\ ~rt.active \/ rt.generation = seen[w]
  /\ thread' = [thread EXCEPT ![w] = "waiting"]
  /\ UNCHANGED <<pool, part, seen, rt, caller, job, report, budget>>

Enter(w) ==
  /\ thread[w] = "ready" /\ ~rt.shutdown
  /\ rt.active /\ rt.generation # seen[w]
  /\ seen' = [seen EXCEPT ![w] = rt.generation]
  /\ ClaimOrWait(w, rt, FALSE)
  /\ UNCHANGED <<pool, job, report, budget>>

Work(w) ==
  /\ thread[w] = "working"
  /\ Execute(part[w])
  /\ thread' = [thread EXCEPT ![w] = "reporting"]
  /\ UNCHANGED <<pool, part, seen, rt, caller, report, budget>>

Finish(w) ==
  /\ thread[w] = "reporting"
  /\ LET r == Recorded(rt, part[w]) IN ClaimOrWait(w, r, JobDone(r))
  /\ UNCHANGED <<pool, seen, job, report, budget>>

Worker(w) == Exit(w) \/ Sleep(w) \/ Enter(w) \/ Work(w) \/ Finish(w)
InCall ==
  \/ RunCancelled \/ RunJob \/ RunSingle \/ Recheck \/ EndStep \/ EndSum
  \/ CreateThread \/ JoinThread \/ EndDestroy

Next ==
  \/ \E n \in WorkerCounts : Configure(n)
  \/ BeginCreate \/ CreateFails \/ BeginDestroy
  \/ \E c \in Calls : BeginCall(c)
  \/ CancelNext
  \/ InCall
  \/ \E w \in ThreadIds : Worker(w)

Spec == Init /\ [][Next]_vars
(* The operating system runs every thread that can run.                    *)
FairSpec ==
  /\ Spec
  /\ WF_vars(InCall)
  /\ \A w \in ThreadIds : WF_vars(Worker(w))

-----------------------------------------------------------------------------
(* The caller has no call under way.                                       *)
Settled == caller \in {"none", "creating", "idle", "destroying"}

(* Threads run the kernel only during the call they were woken for, each on *)
(* a partition of its own: after the call has returned, its buffers and its *)
(* context are the caller's again.  (native_parallel_job_done counts the    *)
(* claimed partitions, not the workers.)                                   *)
KernelsAreConfined ==
  \A w \in ThreadIds :
    thread[w] \in {"working", "reporting"} =>
      /\ caller \in {"asleep", "awake"} /\ rt.active
      /\ part[w] \in Cells(PartitionCount(call.length, call.width))
      /\ seen[w] = rt.generation
      /\ \A v \in ThreadIds \ {w} : part[v] # part[w]

(* A tiled step is a transaction: the caller's buffer holds what it held    *)
(* until the call returns, and then the whole image if the report is ok,    *)
(* nothing of it otherwise; no cell of an earlier call is ever copied.      *)
StepIsTransactional ==
  call.kind = "step" =>
    \A i \in DOMAIN target :
      target[i] = IF Settled /\ report.outcome = "ok" THEN ThisJob ELSE Unwritten

(* The bracketing of a sum of n partials: a block of a level has twice the  *)
(* width of one of the level below and pairs two neighbours of it; one that *)
(* has no neighbour, at the end, goes up as it is.                          *)
PairTree(n) ==
  LET width[level \in 0..n] == IF level = 0 THEN 1 ELSE 2 * width[level - 1]
      block[level \in 0..n] ==
        [i \in {j \in Cells(n) : j * width[level] < n} |->
           IF level = 0 THEN <<i>>
           ELSE IF (2 * i + 1) * width[level - 1] < n
             THEN Plus(block[level - 1][2 * i], block[level - 1][2 * i + 1])
           ELSE block[level - 1][2 * i]]
  IN  block[n][0]

(* What a call reports depends on its arguments only, not on the number of  *)
(* workers or the order they run in: the lowest of all the partitions that  *)
(* fail, although a job stops once one has, and else the tile of the first  *)
(* cell left unwritten.                                                     *)
ReportIsDeterministic ==
  Settled /\ report.outcome \in {"ok", "worker_failed"} =>
    LET failure == IF call.failing # {} THEN MinOf(call.failing)
                   ELSE IF call.omitted # {} THEN MinOf(call.omitted) \div call.width
                   ELSE None
    IN  /\ report.failure = failure
        /\ report.outcome = IF failure = None THEN "ok" ELSE "worker_failed"
        /\ report.outcome = "ok" =>
             report.completed = PartitionCount(call.length, call.width)

(* A sum is the same additions in the same order, whoever adds up the tiles.*)
SumIsDeterministic ==
  LET count == PartitionCount(call.length, call.width)
  IN  Settled /\ report.outcome = "ok" /\ call.kind = "sum" /\ count > 0 =>
        total = PairTree(count)

(* What a kernel may read for its tile is exactly the cells within the halo *)
(* of the tile, wrapped around at the ends of a periodic buffer.           *)
HaloOf(c, p) ==
  IF c.boundary = "bounded"
    THEN {j \in Cells(c.length) : \E i \in Tile(c, p) : i - c.left <= j /\ j <= i + c.right}
    ELSE {(i + d) % c.length : i \in Tile(c, p), d \in -c.left .. c.right}
WindowIsHalo ==
  \A p \in Cells(PartitionCount(call.length, call.width)) : Window(call, p) = HaloOf(call, p)

(* A call is a function of its arguments, and all or nothing.               *)
CallsAreFunctions == StepIsTransactional /\ ReportIsDeterministic /\ SumIsDeterministic

(* When no runtime is left, every thread that was started has been joined   *)
(* and every array freed, whether the runtime was destroyed, could not be   *)
(* created, or could not grow its scratch storage.                         *)
NothingLeaks ==
  /\ caller = "none" =>
       /\ \A w \in ThreadIds : thread[w] \in {"unborn", "joined"}
       /\ stats = [threads |-> 0, arrays |-> 0]
  /\ stats.arrays = Pieces(scratch)

(* A kernel never touches what is not its own to touch, and what was got for *)
(* the kernels is given back.                                               *)
KernelsAreSafe == KernelsAreConfined /\ WindowIsHalo /\ NothingLeaks

(* Every call returns, and so do creation and destruction: no wake-up of    *)
(* `start` or `done` is lost.                                              *)
CallsReturn == caller \notin {"none", "idle"} ~> caller \in {"none", "idle"}
=============================================================================
