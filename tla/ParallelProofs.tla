--------------------------- MODULE ParallelProofs ---------------------------
(* Safety of the worker pool of native-core/shim/native_parallel.c, for       *)
(* every number of workers, length, tile width and halo.                      *)
EXTENDS Parallel, FiniteSetTheorems, WellFoundedInduction, TLAPS

-----------------------------------------------------------------------------
(* What a kernel may read.                                                    *)

Arguments ==
  [kind : {"step", "sum"}, length : Nat, width : Nat \ {0}, left : Nat, right : Nat,
   boundary : {"bounded", "periodic"}, failing : SUBSET Int, omitted : SUBSET Int]

(* The tile of a partition is not empty and lies within the buffer.           *)
LEMMA TileBounds ==
  ASSUME NEW c \in Arguments, NEW p \in Cells(PartitionCount(c.length, c.width))
  PROVE  /\ TileLo(c, p) \in Nat /\ TileHi(c, p) \in Nat
         /\ TileLo(c, p) < TileHi(c, p) /\ TileHi(c, p) <= c.length
<1>1. c.length \in Nat /\ c.width \in Nat \ {0}
  BY DEF Arguments
<1>2. c.length # 0 /\ p \in Nat /\ p <= (c.length - 1) \div c.width
  <2>1. c.length # 0
    BY DEF Cells, PartitionCount
  <2>2. (c.length - 1) \div c.width \in Int
    BY <1>1, <2>1
  <2> QED BY <2>1, <2>2 DEF Cells, PartitionCount
<1>3. \A n \in Nat \ {0}, x \in Nat, q \in Nat : q <= x \div n => q * n <= x
  OBVIOUS
<1>4. p * c.width \in Nat /\ p * c.width <= c.length - 1
  BY <1>1, <1>2, <1>3
<1> QED BY <1>1, <1>4 DEF TileLo, TileHi

(* What lies around a tile: the sums of an index of it and an offset.         *)
LEMMA Spread ==
  ASSUME NEW lo \in Nat, NEW hi \in Nat, lo < hi, NEW left \in Nat, NEW right \in Nat,
         NEW x \in Int
  PROVE  /\ x \in lo - left .. hi - 1 + right
              => \E i \in lo .. hi - 1 : \E d \in -left .. right : x = i + d
         /\ \A i \in lo .. hi - 1, d \in -left .. right :
              x = i + d => x \in lo - left .. hi - 1 + right
<1>1. ASSUME x \in lo - left .. hi - 1 + right
      PROVE  \E i \in lo .. hi - 1 : \E d \in -left .. right : x = i + d
  <2>1. CASE x < lo
    <3>1. x - lo \in -left .. right
      BY <1>1, <2>1
    <3> WITNESS lo \in lo .. hi - 1
    <3> WITNESS x - lo \in -left .. right
    <3> QED BY <1>1, <2>1
  <2>2. CASE x > hi - 1
    <3>1. x - (hi - 1) \in -left .. right
      BY <1>1, <2>2
    <3> WITNESS hi - 1 \in lo .. hi - 1
    <3> WITNESS x - (hi - 1) \in -left .. right
    <3> QED BY <1>1, <2>2
  <2>3. CASE x >= lo /\ x <= hi - 1
    <3>1. x \in lo .. hi - 1
      BY <2>3
    <3> WITNESS x \in lo .. hi - 1
    <3> WITNESS 0 \in -left .. right
    <3> QED BY <1>1
  <2> QED BY <2>1, <2>2, <2>3
<1>2. \A i \in lo .. hi - 1, d \in -left .. right :
        x = i + d => x \in lo - left .. hi - 1 + right
  OBVIOUS
<1> QED BY <1>1, <1>2

(* Indices just outside a buffer wrap around once.                            *)
LEMMA Wraps ==
  ASSUME NEW n \in Nat \ {0}, NEW j \in 0 .. n - 1
  PROVE  j % n = j /\ (j + n) % n = j /\ (j - n) % n = j
OBVIOUS

(* The window of a tile is exactly its halo.                                  *)
LEMMA WindowOfBounded ==
  ASSUME NEW c \in Arguments, NEW p \in Cells(PartitionCount(c.length, c.width)),
         c.boundary = "bounded"
  PROVE  Window(c, p) = HaloOf(c, p)
<1> DEFINE lo == TileLo(c, p)
           hi == TileHi(c, p)
           n == c.length
<1>1. lo \in Nat /\ hi \in Nat /\ lo < hi /\ hi <= n
  BY TileBounds
<1>2. n \in Nat /\ c.left \in Nat /\ c.right \in Nat
  BY DEF Arguments
<1>3. Window(c, p) = (IF c.left > lo THEN 0 ELSE lo - c.left) .. Smaller(hi + c.right, n) - 1
  BY DEF Window
<1>4. HaloOf(c, p) = {j \in 0 .. n - 1 : \E i \in lo .. hi - 1 : i - c.left <= j /\ j <= i + c.right}
  BY DEF HaloOf, Cells, Tile
<1> HIDE DEF lo, hi, n
<1>5. ASSUME NEW j \in Int
      PROVE  j \in Window(c, p) <=> j \in 0 .. n - 1 /\ j \in lo - c.left .. hi - 1 + c.right
  BY <1>1, <1>2, <1>3 DEF Smaller
<1>6. ASSUME NEW j \in 0 .. n - 1
      PROVE  j \in lo - c.left .. hi - 1 + c.right
               <=> \E i \in lo .. hi - 1 : i - c.left <= j /\ j <= i + c.right
  <2>1. ASSUME j \in lo - c.left .. hi - 1 + c.right
        PROVE  \E i \in lo .. hi - 1 : i - c.left <= j /\ j <= i + c.right
    <3>1. PICK i \in lo .. hi - 1 : \E d \in -c.left .. c.right : j = i + d
      BY <1>1, <1>2, <2>1, Spread
    <3> QED BY <1>1, <1>2, <3>1
  <2> QED BY <1>1, <1>2, <2>1
<1>7. Window(c, p) \subseteq Int /\ HaloOf(c, p) \subseteq Int
  BY <1>1, <1>2, <1>3, <1>4 DEF Smaller
<1> QED BY <1>4, <1>5, <1>6, <1>7

LEMMA WindowOfPeriodic ==
  ASSUME NEW c \in Arguments, NEW p \in Cells(PartitionCount(c.length, c.width)),
         c.boundary = "periodic"
  PROVE  Window(c, p) = HaloOf(c, p)
<1> DEFINE lo == TileLo(c, p)
           hi == TileHi(c, p)
           n == c.length
           low == lo - c.left
           high == hi + c.right
           S == low .. high - 1
           whole == c.left >= n \/ c.right >= n \/ c.left + c.right >= n - (hi - lo)
<1>1. lo \in Nat /\ hi \in Nat /\ lo < hi /\ hi <= n
  BY TileBounds
<1>2. n \in Nat \ {0} /\ c.left \in Nat /\ c.right \in Nat
  BY <1>1 DEF Arguments
<1>3. Window(c, p) =
        IF whole THEN 0 .. n - 1
        ELSE IF low < 0 THEN (0 .. high - 1) \cup (n + low .. n - 1)
        ELSE IF high > n THEN (low .. n - 1) \cup (0 .. high - n - 1)
        ELSE low .. high - 1
  BY <1>2 DEF Window, Cells
<1>4. HaloOf(c, p) = {(i + d) % n : i \in lo .. hi - 1, d \in -c.left .. c.right}
  BY DEF HaloOf, Tile
<1> HIDE DEF lo, hi, n
<1>5. HaloOf(c, p) = {x % n : x \in S}
  <2>1. ASSUME NEW i \in lo .. hi - 1, NEW d \in -c.left .. c.right
        PROVE  i + d \in S
    BY <1>1, <1>2
  <2>2. ASSUME NEW x \in S
        PROVE  \E i \in lo .. hi - 1 : \E d \in -c.left .. c.right : x = i + d
    <3>1. x \in lo - c.left .. hi - 1 + c.right
      BY <1>1, <1>2
    <3> QED BY <1>1, <1>2, <3>1, Spread
  <2> HIDE DEF S
  <2> QED BY <1>4, <2>1, <2>2
<1>6. \A x \in S : x % n \in 0 .. n - 1
  BY <1>1, <1>2
<1>7. CASE whole
  <2>1. ASSUME NEW j \in 0 .. n - 1 PROVE \E x \in S : x % n = j
    <3>1. j \in S \/ j + n \in S \/ j - n \in S
      BY <1>1, <1>2, <1>7
    <3> HIDE DEF S
    <3> QED BY <1>2, <3>1, Wraps
  <2> HIDE DEF S, whole
  <2> QED BY <1>3, <1>5, <1>6, <1>7, <2>1
<1>8. CASE ~whole
  <2>1. low > -n /\ high < 2 * n /\ high - low < n /\ low < high /\ low < n /\ high > 0
    BY <1>1, <1>2, <1>8
  <2>2. low \in Int /\ high \in Int
    BY <1>1, <1>2
  <2> HIDE DEF low, high
  <2>3. ASSUME NEW j \in 0 .. n - 1
        PROVE  j \in Window(c, p) <=> j \in S \/ j + n \in S \/ j - n \in S
    BY <1>2, <1>3, <1>8, <2>1, <2>2
  <2>4. ASSUME NEW x \in S
        PROVE  \E j \in 0 .. n - 1 : x = j \/ x = j + n \/ x = j - n
    <3>1. CASE x < 0
      <4>1. x + n \in 0 .. n - 1 /\ x = (x + n) - n
        BY <1>2, <2>1, <2>2, <3>1
      <4> QED BY <4>1
    <3>2. CASE x >= n
      <4>1. x - n \in 0 .. n - 1 /\ x = (x - n) + n
        BY <1>2, <2>1, <2>2, <3>2
      <4> QED BY <4>1
    <3>3. CASE x \in 0 .. n - 1
      BY <3>3
    <3> QED BY <1>2, <2>2, <3>1, <3>2, <3>3
  <2>5. Window(c, p) \subseteq 0 .. n - 1
    BY <1>2, <1>3, <1>8, <2>1, <2>2
  <2>6. ASSUME NEW j \in 0 .. n - 1
        PROVE  (\E x \in S : x % n = j) <=> j \in S \/ j + n \in S \/ j - n \in S
    <3> HIDE DEF S
    <3>1. (j \in S \/ j + n \in S \/ j - n \in S) => \E x \in S : x % n = j
      BY <1>2, Wraps
    <3>2. ASSUME NEW x \in S, x % n = j PROVE j \in S \/ j + n \in S \/ j - n \in S
      <4>1. PICK k \in 0 .. n - 1 : x = k \/ x = k + n \/ x = k - n
        BY <2>4
      <4>2. k = j
        BY <1>2, <3>2, <4>1, Wraps
      <4> QED BY <4>1, <4>2
    <3> QED BY <3>1, <3>2
  <2> HIDE DEF S
  <2> QED BY <1>5, <1>6, <2>3, <2>5, <2>6
<1> QED BY <1>7, <1>8

LEMMA WindowsAreHalos ==
  ASSUME NEW c \in Arguments, NEW p \in Cells(PartitionCount(c.length, c.width))
  PROVE  Window(c, p) = HaloOf(c, p)
BY WindowOfBounded, WindowOfPeriodic DEF Arguments

-----------------------------------------------------------------------------
(* The invariant.                                                             *)

Running == {"asleep", "awake"}                       \* the caller waits for workers
Calling == {"called", "single", "ended"} \cup Running
Busy == {w \in ThreadIds : thread[w] \in {"working", "reporting"}}
Live == {w \in ThreadIds : thread[w] \notin {"unborn", "joined"}}
Most == MaxOf(WorkerCounts)

Runtimes ==
  [shutdown : BOOLEAN, active : BOOLEAN, cancel : BOOLEAN, stop : BOOLEAN,
   generation : Int, count : Int, next : Int, claimed : Int, completed : Int,
   lowest : Int]

TypeOK ==
  /\ configured \in 1 .. Most /\ workers \in 0 .. Most /\ created \in 0 .. workers
  /\ thread \in [ThreadIds -> {"unborn", "ready", "waiting", "working", "reporting",
                               "exited", "joined"}]
  /\ part \in [ThreadIds -> Int] /\ seen \in [ThreadIds -> Int]
  /\ rt \in Runtimes
  /\ scratch \in [elements : Nat, partitions : Nat]
  /\ stats \in [threads : Int, arrays : Int]
  /\ caller \in {"none", "creating", "idle", "destroying"} \cup Calling
  /\ call \in Arguments

(* A thread is created in its turn and counted until it is joined; without a   *)
(* runtime there is none, and none beside the caller of a runtime of one.      *)
ThreadsAreCounted ==
  /\ \A w \in ThreadIds : w >= created => thread[w] = "unborn"
  /\ caller = "none" => Live = {}
  /\ caller = "creating" => created < workers /\ workers # 1
  /\ workers = 1 => created = 0
  /\ stats.threads = Cardinality(Live)

(* An array is counted while a capacity stands for it.                        *)
ArraysAreCounted ==
  /\ stats.arrays = Pieces(scratch)
  /\ caller = "none" => scratch = [elements |-> 0, partitions |-> 0]

(* The claimed partitions are the completed ones and, one each, those of the   *)
(* threads at work; nobody works but for the call that waits.                 *)
ClaimsAreAccounted ==
  /\ rt.active <=> caller \in {"single"} \cup Running
  /\ rt.active => rt.count = PartitionCount(call.length, call.width)
  /\ caller = "single" => workers = 1
  /\ caller \notin Running => Busy = {}
  /\ caller \in Running =>
       /\ rt.next = rt.claimed /\ rt.next <= rt.count
       /\ rt.completed >= 0 /\ rt.completed + Cardinality(Busy) = rt.claimed
  /\ \A w \in Busy :
       /\ part[w] \in 0 .. rt.next - 1 /\ seen[w] = rt.generation
       /\ \A v \in Busy \ {w} : part[v] # part[w]
  /\ \A w \in ThreadIds \ Busy : part[w] = None

PoolInv == TypeOK /\ ThreadsAreCounted /\ ArraysAreCounted /\ ClaimsAreAccounted

-----------------------------------------------------------------------------
(* Facts about the constants and the helpers.                                 *)

LEMMA LargestCount == Most \in WorkerCounts /\ \A n \in WorkerCounts : n <= Most
BY ParallelAssumption DEF Most, MaxOf

LEMMA ThreadsAreFinite ==
  /\ Most \in Nat \ {0} /\ ThreadIds = 0 .. Most - 1 /\ IsFiniteSet(ThreadIds)
  /\ \A S \in SUBSET ThreadIds : IsFiniteSet(S) /\ Cardinality(S) \in Nat
<1>1. Most \in Nat \ {0} /\ ThreadIds = 0 .. Most - 1
  BY LargestCount, ParallelAssumption DEF ThreadIds, Most
<1>2. IsFiniteSet(ThreadIds)
  BY <1>1, FS_Interval
<1>3. \A S \in SUBSET ThreadIds : IsFiniteSet(S)
  BY <1>2, FS_Subset
<1> QED BY <1>1, <1>2, <1>3, FS_CardinalityType

(* The larger of two capacities.                                              *)
LEMMA LargerOfTwo ==
  ASSUME NEW a \in Nat, NEW b \in Nat
  PROVE  MaxOf({a, b}) = IF a >= b THEN a ELSE b
<1> DEFINE m == IF a >= b THEN a ELSE b
<1>1. m \in {a, b} /\ \A n \in {a, b} : n <= m
  OBVIOUS
<1>2. \A k \in {a, b} : (\A n \in {a, b} : n <= k) => k = m
  OBVIOUS
<1> HIDE DEF m
<1>3. MaxOf({a, b}) = m
  BY <1>1, <1>2 DEF MaxOf
<1> QED BY <1>3 DEF m

(* The arguments of the calls, and of none.                                   *)
LEMMA CountIsInt ==
  ASSUME NEW n \in Nat, NEW w \in Nat \ {0}
  PROVE  PartitionCount(n, w) \in Int /\ Cells(PartitionCount(n, w)) \subseteq Int /\ Cells(n) \subseteq Int
<1>1. CASE n = 0
  BY <1>1 DEF PartitionCount, Cells
<1>2. CASE n # 0
  BY <1>2 DEF PartitionCount, Cells
<1> QED BY <1>1, <1>2

LEMMA CallsAreTyped == NoCall \in Arguments /\ Calls \subseteq Arguments
<1>1. NoCall \in Arguments
  BY DEF NoCall, Arguments
<1> DEFINE OfShape(n, w) ==
             [kind : {"step"}, length : {n}, width : {w},
              left : Halos, right : Halos, boundary : {"bounded", "periodic"},
              failing : SUBSET Cells(PartitionCount(n, w)), omitted : SUBSET Cells(n)]
           Steps(n, w) ==
             {c \in OfShape(n, w) :
                /\ Cardinality(c.failing) + Cardinality(c.omitted) <= MaxFaults
                /\ c.left + c.right = 0 \/ c.failing \cup c.omitted = {}}
           Sum(n, w) == [NoCall EXCEPT !.kind = "sum", !.length = n, !.width = w]
<1>2. ASSUME NEW n \in Lengths, NEW w \in Widths PROVE OfShape(n, w) \subseteq Arguments
  <2>1. n \in Nat /\ w \in Nat \ {0} /\ Halos \subseteq Nat
    BY ParallelAssumption
  <2>2. SUBSET Cells(PartitionCount(n, w)) \subseteq SUBSET Int /\ SUBSET Cells(n) \subseteq SUBSET Int
    BY <2>1, CountIsInt
  <2> QED BY <2>1, <2>2 DEF Arguments
<1>3. ASSUME NEW n \in Lengths, NEW w \in Widths PROVE Sum(n, w) \in Arguments
  BY <1>1, ParallelAssumption DEF Arguments
<1>4. \A n, w : Steps(n, w) \subseteq OfShape(n, w)
  OBVIOUS
<1>5. Calls = UNION {Steps(n, w) \cup {Sum(n, w)} : n \in Lengths, w \in Widths}
  BY DEF Calls
<1> HIDE DEF OfShape, Steps, Sum
<1> QED BY <1>1, <1>2, <1>3, <1>4, <1>5

-----------------------------------------------------------------------------
(* A pool that was never made.                                                *)
LEMMA PoolInvInit == Init => PoolInv
<1> SUFFICES ASSUME Init PROVE PoolInv
  OBVIOUS
<1> USE DEF Init
<1>1. Live = {} /\ Busy = {}
  BY DEF Live, Busy
<1>2. TypeOK
  BY ThreadsAreFinite, CallsAreTyped DEF TypeOK, Runtimes, IdleRuntime, None, Calling
<1>3. ThreadsAreCounted
  BY <1>1, FS_EmptySet DEF ThreadsAreCounted
<1>4. ArraysAreCounted
  BY DEF ArraysAreCounted, Pieces
<1>5. ClaimsAreAccounted
  BY <1>1 DEF ClaimsAreAccounted, IdleRuntime, Running, None
<1> QED BY <1>2, <1>3, <1>4, <1>5 DEF PoolInv

(* Steps between calls that leave the threads as they are.                    *)
LEMMA SameThreads == UNCHANGED thread => Live' = Live /\ Busy' = Busy
BY DEF Live, Busy

LEMMA ConfigureSafe ==
  ASSUME PoolInv, NEW n \in WorkerCounts, Configure(n)
  PROVE  PoolInv'
<1> USE DEF PoolInv, Configure, job
<1>1. TypeOK'
  BY LargestCount, ParallelAssumption DEF TypeOK
<1>2. ThreadsAreCounted'
  BY SameThreads DEF ThreadsAreCounted
<1>3. ArraysAreCounted'
  BY DEF ArraysAreCounted
<1>4. ClaimsAreAccounted'
  BY SameThreads DEF ClaimsAreAccounted
<1> QED BY <1>1, <1>2, <1>3, <1>4

LEMMA BeginCreateSafe ==
  ASSUME PoolInv, BeginCreate
  PROVE  PoolInv'
<1> USE DEF PoolInv, BeginCreate, job
<1>1. Live = {} /\ Live' = {} /\ Busy = {} /\ Busy' = {}
  BY DEF ThreadsAreCounted, Live, Busy
<1>2. TypeOK'
  BY DEF TypeOK, Runtimes, IdleRuntime, None
<1>3. ThreadsAreCounted'
  BY <1>1 DEF ThreadsAreCounted, TypeOK
<1>4. ArraysAreCounted'
  BY DEF ArraysAreCounted, Pieces
<1>5. ClaimsAreAccounted'
  BY <1>1 DEF ClaimsAreAccounted, IdleRuntime, Running
<1> QED BY <1>2, <1>3, <1>4, <1>5

LEMMA CreateThreadSafe ==
  ASSUME PoolInv, CreateThread
  PROVE  PoolInv'
<1> USE DEF PoolInv, CreateThread, job
<1>1. created \in ThreadIds /\ thread[created] = "unborn" /\ created < workers
  BY ThreadsAreFinite DEF TypeOK, ThreadsAreCounted
<1>2. Live' = Live \cup {created} /\ created \notin Live /\ Busy' = Busy
  BY <1>1 DEF Live, Busy, TypeOK
<1>3. Cardinality(Live') = Cardinality(Live) + 1
  <2>1. IsFiniteSet(Live) /\ created \notin Live
    BY <1>2, ThreadsAreFinite DEF Live
  <2>2. Cardinality(Live \cup {created}) = Cardinality(Live) + 1
    BY <2>1, FS_AddElement
  <2> QED
    BY <1>2, <2>2
<1>4. TypeOK'
  BY <1>1 DEF TypeOK, Calling
<1>5. ThreadsAreCounted'
  <2>1. created \in Int /\ \A w \in ThreadIds : w \in Int
    BY ThreadsAreFinite DEF TypeOK
  <2>2. \A w \in ThreadIds : w >= created' => thread'[w] = "unborn"
    BY <1>1, <2>1 DEF ThreadsAreCounted, TypeOK
  <2>3. stats'.threads = Cardinality(Live')
    BY <1>3 DEF ThreadsAreCounted, TypeOK
  <2>4. caller' = "creating" => created' < workers'
    BY <1>1, <2>1 DEF TypeOK
  <2> QED BY <1>1, <2>2, <2>3, <2>4 DEF ThreadsAreCounted
<1>6. ArraysAreCounted'
  BY DEF ArraysAreCounted, TypeOK
<1>7. ClaimsAreAccounted'
  BY <1>2 DEF ClaimsAreAccounted, Running
<1> QED BY <1>4, <1>5, <1>6, <1>7

(* Waking threads creates, joins and employs none.                            *)
LEMMA WakingKeeps ==
  ASSUME PoolInv, thread' = Wake(thread)
  PROVE  /\ Live' = Live /\ Busy' = Busy
         /\ \A w \in ThreadIds : thread[w] = "unborn" => thread'[w] = "unborn"
         /\ thread' \in [ThreadIds -> {"unborn", "ready", "waiting", "working",
                                       "reporting", "exited", "joined"}]
BY DEF PoolInv, TypeOK, Wake, Live, Busy

LEMMA ShutdownSafe ==
  ASSUME PoolInv, CreateFails \/ BeginDestroy
  PROVE  PoolInv'
<1> USE DEF PoolInv, CreateFails, BeginDestroy, Shutdown, pool, job
<1>1. /\ Live' = Live /\ Busy' = Busy
      /\ \A w \in ThreadIds : thread[w] = "unborn" => thread'[w] = "unborn"
      /\ thread' \in [ThreadIds -> {"unborn", "ready", "waiting", "working",
                                    "reporting", "exited", "joined"}]
  BY WakingKeeps
<1>2. TypeOK'
  <2>1. rt' \in Runtimes
    BY DEF TypeOK, Runtimes
  <2>2. UNCHANGED <<configured, workers, created, part, seen, scratch, stats>>
        /\ caller' = "destroying" /\ call' \in {call, NoCall}
    OBVIOUS
  <2>3. call' \in Arguments
    BY <2>2, CallsAreTyped DEF TypeOK
  <2> QED BY <1>1, <2>1, <2>2, <2>3 DEF TypeOK
<1>3. ThreadsAreCounted'
  BY <1>1 DEF ThreadsAreCounted, TypeOK
<1>4. ArraysAreCounted'
  BY DEF ArraysAreCounted, TypeOK
<1>5. ClaimsAreAccounted'
  BY <1>1 DEF ClaimsAreAccounted, Running, TypeOK, Runtimes
<1> QED BY <1>2, <1>3, <1>4, <1>5

LEMMA JoinThreadSafe ==
  ASSUME PoolInv, JoinThread
  PROVE  PoolInv'
<1> USE DEF PoolInv, job
<1>1. PICK w \in ThreadIds :
        /\ w < created /\ thread[w] = "exited"
        /\ thread' = [thread EXCEPT ![w] = "joined"]
  BY DEF JoinThread
<1>2. /\ caller = "destroying" /\ stats' = [stats EXCEPT !.threads = @ - 1]
      /\ UNCHANGED <<configured, workers, created, part, seen, rt, scratch, caller, job>>
  BY DEF JoinThread
<1>3. Live' = Live \ {w} /\ w \in Live /\ Busy' = Busy
  BY <1>1 DEF Live, Busy, TypeOK
<1>4. Cardinality(Live') = Cardinality(Live) - 1
  BY <1>3, ThreadsAreFinite, FS_RemoveElement DEF Live
<1>5. TypeOK'
  BY <1>1, <1>2 DEF TypeOK
<1>6. ThreadsAreCounted'
  BY <1>1, <1>2, <1>3, <1>4, ThreadsAreFinite DEF ThreadsAreCounted, TypeOK
<1>7. ArraysAreCounted'
  BY <1>2 DEF ArraysAreCounted, TypeOK
<1>8. ClaimsAreAccounted'
  BY <1>2, <1>3 DEF ClaimsAreAccounted, Running
<1> QED BY <1>5, <1>6, <1>7, <1>8

LEMMA EndDestroySafe ==
  ASSUME PoolInv, EndDestroy
  PROVE  PoolInv'
<1> USE DEF PoolInv, EndDestroy
<1>1. Live = {}
  BY ThreadsAreFinite DEF ThreadsAreCounted, Live, TypeOK
<1>2. Live' = Live /\ Busy' = Busy
  BY SameThreads
<1>3. TypeOK'
  <2>1. Pieces(scratch) \in Int
    BY DEF Pieces
  <2>2. \A x \in Int : [stats EXCEPT !.arrays = x] \in [threads : Int, arrays : Int]
    BY DEF TypeOK
  <2>3. stats.arrays - Pieces(scratch) \in Int
    BY <2>1 DEF TypeOK
  <2>4. stats' \in [threads : Int, arrays : Int]
    BY <2>2, <2>3
  <2> QED BY <2>4 DEF TypeOK
<1>4. ThreadsAreCounted'
  BY <1>1, <1>2 DEF ThreadsAreCounted, TypeOK
<1>5. ArraysAreCounted'
  BY DEF ArraysAreCounted, TypeOK, Pieces
<1>6. ClaimsAreAccounted'
  BY <1>2 DEF ClaimsAreAccounted, Running
<1> QED BY <1>3, <1>4, <1>5, <1>6

-----------------------------------------------------------------------------
(* A call, up to its end.                                                     *)

(* Scratch storage grows, and the arrays with it, or nothing changes.         *)
LEMMA GrowthIsCounted ==
  ASSUME PoolInv, NEW elements \in Nat, NEW partitions \in Nat, Grow(elements, partitions)
  PROVE  /\ scratch' \in [elements : Nat, partitions : Nat]
         /\ stats' \in [threads : Int, arrays : Int]
         /\ stats'.threads = stats.threads /\ stats'.arrays = Pieces(scratch')
         /\ scratch'.elements >= elements
         /\ DOMAIN shadow' = IF elements > scratch.elements THEN Cells(elements) ELSE DOMAIN shadow
<1> USE DEF Grow
<1>1. /\ scratch.elements \in Nat /\ scratch.partitions \in Nat
      /\ stats.threads \in Int /\ stats.arrays \in Int /\ stats.arrays = Pieces(scratch)
      /\ stats \in [threads : Int, arrays : Int]
  BY DEF PoolInv, TypeOK, ArraysAreCounted
<1>2. /\ scratch'.elements = IF elements >= scratch.elements THEN elements ELSE scratch.elements
      /\ scratch'.partitions =
           IF partitions >= scratch.partitions THEN partitions ELSE scratch.partitions
      /\ scratch' = [elements |-> scratch'.elements, partitions |-> scratch'.partitions]
  BY <1>1, LargerOfTwo DEF GrownScratch
<1>3. scratch' \in [elements : Nat, partitions : Nat] /\ scratch'.elements >= elements
  BY <1>1, <1>2
<1>4. /\ stats' \in [threads : Int, arrays : Int] /\ stats'.threads = stats.threads
      /\ stats'.arrays = stats.arrays
           + Replaced(elements > scratch.elements, scratch.elements)
           + Replaced(partitions > scratch.partitions, scratch.partitions)
  BY <1>1 DEF Replaced
<1>5. Pieces(scratch') = Pieces(scratch)
           + Replaced(elements > scratch.elements, scratch.elements)
           + Replaced(partitions > scratch.partitions, scratch.partitions)
  BY <1>1, <1>2 DEF Pieces, Replaced
<1> QED BY <1>1, <1>3, <1>4, <1>5

LEMMA BeginCallSafe ==
  ASSUME PoolInv, NEW c \in Calls, BeginCall(c)
  PROVE  PoolInv'
<1> DEFINE partitions == PartitionCount(c.length, c.width)
           elements == IF c.kind = "step" THEN c.length ELSE 0
<1> USE DEF PoolInv
<1>1. c \in Arguments /\ elements \in Nat /\ partitions \in Nat
  <2>1. c \in Arguments
    BY CallsAreTyped
  <2>2. c.length \in Nat /\ c.width \in Nat \ {0}
    BY <2>1 DEF Arguments
  <2>3. \A x \in Nat, n \in Nat \ {0} : x \div n \in Nat
    OBVIOUS
  <2>4. PartitionCount(c.length, c.width) \in Nat
    BY <2>2, <2>3 DEF PartitionCount
  <2> QED BY <2>1, <2>2, <2>4
<1>2. /\ caller = "idle" /\ call' = c /\ caller' \in {"idle", "called"}
      /\ UNCHANGED <<configured, workers, created, thread, part, seen, rt>>
      /\ Grow(elements, partitions) \/ GrowthFails(elements, partitions)
  BY DEF BeginCall
<1> HIDE DEF elements, partitions
<1>3. /\ scratch' \in [elements : Nat, partitions : Nat]
      /\ stats' \in [threads : Int, arrays : Int]
      /\ stats'.threads = stats.threads /\ stats'.arrays = Pieces(scratch')
  <2>1. CASE Grow(elements, partitions)
    BY <1>1, <2>1, GrowthIsCounted
  <2>2. CASE GrowthFails(elements, partitions)
    BY <2>2 DEF GrowthFails, TypeOK, ArraysAreCounted, Pieces
  <2> QED BY <1>2, <2>1, <2>2
<1>4. Live' = Live /\ Busy' = Busy
  BY <1>2, SameThreads
<1>5. TypeOK'
  BY <1>1, <1>2, <1>3 DEF TypeOK, Calling
<1>6. ThreadsAreCounted'
  BY <1>2, <1>3, <1>4 DEF ThreadsAreCounted
<1>7. ArraysAreCounted'
  BY <1>2, <1>3 DEF ArraysAreCounted
<1>8. ClaimsAreAccounted'
  BY <1>2, <1>4 DEF ClaimsAreAccounted, Running
<1> QED BY <1>5, <1>6, <1>7, <1>8

LEMMA RunCancelledSafe ==
  ASSUME PoolInv, RunCancelled
  PROVE  PoolInv'
<1> USE DEF PoolInv, RunCancelled, pool, job
<1>1. Live' = Live /\ Busy' = Busy
  BY SameThreads
<1>2. ~rt.active /\ rt'.active = rt.active /\ Busy = {}
  <2>1. ~rt.active /\ Busy = {}
    BY DEF ClaimsAreAccounted, Running
  <2>2. rt'.active = rt.active
    BY DEF TypeOK, Runtimes
  <2> QED BY <2>1, <2>2
<1>3. TypeOK'
  <2>1. \A x \in Int : [rt EXCEPT !.cancel = FALSE, !.generation = x] \in Runtimes
    BY DEF TypeOK, Runtimes
  <2>2. rt.generation + 1 \in Int
    BY DEF TypeOK, Runtimes
  <2>3. rt' \in Runtimes
    BY <2>1, <2>2
  <2> QED BY <2>3 DEF TypeOK, Calling
<1>4. ThreadsAreCounted'
  BY <1>1 DEF ThreadsAreCounted
<1>5. ArraysAreCounted'
  BY DEF ArraysAreCounted, TypeOK
<1>6. ClaimsAreAccounted'
  BY <1>1, <1>2 DEF ClaimsAreAccounted, Running
<1> QED BY <1>3, <1>4, <1>5, <1>6

(* A job starts with nothing claimed, and its threads awake.                  *)
LEMMA RunJobSafe ==
  ASSUME PoolInv, RunJob
  PROVE  PoolInv'
<1> USE DEF PoolInv
<1>1. /\ caller = "called" /\ Busy = {} /\ caller' \in {"ended", "single", "asleep"}
      /\ caller' = "single" => workers = 1
      /\ UNCHANGED <<configured, workers, created, scratch, stats, part, seen, call>>
  BY DEF RunJob, pool, job, ClaimsAreAccounted, Running
<1>2. thread' = thread \/ thread' = Wake(thread)
  BY DEF RunJob, StartSignalled
<1>3. /\ Live' = Live /\ Busy' = Busy
      /\ \A w \in ThreadIds : thread[w] = "unborn" => thread'[w] = "unborn"
      /\ thread' \in [ThreadIds -> {"unborn", "ready", "waiting", "working",
                                    "reporting", "exited", "joined"}]
  <2>1. CASE thread' = thread
    BY <2>1, SameThreads DEF TypeOK
  <2>2. CASE thread' = Wake(thread)
    BY <2>2, WakingKeeps
  <2> QED BY <1>2, <2>1, <2>2
<1>4. PartitionCount(call.length, call.width) \in Nat
  <2>1. call.length \in Nat /\ call.width \in Nat \ {0}
    BY DEF TypeOK, Arguments
  <2>2. \A x \in Nat, n \in Nat \ {0} : x \div n \in Nat
    OBVIOUS
  <2> QED BY <2>1, <2>2 DEF PartitionCount
<1> DEFINE started == Started(rt)
<1>5. /\ started \in Runtimes
      /\ started.active /\ started.count = PartitionCount(call.length, call.width)
      /\ started.next = 0 /\ started.claimed = 0 /\ started.completed = 0
  <2> DEFINE Begun(r, x, y) ==
               [r EXCEPT !.generation = x, !.active = TRUE, !.stop = FALSE, !.count = y]
             Reset(r, w, z) ==
               [r EXCEPT !.next = w, !.claimed = w, !.completed = w, !.lowest = z]
  <2>1. /\ \A r \in Runtimes, x \in Int, y \in Int : Begun(r, x, y) \in Runtimes
        /\ \A r \in Runtimes, w \in Int, z \in Int : Reset(r, w, z) \in Runtimes
    BY DEF Runtimes
  <2>2. started = Reset(Begun(rt, rt.generation + 1, PartitionCount(call.length, call.width)),
                        0, None)
    BY DEF Started
  <2> HIDE DEF Begun, Reset, started
  <2>3. rt.generation + 1 \in Int
    BY DEF TypeOK, Runtimes
  <2>4. None \in Int
    BY DEF None
  <2>5. started \in Runtimes
    BY <1>4, <2>1, <2>2, <2>3, <2>4 DEF TypeOK
  <2>6. /\ started.active /\ started.count = PartitionCount(call.length, call.width)
        /\ started.next = 0 /\ started.claimed = 0 /\ started.completed = 0
    BY DEF started, Started, TypeOK, Runtimes
  <2> QED BY <2>5, <2>6
<1>6. \/ rt' = [started EXCEPT !.active = FALSE] /\ caller' = "ended"
      \/ rt' = started /\ caller' \in {"single", "asleep"}
  BY DEF RunJob
<1> HIDE DEF started
<1>7. /\ rt' \in Runtimes
      /\ rt'.active <=> caller' \in {"single", "asleep"}
      /\ rt'.count = PartitionCount(call.length, call.width)
      /\ rt'.next = 0 /\ rt'.claimed = 0 /\ rt'.completed = 0
  BY <1>5, <1>6 DEF Runtimes
<1>8. TypeOK'
  BY <1>1, <1>3, <1>7 DEF TypeOK, Calling, Running
<1>9. ThreadsAreCounted'
  BY <1>1, <1>3 DEF ThreadsAreCounted, TypeOK
<1>10. ArraysAreCounted'
  BY <1>1 DEF ArraysAreCounted, TypeOK
<1>11. ClaimsAreAccounted'
  BY <1>1, <1>3, <1>4, <1>7, FS_EmptySet DEF ClaimsAreAccounted, Running
<1> QED BY <1>8, <1>9, <1>10, <1>11

(* A record of one partition counts it and leaves the claims alone.           *)
LEMMA RecordingCounts ==
  ASSUME NEW r \in Runtimes, NEW p \in Int
  PROVE  /\ Recorded(r, p) \in Runtimes
         /\ Recorded(r, p).completed = r.completed + 1
         /\ Recorded(r, p).active = r.active /\ Recorded(r, p).count = r.count
         /\ Recorded(r, p).next = r.next /\ Recorded(r, p).claimed = r.claimed
         /\ Recorded(r, p).generation = r.generation
<1> DEFINE counted == [r EXCEPT !.completed = @ + 1]
           lowest == IF counted.lowest < 0 \/ p < counted.lowest THEN p ELSE counted.lowest
<1>1. counted \in Runtimes
  <2>1. \A x \in Int : [r EXCEPT !.completed = x] \in Runtimes
    BY DEF Runtimes
  <2>2. r.completed + 1 \in Int
    BY DEF Runtimes
  <2> QED BY <2>1, <2>2
<1>2. /\ counted.completed = r.completed + 1
      /\ counted.active = r.active /\ counted.count = r.count
      /\ counted.next = r.next /\ counted.claimed = r.claimed
      /\ counted.generation = r.generation
  BY DEF Runtimes
<1>3. Recorded(r, p) = IF p \notin call.failing THEN counted
                       ELSE [counted EXCEPT !.stop = TRUE, !.lowest = lowest]
  BY DEF Recorded
<1> HIDE DEF counted
<1>4. lowest \in Int
  BY <1>1 DEF Runtimes
<1> HIDE DEF lowest
<1>5. [counted EXCEPT !.stop = TRUE, !.lowest = lowest] \in Runtimes
  BY <1>1, <1>4 DEF Runtimes
<1>6. CASE p \notin call.failing
  BY <1>1, <1>2, <1>3, <1>6
<1>7. CASE p \in call.failing
  BY <1>1, <1>2, <1>3, <1>5, <1>7 DEF Runtimes
<1> QED BY <1>6, <1>7

(* A job that is done has no thread at work, although the workers are not      *)
(* counted.                                                                   *)
LEMMA DoneIsIdle ==
  ASSUME PoolInv, caller \in Running, JobDone(rt)
  PROVE  Busy = {}
<1>1. Cardinality(Busy) \in Nat /\ IsFiniteSet(Busy)
  BY ThreadsAreFinite DEF Busy
<1>2. /\ rt.completed \in Int /\ rt.claimed \in Int /\ rt.next \in Int /\ rt.count \in Int
      /\ rt.next = rt.claimed /\ rt.next <= rt.count
      /\ rt.completed + Cardinality(Busy) = rt.claimed
  BY DEF PoolInv, TypeOK, Runtimes, ClaimsAreAccounted
<1>3. Cardinality(Busy) = 0
  BY <1>1, <1>2 DEF JobDone
<1> QED BY <1>1, <1>3, FS_EmptySet

(* The end of a job, whoever ran it: the caller goes on alone.                *)
LEMMA EndingSafe ==
  ASSUME PoolInv, caller \in {"single"} \cup Running, Busy = {}, NEW r \in Runtimes, EndRun(r),
         UNCHANGED <<configured, workers, created, scratch, stats, thread, part, seen, call>>
  PROVE  PoolInv'
<1> USE DEF PoolInv, EndRun
<1>1. Live' = Live /\ Busy' = Busy
  BY SameThreads
<1>2. rt' \in Runtimes /\ ~rt'.active
  BY DEF Runtimes
<1>3. TypeOK'
  BY <1>2 DEF TypeOK, Calling
<1>4. ThreadsAreCounted'
  BY <1>1 DEF ThreadsAreCounted
<1>5. ArraysAreCounted'
  BY DEF ArraysAreCounted, TypeOK
<1>6. ClaimsAreAccounted'
  BY <1>1, <1>2 DEF ClaimsAreAccounted, Running
<1> QED BY <1>3, <1>4, <1>5, <1>6

(* Alone, the caller has no thread beside it.                                 *)
LEMMA AloneIsIdle ==
  ASSUME PoolInv, workers = 1
  PROVE  Busy = {} /\ \A w \in ThreadIds : thread[w] = "unborn"
BY ThreadsAreFinite DEF PoolInv, ThreadsAreCounted, Busy

LEMMA RunSingleSafe ==
  ASSUME PoolInv, RunSingle
  PROVE  PoolInv'
<1> DEFINE r == [Recorded(rt, rt.completed) EXCEPT !.claimed = @ + 1]
<1>1. /\ caller = "single" /\ Busy = {} /\ workers = 1 /\ rt.active
      /\ rt.count = PartitionCount(call.length, call.width)
  BY AloneIsIdle DEF RunSingle, PoolInv, ClaimsAreAccounted
<1>2. rt \in Runtimes /\ rt.completed \in Int
  BY DEF PoolInv, TypeOK, Runtimes
<1>3. /\ Recorded(rt, rt.completed) \in Runtimes /\ Recorded(rt, rt.completed).active
      /\ Recorded(rt, rt.completed).count = rt.count
      /\ Recorded(rt, rt.completed).claimed \in Int
  BY <1>1, <1>2, RecordingCounts DEF Runtimes
<1>4. r \in Runtimes /\ r.active /\ r.count = rt.count
  <2>1. \A q \in Runtimes, x \in Int :
          /\ [q EXCEPT !.claimed = x] \in Runtimes
          /\ [q EXCEPT !.claimed = x].active = q.active
          /\ [q EXCEPT !.claimed = x].count = q.count
    BY DEF Runtimes
  <2>2. Recorded(rt, rt.completed).claimed + 1 \in Int
    BY <1>3
  <2> QED BY <1>3, <2>1, <2>2
<1>5. /\ EndRun(r) \/ (rt' = r /\ UNCHANGED caller)
      /\ UNCHANGED <<configured, workers, created, scratch, stats, thread, part, seen, call>>
  BY DEF RunSingle, pool, Execute
<1> HIDE DEF r
<1>6. CASE EndRun(r)
  BY <1>1, <1>4, <1>5, <1>6, EndingSafe
<1>7. CASE rt' = r /\ UNCHANGED caller
  <2>1. Live' = Live /\ Busy' = Busy
    BY <1>5, SameThreads
  <2>2. TypeOK' /\ ThreadsAreCounted' /\ ArraysAreCounted'
    BY <1>4, <1>5, <1>7, <2>1 DEF PoolInv, TypeOK, ThreadsAreCounted, ArraysAreCounted, Pieces
  <2>3. ClaimsAreAccounted'
    BY <1>1, <1>4, <1>5, <1>7, <2>1 DEF PoolInv, ClaimsAreAccounted, Running
  <2> QED BY <2>2, <2>3 DEF PoolInv
<1> QED BY <1>5, <1>6, <1>7

LEMMA RecheckSafe ==
  ASSUME PoolInv, Recheck
  PROVE  PoolInv'
<1>1. /\ caller = "awake" /\ rt \in Runtimes
      /\ UNCHANGED <<configured, workers, created, scratch, stats, thread, part, seen, call>>
  BY DEF Recheck, pool, job, PoolInv, TypeOK
<1>2. CASE JobDone(rt)
  BY <1>1, <1>2, DoneIsIdle, EndingSafe DEF Recheck, Running
<1>3. CASE ~JobDone(rt)
  <2>1. Live' = Live /\ Busy' = Busy
    BY <1>1, SameThreads
  <2>2. caller' = "asleep" /\ rt' = rt
    BY <1>3 DEF Recheck
  <2>3. TypeOK' /\ ThreadsAreCounted' /\ ArraysAreCounted'
    BY <1>1, <2>1, <2>2
       DEF PoolInv, TypeOK, Calling, Running, ThreadsAreCounted, ArraysAreCounted, Pieces
  <2>4. ClaimsAreAccounted'
    BY <1>1, <2>1, <2>2 DEF PoolInv, ClaimsAreAccounted, Running
  <2> QED BY <2>3, <2>4 DEF PoolInv
<1> QED BY <1>2, <1>3

(* What the caller does once the job has ended, and a wish for cancellation.   *)
LEMMA EndedSafe ==
  ASSUME PoolInv, EndStep \/ EndSum
  PROVE  PoolInv'
<1>1. /\ caller = "ended" /\ caller' = "idle"
      /\ UNCHANGED <<configured, workers, created, scratch, stats, thread, part, seen, rt, call>>
  BY DEF EndStep, EndSum, pool
<1>2. Live' = Live /\ Busy' = Busy
  BY <1>1, SameThreads
<1>3. TypeOK' /\ ThreadsAreCounted' /\ ArraysAreCounted'
  BY <1>1, <1>2 DEF PoolInv, TypeOK, ThreadsAreCounted, ArraysAreCounted, Pieces
<1>4. ClaimsAreAccounted'
  BY <1>1, <1>2 DEF PoolInv, ClaimsAreAccounted, Running
<1> QED BY <1>3, <1>4 DEF PoolInv

LEMMA CancelNextSafe ==
  ASSUME PoolInv, CancelNext
  PROVE  PoolInv'
<1>1. /\ rt' = [rt EXCEPT !.cancel = TRUE]
      /\ UNCHANGED <<configured, workers, created, scratch, stats, thread, part, seen, call, caller>>
  BY DEF CancelNext, pool, job
<1>2. Live' = Live /\ Busy' = Busy
  BY <1>1, SameThreads
<1>3. /\ rt' \in Runtimes /\ rt'.active = rt.active /\ rt'.count = rt.count /\ rt'.next = rt.next
      /\ rt'.claimed = rt.claimed /\ rt'.completed = rt.completed
      /\ rt'.generation = rt.generation
  BY <1>1 DEF PoolInv, TypeOK, Runtimes
<1>4. TypeOK' /\ ThreadsAreCounted' /\ ArraysAreCounted'
  BY <1>1, <1>2, <1>3 DEF PoolInv, TypeOK, ThreadsAreCounted, ArraysAreCounted, Pieces
<1>5. ClaimsAreAccounted'
  BY <1>1, <1>2, <1>3 DEF PoolInv, ClaimsAreAccounted
<1> QED BY <1>4, <1>5 DEF PoolInv

-----------------------------------------------------------------------------
(* The worker threads.                                                        *)

(* A thread that neither begins nor ends work only moves.                      *)
LEMMA MovingSafe ==
  ASSUME PoolInv, NEW w \in ThreadIds, Exit(w) \/ Sleep(w) \/ Work(w)
  PROVE  PoolInv'
<1> USE DEF PoolInv
<1>1. /\ UNCHANGED <<configured, workers, created, scratch, stats, part, seen, rt, call, caller>>
      /\ thread[w] \notin {"unborn", "joined"}
      /\ \E to \in {"exited", "waiting", "reporting"} :
           /\ thread' = [thread EXCEPT ![w] = to]
           /\ thread[w] \in {"working", "reporting"} <=> to \in {"working", "reporting"}
  BY DEF Exit, Sleep, Work, Execute, pool, job
<1>2. Live' = Live /\ Busy' = Busy
  BY <1>1 DEF Live, Busy, TypeOK
<1>3. \A v \in ThreadIds : thread[v] = "unborn" => thread'[v] = "unborn"
  BY <1>1 DEF TypeOK
<1>4. TypeOK'
  BY <1>1 DEF TypeOK
<1>5. ThreadsAreCounted' /\ ArraysAreCounted'
  BY <1>1, <1>2, <1>3 DEF ThreadsAreCounted, ArraysAreCounted, Pieces
<1>6. ClaimsAreAccounted'
  BY <1>1, <1>2 DEF ClaimsAreAccounted
<1> QED BY <1>4, <1>5, <1>6

(* The critical section of a worker that has counted what it did: it claims    *)
(* the next partition, or finds none and waits.                               *)
LEMMA ClaimOrWaitSafe ==
  ASSUME PoolInv, NEW w \in ThreadIds, thread[w] \in {"ready", "reporting"},
         caller \in Running, NEW r \in Runtimes,
         r.active, r.count = rt.count, r.generation = rt.generation,
         r.next = rt.next, r.claimed = rt.claimed,
         r.completed >= 0, r.completed + Cardinality(Busy \ {w}) = r.claimed,
         seen' \in [ThreadIds -> Int], seen'[w] = rt.generation,
         \A v \in ThreadIds \ {w} : seen'[v] = seen[v],
         NEW signalled, ClaimOrWait(w, r, signalled),
         UNCHANGED <<configured, workers, created, scratch, stats, call>>
  PROVE  PoolInv'
<1> USE DEF PoolInv
<1>1. /\ caller' \in Running /\ rt.active
      /\ r.next = r.claimed /\ r.next <= r.count
      /\ r.count = PartitionCount(call.length, call.width)
      /\ r.next \in Int /\ r.claimed \in Int /\ r.completed \in Int /\ r.count \in Int
      /\ r.generation \in Int
  BY DEF ClaimOrWait, Running, ClaimsAreAccounted, TypeOK, Runtimes
<1>2. /\ IsFiniteSet(Busy \ {w}) /\ Cardinality(Busy \ {w}) \in Nat
      /\ Cardinality((Busy \ {w}) \cup {w}) = Cardinality(Busy \ {w}) + 1
  BY ThreadsAreFinite, FS_AddElement DEF Busy
<1>3. \A v \in Busy \ {w} :
        /\ v # w /\ part[v] \in 0 .. r.next - 1 /\ seen'[v] = r.generation
        /\ \A u \in Busy \ {w} : u # v => part[u] # part[v]
  BY DEF ClaimsAreAccounted, Busy
<1>4. \A v \in ThreadIds \ (Busy \cup {w}) : part[v] = None
  BY DEF ClaimsAreAccounted
<1>5. CASE ~r.stop /\ r.next < r.count
  <2>1. /\ part' = [part EXCEPT ![w] = r.next] /\ thread' = [thread EXCEPT ![w] = "working"]
        /\ rt' = [r EXCEPT !.next = @ + 1, !.claimed = @ + 1]
    BY <1>5 DEF ClaimOrWait
  <2>2. Live' = Live /\ Busy' = (Busy \ {w}) \cup {w}
    BY <2>1 DEF Live, Busy, TypeOK
  <2>3. /\ rt' \in Runtimes /\ rt'.active /\ rt'.count = r.count
        /\ rt'.next = r.next + 1 /\ rt'.claimed = r.claimed + 1
        /\ rt'.completed = r.completed /\ rt'.generation = r.generation
    <3>1. \A x, y \in Int :
            LET q == [r EXCEPT !.next = x, !.claimed = y]
            IN  /\ q \in Runtimes /\ q.active /\ q.count = r.count /\ q.next = x
                /\ q.claimed = y /\ q.completed = r.completed /\ q.generation = r.generation
      BY DEF Runtimes
    <3>2. r.next + 1 \in Int /\ r.claimed + 1 \in Int
      BY <1>1
    <3> QED BY <2>1, <3>1, <3>2
  <2>4. TypeOK'
    BY <1>1, <2>1, <2>3 DEF TypeOK, Running, Calling
  <2>5. ThreadsAreCounted' /\ ArraysAreCounted'
    BY <1>1, <2>1, <2>2, ThreadsAreFinite
       DEF ThreadsAreCounted, ArraysAreCounted, Pieces, Running, TypeOK
  <2>6. part'[w] = r.next /\ \A v \in ThreadIds \ {w} : part'[v] = part[v]
    BY <2>1 DEF TypeOK
  <2>7. \A v \in Busy' :
          /\ part'[v] \in 0 .. rt'.next - 1 /\ seen'[v] = rt'.generation
          /\ \A u \in Busy' \ {v} : part'[u] # part'[v]
    <3>1. r.next >= 0
      BY <1>1, <1>2
    <3> QED BY <1>1, <1>3, <2>2, <2>3, <2>6, <3>1 DEF Busy
  <2>8. ClaimsAreAccounted'
    BY <1>1, <1>2, <1>4, <1>5, <2>2, <2>3, <2>6, <2>7 DEF ClaimsAreAccounted, Running
  <2> QED BY <2>4, <2>5, <2>8
<1>6. CASE ~(~r.stop /\ r.next < r.count)
  <2>1. /\ part' = [part EXCEPT ![w] = None] /\ thread' = [thread EXCEPT ![w] = "waiting"]
        /\ rt' = r
    BY <1>6 DEF ClaimOrWait
  <2>2. Live' = Live /\ Busy' = Busy \ {w}
    BY <2>1 DEF Live, Busy, TypeOK
  <2>3. TypeOK'
    BY <1>1, <2>1 DEF TypeOK, Running, Calling, None
  <2>4. ThreadsAreCounted' /\ ArraysAreCounted'
    BY <1>1, <2>1, <2>2, ThreadsAreFinite
       DEF ThreadsAreCounted, ArraysAreCounted, Pieces, Running, TypeOK
  <2>5. part'[w] = None /\ \A v \in ThreadIds \ {w} : part'[v] = part[v]
    BY <2>1 DEF TypeOK
  <2>6. \A v \in Busy' :
          /\ part'[v] \in 0 .. rt'.next - 1 /\ seen'[v] = rt'.generation
          /\ \A u \in Busy' \ {v} : part'[u] # part'[v]
    BY <1>3, <2>1, <2>2, <2>5 DEF Busy
  <2>7. \A v \in ThreadIds \ Busy' : part'[v] = None
    BY <1>4, <2>2, <2>5
  <2>8. ClaimsAreAccounted'
    BY <1>1, <1>2, <2>1, <2>2, <2>6, <2>7 DEF ClaimsAreAccounted, Running
  <2> QED BY <2>3, <2>4, <2>8
<1> QED BY <1>5, <1>6

LEMMA EnterSafe ==
  ASSUME PoolInv, NEW w \in ThreadIds, Enter(w)
  PROVE  PoolInv'
<1> USE DEF PoolInv
<1>1. /\ thread[w] = "ready" /\ rt.active /\ seen' = [seen EXCEPT ![w] = rt.generation]
      /\ ClaimOrWait(w, rt, FALSE)
      /\ UNCHANGED <<configured, workers, created, scratch, stats, call>>
  BY DEF Enter, pool, job
<1>2. caller \in Running
  BY <1>1, AloneIsIdle DEF ClaimsAreAccounted
<1>3. Busy \ {w} = Busy
  BY <1>1 DEF Busy
<1>4. /\ rt \in Runtimes /\ rt.generation \in Int
      /\ seen' \in [ThreadIds -> Int] /\ seen'[w] = rt.generation
      /\ \A v \in ThreadIds \ {w} : seen'[v] = seen[v]
  BY <1>1 DEF TypeOK, Runtimes
<1>5. /\ rt.next = rt.claimed /\ rt.completed >= 0
      /\ rt.completed + Cardinality(Busy \ {w}) = rt.claimed
  BY <1>2, <1>3 DEF ClaimsAreAccounted
<1> QED BY <1>1, <1>2, <1>4, <1>5, ClaimOrWaitSafe

LEMMA FinishSafe ==
  ASSUME PoolInv, NEW w \in ThreadIds, Finish(w)
  PROVE  PoolInv'
<1> USE DEF PoolInv
<1> DEFINE r == Recorded(rt, part[w])
<1>1. /\ thread[w] = "reporting" /\ ClaimOrWait(w, r, JobDone(r))
      /\ UNCHANGED <<configured, workers, created, scratch, stats, seen, call>>
  BY DEF Finish, pool, job
<1>2. w \in Busy /\ caller \in Running /\ rt.active /\ seen[w] = rt.generation
  BY <1>1 DEF Busy, ClaimsAreAccounted
<1>3. rt \in Runtimes /\ part[w] \in Int /\ seen \in [ThreadIds -> Int]
  BY DEF TypeOK
<1>4. /\ r \in Runtimes /\ r.completed = rt.completed + 1
      /\ r.active = rt.active /\ r.count = rt.count /\ r.next = rt.next
      /\ r.claimed = rt.claimed /\ r.generation = rt.generation
  BY <1>3, RecordingCounts
<1> DEFINE signalled == JobDone(r)
<1> HIDE DEF r, signalled
<1>5. Cardinality(Busy \ {w}) = Cardinality(Busy) - 1 /\ Cardinality(Busy) \in Nat
  BY <1>2, ThreadsAreFinite, FS_RemoveElement DEF Busy
<1>6. /\ rt.completed >= 0 /\ rt.completed \in Int /\ rt.claimed \in Int
      /\ rt.completed + Cardinality(Busy) = rt.claimed
  BY <1>2, <1>3 DEF ClaimsAreAccounted, Runtimes
<1>7. r.completed >= 0 /\ r.completed + Cardinality(Busy \ {w}) = r.claimed
  BY <1>4, <1>5, <1>6
<1>8. ClaimOrWait(w, r, signalled)
  BY <1>1 DEF signalled
<1> QED BY <1>1, <1>2, <1>3, <1>4, <1>7, <1>8, ClaimOrWaitSafe

-----------------------------------------------------------------------------
LEMMA PoolInvStep == PoolInv /\ [Next]_vars => PoolInv'
<1> SUFFICES ASSUME PoolInv, [Next]_vars PROVE PoolInv'
  OBVIOUS
<1>1. CASE UNCHANGED vars
  <2>1. UNCHANGED <<configured, workers, created, thread, part, seen, rt, scratch, stats,
                    caller, call>>
    BY <1>1 DEF vars
  <2>2. Live' = Live /\ Busy' = Busy
    BY <2>1, SameThreads
  <2> QED BY <2>1, <2>2
          DEF PoolInv, TypeOK, ThreadsAreCounted, ArraysAreCounted, ClaimsAreAccounted, Pieces
<1>2. ASSUME NEW n \in WorkerCounts, Configure(n) PROVE PoolInv'
  BY <1>2, ConfigureSafe
<1>3. ASSUME NEW c \in Calls, BeginCall(c) PROVE PoolInv'
  BY <1>3, BeginCallSafe
<1>4. CASE BeginCreate \/ CreateFails \/ BeginDestroy \/ CancelNext
  BY <1>4, BeginCreateSafe, ShutdownSafe, CancelNextSafe
<1>5. CASE InCall
  BY <1>5, RunCancelledSafe, RunJobSafe, RunSingleSafe, RecheckSafe, EndedSafe,
     CreateThreadSafe, JoinThreadSafe, EndDestroySafe DEF InCall
<1>6. ASSUME NEW w \in ThreadIds, Worker(w) PROVE PoolInv'
  BY <1>6, MovingSafe, EnterSafe, FinishSafe DEF Worker
<1> QED BY <1>1, <1>2, <1>3, <1>4, <1>5, <1>6 DEF Next

LEMMA PoolInvSafe == PoolInv => KernelsAreSafe
<1> SUFFICES ASSUME PoolInv PROVE KernelsAreSafe
  OBVIOUS
<1> USE DEF PoolInv
<1>1. KernelsAreConfined
  <2> SUFFICES ASSUME NEW w \in ThreadIds, thread[w] \in {"working", "reporting"}
               PROVE  /\ caller \in {"asleep", "awake"} /\ rt.active
                      /\ part[w] \in Cells(PartitionCount(call.length, call.width))
                      /\ seen[w] = rt.generation
                      /\ \A v \in ThreadIds \ {w} : part[v] # part[w]
    BY DEF KernelsAreConfined
  <2>1. /\ w \in Busy /\ caller \in Running /\ rt.active
        /\ rt.count = PartitionCount(call.length, call.width) /\ rt.next <= rt.count
        /\ part[w] \in 0 .. rt.next - 1 /\ seen[w] = rt.generation
    BY DEF Busy, ClaimsAreAccounted
  <2>2. rt.next \in Int /\ rt.count \in Int
    BY DEF TypeOK, Runtimes
  <2>3. part[w] \in Cells(PartitionCount(call.length, call.width))
    BY <2>1, <2>2 DEF Cells
  <2>4. ASSUME NEW v \in ThreadIds \ {w} PROVE part[v] # part[w]
    BY <2>1, <2>2 DEF ClaimsAreAccounted, None
  <2> QED BY <2>1, <2>3, <2>4 DEF Running
<1>2. WindowIsHalo
  BY WindowsAreHalos DEF WindowIsHalo, TypeOK
<1>3. NothingLeaks
  <2>1. ASSUME caller = "none"
        PROVE  /\ \A w \in ThreadIds : thread[w] \in {"unborn", "joined"}
               /\ stats = [threads |-> 0, arrays |-> 0]
    <3>1. Live = {} /\ stats.threads = 0
      BY <2>1, FS_EmptySet DEF ThreadsAreCounted
    <3>2. stats.arrays = 0
      BY <2>1 DEF ArraysAreCounted, Pieces
    <3> QED BY <3>1, <3>2 DEF Live, TypeOK
  <2> QED BY <2>1 DEF NothingLeaks, ArraysAreCounted
<1> QED BY <1>1, <1>2, <1>3 DEF KernelsAreSafe

(* For any pool and any call, a kernel runs only within the call it was woken  *)
(* for, on a partition of its own and within its halo, and every thread and   *)
(* array is given back.                                                       *)
THEOREM PoolIsSafe == Spec => []KernelsAreSafe
BY PoolInvInit, PoolInvStep, PoolInvSafe, PTL DEF Spec

-----------------------------------------------------------------------------
(* What a call has covered it has written, in scratch storage that is large    *)
(* enough: what an earlier call left there is under no covered index.         *)
CellsAreFresh ==
  /\ DOMAIN shadow = Cells(scratch.elements)
  /\ DOMAIN target \subseteq Cells(call.length)
  /\ caller \in Calling /\ call.kind = "step" =>
       /\ call.length <= scratch.elements
       /\ \A i \in coverage \cap DOMAIN shadow : shadow[i] = ThisJob

StepInv == PoolInv /\ CellsAreFresh /\ StepIsTransactional

(* Most steps touch no cell and neither begin a call nor end one.             *)
LEMMA CellsKept ==
  ASSUME CellsAreFresh, StepIsTransactional,
         UNCHANGED <<scratch, call, target, shadow, coverage, budget.calls>>,
         \/ caller \in Calling /\ caller' \in Calling
         \/ caller \notin Calling /\ caller' \notin Calling /\ Settled /\ Settled' /\ UNCHANGED report
  PROVE  CellsAreFresh' /\ StepIsTransactional'
<1>1. CellsAreFresh'
  BY DEF CellsAreFresh, ThisJob
<1>2. Settled' = Settled
  BY DEF Settled, Calling, Running
<1>3. StepIsTransactional'
  BY <1>2 DEF StepIsTransactional, ThisJob, Settled, Calling, Running
<1> QED BY <1>1, <1>3

LEMMA SettledSteps ==
  ASSUME CellsAreFresh, StepIsTransactional,
         \/ \E n \in WorkerCounts : Configure(n)
         \/ CreateThread \/ BeginDestroy \/ JoinThread
  PROVE  CellsAreFresh' /\ StepIsTransactional'
<1>1. /\ UNCHANGED <<scratch, call, target, shadow, coverage, budget.calls, report>>
      /\ caller \in {"none", "creating", "idle", "destroying"}
      /\ caller' \in {"none", "creating", "idle", "destroying"}
  BY DEF Configure, CreateThread, BeginDestroy, Shutdown, JoinThread, job, pool
<1> QED BY <1>1, CellsKept DEF Settled, Calling, Running

LEMMA CallingSteps ==
  ASSUME CellsAreFresh, StepIsTransactional, RunCancelled \/ RunJob \/ Recheck
  PROVE  CellsAreFresh' /\ StepIsTransactional'
<1>1. /\ UNCHANGED <<scratch, call, target, shadow, coverage, budget.calls>>
      /\ caller \in Calling /\ caller' \in Calling
  BY DEF RunCancelled, RunJob, Recheck, EndRun, job, pool, Calling, Running
<1> QED BY <1>1, CellsKept

LEMMA WorkerSteps ==
  ASSUME PoolInv, CellsAreFresh, StepIsTransactional, NEW w \in ThreadIds,
         Exit(w) \/ Sleep(w) \/ Enter(w) \/ Finish(w) \/ CancelNext
  PROVE  CellsAreFresh' /\ StepIsTransactional'
<1>1. UNCHANGED <<scratch, call, target, shadow, coverage, budget.calls, report>>
  <2>1. budget' = [budget EXCEPT !.cancels = @ - 1] => budget'.calls = budget.calls
    OBVIOUS
  <2> QED BY <2>1 DEF Exit, Sleep, Enter, Finish, CancelNext, job, pool
<1>2. caller' = caller \/ (caller = "asleep" /\ caller' = "awake")
  BY DEF Exit, Sleep, Enter, Finish, ClaimOrWait, CancelNext
<1>3. caller \in {"none", "creating", "idle", "destroying"} \cup Calling
  BY DEF PoolInv, TypeOK
<1> QED BY <1>1, <1>2, <1>3, CellsKept DEF Settled, Calling, Running

(* A new runtime has no scratch storage; nor has an old one that is gone.      *)
LEMMA NewScratch ==
  ASSUME PoolInv, CellsAreFresh, StepIsTransactional, BeginCreate \/ CreateFails \/ EndDestroy
  PROVE  CellsAreFresh' /\ StepIsTransactional'
<1>1. CASE BeginCreate
  <2>1. /\ UNCHANGED <<scratch, call, target, shadow, coverage, budget.calls, report>>
        /\ caller = "none" /\ caller' \in {"idle", "creating"}
    <3>1. budget' = [budget EXCEPT !.pools = @ - 1] => budget'.calls = budget.calls
      OBVIOUS
    <3> QED BY <1>1, <3>1 DEF BeginCreate, job, PoolInv, ArraysAreCounted
  <2> QED BY <2>1, CellsKept DEF Settled, Calling, Running
<1>2. CASE CreateFails
  <2>1. /\ UNCHANGED <<scratch, shadow>> /\ call' = NoCall /\ target' = <<>>
        /\ caller' = "destroying"
    BY <1>2 DEF CreateFails, Shutdown, pool
  <2>2. DOMAIN target' = {}
    BY <2>1
  <2> QED BY <2>1, <2>2 DEF CellsAreFresh, StepIsTransactional, Calling, Running
<1>3. CASE EndDestroy
  <2>1. /\ UNCHANGED <<call, target, budget, report>> /\ scratch'.elements = 0 /\ shadow' = <<>>
        /\ caller = "destroying" /\ caller' = "none"
    BY <1>3 DEF EndDestroy
  <2>2. DOMAIN shadow' = Cells(scratch'.elements)
    BY <2>1 DEF Cells
  <2> QED BY <2>1, <2>2
          DEF CellsAreFresh, StepIsTransactional, ThisJob, Settled, Calling, Running
<1> QED BY <1>1, <1>2, <1>3

(* A call begins with nothing covered and nothing written.                    *)
LEMMA CellsOfCall ==
  ASSUME PoolInv, CellsAreFresh, NEW c \in Calls, BeginCall(c)
  PROVE  CellsAreFresh' /\ StepIsTransactional'
<1> DEFINE partitions == PartitionCount(c.length, c.width)
           elements == IF c.kind = "step" THEN c.length ELSE 0
<1>1. /\ call' = c /\ target' = [i \in Cells(c.length) |-> Unwritten]
      /\ \/ Grow(elements, partitions) /\ coverage' = {} /\ caller' = "called"
         \/ /\ UNCHANGED <<scratch, shadow>> /\ caller' = "idle"
            /\ report' = Report("invalid", 0, None)
  BY DEF BeginCall, GrowthFails
<1>2. c \in Arguments /\ elements \in Nat /\ partitions \in Nat
  <2>1. c \in Arguments
    BY CallsAreTyped
  <2>2. c.length \in Nat /\ c.width \in Nat \ {0}
    BY <2>1 DEF Arguments
  <2>3. \A x \in Nat, n \in Nat \ {0} : x \div n \in Nat
    OBVIOUS
  <2>4. PartitionCount(c.length, c.width) \in Nat
    BY <2>2, <2>3 DEF PartitionCount
  <2> QED BY <2>1, <2>2, <2>4
<1>3. CASE caller' = "called"
  <2>1. Grow(elements, partitions) /\ coverage' = {}
    BY <1>1, <1>3
  <2>2. c.kind = "step" => elements = c.length
    OBVIOUS
  <2> HIDE DEF elements, partitions
  <2>3. /\ scratch'.elements >= elements
        /\ DOMAIN shadow' = IF elements > scratch.elements THEN Cells(elements) ELSE DOMAIN shadow
    BY <1>2, <2>1, GrowthIsCounted
  <2>4. scratch'.elements = IF elements > scratch.elements THEN elements ELSE scratch.elements
    <3>1. scratch.elements \in Nat
      BY DEF PoolInv, TypeOK
    <3>2. scratch'.elements = MaxOf({elements, scratch.elements})
      BY <2>1 DEF Grow, GrownScratch
    <3>3. MaxOf({elements, scratch.elements})
            = IF elements >= scratch.elements THEN elements ELSE scratch.elements
      BY <1>2, <3>1, LargerOfTwo
    <3> QED BY <1>2, <3>1, <3>2, <3>3
  <2>5. DOMAIN shadow' = Cells(scratch'.elements)
    BY <2>3, <2>4 DEF CellsAreFresh
  <2>6. CellsAreFresh'
    BY <1>1, <2>1, <2>2, <2>3, <2>5 DEF CellsAreFresh
  <2>7. StepIsTransactional'
    BY <1>1, <1>3 DEF StepIsTransactional, Settled
  <2> QED BY <2>6, <2>7
<1>4. CASE caller' # "called"
  <2>1. CellsAreFresh'
    BY <1>1, <1>4 DEF CellsAreFresh, Calling, Running
  <2>2. StepIsTransactional'
    BY <1>1, <1>4 DEF StepIsTransactional, Report
  <2> QED BY <2>1, <2>2
<1> QED BY <1>3, <1>4

(* A kernel covers what it writes.                                            *)
LEMMA CellsOfKernel ==
  ASSUME CellsAreFresh, StepIsTransactional, NEW p, Execute(p),
         UNCHANGED <<scratch, budget>>, caller \in Calling, caller' \in Calling
  PROVE  CellsAreFresh' /\ StepIsTransactional'
<1>1. UNCHANGED <<call, target>> /\ ThisJob' = ThisJob
  BY DEF Execute, ThisJob
<1>2. PICK written :
        /\ shadow' = [i \in DOMAIN shadow |-> IF i \in written THEN ThisJob ELSE shadow[i]]
        /\ coverage' = coverage \cup written
  BY DEF Execute
<1>3. CellsAreFresh'
  BY <1>1, <1>2 DEF CellsAreFresh
<1>4. StepIsTransactional'
  BY <1>1 DEF StepIsTransactional, Settled, Calling, Running
<1> QED BY <1>3, <1>4

(* The shadow is copied out only with every index of the buffer covered.       *)
LEMMA CellsOfEnd ==
  ASSUME PoolInv, CellsAreFresh, StepIsTransactional, EndStep \/ EndSum
  PROVE  CellsAreFresh' /\ StepIsTransactional'
<1>1. CASE EndSum
  <2>1. /\ call.kind = "sum" /\ caller' = "idle"
        /\ UNCHANGED <<scratch, call, target, shadow>>
    BY <1>1 DEF EndSum, pool
  <2> QED BY <2>1 DEF CellsAreFresh, StepIsTransactional, Calling, Running
<1>2. CASE EndStep
  <2>1. /\ caller = "ended" /\ caller' = "idle" /\ call.kind = "step"
        /\ UNCHANGED <<scratch, call, shadow, coverage, budget>>
    BY <1>2 DEF EndStep, pool
  <2>2. CellsAreFresh'
    <3>1. target' = target \/ target' = [i \in Cells(call.length) |-> shadow[i]]
      BY <1>2 DEF EndStep
    <3> QED BY <2>1, <3>1 DEF CellsAreFresh, Calling, Running
  <2>3. \A i \in DOMAIN target : target[i] = Unwritten
    BY <2>1 DEF StepIsTransactional, Settled
  <2>4. ThisJob' = ThisJob /\ Settled'
    BY <2>1 DEF ThisJob, Settled
  <2>5. CASE report.outcome # "ok"
    <3>1. target' = target /\ report' = report
      BY <1>2, <2>5 DEF EndStep
    <3> QED BY <2>2, <2>3, <2>5, <3>1 DEF StepIsTransactional
  <2>6. CASE report.outcome = "ok" /\ Uncovered(call) # {}
    <3>1. target' = target /\ report'.outcome # "ok"
      BY <1>2, <2>6 DEF EndStep, Report
    <3> QED BY <2>2, <2>3, <3>1 DEF StepIsTransactional
  <2>7. CASE report.outcome = "ok" /\ Uncovered(call) = {}
    <3>1. target' = [i \in Cells(call.length) |-> shadow[i]] /\ report' = report
      BY <1>2, <2>7 DEF EndStep
    <3>2. Cells(call.length) \subseteq coverage
      BY <2>7 DEF Uncovered
    <3>3. \A i \in Cells(call.length) : shadow[i] = ThisJob
      <4>1. Cells(call.length) \subseteq DOMAIN shadow
        <5>1. call.length \in Nat /\ scratch.elements \in Nat
          BY DEF PoolInv, TypeOK, Arguments
        <5>2. call.length <= scratch.elements /\ DOMAIN shadow = Cells(scratch.elements)
          BY <2>1 DEF CellsAreFresh, Calling
        <5> QED BY <5>1, <5>2 DEF Cells
      <4> QED BY <2>1, <3>2, <4>1 DEF CellsAreFresh, Calling
    <3> QED BY <2>2, <2>4, <2>7, <3>1, <3>3 DEF StepIsTransactional
  <2> QED BY <2>5, <2>6, <2>7
<1> QED BY <1>1, <1>2

LEMMA StepInvStep == StepInv /\ [Next]_vars => StepInv'
<1> SUFFICES ASSUME StepInv, [Next]_vars PROVE CellsAreFresh' /\ StepIsTransactional'
  BY PoolInvStep DEF StepInv
<1> USE DEF StepInv
<1>1. CASE UNCHANGED vars
  BY <1>1 DEF vars, CellsAreFresh, StepIsTransactional, ThisJob, Settled
<1>2. ASSUME NEW n \in WorkerCounts, Configure(n) PROVE CellsAreFresh' /\ StepIsTransactional'
  BY <1>2, SettledSteps
<1>3. ASSUME NEW c \in Calls, BeginCall(c) PROVE CellsAreFresh' /\ StepIsTransactional'
  BY <1>3, CellsOfCall
<1>4. CASE BeginCreate \/ CreateFails \/ BeginDestroy
  BY <1>4, NewScratch, SettledSteps
<1>5. CASE InCall /\ ~RunSingle
  BY <1>5, CallingSteps, CellsOfEnd, SettledSteps, NewScratch DEF InCall
<1>6. CASE RunSingle
  <2>1. /\ Execute(rt.completed) /\ UNCHANGED <<scratch, budget>>
        /\ caller = "single" /\ caller' \in {"single", "ended"}
    BY <1>6 DEF RunSingle, EndRun, pool
  <2> QED BY <2>1, CellsOfKernel DEF Calling
<1>7. ASSUME NEW w \in ThreadIds, Work(w) PROVE CellsAreFresh' /\ StepIsTransactional'
  <2>1. /\ Execute(part[w]) /\ UNCHANGED <<scratch, budget, caller>> /\ w \in Busy
    BY <1>7 DEF Work, Busy, pool
  <2>2. caller \in Calling
    BY <2>1 DEF PoolInv, ClaimsAreAccounted, Calling
  <2> QED BY <2>1, <2>2, CellsOfKernel
<1>8. ASSUME NEW w \in ThreadIds, Worker(w), ~Work(w)
      PROVE  CellsAreFresh' /\ StepIsTransactional'
  BY <1>8, WorkerSteps DEF Worker
<1>9. CASE CancelNext
  <2>1. 0 \in ThreadIds
    BY ThreadsAreFinite
  <2> QED BY <1>9, <2>1, WorkerSteps
<1> QED BY <1>1, <1>2, <1>3, <1>4, <1>5, <1>6, <1>7, <1>8, <1>9 DEF Next

(* For any pool, a tiled step changes the buffer of its caller as a whole and  *)
(* only with a report of success, and never hands on a cell of an earlier call.*)
THEOREM StepsAreTransactions == Spec => []StepIsTransactional
<1>1. Init => StepInv
  BY PoolInvInit
     DEF Init, StepInv, CellsAreFresh, StepIsTransactional, Calling, Running, Cells, NoCall
<1>2. StepInv => StepIsTransactional
  BY DEF StepInv
<1> QED BY <1>1, <1>2, StepInvStep, PTL DEF Spec

-----------------------------------------------------------------------------
(* What a sum adds up.                                                         *)

(* A set of natural numbers has a least element.                              *)
LEMMA LessIsWellFounded == IsWellFoundedOn({p \in Nat \X Nat : p[1] < p[2]}, Nat)
BY NatLessThanWellFounded DEF OpToRel

LEMMA LeastIsMember ==
  ASSUME NEW S \in SUBSET Nat, S # {}
  PROVE  MinOf(S) \in S /\ \A n \in S : MinOf(S) <= n
<1> DEFINE R == {p \in Nat \X Nat : p[1] < p[2]}
<1>1. IsWellFoundedOn(R, Nat)
  BY LessIsWellFounded
<1>2. PICK m \in S : \A n \in S : <<n, m>> \notin R
  <2> HIDE DEF R
  <2> QED BY <1>1, WFMin
<1>3. \A n \in S : m <= n
  <2> SUFFICES ASSUME NEW n \in S PROVE m <= n
    OBVIOUS
  <2>1. ~(n < m)
    BY <1>2
  <2> QED BY <2>1
<1> QED BY <1>3 DEF MinOf

(* Induction over the natural numbers, for a set.                             *)
LEMMA Induction ==
  ASSUME NEW S \in SUBSET Nat, 0 \in S, \A k \in S : k + 1 \in S
  PROVE  \A k \in Nat : k \in S
<1> SUFFICES ASSUME Nat \ S # {} PROVE FALSE
  OBVIOUS
<1> DEFINE m == MinOf(Nat \ S)
<1>1. m \in Nat \ S /\ \A k \in Nat \ S : m <= k
  BY LeastIsMember
<1> HIDE DEF m
<1>2. m - 1 \in Nat /\ ~(m <= m - 1)
  BY <1>1
<1>3. m - 1 \in S
  BY <1>1, <1>2
<1>4. (m - 1) + 1 = m
  BY <1>1
<1> QED BY <1>1, <1>3, <1>4

(* The three recursive functions of a sum, unfolded as far as m: the passes of *)
(* Reduction over the cells, and the widths and the blocks of PairTree.        *)
FirstPass(cells, n) == [cells |-> cells, active |-> n]
AfterPass(p) ==
  IF p.active <= 1 THEN p
  ELSE [cells |-> Halve(p.cells, p.active), active |-> (p.active + 1) \div 2]
ArePasses(f, cells, n, m) ==
  f = [k \in 0..m |-> IF k = 0 THEN FirstPass(cells, n) ELSE AfterPass(f[k - 1])]

AreWidths(f, m) == f = [k \in 0..m |-> IF k = 0 THEN 1 ELSE 2 * f[k - 1]]

BlocksAt(k, below, width, n) ==
  [i \in {j \in Cells(n) : j * width[k] < n} |->
     IF k = 0 THEN <<i>>
     ELSE IF (2 * i + 1) * width[k - 1] < n THEN Plus(below[2 * i], below[2 * i + 1])
     ELSE below[2 * i]]
AreBlocks(f, width, n, m) ==
  f = [k \in 0..m |-> BlocksAt(k, f[k - 1], width, n)]

LEMMA PassesExist ==
  ASSUME NEW cells, NEW n
  PROVE  \A m \in Nat : \E f : ArePasses(f, cells, n, m)
<1> DEFINE S == {m \in Nat : \E f : ArePasses(f, cells, n, m)}
<1>1. 0 \in S
  <2> DEFINE f == [k \in 0..0 |-> FirstPass(cells, n)]
  <2>1. ArePasses(f, cells, n, 0)
    BY DEF ArePasses
  <2> QED BY <2>1
<1>2. ASSUME NEW m \in S PROVE m + 1 \in S
  <2>1. PICK f : f = [k \in 0..m |-> IF k = 0 THEN FirstPass(cells, n) ELSE AfterPass(f[k - 1])]
    BY DEF ArePasses
  <2> DEFINE g == [k \in 0..m + 1 |-> IF k = m + 1 THEN AfterPass(f[m]) ELSE f[k]]
  <2>2. ASSUME NEW k \in 0..m + 1
        PROVE  g[k] = IF k = 0 THEN FirstPass(cells, n) ELSE AfterPass(g[k - 1])
    BY <2>1
  <2>3. g = [k \in 0..m + 1 |-> IF k = 0 THEN FirstPass(cells, n) ELSE AfterPass(g[k - 1])]
    BY <2>2
  <2>4. ArePasses(g, cells, n, m + 1)
    BY <2>3, Zenon DEF ArePasses
  <2> QED BY <2>4
<1> HIDE DEF S
<1>3. \A m \in Nat : m \in S
  BY <1>1, <1>2, Induction DEF S
<1> QED BY <1>3 DEF S

LEMMA WidthsExist == \A m \in Nat : \E f : AreWidths(f, m)
<1> DEFINE S == {m \in Nat : \E f : AreWidths(f, m)}
<1>1. 0 \in S
  <2> DEFINE f == [k \in 0..0 |-> 1]
  <2>1. AreWidths(f, 0)
    BY DEF AreWidths
  <2> QED BY <2>1
<1>2. ASSUME NEW m \in S PROVE m + 1 \in S
  <2>1. PICK f : f = [k \in 0..m |-> IF k = 0 THEN 1 ELSE 2 * f[k - 1]]
    BY DEF AreWidths
  <2> DEFINE g == [k \in 0..m + 1 |-> IF k = m + 1 THEN 2 * f[m] ELSE f[k]]
  <2>2. ASSUME NEW k \in 0..m + 1 PROVE g[k] = IF k = 0 THEN 1 ELSE 2 * g[k - 1]
    BY <2>1
  <2>3. g = [k \in 0..m + 1 |-> IF k = 0 THEN 1 ELSE 2 * g[k - 1]]
    BY <2>2
  <2>4. AreWidths(g, m + 1)
    BY <2>3, Zenon DEF AreWidths
  <2> QED BY <2>4
<1> HIDE DEF S
<1>3. \A m \in Nat : m \in S
  BY <1>1, <1>2, Induction DEF S
<1> QED BY <1>3 DEF S

LEMMA BlocksExist ==
  ASSUME NEW width, NEW n
  PROVE  \A m \in Nat : \E f : AreBlocks(f, width, n, m)
<1> DEFINE S == {m \in Nat : \E f : AreBlocks(f, width, n, m)}
<1>0. \A below, more : BlocksAt(0, below, width, n) = BlocksAt(0, more, width, n)
  BY DEF BlocksAt
<1>1. 0 \in S
  <2> DEFINE f == [k \in 0..0 |-> BlocksAt(0, <<>>, width, n)]
  <2>1. f = [k \in 0..0 |-> BlocksAt(k, f[k - 1], width, n)]
    BY <1>0
  <2>2. AreBlocks(f, width, n, 0)
    BY <2>1, Zenon DEF AreBlocks
  <2> QED BY <2>2
<1>2. ASSUME NEW m \in S PROVE m + 1 \in S
  <2>1. PICK f : f = [k \in 0..m |-> BlocksAt(k, f[k - 1], width, n)]
    BY DEF AreBlocks
  <2> DEFINE g == [k \in 0..m + 1 |-> IF k = m + 1 THEN BlocksAt(m + 1, f[m], width, n) ELSE f[k]]
  <2>2. ASSUME NEW k \in 0..m + 1 PROVE g[k] = BlocksAt(k, g[k - 1], width, n)
    BY <1>0, <2>1
  <2>3. g = [k \in 0..m + 1 |-> BlocksAt(k, g[k - 1], width, n)]
    BY <2>2
  <2>4. AreBlocks(g, width, n, m + 1)
    BY <2>3, Zenon DEF AreBlocks
  <2> QED BY <2>4
<1> HIDE DEF S
<1>3. \A m \in Nat : m \in S
  BY <1>1, <1>2, Induction DEF S
<1> QED BY <1>3 DEF S

(* The passes and the blocks that the two definitions choose.                  *)
LEMMA ReductionUnfolds ==
  ASSUME NEW cells, NEW n \in Nat
  PROVE  \E f : ArePasses(f, cells, n, n) /\ Reduction(cells, n) = f[n].cells
<1> DEFINE f == CHOOSE g : ArePasses(g, cells, n, n)
<1>1. ArePasses(f, cells, n, n)
  BY PassesExist
<1>2. Reduction(cells, n) = f[n].cells
  BY DEF Reduction, ArePasses, FirstPass, AfterPass
<1> QED BY <1>1, <1>2

LEMMA PairTreeUnfolds ==
  ASSUME NEW n \in Nat
  PROVE  \E w, f : AreWidths(w, n) /\ AreBlocks(f, w, n, n) /\ PairTree(n) = f[n][0]
<1> DEFINE w == CHOOSE g : AreWidths(g, n)
           f == CHOOSE g : AreBlocks(g, w, n, n)
<1>1. AreWidths(w, n)
  BY WidthsExist
<1>2. AreBlocks(f, w, n, n)
  BY BlocksExist
<1>3. PairTree(n) = f[n][0]
  BY DEF PairTree, AreWidths, AreBlocks, BlocksAt
<1> QED BY <1>1, <1>2, <1>3
(* The passes keep step with the blocks: after as many of them as a block has  *)
(* levels, the active cells are the blocks of that level.                      *)
InStep(pass, width, block, n, size) ==
  /\ pass.active \in Nat \ {0} /\ pass.active <= n /\ width \in Nat \ {0}
  /\ \A i \in Nat : i < pass.active <=> i * width < n
  /\ DOMAIN pass.cells = Cells(size)
  /\ \A i \in Cells(pass.active) : pass.cells[i] = block[i]

LEMMA PassesKeepStep ==
  ASSUME NEW n \in Nat \ {0}, NEW size \in Nat, n <= size,
         NEW pass, NEW width, NEW block, InStep(pass, width, block, n, size),
         NEW above,
         above = [i \in {j \in Cells(n) : j * (2 * width) < n} |->
                    IF (2 * i + 1) * width < n THEN Plus(block[2 * i], block[2 * i + 1])
                    ELSE block[2 * i]]
  PROVE  InStep(AfterPass(pass), 2 * width, above, n, size)
<1> DEFINE a == pass.active
<1>1. /\ a \in Nat \ {0} /\ a <= n /\ width \in Nat \ {0} /\ 2 * width \in Nat \ {0}
      /\ DOMAIN pass.cells = Cells(size)
      /\ \A i \in Cells(a) : pass.cells[i] = block[i]
  BY DEF InStep
<1>2. \A i \in Nat : i < a <=> i * width < n
  BY DEF InStep
<1> HIDE DEF a
<1>3. \A i \in Nat : 2 * i < a <=> i * (2 * width) < n
  <2> TAKE i \in Nat
  <2>1. 2 * i \in Nat /\ (2 * i) * width = i * (2 * width)
    BY <1>1
  <2> QED BY <1>2, <2>1
<1>4. \A i \in Nat : 2 * i + 1 < a <=> (2 * i + 1) * width < n
  BY <1>2
<1>5. ASSUME NEW i \in Nat, 2 * i < a
      PROVE  above[i] = IF 2 * i + 1 < a THEN Plus(block[2 * i], block[2 * i + 1]) ELSE block[2 * i]
  <2>1. i \in Cells(n) /\ i * (2 * width) < n
    BY <1>1, <1>3, <1>5 DEF Cells
  <2> QED BY <1>4, <2>1
<1>6. CASE a <= 1
  <2>1. a = 1 /\ AfterPass(pass) = pass
    BY <1>1, <1>6 DEF AfterPass, a
  <2>2. \A i \in Nat : i < a <=> 2 * i < a
    BY <2>1
  <2>3. \A i \in Nat : i < a <=> i * (2 * width) < n
    BY <1>3, <2>2
  <2>4. \A i \in Cells(a) : pass.cells[i] = above[i]
    <3>1. Cells(a) = {0}
      BY <2>1 DEF Cells
    <3>2. above[0] = block[0] /\ pass.cells[0] = block[0]
      <4>1. 2 * 0 = 0 /\ 2 * 0 < a /\ ~(2 * 0 + 1 < a)
        BY <2>1
      <4> QED BY <1>1, <1>5, <3>1, <4>1
    <3> QED BY <3>1, <3>2
  <2> QED BY <1>1, <2>1, <2>3, <2>4 DEF InStep, a
<1>7. CASE ~(a <= 1)
  <2> DEFINE h == (a + 1) \div 2
  <2>1. h \in Nat \ {0} /\ h <= a /\ \A i \in Nat : i < h <=> 2 * i < a
    BY <1>1, <1>7
  <2>2. AfterPass(pass) = [cells |-> Halve(pass.cells, a), active |-> h]
    BY <1>7 DEF AfterPass, a
  <2> HIDE DEF h
  <2>3. h <= n /\ \A i \in Nat : i < h <=> i * (2 * width) < n
    BY <1>1, <1>3, <2>1
  <2>4. DOMAIN Halve(pass.cells, a) = Cells(size)
    BY <1>1 DEF Halve
  <2>5. ASSUME NEW i \in Cells(h) PROVE Halve(pass.cells, a)[i] = above[i]
    <3>1. i \in Nat /\ i < h /\ 2 * i < a /\ i \in Cells(size) /\ 2 * i \in Cells(a)
      BY <1>1, <2>1 DEF Cells
    <3>2. Halve(pass.cells, a)[i] = IF 2 * i + 1 < a THEN Plus(pass.cells[2 * i], pass.cells[2 * i + 1])
                                    ELSE pass.cells[2 * i]
      <4>1. ~(i >= (a + 1) \div 2)
        BY <1>1, <2>1, <3>1 DEF h
      <4> QED BY <1>1, <3>1, <4>1 DEF Halve
    <3>3. pass.cells[2 * i] = block[2 * i]
      BY <1>1, <3>1
    <3>4. 2 * i + 1 < a => pass.cells[2 * i + 1] = block[2 * i + 1]
      <4>1. 2 * i + 1 < a => 2 * i + 1 \in Cells(a)
        BY <1>1, <3>1 DEF Cells
      <4> QED BY <1>1, <4>1
    <3> QED BY <1>5, <3>1, <3>2, <3>3, <3>4
  <2> QED BY <1>1, <2>1, <2>2, <2>3, <2>4, <2>5 DEF InStep
<1> QED BY <1>6, <1>7

(* For every number of partials: halving the active cells in place, an odd one *)
(* carried over, brackets the sum as the tree of adjacent pairs does.          *)
LEMMA ReductionIsPairTree ==
  ASSUME NEW n \in Nat \ {0}, NEW size \in Nat, n <= size,
         NEW cells, DOMAIN cells = Cells(size), \A p \in Cells(n) : cells[p] = <<p>>
  PROVE  Reduction(cells, n)[0] = PairTree(n) /\ DOMAIN Reduction(cells, n) = Cells(size)
<1>1. PICK f : ArePasses(f, cells, n, n) /\ Reduction(cells, n) = f[n].cells
  BY ReductionUnfolds
<1>2. PICK w, b : AreWidths(w, n) /\ AreBlocks(b, w, n, n) /\ PairTree(n) = b[n][0]
  BY PairTreeUnfolds
<1>3. \A k \in 0..n : f[k] = IF k = 0 THEN FirstPass(cells, n) ELSE AfterPass(f[k - 1])
  BY <1>1 DEF ArePasses
<1>4. \A k \in 0..n : w[k] = IF k = 0 THEN 1 ELSE 2 * w[k - 1]
  BY <1>2 DEF AreWidths
<1>5. \A k \in 0..n : b[k] = BlocksAt(k, b[k - 1], w, n)
  BY <1>2 DEF AreBlocks
<1> DEFINE S == {k \in Nat : k <= n => InStep(f[k], w[k], b[k], n, size)}
<1>6. 0 \in S
  <2>1. f[0] = [cells |-> cells, active |-> n] /\ w[0] = 1 /\ b[0] = BlocksAt(0, b[0 - 1], w, n)
    BY <1>3, <1>4, <1>5 DEF FirstPass
  <2>2. b[0] = [i \in {j \in Cells(n) : j * 1 < n} |-> <<i>>]
    BY <2>1 DEF BlocksAt
  <2>3. \A i \in Cells(n) : i * 1 < n
    BY DEF Cells
  <2>4. \A i \in Cells(n) : b[0][i] = <<i>>
    BY <2>2, <2>3
  <2>5. InStep(f[0], w[0], b[0], n, size)
    BY <2>1, <2>4 DEF InStep
  <2> QED BY <2>5
<1>7. ASSUME NEW k \in S PROVE k + 1 \in S
  <2> SUFFICES ASSUME k + 1 <= n PROVE InStep(f[k + 1], w[k + 1], b[k + 1], n, size)
    OBVIOUS
  <2>1. k \in Nat /\ k + 1 \in 0..n /\ (k + 1) - 1 = k /\ k + 1 # 0
    OBVIOUS
  <2>2. InStep(f[k], w[k], b[k], n, size)
    BY <2>1
  <2> HIDE DEF S
  <2>3. f[k + 1] = AfterPass(f[k]) /\ w[k + 1] = 2 * w[k] /\ b[k + 1] = BlocksAt(k + 1, b[k], w, n)
    BY <1>3, <1>4, <1>5, <2>1
  <2>4. b[k + 1] = [i \in {j \in Cells(n) : j * (2 * w[k]) < n} |->
                      IF (2 * i + 1) * w[k] < n THEN Plus(b[k][2 * i], b[k][2 * i + 1])
                      ELSE b[k][2 * i]]
    BY <2>1, <2>3 DEF BlocksAt
  <2>5. InStep(AfterPass(f[k]), 2 * w[k], b[k + 1], n, size)
    BY <2>2, <2>4, PassesKeepStep
  <2> QED BY <2>3, <2>5
<1>8. n \in S
  <2> HIDE DEF S
  <2>1. S \in SUBSET Nat
    BY DEF S
  <2> QED BY <1>6, <1>7, <2>1, Induction
<1>9. InStep(f[n], w[n], b[n], n, size)
  BY <1>8
<1>10. 0 \in Cells(f[n].active)
  <2>1. f[n].active \in Nat \ {0}
    BY <1>9 DEF InStep
  <2> QED BY <2>1 DEF Cells
<1> QED BY <1>1, <1>2, <1>9, <1>10 DEF InStep

-----------------------------------------------------------------------------
(* What a call reports.                                                       *)

Working == {"single"} \cup Running                   \* partitions are being run
Reporting == {w \in ThreadIds : thread[w] = "reporting"}
Parts(threads) == {part[w] : w \in threads}
Count(c) == PartitionCount(c.length, c.width)

(* The partitions whose outcome is recorded, and those whose kernel has run.   *)
Judged == Cells(IF caller = "single" THEN rt.completed ELSE rt.next) \ Parts(Busy)
Executed == Judged \cup Parts(Reporting)

IsLeast(m, S) == IF S = {} THEN m = None ELSE m \in S /\ \A n \in S : m <= n

(* A runtime has recorded the lowest failure among the judged partitions, and  *)
(* stops for it.                                                              *)
Judges(c, r, judged) ==
  /\ r.stop <=> c.failing \cap judged # {}
  /\ IsLeast(r.lowest, c.failing \cap judged)

(* What is covered is what the kernels that have run were to write; what they  *)
(* have added up are their tiles.                                             *)
Covers(c, covered, cells, executed) ==
  /\ c.kind = "step" =>
       \A i \in Cells(c.length) :
         i \in covered <=> i \notin c.omitted /\ \E p \in executed \ c.failing : i \in Tile(c, p)
  /\ c.kind = "sum" => \A p \in executed : p \in DOMAIN cells /\ cells[p] = <<p>>

(* What the job hands to the end of its call.                                 *)
ReportsWell(c, covered, cells, rep) ==
  /\ rep.outcome = "ok" => /\ c.failing = {} /\ rep.failure = None /\ rep.completed = Count(c)
                           /\ Covers(c, covered, cells, Cells(Count(c)))
  /\ rep.outcome = "worker_failed" => c.failing # {} /\ IsLeast(rep.failure, c.failing)

FaultsArePossible(c) ==
  /\ c.failing \subseteq Cells(Count(c)) /\ c.omitted \subseteq Cells(c.length)
  /\ c.kind = "sum" => c.omitted = {}

ReportInv ==
  /\ FaultsArePossible(call)
  /\ caller = "called" => coverage = {}
  /\ caller = "single" => ~rt.stop /\ rt.completed \in Nat /\ rt.completed < rt.count
                          /\ rt.claimed = rt.completed
  /\ caller \in Working => Judges(call, rt, Judged) /\ Covers(call, coverage, partials, Executed)
  /\ caller = "ended" => /\ ReportsWell(call, coverage, partials, report)
                         /\ report.outcome = "ok" => rt.count = Count(call)
  /\ ReportIsDeterministic /\ SumIsDeterministic

(* The partials are as many as the scratch storage was made for, and at least  *)
(* as many as the partitions of a call under way.                             *)
PartialsFit ==
  /\ DOMAIN partials = Cells(scratch.partitions)
  /\ caller \in Calling => Count(call) <= scratch.partitions

LEMMA LeastIsMin ==
  ASSUME NEW S \in SUBSET Nat, S # {}, NEW m, IsLeast(m, S)
  PROVE  m = MinOf(S) /\ m \in Nat
<1>1. m \in S /\ \A n \in S : m <= n
  BY DEF IsLeast
<1>2. MinOf(S) \in S /\ \A n \in S : MinOf(S) <= n
  BY LeastIsMember
<1>3. m <= MinOf(S) /\ MinOf(S) <= m /\ m \in Nat /\ MinOf(S) \in Nat
  BY <1>1, <1>2
<1> QED BY <1>3

(* Every cell of a buffer lies in the tile of one of its partitions.           *)
LEMMA TilesCover ==
  ASSUME NEW c \in Arguments, NEW i \in Cells(c.length)
  PROVE  \E p \in Cells(Count(c)) : i \in Tile(c, p)
<1>1. c.length \in Nat \ {0} /\ c.width \in Nat \ {0} /\ i \in Nat /\ i < c.length
  BY DEF Arguments, Cells
<1>2. \A x \in Nat, w \in Nat \ {0} : x \div w \in Nat
  OBVIOUS
<1>3. \A x \in Nat, w \in Nat \ {0} : (x \div w) * w <= x /\ x < (x \div w) * w + w
  OBVIOUS
<1>4. /\ i \div c.width \in Nat /\ (i \div c.width) * c.width <= i
      /\ i < (i \div c.width) * c.width + c.width
      /\ i \div c.width <= (c.length - 1) \div c.width /\ (c.length - 1) \div c.width \in Nat
  <2> DEFINE m == c.length - 1
             w == c.width
  <2>1. m \in Nat /\ i \in Nat /\ i <= m /\ w \in Nat \ {0}
    BY <1>1
  <2> HIDE DEF m, w
  <2>2. i \div w \in Nat /\ m \div w \in Nat
    BY <1>2, <2>1
  <2>3. (i \div w) * w <= i /\ i < (i \div w) * w + w
    BY <1>3, <2>1
  <2>4. \A x, y \in Nat, v \in Nat \ {0} : x <= y => x \div v <= y \div v
    OBVIOUS
  <2>5. i \div w <= m \div w
    BY <2>1, <2>4
  <2> QED BY <2>2, <2>3, <2>5 DEF m, w
<1> DEFINE p == i \div c.width
           last == (c.length - 1) \div c.width
<1> HIDE DEF p, last
<1>5. p \in Cells(Count(c))
  <2>1. Count(c) = 1 + last /\ p \in Nat /\ last \in Nat /\ p <= last
    BY <1>1, <1>4 DEF Count, PartitionCount, p, last
  <2> QED BY <2>1 DEF Cells
<1>6. i \in Tile(c, p)
  <2>1. /\ p * c.width \in Nat /\ p * c.width <= i /\ i < p * c.width + c.width
    BY <1>1, <1>4 DEF p
  <2> QED BY <1>1, <2>1 DEF Tile, TileLo, TileHi
<1> QED BY <1>5, <1>6

(* Recording a partition.                                                     *)
LEMMA RecordingJudges ==
  ASSUME NEW r \in Runtimes, NEW p \in Nat, NEW S \in SUBSET Nat, Judges(call, r, S)
  PROVE  Judges(call, Recorded(r, p), S \cup {p})
<1> DEFINE counted == [r EXCEPT !.completed = @ + 1]
           lowest == IF r.lowest < 0 \/ p < r.lowest THEN p ELSE r.lowest
<1>1. counted.stop = r.stop /\ counted.lowest = r.lowest /\ counted \in Runtimes
  BY DEF Runtimes
<1>2. Recorded(r, p) = IF p \notin call.failing THEN counted
                       ELSE [counted EXCEPT !.stop = TRUE, !.lowest = lowest]
  BY <1>1 DEF Recorded
<1> HIDE DEF counted
<1>3. CASE p \notin call.failing
  <2>1. call.failing \cap (S \cup {p}) = call.failing \cap S
    BY <1>3
  <2> QED BY <1>1, <1>2, <1>3, <2>1 DEF Judges
<1>4. CASE p \in call.failing
  <2>1. Recorded(r, p).stop = TRUE /\ Recorded(r, p).lowest = lowest
    BY <1>1, <1>2, <1>4 DEF Runtimes
  <2>2. call.failing \cap (S \cup {p}) = (call.failing \cap S) \cup {p}
    BY <1>4
  <2>3. IsLeast(lowest, (call.failing \cap S) \cup {p})
    <3>1. IsLeast(r.lowest, call.failing \cap S)
      BY DEF Judges
    <3>2. CASE call.failing \cap S = {}
      BY <3>1, <3>2 DEF IsLeast, None
    <3>3. CASE call.failing \cap S # {}
      <4>1. /\ r.lowest \in call.failing \cap S /\ r.lowest \in Nat
            /\ \A n \in call.failing \cap S : r.lowest <= n /\ n \in Nat
        BY <3>1, <3>3 DEF IsLeast
      <4>2. /\ lowest \in (call.failing \cap S) \cup {p}
            /\ \A n \in (call.failing \cap S) \cup {p} : lowest <= n
        BY <4>1
      <4> HIDE DEF lowest
      <4> QED BY <4>2 DEF IsLeast
    <3> QED BY <3>2, <3>3
  <2> QED BY <2>1, <2>2, <2>3 DEF Judges
<1> QED BY <1>3, <1>4

(* Running a kernel.                                                          *)
LEMMA RunningCovers ==
  ASSUME NEW p, Execute(p), NEW S, Covers(call, coverage, partials, S), p \in DOMAIN partials
  PROVE  Covers(call', coverage', partials', S \cup {p})
<1>1. /\ call' = call
      /\ partials' = IF call.kind = "sum" THEN [partials EXCEPT ![p] = <<p>>] ELSE partials
      /\ coverage' = coverage \cup
           (IF call.kind = "step" /\ p \notin call.failing THEN Tile(call, p) \ call.omitted ELSE {})
  BY DEF Execute
<1>2. ASSUME call.kind = "sum", NEW q \in S \cup {p}
      PROVE  q \in DOMAIN partials' /\ partials'[q] = <<q>>
  <2>1. q \in DOMAIN partials /\ (q # p => partials[q] = <<q>>)
    BY <1>2 DEF Covers
  <2> QED BY <1>1, <1>2, <2>1
<1> QED BY <1>1, <1>2 DEF Covers

(* The partitions of a call have their partials.                              *)
LEMMA PartsHavePartials ==
  ASSUME PoolInv, PartialsFit, caller \in Working, NEW p \in Nat, p < Count(call)
  PROVE  p \in DOMAIN partials
<1>1. Count(call) <= scratch.partitions /\ DOMAIN partials = Cells(scratch.partitions)
  BY DEF PartialsFit, Working, Calling
<1>2. Count(call) \in Int /\ scratch.partitions \in Nat
  BY CountIsInt DEF PoolInv, TypeOK, Arguments, Count
<1> QED BY <1>1, <1>2 DEF Cells

(* The end of a job of which the first n partitions are judged: all of them,   *)
(* or up to one that failed, with every one below it.                         *)
LEMMA EndingReports ==
  ASSUME call \in Arguments, FaultsArePossible(call), NEW r \in Runtimes, EndRun(r),
         NEW n \in Nat, Judges(call, r, Cells(n)), Covers(call, coverage', partials', Cells(n)),
         ~r.stop => n = Count(call) /\ r.completed = n
  PROVE  ReportsWell(call, coverage', partials', report')
<1>1. /\ report'.outcome = (IF r.lowest < 0 THEN "ok" ELSE "worker_failed")
      /\ report'.completed = r.completed /\ report'.failure = r.lowest
  BY DEF EndRun, Report
<1>2. /\ r.stop <=> call.failing \cap Cells(n) # {}
      /\ IsLeast(r.lowest, call.failing \cap Cells(n)) /\ r.lowest \in Int
  BY DEF Judges, Runtimes
<1>3. call.failing \subseteq Cells(Count(call)) /\ Count(call) \in Int
  BY CountIsInt DEF FaultsArePossible, Count, Arguments
<1>4. CASE ~r.stop
  <2>1. n = Count(call) /\ r.completed = n /\ call.failing = {} /\ r.lowest = None
    BY <1>2, <1>3, <1>4 DEF IsLeast
  <2> QED BY <1>1, <2>1 DEF ReportsWell, None
<1>5. CASE r.stop
  <2>1. r.lowest \in call.failing \cap Cells(n) /\ \A m \in call.failing \cap Cells(n) : r.lowest <= m
    BY <1>2, <1>5 DEF IsLeast
  <2>2. r.lowest \in Nat /\ r.lowest < n
    BY <2>1 DEF Cells
  <2>3. ASSUME NEW m \in call.failing PROVE r.lowest <= m
    <3>1. m \in Nat
      BY <1>3 DEF Cells
    <3>2. CASE m < n
      BY <2>1, <3>1, <3>2 DEF Cells
    <3>3. CASE ~(m < n)
      BY <2>2, <3>1, <3>3
    <3> QED BY <3>2, <3>3
  <2>4. IsLeast(r.lowest, call.failing) /\ call.failing # {}
    BY <2>1, <2>3 DEF IsLeast
  <2> QED BY <1>1, <2>2, <2>4 DEF ReportsWell
<1> QED BY <1>4, <1>5

(* The frames: nothing of a call under way changes, or no call is.             *)
LEMMA SettledReports ==
  ASSUME ReportInv, Settled, Settled', UNCHANGED call,
         UNCHANGED <<report, total>> \/ report'.outcome \notin {"ok", "worker_failed"}
  PROVE  ReportInv'
<1>1. /\ caller' # "called" /\ caller' # "single" /\ caller' \notin Working /\ caller' # "ended"
  BY DEF Settled, Working, Running
<1>2. FaultsArePossible(call')
  BY DEF ReportInv
<1>3. ReportIsDeterministic' /\ SumIsDeterministic'
  BY DEF ReportInv, ReportIsDeterministic, SumIsDeterministic
<1> QED BY <1>1, <1>2, <1>3 DEF ReportInv

LEMMA RunningReports ==
  ASSUME ReportInv, caller \in Running, caller' \in Running, UNCHANGED <<call, coverage, partials>>,
         Judged' = Judged, Executed' = Executed,
         rt'.stop = rt.stop, rt'.lowest = rt.lowest
  PROVE  ReportInv'
<1>1. caller \in Working /\ caller' \notin {"called", "single", "ended"} /\ ~Settled'
  BY DEF Working, Running, Settled
<1>2. Judges(call', rt', Judged') /\ Covers(call', coverage', partials', Executed')
  BY <1>1 DEF ReportInv, Judges
<1> QED BY <1>1, <1>2 DEF ReportInv, ReportIsDeterministic, SumIsDeterministic

(* The critical section of a worker: what it had is judged, what it claims is  *)
(* not yet.                                                                   *)
LEMMA ClaimsAreNotJudged ==
  ASSUME PoolInv, NEW w \in ThreadIds, thread[w] \in {"ready", "reporting"},
         caller \in Running, NEW r \in Runtimes, r.next = rt.next,
         NEW signalled, ClaimOrWait(w, r, signalled)
  PROVE  /\ Judged' = Cells(rt.next) \ Parts(Busy \ {w})
         /\ Executed' = Judged' \cup Parts(Reporting \ {w})
         /\ rt'.stop = r.stop /\ rt'.lowest = r.lowest /\ caller' \in Running
<1>1. /\ thread \in [ThreadIds -> {"unborn", "ready", "waiting", "working", "reporting",
                                    "exited", "joined"}]
      /\ part \in [ThreadIds -> Int] /\ rt.next \in Int /\ caller # "single"
      /\ \A v \in Busy : part[v] \in 0 .. rt.next - 1
  BY DEF PoolInv, TypeOK, ClaimsAreAccounted, Runtimes, Running
<1>2. caller' \in Running /\ caller' # "single"
  BY DEF ClaimOrWait, Running
<1>3. CASE ~r.stop /\ r.next < r.count
  <2>1. /\ part' = [part EXCEPT ![w] = r.next] /\ thread' = [thread EXCEPT ![w] = "working"]
        /\ rt' = [r EXCEPT !.next = @ + 1, !.claimed = @ + 1]
    BY <1>3 DEF ClaimOrWait
  <2>2. rt'.next = rt.next + 1 /\ rt'.stop = r.stop /\ rt'.lowest = r.lowest
    BY <2>1 DEF Runtimes
  <2>3. Busy' = (Busy \ {w}) \cup {w} /\ Reporting' = Reporting \ {w}
    BY <1>1, <2>1 DEF Busy, Reporting
  <2>4. Parts(Busy)' = Parts(Busy \ {w}) \cup {rt.next}
    BY <1>1, <2>1, <2>3 DEF Parts, Busy
  <2>5. Parts(Reporting)' = Parts(Reporting \ {w})
    BY <1>1, <2>1, <2>3 DEF Parts, Reporting
  <2>6. Judged' = Cells(rt.next + 1) \ (Parts(Busy \ {w}) \cup {rt.next})
    BY <1>2, <2>2, <2>4 DEF Judged
  <2>7. Cells(rt.next + 1) \ {rt.next} = Cells(rt.next)
    BY <1>1 DEF Cells
  <2> QED BY <1>2, <2>2, <2>5, <2>6, <2>7 DEF Executed
<1>4. CASE ~(~r.stop /\ r.next < r.count)
  <2>1. /\ part' = [part EXCEPT ![w] = None] /\ thread' = [thread EXCEPT ![w] = "waiting"]
        /\ rt' = r
    BY <1>4 DEF ClaimOrWait
  <2>2. Busy' = Busy \ {w} /\ Reporting' = Reporting \ {w}
    BY <1>1, <2>1 DEF Busy, Reporting
  <2>3. Parts(Busy)' = Parts(Busy \ {w}) /\ Parts(Reporting)' = Parts(Reporting \ {w})
    BY <1>1, <2>1, <2>2 DEF Parts, Busy, Reporting
  <2> QED BY <1>2, <2>1, <2>3 DEF Judged, Executed
<1> QED BY <1>3, <1>4

(* A thread that only moves, and a wish for cancellation.                      *)
LEMMA MovingReports ==
  ASSUME PoolInv, ReportInv, NEW w \in ThreadIds, Exit(w) \/ Sleep(w) \/ CancelNext
  PROVE  ReportInv'
<1>1. /\ UNCHANGED <<caller, call, coverage, partials, total, report, part>>
      /\ rt' = rt \/ rt' = [rt EXCEPT !.cancel = TRUE]
      /\ \/ thread' = thread
         \/ /\ thread[w] = "ready"
            /\ \E to \in {"exited", "waiting"} : thread' = [thread EXCEPT ![w] = to]
  BY DEF Exit, Sleep, CancelNext, pool, job
<1>2. Busy' = Busy /\ Reporting' = Reporting
  BY <1>1 DEF Busy, Reporting, PoolInv, TypeOK
<1>3. /\ rt'.stop = rt.stop /\ rt'.lowest = rt.lowest /\ rt'.completed = rt.completed
      /\ rt'.claimed = rt.claimed /\ rt'.count = rt.count /\ rt'.next = rt.next
  BY <1>1 DEF PoolInv, TypeOK, Runtimes
<1>4. Judged' = Judged /\ Executed' = Executed
  BY <1>1, <1>2, <1>3 DEF Judged, Executed, Parts
<1> QED BY <1>1, <1>3, <1>4 DEF ReportInv, Judges, ReportIsDeterministic, SumIsDeterministic, Settled

LEMMA EnterReports ==
  ASSUME PoolInv, ReportInv, NEW w \in ThreadIds, Enter(w)
  PROVE  ReportInv'
<1>1. /\ thread[w] = "ready" /\ rt.active /\ ClaimOrWait(w, rt, FALSE)
      /\ UNCHANGED <<call, coverage, partials>> /\ rt \in Runtimes
  BY DEF Enter, pool, job, PoolInv, TypeOK
<1>2. caller \in Running
  BY <1>1, AloneIsIdle DEF PoolInv, ClaimsAreAccounted
<1>3. Busy \ {w} = Busy /\ Reporting \ {w} = Reporting
  BY <1>1 DEF Busy, Reporting
<1>4. /\ Judged' = Cells(rt.next) \ Parts(Busy) /\ Executed' = Judged' \cup Parts(Reporting)
      /\ rt'.stop = rt.stop /\ rt'.lowest = rt.lowest /\ caller' \in Running
  BY <1>1, <1>2, <1>3, ClaimsAreNotJudged
<1>5. Judged' = Judged /\ Executed' = Executed
  BY <1>2, <1>4 DEF Judged, Executed, Running
<1> QED BY <1>1, <1>2, <1>4, <1>5, RunningReports

(* A kernel has run, and its partition is not yet judged.                      *)
LEMMA WorkReports ==
  ASSUME PoolInv, ReportInv, PartialsFit, NEW w \in ThreadIds, Work(w)
  PROVE  ReportInv'
<1>1. /\ thread[w] = "working" /\ Execute(part[w]) /\ thread' = [thread EXCEPT ![w] = "reporting"]
      /\ UNCHANGED <<part, rt, caller, report, call>>
  BY DEF Work, Execute, pool
<1>2. w \in Busy /\ caller \in Running
  BY <1>1 DEF Busy, PoolInv, ClaimsAreAccounted
<1>3. Busy' = Busy /\ Reporting' = Reporting \cup {w}
  BY <1>1 DEF Busy, Reporting, PoolInv, TypeOK
<1>4. Judged' = Judged /\ Executed' = Executed \cup {part[w]}
  BY <1>1, <1>3 DEF Judged, Executed, Parts
<1>5. caller \in Working /\ caller' \notin {"called", "single", "ended"} /\ ~Settled'
  BY <1>1, <1>2 DEF Working, Running, Settled
<1>6. Covers(call', coverage', partials', Executed')
  <2>1. part[w] \in 0 .. rt.next - 1 /\ rt.next <= rt.count /\ rt.count = Count(call) /\ rt.next \in Int
        /\ Count(call) \in Int
    BY <1>2, CountIsInt
       DEF PoolInv, TypeOK, Runtimes, ClaimsAreAccounted, Count, Running, Arguments
  <2>2. part[w] \in DOMAIN partials
    <3>1. part[w] \in Nat /\ part[w] < Count(call)
      BY <2>1
    <3> QED BY <1>5, <3>1, PartsHavePartials
  <2> QED BY <1>1, <1>4, <1>5, <2>2, RunningCovers DEF ReportInv
<1> QED BY <1>1, <1>4, <1>5, <1>6 DEF ReportInv, ReportIsDeterministic, SumIsDeterministic

LEMMA FinishReports ==
  ASSUME PoolInv, ReportInv, NEW w \in ThreadIds, Finish(w)
  PROVE  ReportInv'
<1> DEFINE r == Recorded(rt, part[w])
           signalled == JobDone(r)
<1>1. /\ thread[w] = "reporting" /\ ClaimOrWait(w, r, signalled)
      /\ UNCHANGED <<call, coverage, partials>> /\ rt \in Runtimes /\ part \in [ThreadIds -> Int]
  BY DEF Finish, pool, job, PoolInv, TypeOK
<1>2. /\ w \in Busy /\ w \in Reporting /\ caller \in Running /\ caller # "single"
      /\ part[w] \in 0 .. rt.next - 1
      /\ \A v \in Busy \ {w} : part[v] # part[w]
  BY <1>1 DEF Busy, Reporting, PoolInv, ClaimsAreAccounted, Running
<1>3. r \in Runtimes /\ r.next = rt.next
  BY <1>1, RecordingCounts
<1>4. rt.next \in Int /\ part[w] \in Nat /\ part[w] \in Cells(rt.next)
  BY <1>1, <1>2 DEF Runtimes, Cells
<1>5. caller \in Working /\ Judges(call, rt, Judged) /\ Covers(call, coverage, partials, Executed)
  BY <1>2 DEF Working, ReportInv
<1>6. Judged \in SUBSET Nat
  BY <1>2, <1>4 DEF Judged, Cells
<1>7. Judges(call, r, Judged \cup {part[w]})
  BY <1>1, <1>4, <1>5, <1>6, RecordingJudges
<1> HIDE DEF r, signalled
<1>8. /\ Judged' = Cells(rt.next) \ Parts(Busy \ {w})
      /\ Executed' = Judged' \cup Parts(Reporting \ {w})
      /\ rt'.stop = r.stop /\ rt'.lowest = r.lowest /\ caller' \in Running
  BY <1>1, <1>2, <1>3, ClaimsAreNotJudged
<1>9. Parts(Busy) = Parts(Busy \ {w}) \cup {part[w]} /\ part[w] \notin Parts(Busy \ {w})
  BY <1>2 DEF Parts
<1>10. Judged' = Judged \cup {part[w]}
  BY <1>2, <1>4, <1>8, <1>9 DEF Judged
<1>11. Parts(Reporting) = Parts(Reporting \ {w}) \cup {part[w]}
  BY <1>2 DEF Parts
<1>12. Executed' = Executed
  BY <1>8, <1>10, <1>11 DEF Executed
<1>13. caller' \notin {"called", "single", "ended"} /\ ~Settled'
  BY <1>8 DEF Running, Settled
<1>14. Judges(call', rt', Judged') /\ Covers(call', coverage', partials', Executed')
  BY <1>1, <1>5, <1>7, <1>8, <1>10, <1>12 DEF Judges
<1>15. FaultsArePossible(call')
  BY <1>1 DEF ReportInv
<1> QED BY <1>13, <1>14, <1>15 DEF ReportInv, ReportIsDeterministic, SumIsDeterministic

(* The end of a job leaves what the end of the call needs.                     *)
LEMMA EndedReports ==
  ASSUME FaultsArePossible(call), UNCHANGED call, caller' = "ended",
         ReportsWell(call, coverage', partials', report'),
         report'.outcome = "ok" => rt'.count = Count(call)
  PROVE  ReportInv'
BY DEF ReportInv, ReportIsDeterministic, SumIsDeterministic, Settled, Working, Running

LEMMA RecheckReports ==
  ASSUME PoolInv, ReportInv, Recheck
  PROVE  ReportInv'
<1>1. /\ caller = "awake" /\ UNCHANGED <<thread, part, call, coverage, partials>>
      /\ rt \in Runtimes /\ call \in Arguments
  BY DEF Recheck, pool, job, PoolInv, TypeOK
<1>2. /\ caller \in Running /\ caller \in Working
      /\ Judges(call, rt, Judged) /\ Covers(call, coverage, partials, Executed) /\ FaultsArePossible(call)
  BY <1>1 DEF Working, Running, ReportInv
<1>3. CASE ~JobDone(rt)
  <2>1. caller' = "asleep" /\ rt' = rt
    BY <1>3 DEF Recheck
  <2>2. Judged' = Judged /\ Executed' = Executed
    BY <1>1, <2>1 DEF Judged, Executed, Parts, Busy, Reporting
  <2> QED BY <1>1, <1>2, <2>1, <2>2, RunningReports DEF Running
<1>4. CASE JobDone(rt)
  <2>1. EndRun(rt) /\ Busy = {}
    BY <1>2, <1>4, DoneIsIdle DEF Recheck
  <2>2. Judged = Cells(rt.next) /\ Executed = Cells(rt.next)
    <3>1. Reporting = {}
      BY <2>1 DEF Busy, Reporting
    <3>2. Parts(Busy) = {} /\ Parts(Reporting) = {}
      BY <2>1, <3>1 DEF Parts
    <3> QED BY <1>1, <3>2 DEF Judged, Executed
  <2>3. /\ rt.next = rt.claimed /\ rt.next <= rt.count /\ rt.completed >= 0
        /\ rt.completed = rt.claimed /\ rt.count = Count(call)
        /\ rt.next \in Int /\ rt.completed \in Int
    <3>1. /\ rt.next = rt.claimed /\ rt.next <= rt.count /\ rt.completed >= 0
          /\ rt.completed + Cardinality(Busy) = rt.claimed /\ rt.active
          /\ rt.count = Count(call) /\ rt.completed \in Int /\ rt.claimed \in Int
      BY <1>1, <1>2 DEF PoolInv, ClaimsAreAccounted, Runtimes, Count
    <3>2. Cardinality(Busy) = 0
      BY <2>1, FS_EmptySet
    <3> QED BY <3>1, <3>2
  <2>4. ~rt.stop => rt.next = Count(call) /\ rt.completed = rt.next
    BY <1>4, <2>3 DEF JobDone
  <2>5. caller' = "ended" /\ rt.next \in Nat
    BY <2>1, <2>3 DEF EndRun
  <2>6. Judges(call, rt, Cells(rt.next)) /\ Covers(call, coverage', partials', Cells(rt.next))
    BY <1>1, <1>2, <2>2
  <2>7. ReportsWell(call, coverage', partials', report')
    BY <1>1, <1>2, <2>1, <2>4, <2>5, <2>6, EndingReports
  <2>8. rt'.count = Count(call)
    BY <1>1, <2>1, <2>3 DEF EndRun, Runtimes
  <2> QED BY <1>1, <1>2, <2>5, <2>7, <2>8, EndedReports
<1> QED BY <1>3, <1>4

LEMMA RunSingleReports ==
  ASSUME PoolInv, ReportInv, PartialsFit, RunSingle
  PROVE  ReportInv'
<1> DEFINE n == rt.completed
           counted == Recorded(rt, n)
           r == [counted EXCEPT !.claimed = @ + 1]
<1>1. /\ caller = "single" /\ Execute(n) /\ UNCHANGED <<thread, part, call>>
      /\ \/ JobDone(r) /\ EndRun(r)
         \/ ~JobDone(r) /\ rt' = r /\ UNCHANGED <<report, caller>>
      /\ rt \in Runtimes /\ call \in Arguments
  BY DEF RunSingle, Execute, pool, PoolInv, TypeOK
<1>2. /\ ~rt.stop /\ n \in Nat /\ n < rt.count /\ rt.claimed = n
      /\ Judges(call, rt, Judged) /\ Covers(call, coverage, partials, Executed) /\ FaultsArePossible(call)
  BY <1>1 DEF ReportInv, Working
<1>3. Busy = {} /\ rt.count = Count(call) /\ rt.count \in Int
  BY <1>1 DEF PoolInv, ClaimsAreAccounted, Count, Running, Runtimes
<1>4. Reporting = {} /\ Parts(Busy) = {} /\ Parts(Reporting) = {}
  BY <1>3 DEF Busy, Reporting, Parts
<1>5. Judged = Cells(n) /\ Executed = Cells(n)
  BY <1>1, <1>4 DEF Judged, Executed
<1>6. Cells(n + 1) = Cells(n) \cup {n} /\ Cells(n) \in SUBSET Nat
  BY <1>2 DEF Cells
<1>7. Judges(call, counted, Cells(n + 1)) /\ Covers(call', coverage', partials', Cells(n + 1))
  <2>1. Judges(call, rt, Cells(n)) /\ Covers(call, coverage, partials, Cells(n))
    BY <1>2, <1>5
  <2> HIDE DEF n, counted
  <2>2. Judges(call, counted, Cells(n) \cup {n})
    BY <1>1, <1>2, <1>6, <2>1, RecordingJudges DEF counted
  <2>3. Covers(call', coverage', partials', Cells(n) \cup {n})
    <3>1. n \in DOMAIN partials
      BY <1>1, <1>2, <1>3, PartsHavePartials DEF Working
    <3> QED BY <1>1, <2>1, <3>1, RunningCovers
  <2> QED BY <1>6, <2>2, <2>3
<1>8. /\ counted \in Runtimes /\ counted.completed = n + 1 /\ counted.claimed = n
      /\ counted.count = rt.count
  BY <1>1, <1>2, RecordingCounts
<1> HIDE DEF counted
<1>9. /\ r \in Runtimes /\ r.completed = n + 1 /\ r.claimed = n + 1 /\ r.count = rt.count
      /\ r.stop = counted.stop /\ r.lowest = counted.lowest
  BY <1>2, <1>8 DEF Runtimes
<1> HIDE DEF r, n
<1>10. Judges(call, r, Cells(n + 1))
  BY <1>7, <1>9 DEF Judges
<1>11. CASE JobDone(r) /\ EndRun(r)
  <2>1. ~r.stop => n + 1 = Count(call) /\ r.completed = n + 1
    BY <1>3, <1>9, <1>11 DEF JobDone
  <2>2. caller' = "ended" /\ n + 1 \in Nat
    BY <1>2, <1>11 DEF EndRun
  <2>3. Covers(call, coverage', partials', Cells(n + 1))
    BY <1>1, <1>7
  <2>4. ReportsWell(call, coverage', partials', report')
    BY <1>1, <1>2, <1>9, <1>10, <1>11, <2>1, <2>2, <2>3, EndingReports
  <2>5. rt'.count = Count(call)
    BY <1>3, <1>9, <1>11 DEF EndRun, Runtimes
  <2> QED BY <1>1, <1>2, <2>2, <2>4, <2>5, EndedReports
<1>12. CASE ~JobDone(r) /\ rt' = r /\ UNCHANGED <<report, caller>>
  <2>1. Busy' = {} /\ Reporting' = {}
    BY <1>1, <1>3, <1>4 DEF Busy, Reporting
  <2>2. Parts(Busy)' = {} /\ Parts(Reporting)' = {}
    BY <2>1 DEF Parts
  <2>3. caller' = "single" /\ rt'.completed = n + 1
    BY <1>1, <1>9, <1>12
  <2>4. Judged' = Cells(n + 1) /\ Executed' = Cells(n + 1)
    BY <2>2, <2>3 DEF Judged, Executed
  <2>5. ~r.stop /\ r.completed \in Nat /\ r.completed < r.count
    BY <1>2, <1>3, <1>9, <1>12 DEF JobDone
  <2>6. Judges(call', rt', Judged') /\ Covers(call', coverage', partials', Executed')
    BY <1>1, <1>7, <1>10, <1>12, <2>4
  <2> QED BY <1>1, <1>2, <1>9, <1>12, <2>3, <2>5, <2>6
          DEF ReportInv, ReportIsDeterministic, SumIsDeterministic, Settled
<1> QED BY <1>1, <1>11, <1>12

LEMMA RunReports ==
  ASSUME PoolInv, ReportInv, RunCancelled \/ RunJob
  PROVE  ReportInv'
<1>1. /\ caller = "called" /\ UNCHANGED <<part, call, coverage, partials>> /\ rt \in Runtimes
      /\ call \in Arguments
  BY DEF RunCancelled, RunJob, pool, job, PoolInv, TypeOK
<1>2. coverage = {} /\ FaultsArePossible(call) /\ Busy = {}
  BY <1>1 DEF ReportInv, PoolInv, ClaimsAreAccounted, Running
<1>3. Covers(call, {}, partials, {})
  BY DEF Covers
<1>4. CASE RunCancelled
  <2>1. caller' = "ended" /\ report'.outcome = "cancelled"
    BY <1>4 DEF RunCancelled, Report
  <2>2. ReportsWell(call, coverage', partials', report')
    BY <2>1 DEF ReportsWell
  <2> QED BY <1>1, <1>2, <2>1, <2>2, EndedReports
<1>5. CASE RunJob /\ Count(call) = 0
  <2>1. caller' = "ended" /\ report' = Report("ok", 0, None)
    BY <1>5 DEF RunJob, Count
  <2>2. call.failing = {} /\ Cells(Count(call)) = {}
    BY <1>2, <1>5 DEF FaultsArePossible, Cells
  <2>3. ReportsWell(call, coverage', partials', report')
    BY <1>1, <1>2, <1>3, <1>5, <2>1, <2>2 DEF ReportsWell, Report
  <2>4. rt'.count = Count(call)
    <3>1. rt' = [Started(rt) EXCEPT !.active = FALSE]
      BY <1>5 DEF RunJob, Count
    <3> QED BY <1>1, <3>1 DEF Started, Count, Runtimes
  <2> QED BY <1>1, <1>2, <2>1, <2>3, <2>4, EndedReports
<1>6. CASE RunJob /\ Count(call) # 0
  <2>1. /\ rt' = Started(rt) /\ caller' \in {"single", "asleep"}
        /\ thread' = thread \/ thread' = Wake(thread)
    BY <1>6 DEF RunJob, Count, StartSignalled
  <2>2. /\ rt'.next = 0 /\ rt'.claimed = 0 /\ rt'.completed = 0 /\ rt'.stop = FALSE
        /\ rt'.lowest = None /\ rt'.count = Count(call)
    BY <1>1, <2>1 DEF Started, Count, Runtimes
  <2>3. Busy' = {} /\ Reporting' = {}
    <3>1. Busy' = {}
      BY <1>2, <2>1 DEF Busy, Wake
    <3> QED BY <3>1 DEF Busy, Reporting
  <2>4. Judged' = {} /\ Executed' = {}
    <3>1. Parts(Reporting)' = {}
      BY <2>3 DEF Parts
    <3> QED BY <2>2, <3>1 DEF Judged, Executed, Cells
  <2>5. Judges(call, rt', {})
    BY <2>2 DEF Judges, IsLeast
  <2>6. Count(call) \in Nat \ {0}
    <3>1. call.length \in Nat /\ call.width \in Nat \ {0}
      BY <1>1 DEF Arguments
    <3>2. \A x \in Nat, n \in Nat \ {0} : x \div n \in Nat
      OBVIOUS
    <3> QED BY <1>6, <3>1, <3>2 DEF Count, PartitionCount
  <2> QED BY <1>1, <1>2, <1>3, <2>1, <2>2, <2>4, <2>5, <2>6
          DEF ReportInv, ReportIsDeterministic, SumIsDeterministic, Settled
<1> QED BY <1>4, <1>5, <1>6

LEMMA FaultsOfCalls == \A c \in Calls : FaultsArePossible(c)
<1> DEFINE OfShape(n, w) ==
             [kind : {"step"}, length : {n}, width : {w},
              left : Halos, right : Halos, boundary : {"bounded", "periodic"},
              failing : SUBSET Cells(PartitionCount(n, w)), omitted : SUBSET Cells(n)]
           Steps(n, w) ==
             {c \in OfShape(n, w) :
                /\ Cardinality(c.failing) + Cardinality(c.omitted) <= MaxFaults
                /\ c.left + c.right = 0 \/ c.failing \cup c.omitted = {}}
           Sum(n, w) == [NoCall EXCEPT !.kind = "sum", !.length = n, !.width = w]
<1>1. Calls = UNION {Steps(n, w) \cup {Sum(n, w)} : n \in Lengths, w \in Widths}
  BY DEF Calls
<1>2. \A n, w : Steps(n, w) \subseteq OfShape(n, w)
  OBVIOUS
<1>3. \A n, w : FaultsArePossible(Sum(n, w))
  BY DEF NoCall, FaultsArePossible
<1>4. \A n, w : \A c \in OfShape(n, w) : FaultsArePossible(c)
  BY DEF FaultsArePossible, Count
<1> HIDE DEF OfShape, Steps, Sum
<1> QED BY <1>1, <1>2, <1>3, <1>4

LEMMA BeginReports ==
  ASSUME PoolInv, ReportInv, NEW c \in Calls, BeginCall(c)
  PROVE  ReportInv'
<1>1. /\ call' = c
      /\ \/ coverage' = {} /\ caller' = "called"
         \/ caller' = "idle" /\ report'.outcome = "invalid"
  BY DEF BeginCall, Report
<1>2. FaultsArePossible(c)
  BY FaultsOfCalls
<1> QED BY <1>1, <1>2 DEF ReportInv, ReportIsDeterministic, SumIsDeterministic, Settled, Working, Running

(* The end of a sum that succeeded: its total is the tree of its partials.     *)
LEMMA SumsAddUp ==
  ASSUME PoolInv, ReportInv, PartialsFit, EndSum
  PROVE  SumIsDeterministic' /\ DOMAIN partials' = DOMAIN partials
<1> DEFINE n == Count(call)
<1>1. /\ caller = "ended" /\ call.kind = "sum" /\ UNCHANGED <<call, report, scratch>>
      /\ report.outcome = "ok" => /\ rt.count = n
                                  /\ Covers(call, coverage, partials, Cells(n))
  BY DEF EndSum, ReportInv, ReportsWell, pool
<1>2. n \in Int /\ scratch.partitions \in Nat
  BY CountIsInt DEF PoolInv, TypeOK, Arguments, Count
<1>3. n <= scratch.partitions /\ DOMAIN partials = Cells(scratch.partitions)
  BY <1>1 DEF PartialsFit, Calling
<1>4. CASE report.outcome = "ok" /\ n > 0
  <2>1. \A p \in Cells(n) : partials[p] = <<p>>
    BY <1>1, <1>4 DEF Covers
  <2>2. partials' = Reduction(partials, n) /\ total' = partials'[0]
    BY <1>1, <1>4 DEF EndSum
  <2>3. n \in Nat \ {0}
    BY <1>2, <1>4
  <2> HIDE DEF n
  <2>4. Reduction(partials, n)[0] = PairTree(n) /\ DOMAIN Reduction(partials, n) = Cells(scratch.partitions)
    BY <1>2, <1>3, <2>1, <2>3, ReductionIsPairTree
  <2> QED BY <1>1, <1>3, <2>2, <2>4 DEF SumIsDeterministic, n, Count
<1>5. CASE ~(report.outcome = "ok" /\ n > 0)
  <2>1. partials' = partials
    BY <1>1, <1>5 DEF EndSum
  <2> QED BY <1>1, <1>5, <2>1 DEF SumIsDeterministic, Count
<1> QED BY <1>4, <1>5

(* The end of a call.                                                         *)
LEMMA EndReports ==
  ASSUME PoolInv, ReportInv, PartialsFit, EndStep \/ EndSum
  PROVE  ReportInv'
<1>1. /\ caller = "ended" /\ caller' = "idle" /\ UNCHANGED call /\ call \in Arguments
      /\ ReportsWell(call, coverage, partials, report) /\ FaultsArePossible(call)
  BY DEF EndStep, EndSum, ReportInv, PoolInv, TypeOK
<1>2. call.failing \in SUBSET Nat /\ call.omitted \in SUBSET Nat
  BY <1>1 DEF FaultsArePossible, Cells
<1> DEFINE failure == IF call.failing # {} THEN MinOf(call.failing)
                      ELSE IF call.omitted # {} THEN MinOf(call.omitted) \div call.width
                      ELSE None
<1>0. SumIsDeterministic'
  BY <1>1, SumsAddUp DEF EndStep, SumIsDeterministic
<1> SUFFICES ASSUME report'.outcome \in {"ok", "worker_failed"}
             PROVE  /\ report'.failure = failure
                    /\ report'.outcome = IF failure = None THEN "ok" ELSE "worker_failed"
                    /\ report'.outcome = "ok" => report'.completed = Count(call)
  BY <1>0, <1>1 DEF ReportInv, ReportIsDeterministic, Working, Running, Count
<1>3. CASE report.outcome = "worker_failed" /\ report' = report
  <2>1. report.failure = MinOf(call.failing) /\ report.failure \in Nat /\ call.failing # {}
    BY <1>1, <1>2, <1>3, LeastIsMin DEF ReportsWell
  <2> QED BY <1>3, <2>1 DEF None
<1>4. CASE report.outcome = "ok" /\ call.omitted = {} /\ report' = report
  BY <1>1, <1>4 DEF ReportsWell
<1>5. CASE /\ report.outcome = "ok" /\ call.omitted # {} /\ call.failing = {}
           /\ report' = Report("worker_failed", report.completed, MinOf(call.omitted) \div call.width)
  <2>1. MinOf(call.omitted) \in Nat
    BY <1>2, <1>5, LeastIsMember
  <2>2. \A x \in Nat, n \in Nat \ {0} : x \div n \in Nat
    OBVIOUS
  <2>3. MinOf(call.omitted) \div call.width \in Nat
    BY <1>1, <2>1, <2>2 DEF Arguments
  <2> QED BY <1>5, <2>3 DEF Report, None
<1>6. CASE EndSum
  <2>1. report' = report /\ call.kind = "sum"
    BY <1>6 DEF EndSum
  <2> QED BY <1>1, <1>3, <1>4, <2>1 DEF FaultsArePossible
<1>7. CASE EndStep /\ report.outcome # "ok"
  BY <1>3, <1>7 DEF EndStep
<1>8. CASE EndStep /\ report.outcome = "ok"
  <2>1. call.failing = {} /\ Covers(call, coverage, partials, Cells(Count(call))) /\ call.kind = "step"
    BY <1>1, <1>8 DEF ReportsWell, EndStep
  <2>2. \A i \in Cells(call.length) : i \in coverage <=> i \notin call.omitted
    BY <1>1, <2>1, TilesCover DEF Covers
  <2>3. Uncovered(call) = call.omitted
    BY <1>1, <2>2 DEF Uncovered, FaultsArePossible
  <2> QED BY <1>4, <1>5, <1>8, <2>1, <2>3 DEF EndStep
<1> QED BY <1>6, <1>7, <1>8

(* The partials are allocated with the scratch storage.                        *)
LEMMA PartialsFitStep ==
  ASSUME PoolInv, ReportInv, PartialsFit, [Next]_vars
  PROVE  PartialsFit'
<1>1. CASE /\ UNCHANGED <<scratch, call>> /\ DOMAIN partials' = DOMAIN partials
           /\ caller' \in Calling => caller \in Calling
  BY <1>1 DEF PartialsFit
<1>2. CASE UNCHANGED vars
  BY <1>1, <1>2 DEF vars
<1>3. CASE \/ \E n \in WorkerCounts : Configure(n)
           \/ CreateThread \/ BeginDestroy \/ JoinThread \/ RunCancelled \/ RunJob \/ Recheck
  <2>1. UNCHANGED <<scratch, call, partials>> /\ (caller' \in Calling => caller \in Calling)
    BY <1>3 DEF Configure, CreateThread, BeginDestroy, Shutdown, JoinThread, RunCancelled, RunJob,
                Recheck, EndRun, job, pool, Calling, Running
  <2> QED BY <1>1, <2>1
<1>4. CASE BeginCreate \/ CreateFails
  <2>1. UNCHANGED partials /\ scratch'.partitions = scratch.partitions
        /\ caller' \in {"idle", "creating", "destroying"}
    BY <1>4 DEF BeginCreate, CreateFails, Shutdown, job, pool, PoolInv, ArraysAreCounted
  <2> QED BY <2>1 DEF PartialsFit, Calling, Running
<1>5. CASE EndDestroy
  <2>1. partials' = <<>> /\ scratch'.partitions = 0 /\ caller' = "none"
    BY <1>5 DEF EndDestroy
  <2> QED BY <2>1 DEF PartialsFit, Calling, Running, Cells
<1>6. ASSUME NEW c \in Calls, BeginCall(c) PROVE PartialsFit'
  <2> DEFINE partitions == PartitionCount(c.length, c.width)
             elements == IF c.kind = "step" THEN c.length ELSE 0
  <2>1. /\ call' = c
        /\ \/ Grow(elements, partitions)
           \/ UNCHANGED <<scratch, partials>> /\ caller' = "idle"
    BY <1>6 DEF BeginCall, GrowthFails
  <2>2. partitions \in Nat /\ scratch.partitions \in Nat
    <3>1. c.length \in Nat /\ c.width \in Nat \ {0}
      BY CallsAreTyped DEF Arguments
    <3>2. \A x \in Nat, n \in Nat \ {0} : x \div n \in Nat
      OBVIOUS
    <3> QED BY <3>1, <3>2 DEF PartitionCount, PoolInv, TypeOK
  <2>3. CASE Grow(elements, partitions)
    <3> HIDE DEF partitions, elements
    <3>1. scratch'.partitions = MaxOf({partitions, scratch.partitions})
      BY <2>3 DEF Grow, GrownScratch
    <3>2. scratch'.partitions = IF partitions >= scratch.partitions THEN partitions ELSE scratch.partitions
      BY <2>2, <3>1, LargerOfTwo
    <3>3. DOMAIN partials' = IF partitions > scratch.partitions THEN Cells(partitions) ELSE DOMAIN partials
      BY <2>3 DEF Grow
    <3>4. DOMAIN partials' = Cells(scratch'.partitions) /\ partitions <= scratch'.partitions
      BY <2>2, <3>2, <3>3 DEF PartialsFit
    <3> QED BY <2>1, <3>4 DEF PartialsFit, Count, partitions
  <2>4. CASE UNCHANGED <<scratch, partials>> /\ caller' = "idle"
    BY <2>4 DEF PartialsFit, Calling, Running
  <2> QED BY <2>1, <2>3, <2>4
<1>7. CASE RunSingle \/ \E w \in ThreadIds : Work(w)
  <2>1. PICK p : Execute(p)
    BY <1>7 DEF RunSingle, Work
  <2>2. UNCHANGED <<scratch, call>> /\ DOMAIN partials' = DOMAIN partials
    BY <1>7, <2>1 DEF RunSingle, Work, Execute, pool
  <2>3. caller' \in Calling => caller \in Calling
    BY <1>7 DEF RunSingle, Work, Calling
  <2> QED BY <1>1, <2>2, <2>3
<1>8. CASE EndStep \/ EndSum
  <2>1. UNCHANGED <<scratch, call>> /\ caller' = "idle"
    BY <1>8 DEF EndStep, EndSum, pool
  <2>2. DOMAIN partials' = DOMAIN partials
    BY <1>8, SumsAddUp DEF EndStep
  <2> QED BY <1>1, <2>1, <2>2 DEF Calling, Running
<1>9. ASSUME NEW w \in ThreadIds, Exit(w) \/ Sleep(w) \/ Enter(w) \/ Finish(w) \/ CancelNext
      PROVE  PartialsFit'
  <2>1. UNCHANGED <<scratch, call, partials>> /\ (caller' = caller \/ caller = "asleep")
    BY <1>9 DEF Exit, Sleep, Enter, Finish, ClaimOrWait, CancelNext, job, pool
  <2> QED BY <1>1, <2>1 DEF Calling, Running
<1>10. CASE CancelNext
  <2>1. 0 \in ThreadIds
    BY ThreadsAreFinite
  <2> QED BY <1>9, <1>10, <2>1
<1> QED BY <1>2, <1>3, <1>4, <1>5, <1>6, <1>7, <1>8, <1>9, <1>10 DEF Next, InCall, Worker

LEMMA ReportInvStep == PoolInv /\ ReportInv /\ PartialsFit /\ [Next]_vars => ReportInv'
<1> SUFFICES ASSUME PoolInv, ReportInv, PartialsFit, [Next]_vars PROVE ReportInv'
  OBVIOUS
<1>1. CASE UNCHANGED vars
  <2>1. Judged' = Judged /\ Executed' = Executed
    BY <1>1 DEF vars, Judged, Executed, Parts, Busy, Reporting
  <2> QED BY <1>1, <2>1 DEF vars, ReportInv, ReportIsDeterministic, SumIsDeterministic, Settled
<1>2. CASE \/ \E n \in WorkerCounts : Configure(n)
           \/ BeginCreate \/ CreateThread \/ BeginDestroy \/ JoinThread \/ EndDestroy
  <2>1. /\ caller \in {"none", "creating", "idle", "destroying"}
        /\ caller' \in {"none", "creating", "idle", "destroying"} /\ UNCHANGED <<call, report, total>>
    BY <1>2 DEF Configure, BeginCreate, CreateThread, BeginDestroy, Shutdown, JoinThread, EndDestroy,
                job
  <2> QED BY <2>1, SettledReports DEF Settled
<1>3. CASE CreateFails
  <2>1. /\ caller' = "destroying" /\ report'.outcome = "runtime_failed" /\ call' = NoCall
    BY <1>3 DEF CreateFails, Shutdown, Report
  <2>2. FaultsArePossible(NoCall)
    BY DEF FaultsArePossible, NoCall
  <2> QED BY <2>1, <2>2 DEF ReportInv, ReportIsDeterministic, SumIsDeterministic, Working, Running
<1>4. ASSUME NEW c \in Calls, BeginCall(c) PROVE ReportInv'
  BY <1>4, BeginReports
<1>5. CASE InCall
  BY <1>2, <1>5, RunReports, RunSingleReports, RecheckReports, EndReports DEF InCall
<1>6. ASSUME NEW w \in ThreadIds, Worker(w) PROVE ReportInv'
  BY <1>6, MovingReports, EnterReports, WorkReports, FinishReports DEF Worker
<1>7. CASE CancelNext
  <2>1. 0 \in ThreadIds
    BY ThreadsAreFinite
  <2> QED BY <1>7, <2>1, MovingReports
<1> QED BY <1>1, <1>2, <1>3, <1>4, <1>5, <1>6, <1>7 DEF Next

CallInv == PoolInv /\ ReportInv /\ PartialsFit

LEMMA CallInvHolds == Spec => []CallInv
<1>1. Init => CallInv
  <2>1. FaultsArePossible(NoCall)
    BY DEF FaultsArePossible, NoCall
  <2>2. Init => ReportInv
    BY <2>1 DEF Init, ReportInv, ReportIsDeterministic, SumIsDeterministic, Working, Running,
                NoReport, Report
  <2>3. Init => PartialsFit
    BY DEF Init, PartialsFit, Calling, Running, Cells
  <2> QED BY <2>2, <2>3, PoolInvInit DEF CallInv
<1>2. CallInv /\ [Next]_vars => CallInv'
  BY PoolInvStep, ReportInvStep, PartialsFitStep DEF CallInv
<1> QED BY <1>1, <1>2, PTL DEF Spec

(* For any pool, a call reports the lowest of all the partitions that fail, or *)
(* the tile of the first cell left unwritten, whoever ran what in which order  *)
(* and however early the job stopped; a report of success means that there is  *)
(* no such partition and that all have been run.                              *)
THEOREM ReportsAreDeterministic == Spec => []ReportIsDeterministic
<1>1. CallInv => ReportIsDeterministic
  BY DEF CallInv, ReportInv
<1> QED BY <1>1, CallInvHolds, PTL

(* For any pool and any number of partitions, a sum is the same additions in   *)
(* the same order, those of the tree of adjacent pairs: native_parallel.c adds *)
(* the partials pass by pass, in place, whoever has added up which tile.       *)
THEOREM SumsAreDeterministic == Spec => []SumIsDeterministic
<1>1. CallInv => SumIsDeterministic
  BY DEF CallInv, ReportInv
<1> QED BY <1>1, CallInvHolds, PTL

(* The three together: what a call does to its buffer, what it reports and     *)
(* what it adds up are functions of its arguments alone.                      *)
THEOREM CallsAreFunctionsOfTheirArguments == Spec => []CallsAreFunctions
<1>1. StepIsTransactional /\ ReportIsDeterministic /\ SumIsDeterministic => CallsAreFunctions
  BY DEF CallsAreFunctions
<1> QED BY <1>1, StepsAreTransactions, ReportsAreDeterministic, SumsAreDeterministic, PTL
=============================================================================
