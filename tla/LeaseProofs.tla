---------------------------- MODULE LeaseProofs ----------------------------
(***************************************************************************)
(* Proofs about Lease, for any resources, holders, times, numbers of        *)
(* transactions and batches of actions on lease propositions that clients   *)
(* write themselves.                                                        *)
(***************************************************************************)
EXTENDS Lease, WellFoundedInduction, TLAPS

(* A set of natural numbers that is not empty has a least element.          *)
LEMMA SomeIsLeast ==
  ASSUME NEW S \in SUBSET Nat, S # {}
  PROVE  \E m \in S : \A n \in S : m <= n
<1> DEFINE R == {p \in Nat \X Nat : p[1] < p[2]}
<1>1. IsWellFoundedOn(R, Nat)
  BY NatLessThanWellFounded DEF OpToRel
<1>2. PICK m \in S : \A n \in S : <<n, m>> \notin R
  <2> HIDE DEF R
  <2> QED BY <1>1, WFMin
<1>3. \A n \in S : m <= n
  <2> SUFFICES ASSUME NEW n \in S PROVE m <= n
    OBVIOUS
  <2>1. ~(n < m)
    BY <1>2
  <2> QED BY <2>1
<1> QED BY <1>3

(* Induction over the natural numbers, for a set.                           *)
LEMMA Induction ==
  ASSUME NEW S \in SUBSET Nat, 0 \in S, \A k \in S : k + 1 \in S
  PROVE  \A k \in Nat : k \in S
<1> SUFFICES ASSUME Nat \ S # {} PROVE FALSE
  OBVIOUS
<1>1. PICK m \in Nat \ S : \A k \in Nat \ S : m <= k
  BY SomeIsLeast
<1>2. m - 1 \in Nat /\ ~(m <= m - 1)
  BY <1>1
<1>3. m - 1 \in S
  BY <1>1, <1>2
<1>4. (m - 1) + 1 = m
  BY <1>1
<1> QED BY <1>1, <1>3, <1>4

(* Whatever holds of the first value of a sequence of values, and of the    *)
(* next whenever it holds of the one before, holds of all.                  *)
LEMMA Carried ==
  ASSUME NEW X, NEW n \in Nat, NEW f, f[0] \in X,
         \A k \in 1..n : f[k - 1] \in X => f[k] \in X
  PROVE  \A k \in 0..n : f[k] \in X
<1> DEFINE S == {k \in Nat : k <= n => f[k] \in X}
<1>1. 0 \in S
  OBVIOUS
<1>2. ASSUME NEW k \in S PROVE k + 1 \in S
  <2>1. k \in Nat /\ k + 1 \in Nat /\ (k + 1) - 1 = k
    OBVIOUS
  <2>2. k + 1 <= n => k <= n /\ k + 1 \in 1..n
    BY <2>1
  <2> QED BY <2>1, <2>2
<1>3. \A k \in Nat : k \in S
  <2> HIDE DEF S
  <2>1. S \in SUBSET Nat
    BY DEF S
  <2> QED BY <1>1, <1>2, <2>1, Induction
<1> QED BY <1>3

(* A recursive function exists: x, and then what g makes of each value.     *)
Iterates(f, X, x, n, g) ==
  /\ f \in [0..n -> X] /\ f[0] = x
  /\ \A k \in 1..n : f[k] = g[<<k, f[k - 1]>>]

(* A recursive definition of one value per index has a solution: the        *)
(* function that the steps g build from x.                                  *)
LEMMA IterationExists ==
  ASSUME NEW X, NEW x \in X, NEW n \in Nat, NEW g \in [(1..n) \X X -> X]
  PROVE  \E f : Iterates(f, X, x, n, g)
<1> DEFINE S == {m \in Nat : m <= n => \E f : Iterates(f, X, x, m, g)}
<1>1. 0 \in S
  <2>1. Iterates([k \in 0..0 |-> x], X, x, 0, g)
    BY DEF Iterates
  <2> QED BY <2>1
<1>2. ASSUME NEW m \in S PROVE m + 1 \in S
  <2> SUFFICES ASSUME m + 1 <= n PROVE \E f : Iterates(f, X, x, m + 1, g)
    OBVIOUS
  <2>1. m \in Nat /\ m <= n /\ m \in 0..m /\ m + 1 \in 1..n /\ m + 1 # 0
    OBVIOUS
  <2>2. PICK f : Iterates(f, X, x, m, g)
    BY <2>1
  <2> DEFINE h == [k \in 0..m + 1 |-> IF k = m + 1 THEN g[<<m + 1, f[m]>>] ELSE f[k]]
  <2>3. f \in [0..m -> X] /\ f[0] = x /\ \A k \in 1..m : f[k] = g[<<k, f[k - 1]>>]
    BY <2>2 DEF Iterates
  <2>4. g[<<m + 1, f[m]>>] \in X
    <3>1. f[m] \in X
      BY <2>1, <2>3
    <3>2. <<m + 1, f[m]>> \in (1..n) \X X
      BY <2>1, <3>1
    <3> QED BY <3>2
  <2>5. \A k \in 0..m + 1 : k = m + 1 \/ k \in 0..m
    BY <2>1
  <2>6. h \in [0..m + 1 -> X]
    BY <2>3, <2>4, <2>5
  <2>7. h[0] = x
    BY <2>1, <2>3
  <2>8. ASSUME NEW k \in 1..m + 1 PROVE h[k] = g[<<k, h[k - 1]>>]
    <3>1. k - 1 \in 0..m /\ k - 1 \in 0..m + 1 /\ k - 1 # m + 1 /\ k \in 0..m + 1
      BY <2>1
    <3>2. h[k - 1] = f[k - 1]
      BY <3>1
    <3>3. CASE k = m + 1
      <4>1. k - 1 = m
        BY <2>1, <3>3
      <4> QED BY <3>1, <3>2, <3>3, <4>1
    <3>4. CASE k # m + 1
      <4>1. k \in 1..m
        BY <2>1, <3>4
      <4> QED BY <2>3, <3>1, <3>2, <3>4, <4>1
    <3> QED BY <3>3, <3>4
  <2> HIDE DEF h
  <2>9. Iterates(h, X, x, m + 1, g)
    BY <2>6, <2>7, <2>8 DEF Iterates
  <2> QED BY <2>9
<1>3. \A m \in Nat : m \in S
  <2> HIDE DEF S
  <2>1. S \in SUBSET Nat
    BY DEF S
  <2> QED BY <1>1, <1>2, <2>1, Induction
<1> QED BY <1>3

-----------------------------------------------------------------------------
(* The leases that the actions of a batch may assert.                       *)
Asserted(batch) ==
  {LeaseAt(p, version + 1, i) : p \in LeaseProp, i \in 1..Len(batch)}

(* What the actions of a batch may leave: leases that were live, and ones   *)
(* they assert, which have the sequence of the transaction for epoch; all   *)
(* that were live, if there are none (prepare-actions).                     *)
LEMMA AfterIs ==
  ASSUME NEW batch \in Seq(Action)
  PROVE  /\ batch = <<>> => After(batch) = live
         /\ After(batch) \subseteq live \cup Asserted(batch)
<1> DEFINE n == Len(batch)
           new == {LeaseAt(p, version + 1, i) : p \in LeaseProp, i \in 1..n}
           X == SUBSET (live \cup new)
           g == [a \in (1..n) \X X |-> Applied(a[2], batch[a[1]], version + 1, a[1])]
           Goes(f) == f = [i \in 0..n |-> IF i = 0 THEN live
                                          ELSE Applied(f[i - 1], batch[i], version + 1, i)]
           F == CHOOSE f : Goes(f)
<1>1. n \in Nat /\ \A i \in 1..n : batch[i] \in Action
  OBVIOUS
<1>2. ASSUME NEW i \in 1..n, NEW leases \in X
      PROVE  Applied(leases, batch[i], version + 1, i) \in X
  <2>1. batch[i].proposition \in LeaseProp
    BY <1>1 DEF Action
  <2>2. LeaseAt(batch[i].proposition, version + 1, i) \in new
    BY <2>1
  <2> DEFINE one == LeaseAt(batch[i].proposition, version + 1, i)
  <2>3. Applied(leases, batch[i], version + 1, i) \subseteq leases \cup {one}
    BY DEF Applied
  <2> HIDE DEF one, new
  <2> QED BY <2>2, <2>3 DEF one
<1>3. g \in [(1..n) \X X -> X]
  <2> HIDE DEF X, n
  <2>1. \A a \in (1..n) \X X : a[1] \in 1..n /\ a[2] \in X
    OBVIOUS
  <2>2. \A a \in (1..n) \X X : Applied(a[2], batch[a[1]], version + 1, a[1]) \in X
    BY <1>2, <2>1
  <2> QED BY <2>2, Zenon
<1>4. ASSUME NEW i \in 1..n, NEW leases \in X
      PROVE  g[<<i, leases>>] = Applied(leases, batch[i], version + 1, i)
  <2> DEFINE a == <<i, leases>>
  <2> HIDE DEF X, n
  <2>1. a \in (1..n) \X X /\ a[1] = i /\ a[2] = leases
    OBVIOUS
  <2> HIDE DEF a
  <2>2. g[a] = Applied(a[2], batch[a[1]], version + 1, a[1])
    BY <2>1, Zenon
  <2>3. g[a] = Applied(leases, batch[i], version + 1, i)
    BY <2>1, <2>2
  <2> QED BY <2>3 DEF a
<1>5. live \in X
  OBVIOUS
<1> HIDE DEF n, g, X
<1>6. PICK f : Iterates(f, X, live, n, g)
  BY <1>1, <1>3, <1>5, IterationExists
<1>7. f \in [0..n -> X] /\ f[0] = live /\ \A k \in 1..n : f[k] = g[<<k, f[k - 1]>>]
  BY <1>6 DEF Iterates
<1>8. \A i \in 1..n : i - 1 \in 0..n /\ i # 0 /\ i \in 0..n
  BY <1>1
<1>9. \A i \in 0..n : i # 0 => i \in 1..n
  BY <1>1
<1>10. \A i \in 1..n : f[i] = Applied(f[i - 1], batch[i], version + 1, i)
  BY <1>4, <1>7, <1>8
<1>11. Goes(f)
  <2>1. \A i \in 0..n : f[i] = IF i = 0 THEN live
                               ELSE Applied(f[i - 1], batch[i], version + 1, i)
    BY <1>7, <1>9, <1>10
  <2> QED BY <1>7, <2>1, Zenon
<1> HIDE DEF Goes
<1>12. Goes(F)
  BY <1>11
<1>13. F = [i \in 0..n |-> IF i = 0 THEN live
                           ELSE Applied(F[i - 1], batch[i], version + 1, i)]
  BY <1>12, Zenon DEF Goes
<1>14. After(batch) = F[n]
  BY Zenon DEF After, n, F, Goes
<1> HIDE DEF F
<1>15. 0 \in 0..n /\ n \in 0..n
  BY <1>1
<1>16. F[0] = live /\ \A i \in 1..n : F[i] = Applied(F[i - 1], batch[i], version + 1, i)
  BY <1>8, <1>13, <1>15
<1>17. \A k \in 0..n : F[k] \in X
  <2>1. ASSUME NEW k \in 1..n, F[k - 1] \in X PROVE F[k] \in X
    BY <1>2, <1>16, <2>1
  <2> QED BY <1>1, <1>5, <1>16, <2>1, Carried
<1>18. F[n] \in X
  BY <1>15, <1>17
<1>19. batch = <<>> => n = 0
  BY DEF n
<1> QED BY <1>14, <1>16, <1>18, <1>19 DEF X, n, Asserted

-----------------------------------------------------------------------------
(* Nothing is newer than the store: epochs and versions never exceed it.    *)
Bounded ==
  /\ version \in Nat
  /\ \A lease \in live : /\ lease.epoch \in Nat /\ lease.epoch <= version
                         /\ lease.place \in Nat
  /\ \A lease \in grants : lease.epoch \in Nat /\ lease.epoch <= version
  /\ \A fence \in shared : fence.epoch \in Nat /\ fence.epoch <= version
  /\ \A write \in writes : /\ write.version \in Nat /\ write.version <= version
                           /\ write.epoch \in Nat /\ write.epoch <= version
  /\ \A end \in ended : /\ end.version \in Nat /\ end.version < version
                        /\ end.fence.epoch \in Nat /\ end.fence.epoch <= version

(* Two live leases have one fence only where a transaction left both.       *)
FencesShared ==
  \A lease, other \in live :
    (lease # other /\ FenceOf(lease) = FenceOf(other)) => FenceOf(lease) \in shared

(* The live lease of a resource is at least as new as every fenced write.   *)
LiveIsNewest ==
  ~raw => \A lease \in live, write \in writes :
    write.resource = lease.resource => write.epoch <= lease.epoch

(* No live lease has a fence that was ended, if it was not shared.          *)
EndedIsDead ==
  \A lease \in live, end \in ended :
    end.fence = FenceOf(lease) => end.fence \in shared

(* The inductive invariant.                                                 *)
LeaseInv ==
  /\ Bounded
  /\ FencesShared
  /\ OneLease
  /\ LiveIsNewest
  /\ EndedIsDead
  /\ FencedWritesOrdered
  /\ EndedNeverAccepted

(* No lease, write or ended fence exists at the start.                      *)
LEMMA LeaseInvInit == Init => LeaseInv
  BY DEF Init, LeaseInv, Bounded, FencesShared, OneLease, LiveIsNewest, EndedIsDead,
         FencedWritesOrdered, EndedNeverAccepted

(* A transaction gives live leases up, lost, and asserts others, made, with *)
(* its own sequence for epoch.  It grants what it asserts, or what it leaves*)
(* with one fence becomes shared; it ends the fence of a lease given up, or *)
(* accepts a write with the fence of a live one.                            *)
Transaction(lost, made) ==
  /\ Advance
  /\ live' = (live \ lost) \cup made
  /\ raw => raw'
  /\ \/ /\ shared' = shared /\ grants' = grants \cup made
        /\ \A lease, other \in made : lease = other
     \/ shared' = shared \cup SharedBy(live') /\ grants' = grants
  /\ \/ ended' = ended
     \/ /\ writes' = writes
        /\ \E old \in lost :
             ended' = ended \cup {[fence |-> FenceOf(old), version |-> version]}
  /\ \A write \in writes' :
       \/ write \in writes
       \/ \E lease \in live : /\ write.fence = FenceOf(lease)
                             /\ write.resource = lease.resource
                             /\ write.epoch = lease.epoch
                             /\ write.version = version + 1

(* Every transaction keeps the invariant that asserts one lease at most for *)
(* a resource that has none left, or else is a client's own.                *)
LEMMA TransactionKeeps ==
  ASSUME LeaseInv, NEW lost \in SUBSET live, NEW made, Transaction(lost, made),
         \A lease \in made : lease.epoch = version + 1 /\ lease.place \in Nat,
         ~raw' => /\ \A lease, other \in made : lease = other
                  /\ \A lease \in made, other \in live :
                       other.resource = lease.resource => other \in lost
  PROVE  LeaseInv'
<1>1. /\ version \in Nat /\ version' = version + 1
      /\ live' = (live \ lost) \cup made /\ (raw => raw')
      /\ shared \subseteq shared' /\ shared' \subseteq shared \cup SharedBy(live')
      /\ grants \subseteq grants' /\ grants' \subseteq grants \cup made
  BY DEF Transaction, Advance, LeaseInv, Bounded
<1>2. \A end \in ended' :
        \/ end \in ended
        \/ /\ writes' = writes
           /\ \E old \in lost : end.fence = FenceOf(old) /\ end.version = version
  BY DEF Transaction
<1>3. \A write \in writes' :
        \/ write \in writes
        \/ \E lease \in live : /\ write.fence = FenceOf(lease)
                              /\ write.resource = lease.resource
                              /\ write.epoch = lease.epoch
                              /\ write.version = version + 1
  BY DEF Transaction
<1>4. \A fence \in SharedBy(live') :
        \E lease, other \in live' : /\ lease # other
                                   /\ fence = FenceOf(lease) /\ fence = FenceOf(other)
  BY DEF SharedBy
<1>5. \A lease, other \in live' :
        (lease # other /\ FenceOf(lease) = FenceOf(other)) => FenceOf(lease) \in SharedBy(live')
  BY DEF SharedBy
<1>6. \A lease : FenceOf(lease).epoch = lease.epoch
  BY DEF FenceOf
<1>7. ASSUME NEW lease \in live', NEW other \in live',
             lease # other, FenceOf(lease) = FenceOf(other)
      PROVE  FenceOf(lease) \in shared'
  <2>1. CASE shared' = shared /\ \A l, o \in made : l = o
    <3>1. lease.epoch = other.epoch
      BY <1>6, <1>7
    <3>2. lease \in live /\ other \in live
      BY <1>1, <1>7, <2>1, <3>1 DEF LeaseInv, Bounded
    <3> QED BY <1>7, <2>1, <3>2 DEF LeaseInv, FencesShared
  <2>2. CASE shared' = shared \cup SharedBy(live')
    BY <1>5, <1>7, <2>2
  <2> QED BY <2>1, <2>2 DEF Transaction
<1>8. FencesShared'
  BY <1>7 DEF FencesShared, FenceOf
<1>9. \A fence \in shared' : fence \in shared \/ fence.epoch = version + 1
  <2> SUFFICES ASSUME NEW fence \in SharedBy(live'), fence.epoch # version + 1
               PROVE  fence \in shared
    BY <1>1
  <2>1. PICK lease \in live', other \in live' :
          lease # other /\ fence = FenceOf(lease) /\ fence = FenceOf(other)
    BY <1>4
  <2>2. lease \in live /\ other \in live
    BY <1>1, <1>6, <2>1
  <2> QED BY <2>1, <2>2 DEF LeaseInv, FencesShared
<1>10. Bounded'
  <2>1. \A lease \in live' : /\ lease.epoch \in Nat /\ lease.epoch <= version'
                            /\ lease.place \in Nat
    BY <1>1 DEF LeaseInv, Bounded
  <2>2. \A lease \in grants' : lease.epoch \in Nat /\ lease.epoch <= version'
    BY <1>1 DEF LeaseInv, Bounded
  <2>3. \A fence \in shared' : fence.epoch \in Nat /\ fence.epoch <= version'
    BY <1>1, <1>9 DEF LeaseInv, Bounded
  <2>4. \A write \in writes' : /\ write.version \in Nat /\ write.version <= version'
                              /\ write.epoch \in Nat /\ write.epoch <= version'
    BY <1>1, <1>3 DEF LeaseInv, Bounded
  <2>5. \A end \in ended' : /\ end.version \in Nat /\ end.version < version'
                           /\ end.fence.epoch \in Nat /\ end.fence.epoch <= version'
    BY <1>1, <1>2, <1>6 DEF LeaseInv, Bounded
  <2> QED BY <1>1, <2>1, <2>2, <2>3, <2>4, <2>5 DEF Bounded
<1>11. OneLease'
  BY <1>1 DEF LeaseInv, OneLease
<1>12. LiveIsNewest'
  <2> SUFFICES ASSUME ~raw', NEW lease \in live', NEW write \in writes',
                      write.resource = lease.resource
               PROVE  write.epoch <= lease.epoch
    BY DEF LiveIsNewest
  <2>1. write.epoch \in Nat /\ write.epoch <= version
    BY <1>3 DEF LeaseInv, Bounded
  <2>2. CASE lease \in made
    BY <1>1, <2>1, <2>2
  <2>3. CASE lease \in live
    <3>1. CASE write \in writes
      BY <1>1, <2>3, <3>1 DEF LeaseInv, LiveIsNewest
    <3>2. ASSUME NEW old \in live, write.resource = old.resource, write.epoch = old.epoch
          PROVE  write.epoch <= lease.epoch
      <4>1. lease = old
        BY <1>1, <2>3, <3>2 DEF LeaseInv, OneLease
      <4> QED BY <2>1, <3>2, <4>1
    <3> QED BY <1>3, <3>1, <3>2
  <2> QED BY <1>1, <2>2, <2>3
<1>13. EndedIsDead'
  <2> SUFFICES ASSUME NEW lease \in live', NEW end \in ended', end.fence = FenceOf(lease)
               PROVE  end.fence \in shared'
    BY DEF EndedIsDead, FenceOf
  <2>1. end.fence.epoch \in Nat /\ end.fence.epoch <= version
    BY <1>2, <1>6 DEF LeaseInv, Bounded
  <2>2. lease \in live \ lost
    BY <1>1, <1>6, <2>1
  <2>3. CASE end \in ended
    BY <1>1, <2>2, <2>3 DEF LeaseInv, EndedIsDead
  <2>4. ASSUME NEW old \in lost, end.fence = FenceOf(old) PROVE end.fence \in shared'
    BY <1>1, <2>2, <2>4 DEF LeaseInv, FencesShared
  <2> QED BY <1>2, <2>3, <2>4
<1>14. FencedWritesOrdered'
  <2> SUFFICES ASSUME ~raw', NEW early \in writes', NEW late \in writes',
                      early.resource = late.resource, early.version < late.version
               PROVE  early.epoch <= late.epoch
    BY DEF FencedWritesOrdered
  <2>1. CASE early \in writes /\ late \in writes
    BY <1>1, <2>1 DEF LeaseInv, FencedWritesOrdered
  <2>2. CASE early \in writes /\ late \notin writes
    BY <1>1, <1>3, <2>2 DEF LeaseInv, LiveIsNewest
  <2>3. CASE early \notin writes
    <3>1. early.version = version + 1
      BY <1>3, <2>3
    <3>2. late.version \in Nat /\ late.version <= version + 1
      BY <1>1, <1>3 DEF LeaseInv, Bounded
    <3> QED BY <1>1, <3>1, <3>2
  <2> QED BY <2>1, <2>2, <2>3
<1>15. EndedNeverAccepted'
  <2>1. ASSUME NEW end \in ended', NEW write \in writes',
               write.fence = end.fence, end.fence \notin shared'
        PROVE  write.version <= end.version
    <3>1. CASE write \in writes /\ end \in ended
      BY <1>1, <2>1, <3>1 DEF LeaseInv, EndedNeverAccepted
    <3>2. CASE write \in writes /\ end \notin ended
      BY <1>2, <3>2 DEF LeaseInv, Bounded
    <3>3. CASE write \notin writes
      <4>1. end \in ended
        BY <1>2, <3>3
      <4>2. PICK lease \in live : write.fence = FenceOf(lease)
        BY <1>3, <3>3
      <4> QED BY <1>1, <2>1, <4>1, <4>2 DEF LeaseInv, EndedIsDead
    <3> QED BY <3>1, <3>2, <3>3
  <2>2. ASSUME NEW lease \in grants' PROVE FenceOf(lease) \notin shared'
    <3>1. CASE lease \in grants
      <4>1. FenceOf(lease) \notin shared
        BY <3>1 DEF LeaseInv, EndedNeverAccepted
      <4>2. FenceOf(lease).epoch # version + 1
        BY <1>1, <1>6, <3>1 DEF LeaseInv, Bounded
      <4> QED BY <1>9, <4>1, <4>2
    <3>2. CASE lease \notin grants
      <4>1. lease \in made /\ shared' = shared
        BY <2>2, <3>2 DEF Transaction
      <4> QED BY <1>1, <1>6, <4>1 DEF LeaseInv, Bounded
    <3> QED BY <3>1, <3>2
  <2> QED BY <2>1, <2>2 DEF EndedNeverAccepted, FenceOf
<1> QED BY <1>8, <1>10, <1>11, <1>12, <1>13, <1>14, <1>15 DEF LeaseInv

(* A mutation is such a transaction, whatever its actions do to leases: the *)
(* first of them by a client ends the time in which only lease operations   *)
(* write leases (commit-mutation!).                                         *)
LEMMA MutationKeeps ==
  ASSUME LeaseInv, NEW batch \in Seq(Action), Mutate(batch),
         \A write \in writes' :
           \/ write \in writes
           \/ \E lease \in live : /\ write.fence = FenceOf(lease)
                                 /\ write.resource = lease.resource
                                 /\ write.epoch = lease.epoch
                                 /\ write.version = version + 1
  PROVE  LeaseInv'
<1> DEFINE lost == live \ live'
           made == live' \ live
<1>1. /\ Advance /\ live' = After(batch) /\ raw' = (raw \/ batch # <<>>)
      /\ shared' = shared \cup SharedBy(live') /\ grants' = grants /\ ended' = ended
  BY DEF Mutate
<1>2. \A lease \in made : lease.epoch = version + 1 /\ lease.place \in Nat
  <2>1. live' \subseteq live \cup Asserted(batch)
    BY <1>1, AfterIs
  <2>2. \A p \in LeaseProp, i \in 1..Len(batch) :
          /\ LeaseAt(p, version + 1, i).epoch = version + 1
          /\ LeaseAt(p, version + 1, i).place \in Nat
    BY DEF LeaseAt
  <2> QED BY <2>1, <2>2 DEF Asserted
<1>3. ~raw' => made = {}
  <2>1. ~raw' => batch = <<>>
    BY Zenon DEF Mutate
  <2>2. ASSUME batch = <<>> PROVE After(batch) = live
    BY <2>2, AfterIs
  <2> QED BY <1>1, <2>1, <2>2
<1>4. live' = (live \ lost) \cup made /\ lost \in SUBSET live
  OBVIOUS
<1> HIDE DEF lost, made
<1>5. Transaction(lost, made)
  BY <1>1, <1>4 DEF Transaction
<1> QED BY <1>2, <1>3, <1>4, <1>5, TransactionKeeps

(* Every step keeps the invariant.                                          *)
LEMMA LeaseInvStep ==
  ASSUME LeaseInv, [Next]_vars
  PROVE  LeaseInv'
<1>1. ASSUME NEW resource \in Resource, NEW holder \in Holder, NEW ttl \in Ttl,
             Acquire(resource, holder, ttl)
      PROVE  LeaseInv'
  <2> DEFINE prior == {lease \in live : lease.resource = resource /\ IsCurrent(lease)}
             lease == NewLease(resource, holder, clock + ttl, version + 1)
  <2>1. ~raw => \A other \in live : other.resource = lease.resource => other \in prior
    <3> SUFFICES ASSUME ~raw, NEW other \in live, other.resource = resource
                 PROVE  IsCurrent(other)
      BY DEF NewLease, LeaseAt
    <3>1. \A third \in live : third.resource = resource => third = other
      BY DEF LeaseInv, OneLease
    <3>2. other.epoch \in Nat /\ other.place \in Nat
      BY DEF LeaseInv, Bounded
    <3>3. NotAfter(other, other)
      BY <3>2 DEF NotAfter
    <3> QED BY <3>1, <3>3 DEF IsCurrent
  <2>2. lease.epoch = version + 1 /\ lease.place \in Nat
    BY DEF NewLease, LeaseAt
  <2>3. Replace(prior, lease) /\ UNCHANGED <<clock, ended, writes, raw, shared>>
    BY <1>1 DEF Acquire
  <2> HIDE DEF prior, lease
  <2>4. prior \in SUBSET live
    BY DEF prior
  <2>5. Transaction(prior, {lease})
    BY <2>3 DEF Replace, Transaction
  <2> QED BY <2>1, <2>2, <2>3, <2>4, <2>5, TransactionKeeps
<1>2. ASSUME NEW old \in live, NEW fence \in Fence, NEW ttl \in Ttl,
             Renew(old, fence, ttl)
      PROVE  LeaseInv'
  <2> DEFINE lease == NewLease(fence.resource, fence.holder, clock + ttl, version + 1)
  <2>1. FenceOf(old) = fence
    BY <1>2 DEF Renew, MatchedBy
  <2>2. ~raw => \A other \in live : other.resource = lease.resource => other \in {old}
    BY <2>1 DEF LeaseInv, OneLease, NewLease, LeaseAt, FenceOf
  <2>3. lease.epoch = version + 1 /\ lease.place \in Nat
    BY DEF NewLease, LeaseAt
  <2>4. Replace({old}, lease) /\ UNCHANGED <<clock, writes, raw, shared>>
    BY <1>2 DEF Renew
  <2>5. ended' = ended \cup {[fence |-> FenceOf(old), version |-> version]}
    BY <1>2, <2>1 DEF Renew
  <2> HIDE DEF lease
  <2>6. Transaction({old}, {lease})
    BY <2>4, <2>5 DEF Replace, Transaction
  <2> QED BY <2>2, <2>3, <2>4, <2>6, TransactionKeeps
<1>3. ASSUME NEW old \in live, NEW fence \in Fence, Release(old, fence)
      PROVE  LeaseInv'
  <2>1. FenceOf(old) = fence
    BY <1>3 DEF Release, MatchedBy
  <2>2. /\ Advance /\ live' = live \ {old}
        /\ UNCHANGED <<clock, grants, writes, raw, shared>>
        /\ ended' = ended \cup {[fence |-> FenceOf(old), version |-> version]}
    BY <1>3, <2>1 DEF Release
  <2>3. Transaction({old}, {})
    BY <2>2 DEF Transaction
  <2> QED BY <2>3, TransactionKeeps
<1>4. ASSUME NEW fence \in Fence, NEW batch \in Batches, FencedWrite(fence, batch)
      PROVE  LeaseInv'
  <2>1. PICK lease \in live : /\ lease.resource = fence.resource
                              /\ lease.holder = fence.holder
                              /\ lease.epoch = fence.epoch
    BY <1>4 DEF FencedWrite, FenceValid
  <2>2. fence = FenceOf(lease)
    BY <2>1 DEF Fence, FenceOf
  <2>3. writes' = writes \cup {[resource |-> fence.resource, epoch |-> fence.epoch,
                               fence |-> fence, version |-> version + 1]}
    BY <1>4 DEF FencedWrite
  <2>4. batch \in Seq(Action) /\ Mutate(batch)
    BY <1>4, LeaseAssumption DEF FencedWrite
  <2> QED BY <2>1, <2>2, <2>3, <2>4, MutationKeeps
<1>5. ASSUME NEW batch \in Batches, PlainWrite(batch)
      PROVE  LeaseInv'
  <2>1. batch \in Seq(Action) /\ Mutate(batch) /\ writes' = writes
    BY <1>5, LeaseAssumption DEF PlainWrite
  <2> QED BY <2>1, MutationKeeps
<1>6. ASSUME NEW time \in 0..MaxTime, SetClock(time)
      PROVE  LeaseInv'
  BY <1>6 DEF SetClock, LeaseInv, Bounded, FencesShared, OneLease, LiveIsNewest,
              EndedIsDead, FencedWritesOrdered, EndedNeverAccepted, FenceOf
<1>7. CASE UNCHANGED vars
  BY <1>7 DEF vars, LeaseInv, Bounded, FencesShared, OneLease, LiveIsNewest, EndedIsDead,
              FencedWritesOrdered, EndedNeverAccepted, FenceOf
<1> QED BY <1>1, <1>2, <1>3, <1>4, <1>5, <1>6, <1>7 DEF Next

(* The inductive invariant holds of every behaviour.                        *)
THEOREM LeaseInvariant == Spec => []LeaseInv
<1>1. LeaseInv /\ [Next]_vars => LeaseInv'
  BY LeaseInvStep
<1> QED BY <1>1, LeaseInvInit, PTL DEF Spec

(* No delayed write with an older fence is ever accepted after one with a   *)
(* newer fence (execute-actions! under fence-valid?).                       *)
THEOREM FencesAreOrdered == Spec => []FencedWritesOrdered
<1>1. LeaseInv => FencedWritesOrdered
  BY DEF LeaseInv
<1> QED BY <1>1, LeaseInvariant, PTL

(* A renewed or released fence is never accepted again, except one that two *)
(* leases of one transaction of a client's own had; and no fence that the   *)
(* server granted is such a one, whatever batches of actions clients write  *)
(* (retract-lease!, execute-actions!).                                      *)
THEOREM EndedFencesAreDead == Spec => []EndedNeverAccepted
<1>1. LeaseInv => EndedNeverAccepted
  BY DEF LeaseInv
<1> QED BY <1>1, LeaseInvariant, PTL

(* A resource has at most one live lease as long as clients write leases    *)
(* through the lease operations only (replace-lease!).                      *)
THEOREM LeaseIsUnique == Spec => []OneLease
<1>1. LeaseInv => OneLease
  BY DEF LeaseInv
<1> QED BY <1>1, LeaseInvariant, PTL

(* Every step keeps the types: only a valid grant input is ever granted, so *)
(* no granted expiry passes max-time-ms (valid-grant-input?).               *)
THEOREM LeaseTypeCorrect == Spec => []TypeOK
<1>1. Init => TypeOK
  <2>1. 0 \in 0..MaxTime /\ 0 \in Nat
    BY LeaseAssumption
  <2>2. \A S : {} \subseteq S
    OBVIOUS
  <2> QED BY <2>1, <2>2, Zenon DEF Init, TypeOK
<1>2. ASSUME TypeOK, [Next]_vars
      PROVE  TypeOK'
  <2> USE DEF TypeOK
  <2>1. Advance => version' \in Nat \ {0} /\ version' = version + 1
    BY <1>2 DEF Advance
  <2>2. ASSUME NEW resource \in Resource, NEW holder \in Holder, NEW ttl \in Ttl,
               ValidGrant(ttl), Advance
        PROVE  /\ NewLease(resource, holder, clock + ttl, version + 1) \in LeaseType
               /\ NewLease(resource, holder, clock + ttl, version + 1).expires <= MaxTime
    <3>1. clock + ttl \in Nat /\ clock + ttl <= MaxTime
      BY <1>2, <2>2, LeaseAssumption DEF ValidGrant
    <3> QED BY <1>2, <2>1, <2>2, <3>1 DEF NewLease, LeaseAt, LeaseType
  <2>3. Fence \subseteq FenceType
    BY DEF Fence, FenceType
  <2>4. ASSUME NEW resource \in Resource, NEW holder \in Holder, NEW ttl \in Ttl,
               Acquire(resource, holder, ttl)
        PROVE  TypeOK'
    BY <1>2, <2>1, <2>2, <2>4 DEF Acquire, Replace
  <2>5. ASSUME NEW lease \in live, NEW fence \in Fence, NEW ttl \in Ttl,
               Renew(lease, fence, ttl)
        PROVE  TypeOK'
    <3>1. fence.resource \in Resource /\ fence.holder \in Holder /\ fence \in FenceType
      BY <2>3 DEF Fence
    <3> QED BY <1>2, <2>1, <2>2, <2>5, <3>1 DEF Renew, Replace
  <2>6. ASSUME NEW lease \in live, NEW fence \in Fence, Release(lease, fence)
        PROVE  TypeOK'
    BY <1>2, <2>1, <2>3, <2>6 DEF Release
  <2>7. ASSUME NEW batch \in Batches, Mutate(batch)
        PROVE  /\ version' \in Nat \ {0} /\ version' = version + 1
               /\ live' \subseteq LeaseType /\ shared' \subseteq FenceType
               /\ raw' \in BOOLEAN /\ UNCHANGED <<clock, grants, ended>>
    <3>1. /\ version' \in Nat \ {0} /\ version' = version + 1
          /\ live' = After(batch) /\ UNCHANGED <<clock, grants, ended>>
          /\ shared' = shared \cup SharedBy(live') /\ raw' = (raw \/ batch # <<>>)
      BY <2>1, <2>7 DEF Mutate
    <3>2. batch \in Seq(Action)
      BY LeaseAssumption
    <3>3. \A p \in LeaseProp, i \in 1..Len(batch) : LeaseAt(p, version + 1, i) \in LeaseType
      BY <3>1, <3>2 DEF LeaseProp, LeaseAt, LeaseType
    <3>4. live' \subseteq LeaseType
      BY <1>2, <3>1, <3>2, <3>3, AfterIs DEF Asserted
    <3>5. \A fence \in SharedBy(live') : \E lease \in live' : fence = FenceOf(lease)
      BY DEF SharedBy
    <3>6. \A lease \in LeaseType : FenceOf(lease) \in FenceType
      BY DEF LeaseType, FenceOf, FenceType
    <3>7. shared' \subseteq FenceType
      BY <1>2, <3>1, <3>4, <3>5, <3>6
    <3>8. raw' \in BOOLEAN
      BY <3>1, Zenon
    <3> QED BY <3>1, <3>4, <3>7, <3>8
  <2>8. ASSUME NEW batch \in Batches, NEW fence \in Fence, FencedWrite(fence, batch)
        PROVE  TypeOK'
    <3>1. fence \in FenceType /\ fence.resource \in Resource /\ fence.epoch \in Nat \ {0}
      BY <2>3 DEF Fence
    <3>2. Mutate(batch)
      BY <2>8 DEF FencedWrite
    <3> QED BY <1>2, <2>7, <2>8, <3>1, <3>2 DEF FencedWrite
  <2>9. ASSUME NEW batch \in Batches, PlainWrite(batch)
        PROVE  TypeOK'
    BY <1>2, <2>7, <2>9 DEF PlainWrite
  <2>10. ASSUME NEW time \in 0..MaxTime, SetClock(time)
         PROVE  TypeOK'
    BY <1>2, <2>10 DEF SetClock
  <2>11. CASE UNCHANGED vars
    BY <1>2, <2>11 DEF vars
  <2> QED BY <1>2, <2>4, <2>5, <2>6, <2>8, <2>9, <2>10, <2>11 DEF Next
<1> QED BY <1>1, <1>2, PTL DEF Spec

(* Only its own renewal or release takes a lease away whose fence is still  *)
(* accepted (acquire-response! under held?).                                *)
THEOREM ValidLeasesStay == Spec => ValidLeaseStays
<1> DEFINE Kept ==
      ~raw' => \A lease \in live :
        (FenceValid(FenceOf(lease)) /\ lease \notin live') =>
          \E end \in ended' \ ended : end.fence = FenceOf(lease)
<1>1. ASSUME LeaseInv, [Next]_vars
      PROVE  Kept
  <2> SUFFICES ASSUME ~raw', NEW lease \in live, FenceValid(FenceOf(lease)),
                      lease \notin live'
               PROVE  \E end \in ended' \ ended : end.fence = FenceOf(lease)
    OBVIOUS
  <2>1. ~raw
    <3>1. CASE \E batch \in Batches : Mutate(batch)
      BY <3>1, Zenon DEF Mutate
    <3> QED BY <1>1, <3>1 DEF Next, Acquire, Renew, Release, FencedWrite, PlainWrite, SetClock, vars
  <2>2. Held(lease)
    <3>1. PICK l \in live : l.resource = lease.resource /\ l.expires > clock
      BY DEF FenceValid, FenceOf
    <3> QED BY <1>1, <2>1, <3>1 DEF LeaseInv, OneLease, Held
  <2>3. ASSUME NEW fence, FenceOf(lease) = fence,
               ended' = ended \cup {[fence |-> fence, version |-> version]}
        PROVE  \E end \in ended' \ ended : end.fence = FenceOf(lease)
    <3> DEFINE new == [fence |-> fence, version |-> version]
    <3>1. new.version = version /\ new.fence = fence /\ new \in ended'
      BY <2>3
    <3> HIDE DEF new
    <3>2. new \notin ended
      BY <1>1, <3>1 DEF LeaseInv, Bounded
    <3> QED BY <2>3, <3>1, <3>2
  <2>4. ASSUME NEW resource \in Resource, NEW holder \in Holder, NEW ttl \in Ttl,
               Acquire(resource, holder, ttl)
        PROVE  FALSE
    BY <2>2, <2>4 DEF Acquire, Replace
  <2>5. ASSUME NEW old \in live, NEW fence \in Fence, NEW ttl \in Ttl,
               Renew(old, fence, ttl)
        PROVE  lease = old /\ FenceOf(old) = fence
                 /\ ended' = ended \cup {[fence |-> fence, version |-> version]}
    BY <2>5 DEF Renew, Replace, MatchedBy
  <2>6. ASSUME NEW old \in live, NEW fence \in Fence, Release(old, fence)
        PROVE  lease = old /\ FenceOf(old) = fence
                 /\ ended' = ended \cup {[fence |-> fence, version |-> version]}
    BY <2>6 DEF Release, MatchedBy
  <2>7. ASSUME NEW batch \in Batches, Mutate(batch)
        PROVE  FALSE
    <3>1. batch = <<>>
      BY <2>7, Zenon DEF Mutate
    <3>2. batch \in Seq(Action)
      BY LeaseAssumption
    <3>3. After(batch) = live
      BY <3>1, <3>2, AfterIs
    <3> QED BY <2>7, <3>3 DEF Mutate
  <2>8. \A batch \in Batches : ~PlainWrite(batch) /\ \A fence \in Fence : ~FencedWrite(fence, batch)
    BY <2>7 DEF FencedWrite, PlainWrite
  <2>9. \A time \in 0..MaxTime : ~SetClock(time)
    BY DEF SetClock
  <2>10. ~UNCHANGED vars
    BY DEF vars
  <2> QED BY <1>1, <2>3, <2>4, <2>5, <2>6, <2>8, <2>9, <2>10 DEF Next
<1>2. LeaseInv /\ [Next]_vars => [Kept]_vars
  BY <1>1
<1> HIDE DEF Kept
<1>3. Spec => [][Kept]_vars
  BY <1>2, LeaseInvariant, PTL DEF Spec
<1> QED BY <1>3 DEF ValidLeaseStays, Kept
=============================================================================
