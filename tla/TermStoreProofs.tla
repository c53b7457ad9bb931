-------------------------- MODULE TermStoreProofs --------------------------
(***************************************************************************)
(* Proofs about TermStore, for every set of propositions, every bound and   *)
(* every maximal sequence: its derived state is always exact, a load        *)
(* restores exactly the fold it replaces and is never refused, and the      *)
(* store implements OccurrenceHistory.                                      *)
(*                                                                          *)
(* And proofs about Session, for every set of Terms, every cap on the tail  *)
(* and every bound: every read through a rotation gives what the store      *)
(* holds live, staged reads are those after the commit, promised            *)
(* coordinates hold, and responses tell what their commits did.             *)
(***************************************************************************)
EXTENDS TermStore, Session, FiniteSetTheorems, WellFoundedInduction, TLAPS

(* The last element of a bucket or a history is one of its elements.        *)
LEMMA LastInRange ==
  ASSUME NEW S, NEW s \in Seq(S), s # <<>>
  PROVE  s[Len(s)] \in S
OBVIOUS

(* A row the fold may meet, and one step of the fold.                       *)
LEMMA FoldTyped ==
  ASSUME NEW fold \in FoldType, NEW row \in OperationRow, NEW position \in Nat \ {0}
  PROVE  /\ ApplyOperation(fold, row, position) \in FoldType
         /\ Len(ApplyOperation(fold, row, position).targets) = Len(fold.targets) + 1
<1> DEFINE p == row.prop
           held == fold.active[p]
<1>1. p \in Prop /\ held \in Seq(Nat \ {0}) /\ fold.targets \in Seq(Nat)
  BY DEF FoldType, OperationRow
<1>2. CASE row.action = "assert"
  BY <1>1, <1>2 DEF ApplyOperation, FoldAssert, FoldType, NoTarget
<1>3. CASE row.action # "assert" /\ held = <<>>
  BY <1>1, <1>3 DEF ApplyOperation, FoldRetract, FoldType, NoTarget
<1>4. CASE row.action # "assert" /\ held # <<>>
  <2>1. Newest(held) \in Nat \ {0} /\ Pop(held) \in Seq(Nat \ {0})
    BY <1>1, <1>4 DEF Newest, Pop
  <2>2. ApplyOperation(fold, row, position) =
          [targets |-> Append(fold.targets, Newest(held)),
           active  |-> [fold.active EXCEPT ![p] = Pop(held)]]
    BY <1>1, <1>4 DEF ApplyOperation, FoldRetract
  <2> QED BY <1>1, <2>1, <2>2 DEF FoldType
<1> QED BY <1>2, <1>3, <1>4

(* Popping an ascending bucket takes out exactly its newest position.       *)
LEMMA PopNewest ==
  ASSUME NEW s \in Seq(Nat \ {0}), s # <<>>, Ascending(s)
  PROVE  /\ Ascending(Pop(s))
         /\ Elements(Pop(s)) = Elements(s) \ {Newest(s)}
         /\ Newest(s) \in Elements(s)
         /\ \A a \in Elements(s) : a <= Newest(s)
<1>1. Len(s) \in Nat \ {0} /\ DOMAIN s = 1..Len(s)
  OBVIOUS
<1>2. DOMAIN Pop(s) = 1..(Len(s) - 1) /\ \A i \in 1..(Len(s) - 1) : Pop(s)[i] = s[i]
  BY <1>1 DEF Pop
<1>3. Ascending(Pop(s))
  BY <1>1, <1>2 DEF Ascending
<1>4. \A i \in 1..(Len(s) - 1) : s[i] < s[Len(s)]
  BY <1>1 DEF Ascending
<1>5. \A i \in 1..Len(s) : s[i] \in Nat
  BY <1>1
<1>6. Newest(s) \in Elements(s) /\ \A a \in Elements(s) : a <= Newest(s)
  BY <1>1, <1>4, <1>5 DEF Elements, Newest
<1>7. Elements(Pop(s)) = Elements(s) \ {Newest(s)}
  <2>1. ASSUME NEW i \in 1..(Len(s) - 1)
        PROVE  s[i] \in Elements(s) \ {Newest(s)}
    BY <1>1, <1>4, <1>5, <2>1 DEF Elements, Newest
  <2>2. ASSUME NEW a \in Elements(s), a # Newest(s)
        PROVE  \E i \in 1..(Len(s) - 1) : a = s[i]
    BY <1>1, <2>2 DEF Elements, Newest
  <2>3. Elements(Pop(s)) = {s[i] : i \in 1..(Len(s) - 1)}
    BY <1>2, Zenon DEF Elements
  <2> QED BY <2>1, <2>2, <2>3, Zenon
<1> QED BY <1>3, <1>6, <1>7

(* Pushing a newer position keeps a bucket ascending.                      *)
LEMMA AppendNewer ==
  ASSUME NEW s \in Seq(Nat \ {0}), NEW k \in Nat \ {0},
         Ascending(s), \A a \in Elements(s) : a < k
  PROVE  /\ Elements(Append(s, k)) = Elements(s) \cup {k}
         /\ Ascending(Append(s, k))
<1> DEFINE t == Append(s, k)
<1>1. /\ DOMAIN s = 1..Len(s) /\ Len(s) \in Nat
      /\ DOMAIN t = 1..(Len(s) + 1)
      /\ t[Len(s) + 1] = k
      /\ \A i \in 1..Len(s) : t[i] = s[i]
  OBVIOUS
<1> HIDE DEF t
<1>2. \A i \in 1..Len(s) : s[i] < k
  <2> SUFFICES ASSUME NEW i \in 1..Len(s) PROVE s[i] < k
    OBVIOUS
  <2>1. s[i] \in Elements(s)
    BY <1>1 DEF Elements
  <2> QED BY <2>1
<1>3. Ascending(t)
  BY <1>1, <1>2 DEF Ascending
<1>4. DOMAIN t = DOMAIN s \cup {Len(s) + 1} /\ Len(s) + 1 \notin DOMAIN s
  BY <1>1
<1>5. Elements(t) = Elements(s) \cup {k}
  <2>1. \A i \in DOMAIN s : t[i] = s[i]
    BY <1>1
  <2>2. Elements(t) \subseteq Elements(s) \cup {k}
    BY <1>1, <1>4, <2>1 DEF Elements
  <2>3. Elements(s) \subseteq Elements(t)
    BY <1>4, <2>1 DEF Elements
  <2>4. k \in Elements(t)
    BY <1>1, <1>4 DEF Elements
  <2> QED BY <2>2, <2>3, <2>4
<1> QED BY <1>3, <1>5 DEF t

(* A row's folded prefix does not depend on the rows that follow it.       *)
LEMMA PrefixFold ==
  ASSUME NEW rows \in Seq(OperationRow), NEW row \in OperationRow,
         NEW fold \in FoldType, Len(fold.targets) <= Len(rows),
         BucketsExact(rows, fold), TargetsExact(rows, fold)
  PROVE  /\ BucketsExact(Append(rows, row), fold)
         /\ TargetsExact(Append(rows, row), fold)
<1> DEFINE longer == Append(rows, row)
<1>1. /\ Len(fold.targets) \in Nat
      /\ DOMAIN fold.targets = 1..Len(fold.targets)
      /\ \A i \in 1..Len(rows) : longer[i] = rows[i]
  BY DEF FoldType
<1> HIDE DEF longer
<1>2. ASSUME NEW p \in Prop, NEW n \in 0..Len(rows)
      PROVE  Unwithdrawn(longer, fold, p, n) = Unwithdrawn(rows, fold, p, n)
  <2>1. \A a \in 1..n : longer[a] = rows[a]
    BY <1>1
  <2>2. Assertions(longer, p, n) = Assertions(rows, p, n)
    BY <2>1 DEF Assertions
  <2> QED BY <2>2 DEF Unwithdrawn
<1>3. BucketsExact(longer, fold)
  <2>1. Len(fold.targets) \in 0..Len(rows)
    BY <1>1
  <2>2. \A p \in Prop : Unwithdrawn(longer, fold, p, Len(fold.targets)) =
                        Unwithdrawn(rows, fold, p, Len(fold.targets))
    BY <1>2, <2>1
  <2> QED BY <2>2 DEF BucketsExact
<1>4. ASSUME NEW r \in DOMAIN fold.targets
      PROVE  TargetExact(longer, fold, r)
  <2>1. r \in 1..Len(rows) /\ r - 1 \in 0..Len(rows)
    BY <1>1, <1>4
  <2>2. longer[r] = rows[r] /\ rows[r].prop \in Prop
    <3>1. rows[r] \in OperationRow
      BY <2>1
    <3>2. rows[r].prop \in Prop
      BY <3>1 DEF OperationRow
    <3> QED BY <1>1, <2>1, <3>2
  <2>3. TargetExact(rows, fold, r)
    BY <1>4 DEF TargetsExact
  <2> QED BY <1>2, <2>1, <2>2, <2>3 DEF TargetExact
<1> QED BY <1>3, <1>4 DEF TargetsExact, longer

(* Folding the next row keeps buckets and targets exact.                   *)
LEMMA FoldExact ==
  ASSUME NEW rows \in Seq(OperationRow), NEW fold \in FoldType,
         NEW position \in Nat, position = Len(fold.targets) + 1,
         position <= Len(rows),
         BucketsExact(rows, fold), TargetsExact(rows, fold)
  PROVE  /\ BucketsExact(rows, ApplyOperation(fold, rows[position], position))
         /\ TargetsExact(rows, ApplyOperation(fold, rows[position], position))
<1> DEFINE n == Len(fold.targets)
           row == rows[position]
           p == row.prop
           held == fold.active[p]
           next == ApplyOperation(fold, row, position)
<1>1. /\ n \in Nat
      /\ fold.targets \in Seq(Nat) /\ DOMAIN fold.targets = 1..n
      /\ fold.active \in [Prop -> Seq(Nat \ {0})]
      /\ row \in OperationRow /\ p \in Prop
      /\ held \in Seq(Nat \ {0})
  <2>1. row \in OperationRow
    OBVIOUS
  <2>2. p \in Prop
    BY <2>1 DEF OperationRow
  <2>3. /\ fold.targets \in Seq(Nat)
        /\ fold.active \in [Prop -> Seq(Nat \ {0})]
    BY DEF FoldType
  <2>4. n \in Nat /\ DOMAIN fold.targets = 1..n
    BY <2>3
  <2>5. held \in Seq(Nat \ {0})
    BY <2>2, <2>3
  <2> QED BY <2>1, <2>2, <2>3, <2>4, <2>5
<1>2. next \in FoldType /\ Len(next.targets) = position
  BY <1>1, FoldTyped
<1>3. \A r \in 1..n : next.targets[r] = fold.targets[r]
  BY <1>1 DEF ApplyOperation, FoldAssert, FoldRetract
<1> HIDE DEF next
<1>4. ASSUME NEW q \in Prop, NEW m \in 0..n
      PROVE  Unwithdrawn(rows, next, q, m) = Unwithdrawn(rows, fold, q, m)
  <2>1. 1..m \subseteq 1..n
    BY <1>1
  <2>2. \A r \in 1..m : next.targets[r] = fold.targets[r]
    <3> HIDE DEF n
    <3> QED BY <1>3, <2>1
  <2> QED BY <2>2 DEF Unwithdrawn
<1>5. \A r \in 1..n : TargetExact(rows, next, r)
  <2> SUFFICES ASSUME NEW r \in 1..n PROVE TargetExact(rows, next, r)
    OBVIOUS
  <2>1. TargetExact(rows, fold, r)
    BY <1>1 DEF TargetsExact
  <2>2. rows[r].prop \in Prop /\ r - 1 \in 0..n
    <3>1. r \in 1..Len(rows) /\ r - 1 \in 0..n
      BY <1>1
    <3>2. rows[r] \in OperationRow
      BY <3>1
    <3> QED BY <3>1, <3>2 DEF OperationRow
  <2> QED BY <1>3, <1>4, <2>1, <2>2 DEF TargetExact
<1>6. Unwithdrawn(rows, next, p, n) = Elements(held)
  BY <1>1, <1>4 DEF BucketsExact
<1>7. \A r \in 1..n : fold.targets[r] < position
  <2> SUFFICES ASSUME NEW r \in 1..n PROVE fold.targets[r] < position
    OBVIOUS
  <2>1. TargetExact(rows, fold, r)
    BY <1>1 DEF TargetsExact
  <2>2. fold.targets[r] = 0 \/ fold.targets[r] \in 1..(r - 1)
    BY <2>1 DEF TargetExact, Unwithdrawn, Assertions, NoTarget
  <2>3. n \in Nat /\ position = n + 1
    BY <1>1
  <2> HIDE DEF n
  <2> QED BY <2>2, <2>3
<1>8. row.action # "assert" =>
         \A q \in Prop : Assertions(rows, q, position) = Assertions(rows, q, n)
  <2>1. 1..position = (1..n) \cup {position}
    BY <1>1
  <2> QED BY <2>1 DEF Assertions
<1>9. TargetExact(rows, next, position) => TargetsExact(rows, next)
  <2>1. DOMAIN next.targets = (1..n) \cup {position}
    <3>1. next.targets \in Seq(Nat)
      BY <1>2 DEF FoldType
    <3>2. DOMAIN next.targets = 1..position
      BY <1>2, <3>1
    <3>3. n \in Nat /\ position = n + 1
      BY <1>1
    <3> HIDE DEF n
    <3> QED BY <3>2, <3>3
  <2> QED BY <1>5, <2>1 DEF TargetsExact
<1>10. CASE row.action = "assert"
  <2>1. next = [targets |-> Append(fold.targets, NoTarget),
                active  |-> [fold.active EXCEPT ![p] = Append(held, position)]]
    BY <1>10, <1>1 DEF ApplyOperation, FoldAssert, next
  <2>2. TargetExact(rows, next, position)
    BY <1>1, <1>10, <2>1 DEF TargetExact
  <2>3. \A q \in Prop \ {p} :
          /\ next.active[q] = fold.active[q]
          /\ Unwithdrawn(rows, next, q, position) = Unwithdrawn(rows, fold, q, n)
    <3>1. /\ \A r \in 1..position : r \in 1..n \/ r = position
          /\ 1..n \subseteq 1..position
          /\ position \in 1..position
      BY <1>1
    <3>2. next.targets[position] = 0
      BY <1>1, <2>1 DEF NoTarget
    <3>3. \A q \in Prop \ {p} : next.active[q] = fold.active[q]
      BY <1>1, <2>1
    <3>4. ASSUME NEW q \in Prop \ {p}
          PROVE  Unwithdrawn(rows, next, q, position) = Unwithdrawn(rows, fold, q, n)
      <4>1. Assertions(rows, q, position) = Assertions(rows, q, n)
        <5>1. rows[position].prop # q
          OBVIOUS
        <5> HIDE DEF n, row, p, held
        <5> QED BY <3>1, <5>1 DEF Assertions
      <4>2. \A a \in Assertions(rows, q, n) : a # 0
        BY <1>1 DEF Assertions
      <4> HIDE DEF n, row, p, held
      <4> QED BY <1>3, <3>1, <3>2, <4>1, <4>2 DEF Unwithdrawn
    <3> QED BY <3>3, <3>4
  <2>4. Unwithdrawn(rows, next, p, position) = Elements(held) \cup {position}
    <3>1. \A a \in 1..position : next.targets[position] # a
      BY <1>1, <2>1 DEF NoTarget
    <3>2. \A r \in 1..position : next.targets[r] # position
      BY <1>1, <1>3, <1>7, <2>1 DEF NoTarget
    <3>3. Assertions(rows, p, position) = Assertions(rows, p, n) \cup {position}
      BY <1>1, <1>10 DEF Assertions
    <3> QED BY <1>1, <1>6, <3>1, <3>2, <3>3 DEF Unwithdrawn, Assertions
  <2>5. /\ Elements(Append(held, position)) = Elements(held) \cup {position}
        /\ Ascending(Append(held, position))
    <3>1. /\ Ascending(held)
          /\ \A a \in Elements(held) : a < position
      BY <1>1, <1>6 DEF BucketsExact, Unwithdrawn, Assertions
    <3> QED BY <1>1, <3>1, AppendNewer
  <2>6. BucketsExact(rows, next)
    BY <1>1, <1>2, <2>1, <2>3, <2>4, <2>5 DEF BucketsExact
  <2> QED BY <1>9, <2>2, <2>6 DEF next
<1>11. CASE row.action # "assert" /\ held = <<>>
  <2>1. next = [targets |-> Append(fold.targets, NoTarget), active |-> fold.active]
    BY <1>11 DEF ApplyOperation, FoldRetract, next
  <2>2. Elements(held) = {}
    BY <1>11 DEF Elements
  <2>3. TargetExact(rows, next, position)
    BY <1>1, <1>6, <2>1, <2>2 DEF TargetExact
  <2>4. \A q \in Prop :
          Unwithdrawn(rows, next, q, position) = Unwithdrawn(rows, fold, q, n)
    <3>1. /\ \A r \in 1..position : r \in 1..n \/ r = position
          /\ 1..n \subseteq 1..position
          /\ position \in 1..position
      BY <1>1
    <3>2. next.targets[position] = 0
      BY <1>1, <2>1 DEF NoTarget
    <3>3. \A q \in Prop : \A a \in Assertions(rows, q, n) : a # 0
      BY <1>1 DEF Assertions
    <3> SUFFICES ASSUME NEW q \in Prop
                 PROVE  Unwithdrawn(rows, next, q, position) = Unwithdrawn(rows, fold, q, n)
      OBVIOUS
    <3>4. Assertions(rows, q, position) = Assertions(rows, q, n)
      BY <1>8, <1>11
    <3> HIDE DEF n, row, p, held
    <3> QED BY <1>3, <3>1, <3>2, <3>3, <3>4 DEF Unwithdrawn
  <2>5. BucketsExact(rows, next)
    BY <1>1, <1>2, <2>1, <2>4 DEF BucketsExact
  <2> QED BY <1>9, <2>3, <2>5 DEF next
<1>12. CASE row.action # "assert" /\ held # <<>>
  <2>1. next = [targets |-> Append(fold.targets, Newest(held)),
                active  |-> [fold.active EXCEPT ![p] = Pop(held)]]
    BY <1>12, <1>1 DEF ApplyOperation, FoldRetract, next
  <2>2. /\ Ascending(Pop(held))
        /\ Elements(Pop(held)) = Elements(held) \ {Newest(held)}
        /\ Newest(held) \in Elements(held)
        /\ \A a \in Elements(held) : a <= Newest(held)
    BY <1>1, <1>12, PopNewest DEF BucketsExact
  <2>3. next.targets[position] = Newest(held)
    BY <1>1, <2>1
  <2>4. /\ \A r \in 1..position : r \in 1..n \/ r = position
        /\ 1..n \subseteq 1..position
        /\ position \in 1..position
    BY <1>1
  <2>5. TargetExact(rows, next, position)
    <3>1. /\ rows[position].prop = p
          /\ rows[position].action # "assert"
          /\ position - 1 = n
      BY <1>1, <1>12
    <3>2. Elements(held) # {}
      BY <2>2
    <3> HIDE DEF n, row, p, held
    <3> QED BY <1>6, <2>2, <2>3, <3>1, <3>2 DEF TargetExact
  <2>6. \A q \in Prop \ {p} :
          /\ next.active[q] = fold.active[q]
          /\ Unwithdrawn(rows, next, q, position) = Unwithdrawn(rows, fold, q, n)
    <3>1. Newest(held) \in Assertions(rows, p, n)
      BY <1>1, <1>6, <2>2 DEF Unwithdrawn
    <3>2. \A q \in Prop \ {p} : Newest(held) \notin Assertions(rows, q, n)
      BY <3>1 DEF Assertions
    <3>3. \A q \in Prop \ {p} : next.active[q] = fold.active[q]
      BY <1>1, <2>1
    <3>4. ASSUME NEW q \in Prop \ {p}
          PROVE  Unwithdrawn(rows, next, q, position) = Unwithdrawn(rows, fold, q, n)
      <4>1. Assertions(rows, q, position) = Assertions(rows, q, n)
        BY <1>8, <1>12
      <4>2. \A a \in Assertions(rows, q, n) : next.targets[position] # a
        BY <2>3, <3>2
      <4> HIDE DEF n, row, p, held
      <4> QED BY <1>3, <2>4, <4>1, <4>2 DEF Unwithdrawn
    <3> QED BY <3>3, <3>4
  <2>7. Unwithdrawn(rows, next, p, position) = Elements(held) \ {Newest(held)}
    <3>1. Unwithdrawn(rows, next, p, position) =
            Unwithdrawn(rows, fold, p, n) \ {Newest(held)}
      <4>1. Assertions(rows, p, position) = Assertions(rows, p, n)
        BY <1>1, <1>8, <1>12
      <4> HIDE DEF n, row, p, held
      <4> QED BY <1>3, <2>3, <2>4, <4>1 DEF Unwithdrawn
    <3> QED BY <1>1, <3>1 DEF BucketsExact
  <2>8. BucketsExact(rows, next)
    BY <1>1, <1>2, <2>1, <2>2, <2>6, <2>7 DEF BucketsExact
  <2> QED BY <1>9, <2>5, <2>8 DEF next
<1> QED BY <1>10, <1>11, <1>12 DEF next

-----------------------------------------------------------------------------
(* The inductive invariant: both folds are exact over the rows they have    *)
(* folded, the store's own fold has reached every row, and the transaction  *)
(* being appended starts no later than the next row.                        *)
FoldInv ==
  /\ TypeOK
  /\ Len(targets) = Len(operations)
  /\ phase = "appending" =>
       /\ transactions # <<>>
       /\ transactions[Len(transactions)].first <= Len(operations) + 1
  /\ Len(loaded.targets) <= Len(operations)
  /\ BucketsExact(operations, MainFold) /\ TargetsExact(operations, MainFold)
  /\ BucketsExact(operations, loaded) /\ TargetsExact(operations, loaded)

(* An empty fold is exact over any history.                                *)
LEMMA EmptyExact ==
  ASSUME NEW rows
  PROVE  /\ EmptyFold \in FoldType
         /\ Len(EmptyFold.targets) = 0
         /\ BucketsExact(rows, EmptyFold)
         /\ TargetsExact(rows, EmptyFold)
<1>1. /\ EmptyFold.targets = <<>>
      /\ EmptyFold.active = [p \in Prop |-> <<>>]
      /\ EmptyFold \in FoldType
  BY DEF EmptyFold, FoldType
<1>2. Len(EmptyFold.targets) = 0 /\ DOMAIN EmptyFold.targets = {}
  BY <1>1
<1>3. TargetsExact(rows, EmptyFold)
  BY <1>2 DEF TargetsExact
<1>4. Ascending(<<>>) /\ Elements(<<>>) = {}
  BY DEF Ascending, Elements
<1>5. \A p \in Prop : Unwithdrawn(rows, EmptyFold, p, 0) = {}
  BY DEF Unwithdrawn, Assertions
<1>6. \A p \in Prop : EmptyFold.active[p] = <<>>
  BY <1>1
<1> QED BY <1>1, <1>2, <1>3, <1>4, <1>5, <1>6 DEF BucketsExact

(* An empty store's folds are exact.                                        *)
LEMMA FoldInvInit == Init => FoldInv
<1> SUFFICES ASSUME Init PROVE FoldInv
  OBVIOUS
<1>1. MainFold = EmptyFold /\ loaded = EmptyFold
  BY DEF Init, MainFold, EmptyFold
<1>2. TypeOK
  BY <1>1, EmptyExact DEF Init, TypeOK
<1> QED BY <1>1, <1>2, EmptyExact DEF Init, FoldInv

(* Commits, replays, the two loops and a load keep both folds exact.        *)
LEMMA FoldInvStep == FoldInv /\ [Next]_vars => FoldInv'
<1> SUFFICES ASSUME FoldInv, [Next]_vars PROVE FoldInv'
  OBVIOUS
<1>1. ASSUME NEW sequence \in Nat \ {0}, NEW ops \in Batch,
             BeginTransaction(sequence, ops)
      PROVE  FoldInv'
  <2>1. ops \in Seq(Op) /\ Len(ops) \in Nat \ {0}
    BY <1>1 DEF Batch
  <2>2. /\ UNCHANGED <<operations, targets, active, nextSequence, loaded>>
        /\ UNCHANGED MainFold
    BY <1>1 DEF BeginTransaction, MainFold
  <2>3. /\ transactions' \in Seq(TransactionRow)
        /\ transactions' # <<>>
        /\ transactions'[Len(transactions')].first = Len(operations) + 1
    <3> DEFINE added == [sequence |-> sequence,
                         first    |-> Len(operations) + 1,
                         count    |-> Len(ops)]
    <3>1. transactions' = Append(transactions, added) /\ transactions \in Seq(TransactionRow)
      BY <1>1 DEF BeginTransaction, FoldInv, TypeOK
    <3>2. added \in TransactionRow
      BY <2>1 DEF TransactionRow, FoldInv, TypeOK
    <3>3. added.first = Len(operations) + 1
      OBVIOUS
    <3> HIDE DEF added
    <3> QED BY <3>1, <3>2, <3>3
  <2>4. TypeOK'
    BY <1>1, <2>1, <2>2, <2>3 DEF BeginTransaction, FoldInv, TypeOK
  <2>5. /\ (BucketsExact(operations, MainFold) /\ TargetsExact(operations, MainFold))'
        /\ (BucketsExact(operations, loaded) /\ TargetsExact(operations, loaded))'
    BY <2>2 DEF FoldInv
  <2> QED BY <2>2, <2>3, <2>4, <2>5 DEF FoldInv
<1>2. ASSUME AppendOperation PROVE FoldInv'
  <2> DEFINE transaction == transactions[Len(transactions)]
             position == Len(operations) + 1
             row == Row(transaction.sequence, position - transaction.first, Head(todo))
  <2>1. row \in OperationRow
    <3>1. transaction \in TransactionRow
      BY <1>2, LastInRange DEF AppendOperation, FoldInv, TypeOK
    <3>2. Head(todo) \in Op
      BY <1>2 DEF AppendOperation, FoldInv, TypeOK
    <3>3. position - transaction.first \in Nat
      BY <1>2, <3>1 DEF AppendOperation, FoldInv, TypeOK, TransactionRow
    <3> QED BY <3>1, <3>2, <3>3 DEF TransactionRow, Row, OperationRow, Op
  <2>2. /\ operations' = Append(operations, row)
        /\ MainFold' = ApplyOperation(MainFold, row, position)
        /\ UNCHANGED <<transactions, nextSequence, phase, loaded>>
        /\ todo' = Tail(todo)
    <3>1. ApplyOperation(MainFold, row, position) =
            [targets |-> ApplyOperation(MainFold, row, position).targets,
             active  |-> ApplyOperation(MainFold, row, position).active]
      BY DEF ApplyOperation, FoldAssert, FoldRetract
    <3> QED BY <1>2, <3>1 DEF AppendOperation, MainFold
  <2> HIDE DEF row
  <2>3. /\ operations \in Seq(OperationRow) /\ MainFold \in FoldType /\ loaded \in FoldType
        /\ Len(MainFold.targets) = Len(operations)
        /\ position \in Nat \ {0}
        /\ phase = "appending" /\ todo # <<>>
    BY <1>2 DEF AppendOperation, FoldInv, TypeOK, MainFold
  <2>4. /\ operations' \in Seq(OperationRow)
        /\ Len(operations') = position
        /\ operations'[position] = row
    BY <2>1, <2>2, <2>3
  <2>5. /\ BucketsExact(operations', MainFold) /\ TargetsExact(operations', MainFold)
        /\ BucketsExact(operations', loaded) /\ TargetsExact(operations', loaded)
    BY <2>1, <2>2, <2>3, PrefixFold DEF FoldInv
  <2>6. /\ BucketsExact(operations', MainFold')
        /\ TargetsExact(operations', MainFold')
    <3>1. position = Len(MainFold.targets) + 1 /\ position <= Len(operations')
      BY <2>3, <2>4
    <3> HIDE DEF position
    <3> QED BY <2>2, <2>3, <2>4, <2>5, <3>1, FoldExact
  <2>7. MainFold' \in FoldType /\ Len(MainFold'.targets) = position
    BY <2>1, <2>2, <2>3, FoldTyped
  <2>8. TypeOK'
    BY <2>2, <2>3, <2>4, <2>7 DEF FoldInv, TypeOK
  <2>9. /\ (Len(targets) = Len(operations))'
        /\ (Len(loaded.targets) <= Len(operations))'
    BY <2>2, <2>3, <2>4, <2>7 DEF FoldInv, MainFold, TypeOK, FoldType
  <2>10. (phase = "appending" =>
            /\ transactions # <<>>
            /\ transactions[Len(transactions)].first <= Len(operations) + 1)'
    <3>1. transactions[Len(transactions)].first <= Len(operations) + 1 /\ transactions # <<>>
      BY <2>3 DEF FoldInv
    <3>2. transactions[Len(transactions)] \in TransactionRow
      BY <3>1, LastInRange DEF FoldInv, TypeOK
    <3>3. transactions[Len(transactions)].first \in Nat
      BY <3>2 DEF TransactionRow
    <3>4. Len(operations') = Len(operations) + 1 /\ Len(operations) \in Nat
      BY <2>3, <2>4
    <3> QED BY <2>2, <3>1, <3>3, <3>4
  <2> QED BY <2>2, <2>5, <2>6, <2>8, <2>9, <2>10 DEF FoldInv
<1>3. ASSUME FinishTransaction PROVE FoldInv'
  <2>1. UNCHANGED <<transactions, operations, targets, active, todo, loaded, MainFold>>
    BY <1>3 DEF FinishTransaction, MainFold
  <2>2. transactions[Len(transactions)].sequence \in Nat
    <3>1. transactions[Len(transactions)] \in TransactionRow
      BY <1>3, LastInRange DEF FinishTransaction, FoldInv, TypeOK
    <3> QED BY <3>1 DEF TransactionRow
  <2>3. nextSequence' \in Nat \ {0} /\ phase' \in {"idle", "trapped"}
    BY <1>3, <2>2 DEF FinishTransaction, FoldInv, TypeOK
  <2>4. TypeOK'
    BY <2>1, <2>3 DEF FoldInv, TypeOK
  <2>5. /\ (BucketsExact(operations, MainFold) /\ TargetsExact(operations, MainFold))'
        /\ (BucketsExact(operations, loaded) /\ TargetsExact(operations, loaded))'
    BY <2>1 DEF FoldInv
  <2> QED BY <2>1, <2>3, <2>4, <2>5 DEF FoldInv
<1>4. ASSUME BeginLoad PROVE FoldInv'
  <2>1. /\ UNCHANGED <<transactions, operations, targets, active, nextSequence, todo, MainFold>>
        /\ loaded' = EmptyFold /\ phase' = "loading"
    BY <1>4 DEF BeginLoad, MainFold
  <2>2. TypeOK'
    BY <2>1, EmptyExact DEF FoldInv, TypeOK
  <2>3. /\ (BucketsExact(operations, MainFold) /\ TargetsExact(operations, MainFold))'
        /\ BucketsExact(operations', loaded') /\ TargetsExact(operations', loaded')
        /\ Len(loaded'.targets) = 0
    BY <2>1, EmptyExact DEF FoldInv
  <2>4. Len(operations) \in Nat
    BY DEF FoldInv, TypeOK
  <2> QED BY <2>1, <2>2, <2>3, <2>4 DEF FoldInv
<1>5. ASSUME RebuildOperation PROVE FoldInv'
  <2> DEFINE position == Len(loaded.targets) + 1
  <2>1. /\ UNCHANGED <<transactions, operations, targets, active, nextSequence, phase,
                       todo, MainFold>>
        /\ loaded' = ApplyOperation(loaded, operations[position], position)
        /\ position <= Len(operations)
        /\ phase = "loading"
    BY <1>5 DEF RebuildOperation, MainFold
  <2>2. /\ loaded \in FoldType /\ operations \in Seq(OperationRow)
        /\ position \in Nat \ {0}
        /\ operations[position] \in OperationRow
    BY <2>1 DEF FoldInv, TypeOK, FoldType
  <2>3. loaded' \in FoldType /\ Len(loaded'.targets) = position
    BY <2>1, <2>2, FoldTyped DEF FoldType
  <2>4. BucketsExact(operations, loaded') /\ TargetsExact(operations, loaded')
    BY <2>1, <2>2, FoldExact DEF FoldInv
  <2>5. TypeOK'
    BY <2>1, <2>3 DEF FoldInv, TypeOK
  <2>6. (BucketsExact(operations, MainFold) /\ TargetsExact(operations, MainFold))'
    BY <2>1 DEF FoldInv
  <2> QED BY <2>1, <2>3, <2>4, <2>5, <2>6 DEF FoldInv
<1>6. ASSUME InstallLoaded PROVE FoldInv'
  <2>1. /\ UNCHANGED <<transactions, operations, nextSequence, todo>>
        /\ targets' = loaded.targets /\ active' = loaded.active
        /\ loaded' = EmptyFold /\ phase' = "idle"
        /\ Len(loaded.targets) = Len(operations)
    BY <1>6 DEF InstallLoaded
  <2>2. MainFold' = loaded
    BY <2>1 DEF MainFold, FoldInv, TypeOK, FoldType
  <2>3. TypeOK'
    BY <2>1, <2>2, EmptyExact DEF FoldInv, TypeOK
  <2>4. /\ BucketsExact(operations', MainFold') /\ TargetsExact(operations', MainFold')
        /\ BucketsExact(operations', loaded') /\ TargetsExact(operations', loaded')
        /\ Len(loaded'.targets) = 0
    BY <2>1, <2>2, EmptyExact DEF FoldInv
  <2>5. Len(operations) \in Nat
    BY DEF FoldInv, TypeOK
  <2> QED BY <2>1, <2>3, <2>4, <2>5 DEF FoldInv
<1>7. CASE UNCHANGED vars
  BY <1>7 DEF vars, FoldInv, TypeOK, MainFold
<1>8. ASSUME NEW ops \in Batch, Commit(ops) PROVE FoldInv'
  <2>1. nextSequence \in Nat \ {0}
    BY DEF FoldInv, TypeOK
  <2> QED BY <1>1, <1>8, <2>1 DEF Commit
<1>9. ASSUME NEW sequence \in 1..MaxSequence, NEW ops \in Batch, Replay(sequence, ops)
      PROVE  FoldInv'
  <2>1. sequence \in Nat \ {0}
    BY TermStoreAssumption
  <2> QED BY <1>1, <1>9, <2>1 DEF Replay
<1> QED BY <1>2, <1>3, <1>4, <1>5, <1>6, <1>7, <1>8, <1>9 DEF Next

(* The folds of the store and of a load in progress are always exact.       *)
THEOREM FoldInvariant == Spec => []FoldInv
BY FoldInvInit, FoldInvStep, PTL DEF Spec

(* Every variable keeps its type: append-valid-transaction!, replay and     *)
(* loading build rows and buckets of the declared shapes.                   *)
THEOREM TypeCorrect == Spec => []TypeOK
BY FoldInvariant, PTL DEF FoldInv

(* operation-live?'s premise: buckets are ascending and hold exactly the    *)
(* assertions that no retraction has withdrawn.                             *)
THEOREM LivenessDerived == Spec => []LivenessIsDerived
<1>1. FoldInv => LivenessIsDerived
  BY DEF FoldInv, LivenessIsDerived
<1> QED BY <1>1, FoldInvariant, PTL

(* Every retraction withdraws the newest live equal assertion, or none:     *)
(* apply-operation-state!.                                                  *)
THEOREM NewestWithdrawn == Spec => []WithdrawsNewestLive
<1>1. FoldInv => WithdrawsNewestLive
  BY DEF FoldInv, WithdrawsNewestLive
<1> QED BY <1>1, FoldInvariant, PTL

(* An assertion occurrence is withdrawn at most once, whatever the order in *)
(* which equal propositions are asserted and retracted (withdrawals).       *)
WithdrawnOnce ==
  \A r, s \in DOMAIN targets :
    (targets[r] = targets[s] /\ targets[r] # NoTarget) => r = s

(* No assertion occurrence is withdrawn twice (withdrawals).                *)
THEOREM AtMostOneWithdrawal == Spec => []WithdrawnOnce
<1>1. ASSUME FoldInv,
             NEW r \in DOMAIN targets, NEW s \in DOMAIN targets,
             targets[r] = targets[s], targets[r] # NoTarget, r < s
      PROVE  FALSE
  <2>1. /\ DOMAIN targets = 1..Len(targets)
        /\ Len(targets) \in Nat
        /\ MainFold.targets = targets
    BY <1>1 DEF FoldInv, TypeOK, MainFold, FoldType
  <2>2. TargetExact(operations, MainFold, s)
    BY <1>1, <2>1 DEF FoldInv, TargetsExact
  <2>3. targets[s] \in Unwithdrawn(operations, MainFold, operations[s].prop, s - 1)
    BY <1>1, <2>1, <2>2 DEF TargetExact
  <2>4. r \in 1..(s - 1)
    BY <1>1, <2>1
  <2> QED BY <1>1, <2>1, <2>3, <2>4 DEF Unwithdrawn
<1>2. ASSUME FoldInv, NEW r \in DOMAIN targets, NEW s \in DOMAIN targets,
             targets[r] = targets[s], targets[r] # NoTarget
      PROVE  r = s
  <2>1. r \in Int /\ s \in Int
    BY <1>2 DEF FoldInv, TypeOK, MainFold, FoldType
  <2>2. ~(r < s) /\ ~(s < r)
    BY <1>1, <1>2
  <2> QED BY <2>1, <2>2
<1>3. FoldInv => WithdrawnOnce
  BY <1>2 DEF WithdrawnOnce
<1> QED BY <1>3, FoldInvariant, PTL

-----------------------------------------------------------------------------
(* A bucket is determined by its elements.                                  *)

(* The i-th position of an ascending bucket has i - 1 smaller ones.         *)
LEMMA RankInBucket ==
  ASSUME NEW s \in Seq(Nat \ {0}), Ascending(s), NEW i \in 1..Len(s)
  PROVE  Cardinality({a \in Elements(s) : a <= s[i]}) = i
<1> DEFINE below == {a \in Elements(s) : a <= s[i]}
           first == [j \in 1..i |-> s[j]]
<1>1. /\ Len(s) \in Nat /\ DOMAIN s = 1..Len(s) /\ i \in Nat /\ 1..i \subseteq 1..Len(s)
      /\ \A j \in 1..Len(s) : s[j] \in Nat
      /\ \A j, k \in 1..Len(s) : j < k => s[j] < s[k]
  BY DEF Ascending
<1>2. \A j \in 1..Len(s) : s[j] <= s[i] <=> j <= i
  <2> SUFFICES ASSUME NEW j \in 1..Len(s) PROVE s[j] <= s[i] <=> j <= i
    OBVIOUS
  <2>1. CASE j < i
    BY <1>1, <2>1
  <2>2. CASE i < j
    BY <1>1, <2>2
  <2>3. CASE i = j
    BY <1>1, <2>3
  <2> QED BY <1>1, <2>1, <2>2, <2>3
<1>3. below = {s[j] : j \in 1..i}
  BY <1>1, <1>2 DEF Elements
<1>4. \A j, k \in 1..i : j # k => s[j] # s[k]
  <2> SUFFICES ASSUME NEW j \in 1..i, NEW k \in 1..i, j # k PROVE s[j] # s[k]
    OBVIOUS
  <2>1. j \in 1..Len(s) /\ k \in 1..Len(s) /\ (j < k \/ k < j)
    BY <1>1
  <2> QED BY <1>1, <2>1
<1> HIDE DEF below
<1>5. first \in Bijection(1..i, below)
  BY <1>3, <1>4 DEF Bijection, Injection, IsInjective, Surjection
<1>6. ExistsBijection(1..i, below)
  BY <1>5 DEF ExistsBijection
<1>7. IsFiniteSet(1..i) /\ Cardinality(1..i) = i
  BY <1>1, FS_Interval
<1> QED BY <1>6, <1>7, FS_Bijection DEF below

(* Two ascending buckets of the same positions are one.                     *)
LEMMA BucketUnique ==
  ASSUME NEW s \in Seq(Nat \ {0}), NEW t \in Seq(Nat \ {0}),
         Ascending(s), Ascending(t), Elements(s) = Elements(t)
  PROVE  s = t
<1>1. /\ Len(s) \in Nat /\ DOMAIN s = 1..Len(s)
      /\ Len(t) \in Nat /\ DOMAIN t = 1..Len(t)
  OBVIOUS
<1>2. ASSUME NEW i \in 1..Len(s) PROVE i \in 1..Len(t) /\ t[i] = s[i]
  <2>1. s[i] \in Elements(t)
    BY <1>1 DEF Elements
  <2>2. PICK j \in 1..Len(t) : t[j] = s[i]
    BY <1>1, <2>1 DEF Elements
  <2>3. i = j
    BY <2>2, RankInBucket
  <2> QED BY <2>2, <2>3
<1>3. ASSUME NEW i \in 1..Len(t) PROVE i \in 1..Len(s)
  <2>1. t[i] \in Elements(s)
    BY <1>1 DEF Elements
  <2>2. PICK j \in 1..Len(s) : s[j] = t[i]
    BY <1>1, <2>1 DEF Elements
  <2>3. i = j
    BY <2>2, RankInBucket
  <2> QED BY <2>3
<1>4. Len(s) = Len(t)
  <2> DEFINE m == Len(s)
             n == Len(t)
  <2>1. /\ Len(s) = 0 \/ Len(s) \in 1..Len(s)
        /\ Len(t) = 0 \/ Len(t) \in 1..Len(t)
    BY <1>1
  <2>2. Len(s) = 0 \/ Len(s) \in 1..Len(t)
    BY <1>2, <2>1
  <2>3. Len(t) = 0 \/ Len(t) \in 1..Len(s)
    BY <1>3, <2>1
  <2>4. m \in Nat /\ n \in Nat /\ m <= n /\ n <= m
    BY <1>1, <2>2, <2>3
  <2> HIDE DEF m, n
  <2>5. m = n
    BY <2>4
  <2> QED BY <2>5 DEF m, n
<1> QED BY <1>1, <1>2, <1>4

-----------------------------------------------------------------------------
(* What two exact folds of the same rows have in common.                    *)

(* The targets before a row decide what was live at it.                     *)
LEMMA LiveFromTargets ==
  ASSUME NEW rows, NEW f, NEW g, NEW p, NEW n \in Nat,
         \A r \in 1..n : f.targets[r] = g.targets[r]
  PROVE  Unwithdrawn(rows, f, p, n) = Unwithdrawn(rows, g, p, n)
BY DEF Unwithdrawn

(* And with it what the row withdraws.                                      *)
LEMMA TargetDetermined ==
  ASSUME NEW rows, NEW f, NEW g, NEW r \in Nat \ {0},
         \A q \in 1..(r - 1) : f.targets[q] = g.targets[q],
         TargetExact(rows, f, r), TargetExact(rows, g, r)
  PROVE  f.targets[r] = g.targets[r]
<1> DEFINE live == Unwithdrawn(rows, f, rows[r].prop, r - 1)
<1>1. live = Unwithdrawn(rows, g, rows[r].prop, r - 1)
  BY LiveFromTargets
<1>2. live \subseteq Nat
  BY DEF Unwithdrawn, Assertions
<1> HIDE DEF live
<1>3. CASE rows[r].action = "assert" \/ live = {}
  BY <1>1, <1>3 DEF TargetExact, live
<1>4. CASE ~(rows[r].action = "assert" \/ live = {})
  <2>1. /\ f.targets[r] \in live /\ \A a \in live : a <= f.targets[r]
        /\ g.targets[r] \in live /\ \A a \in live : a <= g.targets[r]
    BY <1>1, <1>4 DEF TargetExact, live
  <2>2. /\ f.targets[r] \in Nat /\ g.targets[r] \in Nat
        /\ f.targets[r] <= g.targets[r] /\ g.targets[r] <= f.targets[r]
    BY <1>2, <2>1
  <2> QED BY <2>2
<1> QED BY <1>3, <1>4

(* Exact folds of all the rows that agree on the targets are one fold.      *)
LEMMA FoldUnique ==
  ASSUME NEW rows, NEW f \in FoldType, NEW g \in FoldType,
         BucketsExact(rows, f), BucketsExact(rows, g),
         f.targets = g.targets
  PROVE  f.active = g.active
<1>1. f.active \in [Prop -> Seq(Nat \ {0})] /\ g.active \in [Prop -> Seq(Nat \ {0})]
  BY DEF FoldType
<1>2. ASSUME NEW p \in Prop PROVE f.active[p] = g.active[p]
  <2>1. Elements(f.active[p]) = Elements(g.active[p])
    <3>1. Unwithdrawn(rows, f, p, Len(f.targets)) = Unwithdrawn(rows, g, p, Len(g.targets))
      BY DEF Unwithdrawn
    <3> QED BY <3>1 DEF BucketsExact
  <2> QED BY <1>1, <2>1, BucketUnique DEF BucketsExact
<1> QED BY <1>1, <1>2

-----------------------------------------------------------------------------
(* What the loops keep beside FoldInv.                                      *)

(* Every transaction takes up where the one before it ended.                *)
Chained ==
  \A i \in DOMAIN transactions :
    IF i = 1
    THEN transactions[i].sequence > -1 /\ transactions[i].first = 1
    ELSE LET previous == transactions[i - 1]
         IN  /\ transactions[i].sequence > previous.sequence
             /\ transactions[i].first = previous.first + previous.count

LastTransaction == transactions[Len(transactions)]

(* All transactions but one that is being appended are whole; of that one   *)
(* the rows so far are, and `todo' is what it lacks.                        *)
SlicesWhole ==
  \A i \in DOMAIN transactions :
    i < Len(transactions) \/ phase # "appending" => ValidSlice(transactions[i])

SliceGrows ==
  phase = "appending" =>
    /\ LastTransaction.first + LastTransaction.count - 1 = Len(operations) + Len(todo)
    /\ \A ordinal \in 0..(Len(operations) - LastTransaction.first) :
         /\ operations[LastTransaction.first + ordinal].sequence = LastTransaction.sequence
         /\ operations[LastTransaction.first + ordinal].ordinal = ordinal

(* Between transactions the last one ends with the rows, and the next       *)
(* sequence follows it.                                                     *)
HistoryClosed ==
  phase \in {"idle", "loading"} =>
    IF transactions = <<>>
    THEN operations = <<>> /\ nextSequence = 1
    ELSE /\ LastTransaction.first + LastTransaction.count - 1 = Len(operations)
         /\ nextSequence > 0
         /\ nextSequence - 1 = LastTransaction.sequence

(* A load in progress has found the targets the store has.                  *)
LoadAgrees ==
  \A r \in DOMAIN loaded.targets : loaded.targets[r] = targets[r]

(* The rows are what valid-history-rows? wants, as far as they go.          *)
RowsInv == Chained /\ SlicesWhole /\ SliceGrows /\ HistoryClosed

(* Between transactions a dump passes the checks of a load.                 *)
LEMMA RowsAreValid ==
  ASSUME RowsInv, phase \in {"idle", "loading"}
  PROVE  ValidHistoryRows
BY DEF RowsInv, Chained, SlicesWhole, HistoryClosed, LastTransaction, ValidHistoryRows

(* An empty history is closed.                                              *)
LEMMA RowsInvInit == Init => RowsInv /\ LoadAgrees
BY DEF Init, RowsInv, Chained, SlicesWhole, SliceGrows, HistoryClosed, LoadAgrees, EmptyFold

(* A transaction begins after the last one, commit-boundary! with the next  *)
(* sequence, append-replayed-transaction! with any later one.               *)
LEMMA RowsInvBegin ==
  ASSUME TypeOK, RowsInv, NEW sequence \in Nat \ {0}, sequence >= nextSequence,
         NEW ops \in Batch, BeginTransaction(sequence, ops)
  PROVE  RowsInv'
<1> DEFINE n == Len(transactions)
           added == [sequence |-> sequence, first |-> Len(operations) + 1,
                     count |-> Len(ops)]
<1>1. /\ transactions' = Append(transactions, added)
      /\ phase = "idle" /\ phase' = "appending" /\ todo' = ops
      /\ UNCHANGED <<operations, nextSequence>>
  BY DEF BeginTransaction
<1>2. /\ transactions \in Seq(TransactionRow) /\ n \in Nat
      /\ DOMAIN transactions = 1..n /\ Len(operations) \in Nat
      /\ nextSequence \in Nat \ {0} /\ Len(ops) \in Nat \ {0}
  BY DEF TypeOK, Batch
<1>3. /\ DOMAIN transactions' = 1..(n + 1) /\ Len(transactions') = n + 1
      /\ \A i \in 1..n : transactions'[i] = transactions[i]
      /\ transactions'[n + 1] = added
  BY <1>1, <1>2
<1> HIDE DEF n
<1>4. LastTransaction' = added
  BY <1>3 DEF LastTransaction
<1>5. Chained'
  <2>1. ASSUME NEW i \in 1..n
        PROVE  IF i = 1
               THEN transactions'[i].sequence > -1 /\ transactions'[i].first = 1
               ELSE /\ transactions'[i].sequence > transactions'[i - 1].sequence
                    /\ transactions'[i].first
                         = transactions'[i - 1].first + transactions'[i - 1].count
    <3>1. i = 1 \/ i - 1 \in 1..n
      BY <1>2
    <3> QED BY <1>2, <1>3, <3>1 DEF RowsInv, Chained
  <2>2. CASE n = 0
    <3>1. transactions = <<>>
      BY <1>2, <2>2 DEF n
    <3>2. added.first = 1 /\ added.sequence > -1
      BY <1>1, <3>1 DEF RowsInv, HistoryClosed
    <3> HIDE DEF added
    <3> QED BY <1>2, <1>3, <2>2, <3>2 DEF Chained
  <2>3. CASE n # 0
    <3>1. transactions # <<>> /\ n \in 1..n /\ transactions'[n] = LastTransaction
      BY <1>2, <1>3, <2>3 DEF n, LastTransaction
    <3>2. LastTransaction \in TransactionRow
      BY <1>2, <3>1, LastInRange DEF LastTransaction
    <3>3. /\ added.sequence > LastTransaction.sequence
          /\ added.first = LastTransaction.first + LastTransaction.count
      <4>1. /\ LastTransaction.first \in Nat /\ LastTransaction.count \in Nat
            /\ LastTransaction.sequence \in Nat
        BY <3>2 DEF TransactionRow
      <4>2. /\ LastTransaction.first + LastTransaction.count - 1 = Len(operations)
            /\ nextSequence - 1 = LastTransaction.sequence
        BY <1>1, <3>1 DEF RowsInv, HistoryClosed
      <4>3. added.sequence = sequence /\ added.first = Len(operations) + 1
        OBVIOUS
      <4>4. sequence > LastTransaction.sequence
        <5>1. nextSequence \in Nat
          BY <1>2
        <5> QED BY <4>1, <4>2, <5>1
      <4>5. Len(operations) + 1 = LastTransaction.first + LastTransaction.count
        <5>1. Len(operations) \in Nat
          BY <1>2
        <5> QED BY <4>1, <4>2, <5>1
      <4> HIDE DEF added
      <4> QED BY <4>3, <4>4, <4>5
    <3> HIDE DEF added
    <3>4. (n + 1) - 1 = n /\ n + 1 # 1 /\ \A i \in 1..(n + 1) : i \in 1..n \/ i = n + 1
      BY <1>2, <2>3
    <3> QED BY <1>3, <2>1, <3>1, <3>3, <3>4 DEF Chained
  <2> QED BY <2>2, <2>3
<1>6. SlicesWhole'
  <2>1. \A i \in 1..(n + 1) : i < n + 1 => i \in 1..n
    BY <1>2
  <2>2. \A i \in 1..n : ValidSlice(transactions[i])
    BY <1>1, <1>2 DEF RowsInv, SlicesWhole
  <2> QED BY <1>1, <1>3, <2>1, <2>2 DEF SlicesWhole, ValidSlice
<1>7. SliceGrows'
  <2>1. added.first + added.count - 1 = Len(operations) + Len(ops)
    BY <1>2
  <2>2. 0..(Len(operations) - added.first) = {}
    BY <1>2
  <2> QED BY <1>1, <1>4, <2>1, <2>2 DEF SliceGrows
<1>8. HistoryClosed'
  BY <1>1 DEF HistoryClosed
<1> QED BY <1>5, <1>6, <1>7, <1>8 DEF RowsInv

(* One turn of the append loop gives the growing slice one more row.        *)
LEMMA RowsInvAppend ==
  ASSUME FoldInv, RowsInv, LoadAgrees, AppendOperation
  PROVE  RowsInv' /\ LoadAgrees'
<1> DEFINE last == LastTransaction
           position == Len(operations) + 1
           row == Row(last.sequence, position - last.first, Head(todo))
<1>1. /\ phase = "appending" /\ phase' = "appending" /\ todo # <<>> /\ todo' = Tail(todo)
      /\ operations' = Append(operations, row)
      /\ UNCHANGED <<transactions, nextSequence, loaded>>
      /\ targets' = ApplyOperation(MainFold, row, position).targets
  BY DEF AppendOperation, LastTransaction, MainFold
<1>2. /\ transactions \in Seq(TransactionRow) /\ operations \in Seq(OperationRow)
      /\ todo \in Seq(Op) /\ targets \in Seq(Nat) /\ loaded.targets \in Seq(Nat)
      /\ Len(targets) = Len(operations) /\ Len(loaded.targets) <= Len(operations)
      /\ transactions # <<>> /\ last.first <= position
  BY <1>1 DEF FoldInv, TypeOK, MainFold, FoldType, LastTransaction
<1>3. last \in TransactionRow /\ Len(transactions) \in Nat
  BY <1>2, LastInRange DEF LastTransaction
<1>4. /\ last.first \in Nat \ {0} /\ last.count \in Nat \ {0} /\ last.sequence \in Nat
      /\ row.sequence = last.sequence /\ row.ordinal = position - last.first
  BY <1>3 DEF TransactionRow, Row
<1> HIDE DEF row, last
<1>5. /\ Len(operations') = position /\ operations'[position] = row
      /\ \A k \in 1..Len(operations) : operations'[k] = operations[k]
      /\ Len(operations) \in Nat
  BY <1>1, <1>2
<1>6. Chained' /\ last' = last
  BY <1>1 DEF RowsInv, Chained, last, LastTransaction
<1>7. SlicesWhole'
  <2> SUFFICES ASSUME NEW i \in DOMAIN transactions, i < Len(transactions)
               PROVE  ValidSlice(transactions[i])'
    BY <1>1 DEF SlicesWhole
  <2>1. ValidSlice(transactions[i])
    BY DEF RowsInv, SlicesWhole
  <2>2. transactions[i] \in TransactionRow
    BY <1>2
  <2> DEFINE slice == transactions[i]
  <2>3. slice.first \in Nat \ {0} /\ slice.count \in Nat \ {0}
    BY <2>2 DEF TransactionRow
  <2>4. \A ordinal \in 0..(slice.count - 1) :
          slice.first + ordinal \in 1..Len(operations)
    BY <1>5, <2>1, <2>3, SMTT(30) DEF ValidSlice
  <2>5. slice' = slice
    BY <1>1
  <2> HIDE DEF slice
  <2>6. ValidSlice(slice)
    BY <2>1 DEF slice
  <2>7. slice.first + slice.count - 1 <= Len(operations')
    BY <1>5, <2>3, <2>6 DEF ValidSlice
  <2>8. \A ordinal \in 0..(slice.count - 1) :
          operations'[slice.first + ordinal] = operations[slice.first + ordinal]
    BY <1>5, <2>4
  <2>9. ValidSlice(slice)'
    BY <2>3, <2>5, <2>6, <2>7, <2>8 DEF ValidSlice
  <2> QED BY <2>9 DEF slice
<1>8. SliceGrows'
  <2>1. Len(todo') = Len(todo) - 1 /\ Len(todo) \in Nat
    BY <1>1, <1>2
  <2>2. /\ last.first + last.count - 1 = Len(operations) + Len(todo)
        /\ \A ordinal \in 0..(Len(operations) - last.first) :
             /\ operations[last.first + ordinal].sequence = last.sequence
             /\ operations[last.first + ordinal].ordinal = ordinal
    BY <1>1 DEF RowsInv, SliceGrows, last
  <2>3. last.first + last.count - 1 = Len(operations') + Len(todo')
    BY <1>4, <1>5, <2>1, <2>2
  <2>4. ASSUME NEW ordinal \in 0..(Len(operations') - last.first)
        PROVE  /\ operations'[last.first + ordinal].sequence = last.sequence
               /\ operations'[last.first + ordinal].ordinal = ordinal
    <3>1. CASE ordinal = position - last.first
      <4>1. last.first + ordinal = position
        BY <1>4, <1>5, <3>1
      <4> QED BY <1>4, <1>5, <3>1, <4>1
    <3>2. CASE ordinal # position - last.first
      <4>1. /\ ordinal \in 0..(Len(operations) - last.first)
            /\ last.first + ordinal \in 1..Len(operations)
        BY <1>4, <1>5, <2>4, <3>2
      <4> QED BY <1>5, <2>2, <4>1
    <3> QED BY <3>1, <3>2
  <2> QED BY <1>6, <2>3, <2>4 DEF SliceGrows, last
<1>9. HistoryClosed'
  BY <1>1 DEF HistoryClosed
<1>10. LoadAgrees'
  <2>1. \A r \in 1..Len(targets) : targets'[r] = targets[r]
    <3>1. \E a : targets' = Append(targets, a)
      BY <1>1 DEF ApplyOperation, FoldAssert, FoldRetract, MainFold
    <3>2. targets \in Seq(Nat)
      BY <1>2
    <3> QED BY <3>1, <3>2
  <2>2. DOMAIN loaded.targets \subseteq 1..Len(targets)
    <3>1. /\ DOMAIN loaded.targets = 1..Len(loaded.targets)
          /\ Len(loaded.targets) \in Nat /\ Len(targets) \in Nat
          /\ Len(loaded.targets) <= Len(targets)
      BY <1>2
    <3> QED BY <3>1
  <2> QED BY <1>1, <2>1, <2>2 DEF LoadAgrees
<1> QED BY <1>6, <1>7, <1>8, <1>9, <1>10 DEF RowsInv

(* The last turn makes the slice whole.                                     *)
LEMMA RowsInvFinish ==
  ASSUME FoldInv, RowsInv, LoadAgrees, FinishTransaction
  PROVE  RowsInv' /\ LoadAgrees'
<1> DEFINE last == LastTransaction
<1>1. /\ phase = "appending" /\ todo = <<>>
      /\ UNCHANGED <<transactions, operations, targets, loaded>>
      /\ \/ nextSequence' = last.sequence + 1 /\ phase' = "idle"
         \/ phase' = "trapped"
  BY DEF FinishTransaction, LastTransaction
<1>2. /\ transactions \in Seq(TransactionRow) /\ transactions # <<>>
      /\ Len(operations) \in Nat
  BY <1>1 DEF FoldInv, TypeOK
<1>3. last \in TransactionRow
  BY <1>2, LastInRange DEF LastTransaction
<1>4. last.first \in Nat \ {0} /\ last.count \in Nat \ {0} /\ last.sequence \in Nat \ {0}
  BY <1>3 DEF TransactionRow
<1>5. /\ last.first + last.count - 1 = Len(operations)
      /\ \A ordinal \in 0..(Len(operations) - last.first) :
           /\ operations[last.first + ordinal].sequence = last.sequence
           /\ operations[last.first + ordinal].ordinal = ordinal
  BY <1>1, <1>2 DEF RowsInv, SliceGrows
<1>6. ValidSlice(last)
  <2>1. Len(operations) - last.first = last.count - 1
    BY <1>2, <1>4, <1>5
  <2> HIDE DEF last
  <2> QED BY <1>4, <1>5, <2>1 DEF ValidSlice
<1>7. SlicesWhole'
  <2>1. \A i \in DOMAIN transactions : i < Len(transactions) \/ transactions[i] = last
    BY <1>2 DEF LastTransaction
  <2>2. \A i \in DOMAIN transactions : ValidSlice(transactions[i])
    BY <1>6, <2>1 DEF RowsInv, SlicesWhole
  <2> QED BY <1>1, <2>2 DEF SlicesWhole, ValidSlice
<1>8. HistoryClosed'
  <2>1. last' = last
    BY <1>1 DEF LastTransaction
  <2> HIDE DEF last
  <2> QED BY <1>1, <1>2, <1>4, <1>5, <2>1 DEF HistoryClosed, last
<1>9. Chained' /\ SliceGrows' /\ LoadAgrees'
  BY <1>1 DEF RowsInv, Chained, SliceGrows, LoadAgrees
<1> QED BY <1>7, <1>8, <1>9 DEF RowsInv

(* The rows are not touched by a load.                                      *)
LEMMA RowsInvLoad ==
  ASSUME RowsInv, UNCHANGED <<transactions, operations, nextSequence, todo>>,
         phase \in {"idle", "loading"}, phase' \in {"idle", "loading"}
  PROVE  RowsInv'
BY DEF RowsInv, Chained, SlicesWhole, ValidSlice, SliceGrows, HistoryClosed, LastTransaction

(* One turn of rebuild-operation-state! finds the target the store has.     *)
LEMMA RebuildAgrees ==
  ASSUME FoldInv, FoldInv', LoadAgrees, RebuildOperation
  PROVE  LoadAgrees'
<1> DEFINE position == Len(loaded.targets) + 1
<1>1. /\ position <= Len(operations)
      /\ UNCHANGED <<operations, targets, MainFold>>
      /\ loaded' = ApplyOperation(loaded, operations[position], position)
  BY DEF RebuildOperation, MainFold
<1>2. /\ loaded \in FoldType /\ operations \in Seq(OperationRow)
      /\ loaded.targets \in Seq(Nat) /\ position \in Nat \ {0}
      /\ operations[position] \in OperationRow
      /\ Len(targets) = Len(operations) /\ targets \in Seq(Nat)
      /\ loaded' \in FoldType /\ loaded'.targets \in Seq(Nat)
  BY <1>1 DEF FoldInv, TypeOK, FoldType, MainFold
<1>3. Len(loaded'.targets) = position
  BY <1>1, <1>2, FoldTyped
<1>4. \A r \in 1..(position - 1) : loaded'.targets[r] = targets[r]
  <2>1. \A r \in 1..(position - 1) : loaded'.targets[r] = loaded.targets[r]
    <3>1. \E a : loaded'.targets = Append(loaded.targets, a)
      BY <1>1 DEF ApplyOperation, FoldAssert, FoldRetract
    <3>2. position - 1 = Len(loaded.targets) /\ loaded.targets \in Seq(Nat)
      BY <1>2
    <3> HIDE DEF position
    <3> QED BY <3>1, <3>2
  <2>2. DOMAIN loaded.targets = 1..(position - 1)
    BY <1>2
  <2> QED BY <2>1, <2>2 DEF LoadAgrees
<1>5. /\ TargetExact(operations, loaded', position)
      /\ TargetExact(operations, MainFold, position)
      /\ MainFold.targets = targets
  <2>1. position \in DOMAIN loaded'.targets /\ position \in DOMAIN targets
    BY <1>1, <1>2, <1>3
  <2>2. TargetsExact(operations, loaded') /\ TargetsExact(operations, MainFold)
    BY <1>1 DEF FoldInv
  <2>3. MainFold.targets = targets
    BY DEF MainFold
  <2> HIDE DEF position
  <2> QED BY <2>1, <2>2, <2>3 DEF TargetsExact
<1> HIDE DEF position
<1>6. loaded'.targets[position] = targets[position]
  <2>1. \A r \in 1..(position - 1) : loaded'.targets[r] = MainFold.targets[r]
    BY <1>4, <1>5
  <2>2. position \in Nat \ {0}
    BY <1>2
  <2>3. loaded'.targets[position] = MainFold.targets[position]
    BY <1>5, <2>1, <2>2, TargetDetermined
  <2> QED BY <1>5, <2>3
<1>7. \A r \in DOMAIN loaded'.targets : r \in 1..(position - 1) \/ r = position
  BY <1>2, <1>3
<1> QED BY <1>1, <1>4, <1>6, <1>7 DEF LoadAgrees

(* What a load installs is what the store had.                              *)
LEMMA InstallRestores ==
  ASSUME FoldInv, LoadAgrees, InstallLoaded
  PROVE  UNCHANGED <<targets, active>>
<1>1. /\ targets' = loaded.targets /\ active' = loaded.active
      /\ Len(loaded.targets) = Len(operations)
  BY DEF InstallLoaded
<1>2. /\ loaded \in FoldType /\ MainFold \in FoldType
      /\ loaded.targets \in Seq(Nat) /\ targets \in Seq(Nat)
      /\ Len(targets) = Len(operations)
      /\ MainFold.targets = targets /\ MainFold.active = active
  BY DEF FoldInv, TypeOK, FoldType, MainFold
<1>3. loaded.targets = targets
  BY <1>1, <1>2 DEF LoadAgrees
<1>4. loaded.active = active
  BY <1>2, <1>3, FoldUnique DEF FoldInv
<1> QED BY <1>1, <1>3, <1>4

(* The inductive invariant of the promises: with exact folds, whole rows,   *)
(* and a load that agrees with the store as far as it has come.             *)
HistoryInv == FoldInv /\ RowsInv /\ LoadAgrees

(* Every step of the store keeps the rows chained and a load on its way.    *)
LEMMA HistoryInvStep == HistoryInv /\ [Next]_vars => HistoryInv'
<1> SUFFICES ASSUME HistoryInv, [Next]_vars PROVE HistoryInv'
  OBVIOUS
<1> USE DEF HistoryInv
<1>1. FoldInv'
  BY FoldInvStep
<1>2. TypeOK
  BY DEF FoldInv
<1>3. ASSUME NEW sequence \in Nat \ {0}, sequence >= nextSequence,
             NEW ops \in Batch, BeginTransaction(sequence, ops)
      PROVE  RowsInv' /\ LoadAgrees'
  <2>1. RowsInv'
    BY <1>2, <1>3, RowsInvBegin
  <2>2. LoadAgrees'
    BY <1>3 DEF BeginTransaction, LoadAgrees
  <2> QED BY <2>1, <2>2
<1>4. CASE \E ops \in Batch : Commit(ops)
  <2>1. nextSequence \in Nat \ {0} /\ nextSequence >= nextSequence
    BY <1>2 DEF TypeOK
  <2> QED BY <1>1, <1>3, <1>4, <2>1 DEF Commit
<1>5. CASE \E sequence \in 1..MaxSequence, ops \in Batch : Replay(sequence, ops)
  <2>1. 1..MaxSequence \subseteq Nat \ {0}
    BY TermStoreAssumption
  <2> QED BY <1>1, <1>3, <1>5, <2>1 DEF Replay
<1>6. CASE AppendOperation
  BY <1>1, <1>6, RowsInvAppend
<1>7. CASE FinishTransaction
  BY <1>1, <1>7, RowsInvFinish
<1>8. CASE BeginLoad
  <2>1. LoadAgrees'
    BY <1>8 DEF BeginLoad, LoadAgrees, EmptyFold
  <2>2. RowsInv'
    BY <1>8, RowsInvLoad DEF BeginLoad
  <2> QED BY <1>1, <2>1, <2>2
<1>9. CASE RebuildOperation
  <2>1. LoadAgrees'
    BY <1>1, <1>9, RebuildAgrees
  <2>2. RowsInv'
    BY <1>9, RowsInvLoad DEF RebuildOperation
  <2> QED BY <1>1, <2>1, <2>2
<1>10. CASE InstallLoaded
  <2>1. LoadAgrees'
    BY <1>10 DEF InstallLoaded, LoadAgrees, EmptyFold
  <2>2. RowsInv'
    BY <1>10, RowsInvLoad DEF InstallLoaded
  <2> QED BY <1>1, <2>1, <2>2
<1>11. CASE UNCHANGED vars
  <2>1. RowsInv' /\ LoadAgrees'
    BY <1>11 DEF vars, RowsInv, Chained, SlicesWhole, ValidSlice, SliceGrows,
                 HistoryClosed, LastTransaction, LoadAgrees
  <2> QED BY <1>1, <2>1
<1> QED BY <1>4, <1>5, <1>6, <1>7, <1>8, <1>9, <1>10, <1>11 DEF Next

(* The rows are always chained, and a load has found what the store has.    *)
THEOREM HistoryInvariant == Spec => []HistoryInv
<1>1. Init => HistoryInv
  BY FoldInvInit, RowsInvInit DEF HistoryInv
<1> QED BY <1>1, HistoryInvStep, PTL DEF Spec

(* Until its end a load leaves the derived state alone, and then installs   *)
(* what was there.                                                          *)
LEMMA LoadChangesNothing ==
  HistoryInv /\ [Next]_vars =>
    [/\ phase \in {"idle", "loading"} => ValidHistoryRows
     /\ phase = "loading" => UNCHANGED <<targets, active>>]_vars
<1> SUFFICES ASSUME HistoryInv, Next
             PROVE  /\ phase \in {"idle", "loading"} => ValidHistoryRows
                    /\ phase = "loading" => UNCHANGED <<targets, active>>
  OBVIOUS
<1>1. phase \in {"idle", "loading"} => ValidHistoryRows
  BY RowsAreValid DEF HistoryInv
<1>2. ASSUME phase = "loading" PROVE UNCHANGED <<targets, active>>
  <2>1. RebuildOperation \/ InstallLoaded
    BY <1>2 DEF Next, Commit, Replay, BeginTransaction, AppendOperation,
                FinishTransaction, BeginLoad
  <2>2. CASE RebuildOperation
    BY <2>2 DEF RebuildOperation
  <2>3. CASE InstallLoaded
    BY <2>3, InstallRestores DEF HistoryInv
  <2> QED BY <2>1, <2>2, <2>3
<1> QED BY <1>1, <1>2

(* load-term-store-result! never refuses what the store has built, however  *)
(* it was built and whatever gaps replay left, and a rebuild ends in exactly*)
(* the state that incremental folding had reached: validated-store!.        *)
THEOREM LoadsRestore == Spec => LoadRestoresFold
BY HistoryInvariant, LoadChangesNothing, PTL DEF Spec, LoadRestoresFold

-----------------------------------------------------------------------------
(* The refinement.                                                          *)

(* The abstract history of a row more, and its withdrawals.                 *)
LEMMA HistoryAppend ==
  ASSUME NEW rows \in Seq(OperationRow), NEW row \in OperationRow
  PROVE  HistoryOf(Append(rows, row)) =
           Append(HistoryOf(rows), [action |-> row.action, prop |-> row.prop])
<1>1. Len(rows) \in Nat /\ DOMAIN rows = 1..Len(rows)
  OBVIOUS
<1>2. /\ HistoryOf(rows) = [i \in 1..Len(rows) |->
                              [action |-> rows[i].action, prop |-> rows[i].prop]]
      /\ Len(HistoryOf(rows)) = Len(rows)
  BY <1>1 DEF HistoryOf
<1> QED BY <1>1, <1>2 DEF HistoryOf

(* A target more is a withdrawal more, unless there was nothing to withdraw.*)
LEMMA WithdrawalAppend ==
  ASSUME NEW t \in Seq(Nat), NEW a \in Nat
  PROVE  WithdrawalOf(Append(t, a)) =
           WithdrawalOf(t) \cup IF a = NoTarget THEN {} ELSE {<<Len(t) + 1, a>>}
<1> DEFINE u == Append(t, a)
           n == Len(t)
<1>1. /\ n \in Nat /\ DOMAIN t = 1..n
      /\ DOMAIN u = (1..n) \cup {n + 1}
      /\ \A r \in 1..n : u[r] = t[r]
      /\ u[n + 1] = a
  OBVIOUS
<1> HIDE DEF u, n
<1>2. WithdrawalOf(u) = WithdrawalOf(t) \cup IF a = NoTarget THEN {} ELSE {<<n + 1, a>>}
  BY <1>1 DEF WithdrawalOf
<1> QED BY <1>2 DEF u, n

(* What is live in the abstract history is what the buckets say.            *)
LEMMA LiveIsUnwithdrawn ==
  ASSUME HistoryInv, NEW p \in Prop
  PROVE  Abstract!LiveAt(p) = Unwithdrawn(operations, MainFold, p, Len(operations))
<1>1. /\ operations \in Seq(OperationRow) /\ targets \in Seq(Nat)
      /\ Len(targets) = Len(operations)
      /\ MainFold.targets = targets
  BY DEF HistoryInv, FoldInv, TypeOK, FoldType, MainFold
<1>2. /\ DOMAIN operations = 1..Len(operations) /\ DOMAIN targets = 1..Len(operations)
      /\ Len(operations) \in Nat
  BY <1>1
<1>3. DOMAIN HistoryOf(operations) = 1..Len(operations)
  BY <1>2 DEF HistoryOf
<1>4. ASSUME NEW a \in 1..Len(operations)
      PROVE  /\ HistoryOf(operations)[a].action = operations[a].action
             /\ HistoryOf(operations)[a].prop = operations[a].prop
  BY <1>2 DEF HistoryOf
<1>5. ASSUME NEW a \in 1..Len(operations)
      PROVE  (\A pair \in WithdrawalOf(targets) : pair[2] # a)
               <=> (\A r \in 1..Len(operations) : targets[r] # a)
  <2>1. a # NoTarget
    BY <1>2 DEF NoTarget
  <2>2. \A pair \in WithdrawalOf(targets) :
          \E r \in 1..Len(operations) : pair = <<r, targets[r]>> /\ targets[r] # NoTarget
    BY <1>2 DEF WithdrawalOf
  <2>3. \A r \in 1..Len(operations) :
          targets[r] # NoTarget => <<r, targets[r]>> \in WithdrawalOf(targets)
    BY <1>2 DEF WithdrawalOf
  <2>4. ASSUME NEW pair \in WithdrawalOf(targets), pair[2] = a
        PROVE  \E r \in 1..Len(operations) : targets[r] = a
    BY <2>2, <2>4
  <2>5. ASSUME NEW r \in 1..Len(operations), targets[r] = a
        PROVE  \E pair \in WithdrawalOf(targets) : pair[2] = a
    <3>1. <<r, targets[r]>> \in WithdrawalOf(targets) /\ <<r, targets[r]>>[2] = a
      BY <2>1, <2>3, <2>5
    <3> QED BY <3>1
  <2> QED BY <2>4, <2>5
<1>6. Abstract!LiveAt(p) =
        {a \in 1..Len(operations) :
           /\ operations[a].action = "assert" /\ operations[a].prop = p
           /\ \A r \in 1..Len(operations) : targets[r] # a}
  <2>1. Abstract!LiveAt(p) =
          {a \in 1..Len(operations) :
             /\ HistoryOf(operations)[a].action = "assert"
             /\ HistoryOf(operations)[a].prop = p
             /\ \A pair \in WithdrawalOf(targets) : pair[2] # a}
    BY <1>3 DEF Abstract!LiveAt
  <2> QED BY <1>4, <1>5, <2>1
<1> QED
  BY <1>1, <1>6 DEF Unwithdrawn, Assertions

(* One turn of the append loop is one occurrence, and withdraws what the    *)
(* abstract history says it does.                                           *)
LEMMA AppendIsOccurrence ==
  ASSUME HistoryInv, HistoryInv', AppendOperation
  PROVE  Abstract!HistoryNext
<1> DEFINE position == Len(operations) + 1
           row == operations'[position]
           p == row.prop
           live == Abstract!LiveAt(p)
           happened == [action |-> row.action, prop |-> row.prop]
           target == targets'[position]
<1>1. /\ operations \in Seq(OperationRow) /\ operations' \in Seq(OperationRow)
      /\ targets \in Seq(Nat) /\ targets' \in Seq(Nat)
      /\ Len(targets) = Len(operations) /\ Len(targets') = Len(operations')
  BY DEF HistoryInv, FoldInv, TypeOK, FoldType, MainFold
<1>2. \E added : operations' = Append(operations, added)
  BY DEF AppendOperation
<1>3. /\ operations' = Append(operations, row) /\ Len(operations') = position
      /\ row \in OperationRow /\ position \in Nat \ {0}
  BY <1>1, <1>2
<1>4. \E a : targets' = Append(targets, a)
  BY DEF AppendOperation, ApplyOperation, FoldAssert, FoldRetract
<1>5. targets' = Append(targets, target) /\ target \in Nat
  BY <1>1, <1>3, <1>4
<1>6. p \in Prop /\ row.action \in Action
  BY <1>3 DEF OperationRow
<1>7. TargetExact(operations', MainFold', position)
  <2>1. TargetsExact(operations', MainFold') /\ MainFold'.targets = targets'
    BY DEF HistoryInv, FoldInv, MainFold
  <2>2. position \in DOMAIN targets'
    BY <1>1, <1>3
  <2> HIDE DEF position
  <2> QED BY <2>1, <2>2 DEF TargetsExact
<1>8. live = Unwithdrawn(operations', MainFold', p, position - 1)
  <2>1. live = Unwithdrawn(operations, MainFold, p, Len(operations))
    BY <1>6, LiveIsUnwithdrawn
  <2>2. position - 1 = Len(operations) /\ MainFold.targets = targets /\ MainFold'.targets = targets'
    BY <1>3 DEF MainFold
  <2>3. \A a \in 1..Len(operations) :
          operations'[a] = operations[a] /\ targets'[a] = targets[a]
    <3> HIDE DEF row, target
    <3>1. operations \in Seq(OperationRow) /\ row \in OperationRow /\ operations' = Append(operations, row)
      BY <1>1, <1>3
    <3>2. targets \in Seq(Nat) /\ target \in Nat /\ targets' = Append(targets, target)
          /\ Len(targets) = Len(operations)
      BY <1>1, <1>5
    <3>3. \A a \in 1..Len(operations) : operations'[a] = operations[a]
      BY <3>1
    <3>4. \A a \in 1..Len(targets) : targets'[a] = targets[a]
      BY <3>2
    <3> QED BY <3>2, <3>3, <3>4
  <2> HIDE DEF position, live
  <2> QED BY <2>1, <2>2, <2>3 DEF Unwithdrawn, Assertions
<1>9. /\ HistoryOf(operations)' = Append(HistoryOf(operations), happened)
      /\ Len(HistoryOf(operations)) + 1 = position
  <2>1. HistoryOf(operations') = Append(HistoryOf(operations), happened)
    <3> HIDE DEF row
    <3> QED BY <1>1, <1>3, HistoryAppend
  <2>2. HistoryOf(operations)' = HistoryOf(operations')
    BY DEF HistoryOf
  <2>3. Len(HistoryOf(operations)) = Len(operations)
    BY <1>1 DEF HistoryOf
  <2> QED BY <2>1, <2>2, <2>3
<1>10. WithdrawalOf(targets)' =
         WithdrawalOf(targets) \cup IF target = NoTarget THEN {} ELSE {<<position, target>>}
  BY <1>1, <1>3, <1>5, WithdrawalAppend
<1> HIDE DEF live, row, position
<1>11. /\ row.action = "assert" \/ live = {} => target = NoTarget
       /\ ~(row.action = "assert" \/ live = {}) =>
            target \in live /\ \A a \in live : a <= target
  BY <1>7, <1>8 DEF TargetExact, row, MainFold
<1>12. live \subseteq Nat \ {0}
  BY <1>8 DEF Unwithdrawn, Assertions
<1>13. CASE row.action = "assert"
  <2>1. Abstract!Assert(p)
    BY <1>9, <1>10, <1>11, <1>13 DEF Abstract!Assert
  <2> QED BY <1>6, <2>1 DEF Abstract!HistoryNext
<1>14. CASE row.action # "assert" /\ live = {}
  <2>1. row.action = "retract"
    BY <1>6, <1>14 DEF Action
  <2>2. Abstract!RetractMissing(p)
    BY <1>9, <1>10, <1>11, <1>14, <2>1 DEF Abstract!RetractMissing, live
  <2> QED BY <1>6, <2>2 DEF Abstract!HistoryNext
<1>15. CASE row.action # "assert" /\ live # {}
  <2>1. row.action = "retract"
    BY <1>6, <1>15 DEF Action
  <2>2. target \in live /\ (\A b \in live : b <= target) /\ target # NoTarget
    BY <1>11, <1>12, <1>15 DEF NoTarget
  <2>3. Abstract!WithdrawNewest(p)
    BY <1>9, <1>10, <2>1, <2>2 DEF Abstract!WithdrawNewest, live
  <2> QED BY <1>6, <2>3 DEF Abstract!HistoryNext
<1> QED BY <1>13, <1>14, <1>15

(* Every other step leaves history and withdrawals as they are.             *)
LEMMA StepIsOccurrence ==
  ASSUME HistoryInv, HistoryInv', [Next]_vars
  PROVE  Abstract!HistoryNext \/ UNCHANGED <<HistoryOf(operations), WithdrawalOf(targets)>>
<1>1. CASE AppendOperation
  BY <1>1, AppendIsOccurrence
<1>2. CASE UNCHANGED <<operations, targets>>
  BY <1>2 DEF HistoryOf, WithdrawalOf
<1>3. CASE InstallLoaded
  <2>1. UNCHANGED <<operations, targets>>
    BY <1>3, InstallRestores DEF HistoryInv, InstallLoaded
  <2> QED BY <1>2, <2>1
<1>4. CASE \E ops \in Batch : Commit(ops)
  BY <1>2, <1>4 DEF Commit, BeginTransaction
<1>5. CASE \E sequence \in 1..MaxSequence, ops \in Batch : Replay(sequence, ops)
  BY <1>2, <1>5 DEF Replay, BeginTransaction
<1>6. CASE FinishTransaction \/ BeginLoad \/ RebuildOperation
  BY <1>2, <1>6 DEF FinishTransaction, BeginLoad, RebuildOperation
<1>7. CASE UNCHANGED vars
  BY <1>2, <1>7 DEF vars
<1> QED BY <1>1, <1>3, <1>4, <1>5, <1>6, <1>7 DEF Next

(* A store is an occurrence history: it only grows, and each retraction     *)
(* withdraws the newest equal assertion that is live, through commits,      *)
(* replays and loads alike.                                                 *)
THEOREM StoreIsHistory == Spec => ImplementsHistory
<1>1. Init => Abstract!HistoryInit
  BY DEF Init, Abstract!HistoryInit, HistoryOf, WithdrawalOf
<1>2. HistoryInv /\ HistoryInv' /\ [Next]_vars =>
        [Abstract!HistoryNext]_<<HistoryOf(operations), WithdrawalOf(targets)>>
  BY StepIsOccurrence
<1> QED
  BY <1>1, <1>2, HistoryInvariant, PTL
  DEF Spec, ImplementsHistory, Abstract!HistorySpec, Abstract!historyVars

-----------------------------------------------------------------------------
(***************************************************************************)
(* Session.  First what its recursive operators compute for every input,    *)
(* by induction over sequences; then the inductive invariants.              *)
(***************************************************************************)

(* A set of natural numbers that is not empty has a least element.          *)
LEMMA SomeIsLeast ==
  ASSUME NEW S \in SUBSET Nat, S # {}
  PROVE  \E m \in S : \A n \in S : m <= n
<1> DEFINE R == {p \in Nat \X Nat : p[1] < p[2]}
<1>1. IsWellFoundedOn(R, Nat)
  BY NatLessThanWellFounded DEF OpToRel
<1>2. PICK m \in S : \A n \in S : <<n, m>> \notin R
  <2> HIDE DEF R
  <2> QED BY <1>1, WFMin
<1>3. \A n \in S : m <= n
  <2> SUFFICES ASSUME NEW n \in S PROVE m <= n
    OBVIOUS
  <2>1. ~(n < m)
    BY <1>2
  <2> QED BY <2>1
<1> QED BY <1>3

(* Induction over the natural numbers, for a set.                           *)
LEMMA Induction ==
  ASSUME NEW S \in SUBSET Nat, 0 \in S, \A k \in S : k + 1 \in S
  PROVE  \A k \in Nat : k \in S
<1> SUFFICES ASSUME Nat \ S # {} PROVE FALSE
  OBVIOUS
<1>1. PICK m \in Nat \ S : \A k \in Nat \ S : m <= k
  BY SomeIsLeast
<1>2. m - 1 \in Nat /\ ~(m <= m - 1)
  BY <1>1
<1>3. m - 1 \in S
  BY <1>1, <1>2
<1>4. (m - 1) + 1 = m
  BY <1>1
<1> QED BY <1>1, <1>3, <1>4

(* Whatever holds of the first value of a sequence of values, and of the    *)
(* next whenever it holds of the one before, holds of all.                  *)
LEMMA Carried ==
  ASSUME NEW X, NEW n \in Nat, NEW f, f[0] \in X,
         \A k \in 1..n : f[k - 1] \in X => f[k] \in X
  PROVE  \A k \in 0..n : f[k] \in X
<1> DEFINE S == {k \in Nat : k <= n => f[k] \in X}
<1>1. 0 \in S
  OBVIOUS
<1>2. ASSUME NEW k \in S PROVE k + 1 \in S
  <2>1. k \in Nat /\ k + 1 \in Nat /\ (k + 1) - 1 = k
    OBVIOUS
  <2>2. k + 1 <= n => k <= n /\ k + 1 \in 1..n
    BY <2>1
  <2> QED BY <2>1, <2>2
<1>3. \A k \in Nat : k \in S
  <2> HIDE DEF S
  <2>1. S \in SUBSET Nat
    BY DEF S
  <2> QED BY <1>1, <1>2, <2>1, Induction
<1> QED BY <1>3

(* A recursive function exists: x, and then what g makes of each value.     *)
Iterates(f, X, x, n, g) ==
  /\ f \in [0..n -> X] /\ f[0] = x
  /\ \A k \in 1..n : f[k] = g[<<k, f[k - 1]>>]

(* A recursive definition of one value per index has a solution: the        *)
(* function that the steps g build from x.                                  *)
LEMMA IterationExists ==
  ASSUME NEW X, NEW x \in X, NEW n \in Nat, NEW g \in [(1..n) \X X -> X]
  PROVE  \E f : Iterates(f, X, x, n, g)
<1> DEFINE S == {m \in Nat : m <= n => \E f : Iterates(f, X, x, m, g)}
<1>1. 0 \in S
  <2>1. Iterates([k \in 0..0 |-> x], X, x, 0, g)
    BY DEF Iterates
  <2> QED BY <2>1
<1>2. ASSUME NEW m \in S PROVE m + 1 \in S
  <2> SUFFICES ASSUME m + 1 <= n PROVE \E f : Iterates(f, X, x, m + 1, g)
    OBVIOUS
  <2>1. m \in Nat /\ m <= n /\ m \in 0..m /\ m + 1 \in 1..n /\ m + 1 # 0
    OBVIOUS
  <2>2. PICK f : Iterates(f, X, x, m, g)
    BY <2>1
  <2> DEFINE h == [k \in 0..m + 1 |-> IF k = m + 1 THEN g[<<m + 1, f[m]>>] ELSE f[k]]
  <2>3. f \in [0..m -> X] /\ f[0] = x /\ \A k \in 1..m : f[k] = g[<<k, f[k - 1]>>]
    BY <2>2 DEF Iterates
  <2>4. g[<<m + 1, f[m]>>] \in X
    <3>1. f[m] \in X
      BY <2>1, <2>3
    <3>2. <<m + 1, f[m]>> \in (1..n) \X X
      BY <2>1, <3>1
    <3> QED BY <3>2
  <2>5. \A k \in 0..m + 1 : k = m + 1 \/ k \in 0..m
    BY <2>1
  <2>6. h \in [0..m + 1 -> X]
    BY <2>3, <2>4, <2>5
  <2>7. h[0] = x
    BY <2>1, <2>3
  <2>8. ASSUME NEW k \in 1..m + 1 PROVE h[k] = g[<<k, h[k - 1]>>]
    <3>1. k - 1 \in 0..m /\ k - 1 \in 0..m + 1 /\ k - 1 # m + 1 /\ k \in 0..m + 1
      BY <2>1
    <3>2. h[k - 1] = f[k - 1]
      BY <3>1
    <3>3. CASE k = m + 1
      <4>1. k - 1 = m
        BY <2>1, <3>3
      <4> QED BY <3>1, <3>2, <3>3, <4>1
    <3>4. CASE k # m + 1
      <4>1. k \in 1..m
        BY <2>1, <3>4
      <4> QED BY <2>3, <3>1, <3>2, <3>4, <4>1
    <3> QED BY <3>3, <3>4
  <2> HIDE DEF h
  <2>9. Iterates(h, X, x, m + 1, g)
    BY <2>6, <2>7, <2>8 DEF Iterates
  <2> QED BY <2>9
<1>3. \A m \in Nat : m \in S
  <2> HIDE DEF S
  <2>1. S \in SUBSET Nat
    BY DEF S
  <2> QED BY <1>1, <1>2, <2>1, Induction
<1> QED BY <1>3

-----------------------------------------------------------------------------
(* Induction over sequences, for a set of them.                             *)
LEMMA FrontAndLast ==
  ASSUME NEW E, NEW s \in Seq(E), s # <<>>
  PROVE  \E t \in Seq(E), x \in E : s = Append(t, x) /\ Len(s) = Len(t) + 1
<1> DEFINE n == Len(s) - 1
           t == [i \in 1..n |-> s[i]]
<1>1. n \in Nat /\ Len(s) = n + 1 /\ Len(s) \in Nat
  OBVIOUS
<1>2. \A i \in 1..n : i \in 1..Len(s)
  BY <1>1
<1>3. t \in Seq(E) /\ Len(t) = n
  BY <1>1, <1>2
<1>4. s[n + 1] \in E
  BY <1>1
<1>5. Append(t, s[n + 1]) = s
  <2> DEFINE u == Append(t, s[n + 1])
  <2>1. u \in Seq(E) /\ Len(u) = n + 1 /\ u[n + 1] = s[n + 1] /\ \A i \in 1..n : u[i] = t[i]
    <3> HIDE DEF t, n
    <3> QED BY <1>1, <1>3, <1>4
  <2>2. \A i \in 1..n : t[i] = s[i]
    OBVIOUS
  <2>3. \A i \in 1..Len(s) : u[i] = s[i]
    <3> HIDE DEF u, t, n
    <3> QED BY <1>1, <2>1, <2>2
  <2> HIDE DEF u, t, n
  <2> QED BY <1>1, <2>1, <2>3 DEF u
<1> HIDE DEF t, n
<1> QED BY <1>1, <1>3, <1>4, <1>5

(* What holds of the empty sequence and survives an Append holds of every   *)
(* sequence.                                                                *)
LEMMA SequenceInduction ==
  ASSUME NEW E, NEW P \in SUBSET Seq(E), <<>> \in P,
         \A s \in P, x \in E : Append(s, x) \in P
  PROVE  \A s \in Seq(E) : s \in P
<1> DEFINE S == {n \in Nat : \A s \in Seq(E) : Len(s) = n => s \in P}
<1>1. 0 \in S
  OBVIOUS
<1>2. ASSUME NEW n \in S PROVE n + 1 \in S
  <2> SUFFICES ASSUME NEW s \in Seq(E), Len(s) = n + 1 PROVE s \in P
    OBVIOUS
  <2>1. s # <<>>
    OBVIOUS
  <2>2. PICK t \in Seq(E), x \in E : s = Append(t, x) /\ Len(s) = Len(t) + 1
    BY <2>1, FrontAndLast
  <2>3. Len(t) = n
    BY <2>2
  <2> QED BY <2>2, <2>3
<1>3. \A n \in Nat : n \in S
  <2> HIDE DEF S
  <2>1. S \in SUBSET Nat
    BY DEF S
  <2> QED BY <1>1, <1>2, <2>1, Induction
<1> QED BY <1>3

(* Sift, one element at a time.                                             *)
LEMMA SiftIs ==
  ASSUME NEW E, NEW s \in Seq(E), NEW K
  PROVE  \E f : /\ f \in [0..Len(s) -> Seq(E)] /\ f[0] = <<>>
                /\ \A i \in 1..Len(s) : f[i] = IF i \in K THEN Append(f[i - 1], s[i]) ELSE f[i - 1]
                /\ Sift(s, K) = f[Len(s)]
<1> DEFINE n == Len(s)
           g == [a \in (1..n) \X Seq(E) |-> IF a[1] \in K THEN Append(a[2], s[a[1]]) ELSE a[2]]
           Sifted(f) == f = [i \in 0..n |-> IF i = 0 THEN <<>>
                                            ELSE IF i \in K THEN Append(f[i - 1], s[i]) ELSE f[i - 1]]
           F == CHOOSE f : Sifted(f)
<1>1. n \in Nat /\ \A i \in 1..n : s[i] \in E
  OBVIOUS
<1>2. g \in [(1..n) \X Seq(E) -> Seq(E)]
  <2> SUFFICES ASSUME NEW i \in 1..n, NEW t \in Seq(E) PROVE g[<<i, t>>] \in Seq(E)
    BY Zenon
  <2>1. s[i] \in E /\ Append(t, s[i]) \in Seq(E)
    BY <1>1
  <2> QED BY <2>1
<1>3. \A i \in 1..n, t \in Seq(E) : g[<<i, t>>] = IF i \in K THEN Append(t, s[i]) ELSE t
  OBVIOUS
<1>4. <<>> \in Seq(E)
  OBVIOUS
<1> HIDE DEF n, g
<1>5. PICK f : Iterates(f, Seq(E), <<>>, n, g)
  BY <1>1, <1>2, <1>4, IterationExists
<1>6. f \in [0..n -> Seq(E)] /\ f[0] = <<>> /\ \A k \in 1..n : f[k] = g[<<k, f[k - 1]>>]
  BY <1>5 DEF Iterates
<1>7. \A i \in 1..n : i - 1 \in 0..n /\ i # 0 /\ i \in 0..n
  BY <1>1
<1>8. \A i \in 0..n : i # 0 => i \in 1..n
  BY <1>1
<1>9. \A i \in 1..n : f[i] = IF i \in K THEN Append(f[i - 1], s[i]) ELSE f[i - 1]
  BY <1>3, <1>6, <1>7
<1>10. Sifted(f)
  <2>1. \A i \in 0..n : f[i] = IF i = 0 THEN <<>>
                               ELSE IF i \in K THEN Append(f[i - 1], s[i]) ELSE f[i - 1]
    BY <1>6, <1>8, <1>9
  <2> QED BY <1>6, <2>1, Zenon
<1> HIDE DEF Sifted
<1>11. Sifted(F)
  BY <1>10
<1>12. F = [i \in 0..n |-> IF i = 0 THEN <<>>
                           ELSE IF i \in K THEN Append(F[i - 1], s[i]) ELSE F[i - 1]]
  BY <1>11, Zenon DEF Sifted
<1>13. Sift(s, K) = F[n]
  BY Zenon DEF Sift, n, F, Sifted
<1> HIDE DEF F
<1>14. 0 \in 0..n
  BY <1>1
<1>15. F[0] = <<>> /\ \A i \in 1..n : F[i] = IF i \in K THEN Append(F[i - 1], s[i]) ELSE F[i - 1]
  BY <1>7, <1>12, <1>14
<1>16. \A k \in 0..n : F[k] \in Seq(E)
  <2>1. ASSUME NEW k \in 1..n, F[k - 1] \in Seq(E) PROVE F[k] \in Seq(E)
    <3>1. s[k] \in E
      BY <1>1
    <3>2. Append(F[k - 1], s[k]) \in Seq(E)
      BY <2>1, <3>1
    <3> QED BY <1>15, <2>1, <3>2
  <2>2. F[0] \in Seq(E)
    BY <1>4, <1>15
  <2> QED BY <1>1, <2>1, <2>2, Carried
<1>17. F \in [0..n -> Seq(E)]
  BY <1>12, <1>16
<1> QED BY <1>13, <1>15, <1>17 DEF n

(* What is sifted from a sequence is a sequence of its elements.            *)
LEMMA SiftTyped ==
  ASSUME NEW E, NEW s \in Seq(E), NEW K
  PROVE  Sift(s, K) \in Seq(E)
<1>1. Len(s) \in 0..Len(s)
  OBVIOUS
<1> QED BY <1>1, SiftIs

(* Nothing is sifted from nothing.                                          *)
LEMMA SiftEmpty == ASSUME NEW K PROVE Sift(<<>>, K) = <<>>
<1> DEFINE E == {0}
           s == <<>>
<1>1. s \in Seq(E) /\ Len(s) = 0
  OBVIOUS
<1>2. ASSUME NEW F, NEW r \in Seq(F), Len(r) = 0 PROVE Sift(r, K) = <<>>
  <2>1. PICK f : f[0] = <<>> /\ Sift(r, K) = f[Len(r)]
    BY SiftIs
  <2> QED BY <1>2, <2>1
<1> QED BY <1>1, <1>2

(* Positions past the end of a sequence, and elements past them, do not     *)
(* matter.                                                                  *)
LEMMA SiftSame ==
  ASSUME NEW E, NEW s \in Seq(E), NEW t \in Seq(E), Len(s) <= Len(t),
         \A i \in 1..Len(s) : s[i] = t[i],
         NEW K, NEW L, \A i \in 1..Len(s) : i \in K <=> i \in L,
         \A i \in Len(s) + 1 .. Len(t) : i \notin L
  PROVE  Sift(s, K) = Sift(t, L)
<1> DEFINE n == Len(s)
           m == Len(t)
<1>1. n \in Nat /\ m \in Nat /\ n <= m
  OBVIOUS
<1>2. PICK f : /\ f[0] = <<>>
               /\ \A i \in 1..n : f[i] = IF i \in K THEN Append(f[i - 1], s[i]) ELSE f[i - 1]
               /\ Sift(s, K) = f[n]
  BY SiftIs
<1>3. PICK h : /\ h[0] = <<>>
               /\ \A i \in 1..m : h[i] = IF i \in L THEN Append(h[i - 1], t[i]) ELSE h[i - 1]
               /\ Sift(t, L) = h[m]
  BY SiftIs
<1>4. /\ \A i \in 1..n : s[i] = t[i] /\ (i \in K <=> i \in L)
      /\ \A i \in n + 1 .. m : i \notin L
  OBVIOUS
<1> HIDE DEF n, m
<1> DEFINE S == {k \in Nat : k <= m => h[k] = f[IF k <= n THEN k ELSE n]}
<1>5. 0 \in S
  BY <1>1, <1>2, <1>3
<1>6. ASSUME NEW k \in S PROVE k + 1 \in S
  <2> SUFFICES ASSUME k + 1 <= m PROVE h[k + 1] = f[IF k + 1 <= n THEN k + 1 ELSE n]
    OBVIOUS
  <2>1. k \in Nat /\ k + 1 \in 1..m /\ (k + 1) - 1 = k /\ k <= m
    BY <1>1
  <2>2. h[k] = f[IF k <= n THEN k ELSE n]
    BY <2>1
  <2>3. h[k + 1] = IF k + 1 \in L THEN Append(h[k], t[k + 1]) ELSE h[k]
    BY <1>3, <2>1
  <2>4. CASE k + 1 <= n
    <3>1. k + 1 \in 1..n /\ k <= n
      BY <1>1, <2>1, <2>4
    <3>2. f[k + 1] = IF k + 1 \in K THEN Append(f[k], s[k + 1]) ELSE f[k]
      BY <1>2, <2>1, <3>1
    <3> QED BY <1>4, <2>2, <2>3, <2>4, <3>1, <3>2
  <2>5. CASE ~(k + 1 <= n)
    <3>1. k + 1 \in n + 1 .. m /\ (k <= n => k = n)
      BY <1>1, <2>1, <2>5
    <3>2. h[k + 1] = h[k]
      BY <1>4, <2>3, <3>1
    <3>3. h[k] = f[n]
      BY <2>2, <3>1
    <3> QED BY <2>5, <3>2, <3>3
  <2> QED BY <2>4, <2>5
<1>7. m \in S
  <2> HIDE DEF S
  <2>1. S \in SUBSET Nat
    BY DEF S
  <2> QED BY <1>1, <1>5, <1>6, <2>1, Induction
<1>8. h[m] = f[n]
  <2>1. m <= n => m = n
    BY <1>1
  <2> QED BY <1>1, <1>7, <2>1
<1> QED BY <1>2, <1>3, <1>8

(* One more element is kept if its position is.                             *)
LEMMA SiftAppend ==
  ASSUME NEW E, NEW s \in Seq(E), NEW x \in E, NEW K
  PROVE  Sift(Append(s, x), K) =
           IF Len(s) + 1 \in K THEN Append(Sift(s, K), x) ELSE Sift(s, K)
<1> DEFINE t == Append(s, x)
           n == Len(s)
<1>1. t \in Seq(E) /\ Len(t) = n + 1 /\ n \in Nat /\ t[n + 1] = x /\ \A i \in 1..n : t[i] = s[i]
  OBVIOUS
<1>2. n + 1 \in 1..n + 1 /\ (n + 1) - 1 = n /\ \A i \in 1..n : i \in 1..n + 1
  BY <1>1
<1> HIDE DEF t
<1>3. PICK h : /\ h[0] = <<>>
               /\ \A i \in 1..n + 1 : h[i] = IF i \in K THEN Append(h[i - 1], t[i]) ELSE h[i - 1]
               /\ Sift(t, K) = h[n + 1]
  BY <1>1, SiftIs
<1>4. PICK f : /\ f[0] = <<>>
               /\ \A i \in 1..n : f[i] = IF i \in K THEN Append(f[i - 1], s[i]) ELSE f[i - 1]
               /\ Sift(s, K) = f[n]
  BY SiftIs
<1> HIDE DEF n
<1> DEFINE S == {k \in Nat : k <= n => h[k] = f[k]}
<1>5. 0 \in S
  BY <1>3, <1>4
<1>6. ASSUME NEW k \in S PROVE k + 1 \in S
  <2> SUFFICES ASSUME k + 1 <= n PROVE h[k + 1] = f[k + 1]
    OBVIOUS
  <2>1. k \in Nat /\ k + 1 \in 1..n /\ (k + 1) - 1 = k /\ k <= n
    BY <1>1
  <2>2. h[k] = f[k]
    BY <2>1
  <2> QED BY <1>1, <1>2, <1>3, <1>4, <2>1, <2>2
<1>7. n \in S
  <2> HIDE DEF S
  <2>1. S \in SUBSET Nat
    BY DEF S
  <2> QED BY <1>1, <1>5, <1>6, <2>1, Induction
<1>8. h[n] = f[n]
  BY <1>1, <1>7
<1>9. h[n + 1] = IF n + 1 \in K THEN Append(h[n], x) ELSE h[n]
  BY <1>1, <1>2, <1>3
<1>10. Sift(t, K) = IF n + 1 \in K THEN Append(Sift(s, K), x) ELSE Sift(s, K)
  BY <1>3, <1>4, <1>8, <1>9
<1> QED BY <1>10 DEF t, n

(* Two sequences, one after the other.                                      *)
LEMMA Joined ==
  ASSUME NEW E, NEW a \in Seq(E), NEW b \in Seq(E)
  PROVE  /\ a \o b \in Seq(E) /\ Len(a \o b) = Len(a) + Len(b)
         /\ Len(a) \in Nat /\ Len(b) \in Nat
         /\ \A i \in 1..Len(a) + Len(b) :
              (a \o b)[i] = IF i <= Len(a) THEN a[i] ELSE b[i - Len(a)]
OBVIOUS

(* What is left when one element goes.                                      *)
LEMMA RemovedAt ==
  ASSUME NEW E, NEW s \in Seq(E), NEW m \in 1..Len(s)
  PROVE  /\ RemoveAt(s, m) \in Seq(E) /\ Len(RemoveAt(s, m)) = Len(s) - 1
         /\ \A i \in 1..Len(s) - 1 : RemoveAt(s, m)[i] = IF i < m THEN s[i] ELSE s[i + 1]
<1> DEFINE n == Len(s)
           a == SubSeq(s, 1, m - 1)
           b == SubSeq(s, m + 1, n)
<1>1. n \in Nat /\ m \in Nat /\ 1 <= m /\ m <= n
  OBVIOUS
<1>2. /\ a \in Seq(E) /\ Len(a) = m - 1 /\ \A i \in 1..m - 1 : a[i] = s[i]
  OBVIOUS
<1>3. /\ b \in Seq(E) /\ Len(b) = n - m /\ \A i \in 1..n - m : b[i] = s[m + i]
  OBVIOUS
<1>4. RemoveAt(s, m) = a \o b
  BY DEF RemoveAt
<1> HIDE DEF a, b, n
<1>5. /\ a \o b \in Seq(E) /\ Len(a \o b) = n - 1
      /\ \A i \in 1..n - 1 : (a \o b)[i] = IF i <= m - 1 THEN a[i] ELSE b[i - (m - 1)]
  <2> DEFINE k == m - 1
             j == n - m
             c == a \o b
  <2>1. k + j = n - 1
    BY <1>1
  <2>2. a \in Seq(E) /\ b \in Seq(E) /\ Len(a) = k /\ Len(b) = j
    BY <1>2, <1>3
  <2> HIDE DEF k, j
  <2>3. /\ c \in Seq(E) /\ Len(c) = k + j
        /\ \A i \in 1..k + j : c[i] = IF i <= k THEN a[i] ELSE b[i - k]
    BY <2>2, Joined
  <2> HIDE DEF c
  <2>4. \A i \in 1..n - 1 : c[i] = IF i <= k THEN a[i] ELSE b[i - k]
    BY <2>1, <2>3
  <2> QED BY <2>1, <2>3, <2>4 DEF c, k
<1>6. ASSUME NEW i \in 1..n - 1 PROVE (a \o b)[i] = IF i < m THEN s[i] ELSE s[i + 1]
  <2>1. CASE i < m
    <3>1. i <= m - 1 /\ i \in 1..m - 1
      BY <1>1, <2>1
    <3> QED BY <1>2, <1>5, <2>1, <3>1
  <2>2. CASE ~(i < m)
    <3>1. ~(i <= m - 1) /\ i - (m - 1) \in 1..n - m /\ m + (i - (m - 1)) = i + 1
      BY <1>1, <2>2
    <3>2. (a \o b)[i] = b[i - (m - 1)]
      BY <1>5, <3>1
    <3>3. b[i - (m - 1)] = s[m + (i - (m - 1))]
      BY <1>3, <3>1
    <3> QED BY <2>2, <3>1, <3>2, <3>3
  <2> QED BY <2>1, <2>2
<1> QED BY <1>4, <1>5, <1>6 DEF n

(* WithoutNewest and RemoveLastEqual take the last of the equal elements.   *)
LEMMA NewestGoes ==
  ASSUME NEW E, NEW s \in Seq(E), NEW p, NEW m \in 1..Len(s), s[m].prop = p,
         \A i \in 1..Len(s) : s[i].prop = p => i <= m
  PROVE  WithoutNewest(s, p) = RemoveAt(s, m)
<1> DEFINE I == {i \in 1..Len(s) : s[i].prop = p}
<1>1. m \in I /\ I # {} /\ m # 0 /\ \A i \in I : i \in Nat /\ m >= i
  OBVIOUS
<1>2. Max(I) = m
  <2> HIDE DEF I
  <2>1. \A x \in I : (\A y \in I : x >= y) => x = m
    BY <1>1
  <2> QED BY <1>1, <2>1 DEF Max
<1>3. SelectLastInSeq(s, LAMBDA event : event.prop = p) = m
  BY <1>1, <1>2, Zenon DEF SelectLastInSeq
<1> QED BY <1>1, <1>3, Zenon DEF WithoutNewest

(* Without an equal event nothing goes.                                     *)
LEMMA NoneGoes ==
  ASSUME NEW s, NEW p, \A i \in 1..Len(s) : s[i].prop # p
  PROVE  WithoutNewest(s, p) = s
<1>1. {i \in 1..Len(s) : s[i].prop = p} = {}
  OBVIOUS
<1>2. SelectLastInSeq(s, LAMBDA event : event.prop = p) = 0
  BY <1>1, Zenon DEF SelectLastInSeq
<1> QED BY <1>2, Zenon DEF WithoutNewest

(* The same of the simulated propositions of a plan (remove-last-equal).    *)
LEMMA LastEqualGoes ==
  ASSUME NEW E, NEW s \in Seq(E), NEW p, NEW m \in 1..Len(s), s[m] = p,
         \A i \in 1..Len(s) : s[i] = p => i <= m
  PROVE  RemoveLastEqual(s, p) = RemoveAt(s, m)
<1> DEFINE I == {i \in 1..Len(s) : s[i] = p}
<1>1. m \in I /\ I # {} /\ m # 0 /\ \A i \in I : i \in Nat /\ m >= i
  OBVIOUS
<1>2. Max(I) = m
  <2> HIDE DEF I
  <2>1. \A x \in I : (\A y \in I : x >= y) => x = m
    BY <1>1
  <2> QED BY <1>1, <2>1 DEF Max
<1>3. SelectLastInSeq(s, LAMBDA known : known = p) = m
  BY <1>1, <1>2, Zenon DEF SelectLastInSeq
<1> QED BY <1>1, <1>3, Zenon DEF RemoveLastEqual

(* Without an equal proposition nothing goes.                               *)
LEMMA NoEqualGoes ==
  ASSUME NEW s, NEW p, \A i \in 1..Len(s) : s[i] # p
  PROVE  RemoveLastEqual(s, p) = s
<1>1. {i \in 1..Len(s) : s[i] = p} = {}
  OBVIOUS
<1>2. SelectLastInSeq(s, LAMBDA known : known = p) = 0
  BY <1>1, Zenon DEF SelectLastInSeq
<1> QED BY <1>2, Zenon DEF RemoveLastEqual

(* Some element is the last of the equal ones, if there is any.             *)
LEMMA SomeIsNewest ==
  ASSUME NEW s, Len(s) \in Nat, NEW I \in SUBSET (1..Len(s)), I # {}
  PROVE  \E m \in I : \A i \in I : i <= m
<1> DEFINE n == Len(s)
           S == {n - i : i \in I}
<1>1. S \in SUBSET Nat /\ S # {}
  OBVIOUS
<1>2. PICK k \in S : \A j \in S : k <= j
  <2> HIDE DEF S
  <2> QED BY <1>1, SomeIsLeast
<1>3. PICK m \in I : k = n - m
  BY <1>2
<1>4. \A i \in I : n - m <= n - i
  BY <1>2, <1>3
<1>5. n \in Nat /\ \A i \in I : i \in Nat
  OBVIOUS
<1>6. \A i \in I : i <= m
  <2> HIDE DEF n, S
  <2> QED BY <1>3, <1>4, <1>5
<1> QED BY <1>6

(* What is left is made of the same elements.                               *)
LEMMA WithoutNewestTyped ==
  ASSUME NEW E, NEW s \in Seq(E), NEW p
  PROVE  WithoutNewest(s, p) \in Seq(E)
<1> DEFINE I == {i \in 1..Len(s) : s[i].prop = p}
<1>1. CASE I = {}
  <2>1. \A i \in 1..Len(s) : s[i].prop # p
    BY <1>1
  <2> QED BY <2>1, NoneGoes
<1>2. CASE I # {}
  <2>1. Len(s) \in Nat /\ I \in SUBSET (1..Len(s))
    OBVIOUS
  <2>2. PICK m \in I : \A i \in I : i <= m
    <3> HIDE DEF I
    <3> QED BY <1>2, <2>1, SomeIsNewest
  <2>3. m \in 1..Len(s) /\ s[m].prop = p /\ \A i \in 1..Len(s) : s[i].prop = p => i <= m
    BY <2>2
  <2>4. WithoutNewest(s, p) = RemoveAt(s, m)
    BY <2>3, NewestGoes
  <2> QED BY <2>3, <2>4, RemovedAt
<1> QED BY <1>1, <1>2

(* The newest of the equal elements is the one that was appended.           *)
LEMMA AppendedGoes ==
  ASSUME NEW E, NEW s \in Seq(E), NEW x \in E
  PROVE  WithoutNewest(Append(s, x), x.prop) = s
<1> DEFINE t == Append(s, x)
           n == Len(s)
           m == Len(t)
<1>1. t \in Seq(E) /\ n \in Nat /\ m = n + 1 /\ m \in Nat /\ m - 1 = n /\ m \in 1..m
      /\ t[m] = x /\ \A i \in 1..n : t[i] = s[i]
  OBVIOUS
<1>2. \A i \in 1..m : i <= m
  BY <1>1
<1> HIDE DEF t
<1>3. WithoutNewest(t, x.prop) = RemoveAt(t, m)
  BY <1>1, <1>2, NewestGoes
<1>4. /\ RemoveAt(t, m) \in Seq(E) /\ Len(RemoveAt(t, m)) = m - 1
      /\ \A i \in 1..m - 1 : RemoveAt(t, m)[i] = IF i < m THEN t[i] ELSE t[i + 1]
  BY <1>1, RemovedAt
<1> HIDE DEF m, n
<1>5. \A i \in 1..n : i < m
  BY <1>1
<1>6. /\ RemoveAt(t, m) \in Seq(E) /\ Len(RemoveAt(t, m)) = n
      /\ \A i \in 1..n : RemoveAt(t, m)[i] = s[i]
  BY <1>1, <1>4, <1>5
<1>7. RemoveAt(t, m) = s
  <2> DEFINE u == RemoveAt(t, m)
  <2>1. u \in Seq(E) /\ Len(u) = Len(s) /\ \A i \in 1..Len(s) : u[i] = s[i]
    BY <1>6 DEF n
  <2> HIDE DEF u
  <2>2. u = s
    BY <2>1
  <2> QED BY <2>2 DEF u
<1> QED BY <1>3, <1>7 DEF t

(* An element appended later does not matter, if it is another.             *)
LEMMA OtherGoes ==
  ASSUME NEW E, NEW s \in Seq(E), NEW x \in E, NEW p, x.prop # p
  PROVE  WithoutNewest(Append(s, x), p) = Append(WithoutNewest(s, p), x)
<1> DEFINE t == Append(s, x)
           n == Len(s)
           I == {i \in 1..n : s[i].prop = p}
<1>1. t \in Seq(E) /\ n \in Nat /\ Len(t) = n + 1 /\ n + 1 \in 1..n + 1
      /\ t[n + 1] = x /\ \A i \in 1..n : t[i] = s[i]
  OBVIOUS
<1>2. \A i \in 1..n + 1 : i = n + 1 \/ i \in 1..n
  BY <1>1
<1> HIDE DEF t
<1>3. CASE I = {}
  <2>1. \A i \in 1..n : s[i].prop # p
    BY <1>3
  <2>2. \A i \in 1..Len(t) : t[i].prop # p
    BY <1>1, <1>2, <2>1
  <2>3. WithoutNewest(s, p) = s /\ WithoutNewest(t, p) = t
    BY <2>1, <2>2, NoneGoes
  <2> QED BY <2>3 DEF t
<1>4. CASE I # {}
  <2>1. PICK m \in I : \A i \in I : i <= m
    <3>1. I \in SUBSET (1..Len(s)) /\ Len(s) \in Nat
      OBVIOUS
    <3> HIDE DEF I
    <3> QED BY <1>4, <3>1, SomeIsNewest
  <2>2. m \in 1..n /\ s[m].prop = p /\ \A i \in 1..n : s[i].prop = p => i <= m
    BY <2>1
  <2>3. m \in 1..n + 1 /\ t[m].prop = p /\ \A i \in 1..n + 1 : t[i].prop = p => i <= m
    BY <1>1, <1>2, <2>2
  <2>4. WithoutNewest(s, p) = RemoveAt(s, m)
    BY <2>2, NewestGoes
  <2>5. WithoutNewest(t, p) = RemoveAt(t, m)
    BY <1>1, <2>3, NewestGoes
  <2> DEFINE u == RemoveAt(s, m)
             v == RemoveAt(t, m)
             w == Append(u, x)
  <2>6. u \in Seq(E) /\ Len(u) = n - 1 /\ \A i \in 1..n - 1 : u[i] = IF i < m THEN s[i] ELSE s[i + 1]
    BY <2>2, RemovedAt
  <2>7. v \in Seq(E) /\ Len(v) = (n + 1) - 1
        /\ \A i \in 1..(n + 1) - 1 : v[i] = IF i < m THEN t[i] ELSE t[i + 1]
    <3> HIDE DEF I, u, w, n
    <3>1. m \in 1..Len(t) /\ Len(t) = n + 1
      BY <1>1, <2>3
    <3>2. v \in Seq(E) /\ Len(v) = Len(t) - 1
          /\ \A i \in 1..Len(t) - 1 : v[i] = IF i < m THEN t[i] ELSE t[i + 1]
      BY <1>1, <3>1, RemovedAt
    <3> HIDE DEF v
    <3> QED BY <3>1, <3>2
  <2>8. m \in Nat /\ 1 <= m /\ m <= n /\ n - 1 \in Nat /\ (n + 1) - 1 = n /\ (n - 1) + 1 = n
    BY <1>1, <2>2
  <2> HIDE DEF u, v, n
  <2>9. w \in Seq(E) /\ Len(w) = n /\ w[n] = x /\ \A i \in 1..n - 1 : w[i] = u[i]
    BY <2>6, <2>8
  <2> HIDE DEF w
  <2>10. ASSUME NEW i \in 1..n PROVE v[i] = w[i]
    <3>1. CASE i = n
      <4>1. v[n] = t[n + 1]
        BY <2>7, <2>8
      <4> QED BY <1>1, <2>9, <3>1, <4>1
    <3>2. CASE i # n
      <4>1. i \in 1..n - 1 /\ i \in 1..n /\ i + 1 \in 1..n
        BY <2>8, <3>2
      <4>2. v[i] = IF i < m THEN s[i] ELSE s[i + 1]
        BY <1>1, <2>7, <2>8, <4>1
      <4> QED BY <2>6, <2>9, <4>1, <4>2
    <3> QED BY <3>1, <3>2
  <2>11. v = w
    BY <2>7, <2>8, <2>9, <2>10
  <2> QED BY <2>4, <2>5, <2>11 DEF u, v, w, t
<1> QED BY <1>3, <1>4

(* The facts about Append that the proofs below cite.                       *)
LEMMA Appended ==
  ASSUME NEW E, NEW s \in Seq(E), NEW x \in E
  PROVE  /\ Append(s, x) \in Seq(E) /\ Len(Append(s, x)) = Len(s) + 1 /\ Len(s) \in Nat
         /\ Append(s, x)[Len(s) + 1] = x
         /\ \A i \in 1..Len(s) : Append(s, x)[i] = s[i] /\ i \in 1..Len(s) + 1
         /\ \A i \in 1..Len(s) + 1 : i = Len(s) + 1 \/ i \in 1..Len(s)
         /\ Len(s) + 1 \in 1..Len(s) + 1 /\ ~(Len(s) + 1 \in 1..Len(s))
OBVIOUS

(* Append adds one element.                                                 *)
LEMMA ElementsAppend ==
  ASSUME NEW E, NEW s \in Seq(E), NEW x \in E
  PROVE  Elements(Append(s, x)) = Elements(s) \cup {x}
<1> DEFINE t == Append(s, x)
           n == Len(s)
<1>1. /\ t[n + 1] = x
      /\ \A i \in 1..n : t[i] = s[i] /\ i \in 1..n + 1
      /\ \A i \in 1..n + 1 : i = n + 1 \/ i \in 1..n
      /\ n + 1 \in 1..n + 1
  BY Appended
<1>2. DOMAIN t = 1..n + 1 /\ DOMAIN s = 1..n
  OBVIOUS
<1> HIDE DEF t, n
<1>3. Elements(t) = {t[i] : i \in 1..n + 1} /\ Elements(s) = {s[i] : i \in 1..n}
  BY <1>2 DEF Elements
<1>4. Elements(t) = Elements(s) \cup {x}
  BY <1>1, <1>3
<1> QED BY <1>4 DEF t

(* One more element of a sequence, in terms of the same positions or others.*)
LEMMA SiftStep ==
  ASSUME NEW E, NEW s \in Seq(E), NEW x \in E, NEW K, NEW L,
         \A i \in 1..Len(s) : i \in K <=> i \in L
  PROVE  Sift(Append(s, x), L) =
           IF Len(s) + 1 \in L THEN Append(Sift(s, K), x) ELSE Sift(s, K)
<1>1. Len(s) \in Nat /\ Len(s) <= Len(s) /\ \A i \in Len(s) + 1 .. Len(s) : i \notin L
  OBVIOUS
<1>2. Sift(s, K) = Sift(s, L)
  BY <1>1, SiftSame
<1> QED BY <1>2, SiftAppend

(* Keeping every position keeps the sequence.                               *)
LEMMA SiftAll ==
  ASSUME NEW E, NEW s \in Seq(E), NEW K, \A i \in 1..Len(s) : i \in K
  PROVE  Sift(s, K) = s
<1> DEFINE P == {t \in Seq(E) : Sift(t, 1..Len(t)) = t}
<1>1. <<>> \in P
  <2>1. <<>> \in Seq(E) /\ Sift(<<>>, 1..Len(<<>>)) = <<>>
    BY SiftEmpty
  <2> QED BY <2>1
<1>2. ASSUME NEW t \in P, NEW x \in E PROVE Append(t, x) \in P
  <2>1. t \in Seq(E) /\ Sift(t, 1..Len(t)) = t
    OBVIOUS
  <2>2. /\ Append(t, x) \in Seq(E) /\ Len(Append(t, x)) = Len(t) + 1
        /\ \A i \in 1..Len(t) : i \in 1..Len(t) + 1
        /\ Len(t) + 1 \in 1..Len(t) + 1
    BY <2>1, Appended
  <2>3. Sift(Append(t, x), 1..Len(t) + 1) = Append(t, x)
    <3>1. \A i \in 1..Len(t) : i \in 1..Len(t) <=> i \in 1..Len(t) + 1
      BY <2>2
    <3> QED BY <2>1, <2>2, <3>1, SiftStep
  <2> QED BY <2>2, <2>3
<1>3. Sift(s, 1..Len(s)) = s
  <2> HIDE DEF P
  <2>1. P \in SUBSET Seq(E)
    BY DEF P
  <2>2. s \in P
    BY <1>1, <1>2, <2>1, SequenceInduction
  <2> QED BY <2>2 DEF P
<1>4. /\ Len(s) \in Nat /\ Len(s) <= Len(s)
      /\ \A i \in Len(s) + 1 .. Len(s) : i \notin K
      /\ \A i \in 1..Len(s) : i \in 1..Len(s) <=> i \in K
  OBVIOUS
<1>5. Sift(s, 1..Len(s)) = Sift(s, K)
  BY <1>4, SiftSame
<1> QED BY <1>3, <1>5

(* Keeping no position leaves nothing.                                      *)
LEMMA SiftNone ==
  ASSUME NEW E, NEW s \in Seq(E), NEW K, \A i \in 1..Len(s) : i \notin K
  PROVE  Sift(s, K) = <<>>
<1>1. ASSUME NEW r \in Seq(E), Len(r) = 0 PROVE Sift(s, K) = Sift(r, K)
  <2>1. /\ Len(r) <= Len(s) /\ \A i \in 1..Len(r) : r[i] = s[i] /\ (i \in K <=> i \in K)
        /\ \A i \in Len(r) + 1 .. Len(s) : i \notin K
    BY <1>1
  <2> QED BY <2>1, SiftSame
<1>2. ASSUME NEW r, r = <<>> PROVE r \in Seq(E) /\ Len(r) = 0 /\ Sift(r, K) = <<>>
  <2>1. Sift(r, K) = <<>>
    BY <1>2, SiftEmpty, Zenon
  <2> QED BY <1>2, <2>1
<1> QED BY <1>1, <1>2

(* The elements that are left are those at the positions kept.              *)
LEMMA SiftElements ==
  ASSUME NEW E, NEW s \in Seq(E), NEW K
  PROVE  Elements(Sift(s, K)) = {s[i] : i \in {j \in 1..Len(s) : j \in K}}
<1> DEFINE Of(t) == {t[i] : i \in {j \in 1..Len(t) : j \in K}}
           P == {t \in Seq(E) : Elements(Sift(t, K)) = Of(t)}
<1>1. <<>> \in P
  <2>1. <<>> \in Seq(E) /\ Sift(<<>>, K) = <<>> /\ Elements(<<>>) = {} /\ Of(<<>>) = {}
    BY SiftEmpty DEF Elements
  <2> HIDE DEF Of
  <2> QED BY <2>1
<1>2. ASSUME NEW t \in P, NEW x \in E PROVE Append(t, x) \in P
  <2> DEFINE u == Append(t, x)
             n == Len(t)
  <2>1. t \in Seq(E) /\ Elements(Sift(t, K)) = Of(t)
    OBVIOUS
  <2>2. /\ u \in Seq(E) /\ Len(u) = n + 1 /\ u[n + 1] = x
        /\ \A i \in 1..n : u[i] = t[i] /\ i \in 1..n + 1
        /\ \A i \in 1..n + 1 : i = n + 1 \/ i \in 1..n
        /\ n + 1 \in 1..n + 1
    BY <2>1, Appended
  <2>3. Sift(u, K) = IF n + 1 \in K THEN Append(Sift(t, K), x) ELSE Sift(t, K)
    BY <2>1, SiftAppend
  <2>4. Sift(t, K) \in Seq(E)
    BY <2>1, SiftTyped
  <2>5. Elements(Append(Sift(t, K), x)) = Of(t) \cup {x}
    BY <2>1, <2>4, ElementsAppend
  <2>6. Of(u) = IF n + 1 \in K THEN Of(t) \cup {x} ELSE Of(t)
    <3> HIDE DEF u, n, P
    <3>1. Of(u) = {u[i] : i \in {j \in 1..n + 1 : j \in K}}
      BY <2>2
    <3>2. Of(t) = {t[i] : i \in {j \in 1..n : j \in K}}
      BY DEF n
    <3> HIDE DEF Of
    <3> QED BY <2>2, <3>1, <3>2
  <2> HIDE DEF u, Of, n
  <2>7. Elements(Sift(u, K)) = Of(u)
    BY <2>1, <2>3, <2>5, <2>6
  <2> QED BY <2>2, <2>7 DEF u
<1> HIDE DEF Of
<1>3. P \in SUBSET Seq(E)
  OBVIOUS
<1>4. s \in P
  <2> HIDE DEF P
  <2> QED BY <1>1, <1>2, <1>3, SequenceInduction
<1>5. Elements(Sift(s, K)) = Of(s)
  BY <1>4
<1> QED BY <1>5 DEF Of

(* Leaving out the last chosen position of a proposition takes its newest   *)
(* element.                                                                 *)
LEMMA SiftWithout ==
  ASSUME NEW E, NEW s \in Seq(E), NEW K, NEW p, NEW m \in 1..Len(s), m \in K, s[m].prop = p,
         \A i \in 1..Len(s) : i \in K /\ s[i].prop = p => i <= m
  PROVE  Sift(s, K \ {m}) = WithoutNewest(Sift(s, K), p)
<1> DEFINE Latest(t) == /\ t[m].prop = p
                        /\ \A i \in 1..Len(t) : i \in K /\ t[i].prop = p => i <= m
           P == {t \in Seq(E) : m \in 1..Len(t) /\ Latest(t)
                                => Sift(t, K \ {m}) = WithoutNewest(Sift(t, K), p)}
<1>1. <<>> \in P
  OBVIOUS
<1>2. ASSUME NEW t \in P, NEW x \in E PROVE Append(t, x) \in P
  <2> DEFINE u == Append(t, x)
             n == Len(t)
  <2>1. t \in Seq(E) /\ (m \in 1..n /\ Latest(t) => Sift(t, K \ {m}) = WithoutNewest(Sift(t, K), p))
    OBVIOUS
  <2>2. /\ u \in Seq(E) /\ Len(u) = n + 1 /\ u[n + 1] = x /\ n \in Nat
        /\ \A i \in 1..n : u[i] = t[i] /\ i \in 1..n + 1
        /\ \A i \in 1..n + 1 : i = n + 1 \/ i \in 1..n
        /\ n + 1 \in 1..n + 1 /\ ~(n + 1 \in 1..n)
    BY <2>1, Appended
  <2>3. Sift(u, K) = IF n + 1 \in K THEN Append(Sift(t, K), x) ELSE Sift(t, K)
    BY <2>1, SiftAppend
  <2>4. Sift(u, K \ {m}) = IF n + 1 \in K \ {m} THEN Append(Sift(t, K \ {m}), x) ELSE Sift(t, K \ {m})
    BY <2>1, SiftAppend
  <2>5. Sift(t, K) \in Seq(E)
    BY <2>1, SiftTyped
  <2> HIDE DEF P, u, n
  <2> SUFFICES ASSUME m \in 1..Len(u), Latest(u)
               PROVE  Sift(u, K \ {m}) = WithoutNewest(Sift(u, K), p)
    BY <2>2 DEF P, u
  <2>6. m \in 1..n + 1 /\ u[m].prop = p /\ \A i \in 1..n + 1 : i \in K /\ u[i].prop = p => i <= m
    BY <2>2
  <2> HIDE DEF Latest
  <2>7. CASE m = n + 1
    <3>1. x.prop = p /\ n + 1 \notin K \ {m} /\ n + 1 \in K
      BY <2>2, <2>6, <2>7
    <3>2. Sift(t, K \ {m}) = Sift(t, K)
      <4>1. \A i \in 1..n : i \in K \ {m} <=> i \in K
        BY <2>2, <2>7
      <4>2. n <= n /\ \A i \in n + 1 .. n : i \notin K
        BY <2>2
      <4> QED BY <2>1, <4>1, <4>2, SiftSame DEF n
    <3>3. WithoutNewest(Append(Sift(t, K), x), p) = Sift(t, K)
      BY <2>5, <3>1, AppendedGoes
    <3> QED BY <2>3, <2>4, <3>1, <3>2, <3>3
  <2>8. CASE m # n + 1
    <3>1. m \in 1..n /\ m < n + 1
      BY <2>2, <2>6, <2>8
    <3>2. Latest(t)
      <4>1. t[m].prop = p /\ \A i \in 1..n : i \in K /\ t[i].prop = p => i <= m
        BY <2>2, <2>6, <3>1
      <4> QED BY <4>1 DEF Latest, n
    <3>3. Sift(t, K \ {m}) = WithoutNewest(Sift(t, K), p)
      BY <2>1, <3>1, <3>2
    <3>4. CASE n + 1 \in K
      <4>1. x.prop # p
        <5>1. ~(n + 1 <= m)
          BY <2>2, <3>1
        <5> QED BY <2>2, <2>6, <3>4, <5>1
      <4>2. WithoutNewest(Append(Sift(t, K), x), p) = Append(WithoutNewest(Sift(t, K), p), x)
        BY <2>5, <4>1, OtherGoes
      <4>3. n + 1 \in K \ {m}
        BY <2>8, <3>4
      <4> QED BY <2>3, <2>4, <3>3, <3>4, <4>2, <4>3
    <3>5. CASE n + 1 \notin K
      BY <2>3, <2>4, <3>3, <3>5
    <3> QED BY <3>4, <3>5
  <2> QED BY <2>7, <2>8
<1>3. P \in SUBSET Seq(E)
  OBVIOUS
<1>4. s \in P
  <2> HIDE DEF P
  <2> QED BY <1>1, <1>2, <1>3, SequenceInduction
<1>5. Latest(s)
  OBVIOUS
<1> HIDE DEF Latest
<1> QED BY <1>4, <1>5

-----------------------------------------------------------------------------
(* The part of a sequence of operations that a pattern matches.             *)

(* A leaf, and what a pattern selects of it, are made of the same elements. *)
LEMMA NarrowedTyped ==
  ASSUME NEW E, NEW s \in Seq(E), NEW pattern
  PROVE  Narrowed(s, pattern) \in Seq(E) /\ Leaf(s, pattern) \in Seq(E)
BY SiftTyped DEF Narrowed, Leaf

(* Nothing is selected from nothing.                                        *)
LEMMA NarrowedEmpty ==
  ASSUME NEW pattern
  PROVE  Narrowed(<<>>, pattern) = <<>> /\ Leaf(<<>>, pattern) = <<>>
BY SiftEmpty DEF Narrowed, Leaf

(* One more element is selected if the pattern matches it.                  *)
LEMMA NarrowedAppend ==
  ASSUME NEW E, NEW s \in Seq(E), NEW x \in E, NEW pattern
  PROVE  /\ Narrowed(Append(s, x), pattern) =
              IF Matches(pattern, x.prop) THEN Append(Narrowed(s, pattern), x)
                                          ELSE Narrowed(s, pattern)
         /\ Leaf(Append(s, x), pattern) =
              IF Selects(Indexed(pattern), pattern, x.prop) THEN Append(Leaf(s, pattern), x)
                                                            ELSE Leaf(s, pattern)
<1> DEFINE t == Append(s, x)
           n == Len(s)
           K(r) == {i \in DOMAIN r : Matches(pattern, r[i].prop)}
           L(r) == {i \in DOMAIN r : Selects(Indexed(pattern), pattern, r[i].prop)}
<1>1. /\ t[n + 1] = x
      /\ \A i \in 1..n : t[i] = s[i] /\ i \in 1..n + 1
      /\ n + 1 \in 1..n + 1
  BY Appended
<1>2. DOMAIN t = 1..n + 1 /\ DOMAIN s = 1..n
  OBVIOUS
<1> HIDE DEF t
<1>3. /\ \A i \in 1..n : (i \in K(s) <=> i \in K(t)) /\ (i \in L(s) <=> i \in L(t))
      /\ n + 1 \in K(t) <=> Matches(pattern, x.prop)
      /\ n + 1 \in L(t) <=> Selects(Indexed(pattern), pattern, x.prop)
  BY <1>1, <1>2
<1>4. Sift(t, K(t)) = IF n + 1 \in K(t) THEN Append(Sift(s, K(s)), x) ELSE Sift(s, K(s))
  <2> HIDE DEF K
  <2> QED BY <1>3, SiftStep DEF t
<1>5. Sift(t, L(t)) = IF n + 1 \in L(t) THEN Append(Sift(s, L(s)), x) ELSE Sift(s, L(s))
  <2> HIDE DEF L
  <2> QED BY <1>3, SiftStep DEF t
<1>6. /\ Narrowed(t, pattern) = Sift(t, K(t)) /\ Narrowed(s, pattern) = Sift(s, K(s))
      /\ Leaf(t, pattern) = Sift(t, L(t)) /\ Leaf(s, pattern) = Sift(s, L(s))
  BY Zenon DEF Narrowed, Leaf
<1> HIDE DEF K, L, n
<1> QED BY <1>3, <1>4, <1>5, <1>6 DEF t

(* Two recursions that start alike and step alike agree everywhere.         *)
SameTurns(f, h, n) ==
  f[0] = h[0] /\ \A k \in 1..n : f[k - 1] = h[k - 1] => f[k] = h[k]

(* Such recursions have the same values.                                    *)
LEMMA SameValues ==
  ASSUME NEW n \in Nat, NEW f, NEW h, SameTurns(f, h, n)
  PROVE  \A k \in 0..n : f[k] = h[k]
<1> USE DEF SameTurns
<1> DEFINE S == {k \in Nat : k <= n => f[k] = h[k]}
<1>1. 0 \in S
  OBVIOUS
<1>2. ASSUME NEW k \in S PROVE k + 1 \in S
  <2>1. k \in Nat /\ k + 1 \in Nat /\ (k + 1) - 1 = k
    OBVIOUS
  <2>2. k + 1 <= n => k <= n /\ k + 1 \in 1..n
    BY <2>1
  <2> QED BY <2>1, <2>2
<1>3. \A k \in Nat : k \in S
  <2> HIDE DEF S
  <2>1. S \in SUBSET Nat
    BY DEF S
  <2> QED BY <1>1, <1>2, <2>1, Induction
<1> QED BY <1>3

(* An index carries slots that the pattern binds, so narrowing its leaf is  *)
(* narrowing everything.                                                    *)
LEMMA LeafNarrowed ==
  ASSUME NEW E, NEW s \in Seq(E), NEW pattern
  PROVE  Narrowed(Leaf(s, pattern), pattern) = Narrowed(s, pattern)
<1> DEFINE P == {t \in Seq(E) : Narrowed(Leaf(t, pattern), pattern) = Narrowed(t, pattern)}
<1>1. <<>> \in P
  <2>1. <<>> \in Seq(E) /\ Narrowed(Leaf(<<>>, pattern), pattern) = Narrowed(<<>>, pattern)
    BY NarrowedEmpty
  <2> QED BY <2>1
<1>2. ASSUME NEW t \in P, NEW x \in E PROVE Append(t, x) \in P
  <2>1. t \in Seq(E) /\ Append(t, x) \in Seq(E)
        /\ Narrowed(Leaf(t, pattern), pattern) = Narrowed(t, pattern)
    BY Appended
  <2> DEFINE selected == Selects(Indexed(pattern), pattern, x.prop)
             matched  == Matches(pattern, x.prop)
  <2>2. matched => selected
    <3>1. Indexed(pattern) \subseteq BoundSlots(pattern)
      BY DEF Indexed
    <3> QED BY <3>1 DEF Matches, Selects
  <2>3. /\ Narrowed(Append(t, x), pattern) =
             IF matched THEN Append(Narrowed(t, pattern), x) ELSE Narrowed(t, pattern)
        /\ Leaf(Append(t, x), pattern) =
             IF selected THEN Append(Leaf(t, pattern), x) ELSE Leaf(t, pattern)
    BY <2>1, NarrowedAppend
  <2>4. Narrowed(Append(Leaf(t, pattern), x), pattern) =
          IF matched THEN Append(Narrowed(Leaf(t, pattern), pattern), x)
                     ELSE Narrowed(Leaf(t, pattern), pattern)
    <3>1. Leaf(t, pattern) \in Seq(E)
      BY <2>1, NarrowedTyped
    <3> QED BY <3>1, NarrowedAppend
  <2> HIDE DEF selected, matched
  <2>5. Narrowed(Leaf(Append(t, x), pattern), pattern) = Narrowed(Append(t, x), pattern)
    <3>1. CASE matched
      BY <2>1, <2>2, <2>3, <2>4, <3>1
    <3>2. CASE ~matched /\ selected
      BY <2>1, <2>3, <2>4, <3>2
    <3>3. CASE ~matched /\ ~selected
      BY <2>1, <2>3, <3>3
    <3> QED BY <3>1, <3>2, <3>3
  <2> QED BY <2>1, <2>5
<1>3. P \in SUBSET Seq(E)
  OBVIOUS
<1>4. s \in P
  <2> HIDE DEF P
  <2> QED BY <1>1, <1>2, <1>3, SequenceInduction
<1> QED BY <1>4

(* What a pattern selects are the elements it matches.                      *)
LEMMA NarrowedElements ==
  ASSUME NEW E, NEW s \in Seq(E), NEW pattern
  PROVE  Elements(Narrowed(s, pattern)) =
           {e \in Elements(s) : Matches(pattern, e.prop)}
<1> DEFINE K == {i \in DOMAIN s : Matches(pattern, s[i].prop)}
<1>1. Elements(Sift(s, K)) = {s[i] : i \in {j \in 1..Len(s) : j \in K}}
  BY SiftElements
<1>2. DOMAIN s = 1..Len(s) /\ Elements(s) = {s[i] : i \in 1..Len(s)}
  BY DEF Elements
<1>3. Narrowed(s, pattern) = Sift(s, K)
  BY Zenon DEF Narrowed
<1> QED BY <1>1, <1>2, <1>3

(* An element of a sequence by its position.                                *)
LEMMA ElementAt ==
  ASSUME NEW E, NEW s \in Seq(E)
  PROVE  /\ \A i \in 1..Len(s) : s[i] \in Elements(s)
         /\ \A e \in Elements(s) : e \in E /\ \E i \in 1..Len(s) : s[i] = e
BY DEF Elements

(* The triple of no bound slot matches all.                                 *)
LEMMA NarrowedByAny ==
  ASSUME NEW E, NEW s \in Seq(E)
  PROVE  Narrowed(s, AnyTriple) = s
<1>1. BoundSlots(AnyTriple) = {}
  BY DEF BoundSlots, AnyTriple
<1>2. \A p : Matches(AnyTriple, p)
  BY <1>1 DEF Matches, Selects
<1>3. \A i \in 1..Len(s) : i \in {j \in DOMAIN s : Matches(AnyTriple, s[j].prop)}
  BY <1>2
<1> QED BY <1>3, SiftAll DEF Narrowed

(* Where no element has the proposition, none is withdrawn.                 *)
LEMMA AbsentStays ==
  ASSUME NEW E, NEW s \in Seq(E), NEW p, \A e \in Elements(s) : e.prop # p
  PROVE  WithoutNewest(s, p) = s
<1>1. \A i \in 1..Len(s) : s[i].prop # p
  BY ElementAt
<1> QED BY <1>1, NoneGoes

(* Narrowing and withdrawing go in either order.                            *)
LEMMA NarrowedWithout ==
  ASSUME NEW E, NEW s \in Seq(E), NEW pattern, NEW p
  PROVE  Narrowed(WithoutNewest(s, p), pattern) = WithoutNewest(Narrowed(s, pattern), p)
<1> DEFINE P == {t \in Seq(E) : Narrowed(WithoutNewest(t, p), pattern) =
                                WithoutNewest(Narrowed(t, pattern), p)}
<1>1. <<>> \in P
  <2> DEFINE r == <<>>
  <2>3. r \in Seq(E) /\ Len(r) = 0
    OBVIOUS
  <2> HIDE DEF P
  <2>1. Narrowed(r, pattern) = r
    BY NarrowedEmpty
  <2> HIDE DEF r
  <2>2. WithoutNewest(r, p) = r
    <3>1. \A i \in 1..Len(r) : r[i].prop # p
      BY <2>3
    <3> QED BY <3>1, NoneGoes
  <2>4. Narrowed(WithoutNewest(r, p), pattern) = WithoutNewest(Narrowed(r, pattern), p)
    BY <2>1, <2>2, Zenon
  <2> QED BY <2>3, <2>4 DEF P, r
<1>2. ASSUME NEW t \in P, NEW x \in E PROVE Append(t, x) \in P
  <2> DEFINE matched == Matches(pattern, x.prop)
             u == Append(t, x)
             v == Narrowed(t, pattern)
             w == WithoutNewest(t, p)
  <2>1. t \in Seq(E) /\ u \in Seq(E) /\ Narrowed(w, pattern) = WithoutNewest(v, p)
    BY Appended
  <2>2. v \in Seq(E) /\ w \in Seq(E)
    BY <2>1, NarrowedTyped, WithoutNewestTyped
  <2>3. Narrowed(u, pattern) = IF matched THEN Append(v, x) ELSE v
    BY <2>1, NarrowedAppend
  <2>4. Narrowed(WithoutNewest(u, p), pattern) = WithoutNewest(Narrowed(u, pattern), p)
    <3>1. CASE x.prop = p
      <4>1. WithoutNewest(u, p) = t
        BY <2>1, <3>1, AppendedGoes
      <4>2. CASE matched
        <5>1. WithoutNewest(Append(v, x), p) = v
          BY <2>2, <3>1, AppendedGoes
        <5> QED BY <2>3, <4>1, <4>2, <5>1
      <4>3. CASE ~matched
        <5>1. \A e \in Elements(v) : e.prop # p
          <6>1. Elements(v) = {e \in Elements(t) : Matches(pattern, e.prop)}
            BY <2>1, NarrowedElements
          <6> QED BY <3>1, <4>3, <6>1
        <5>2. WithoutNewest(v, p) = v
          BY <2>2, <5>1, AbsentStays
        <5> QED BY <2>3, <4>1, <4>3, <5>2
      <4> QED BY <4>2, <4>3
    <3>2. CASE x.prop # p
      <4>1. WithoutNewest(u, p) = Append(w, x)
        BY <2>1, <3>2, OtherGoes
      <4>2. Narrowed(Append(w, x), pattern) =
              IF matched THEN Append(Narrowed(w, pattern), x) ELSE Narrowed(w, pattern)
        BY <2>2, NarrowedAppend
      <4>3. WithoutNewest(Append(v, x), p) = Append(WithoutNewest(v, p), x)
        BY <2>2, <3>2, OtherGoes
      <4> HIDE DEF u, v, w, matched
      <4> QED BY <2>1, <2>3, <4>1, <4>2, <4>3
    <3> QED BY <3>1, <3>2
  <2> QED BY <2>1, <2>4
<1>3. P \in SUBSET Seq(E)
  OBVIOUS
<1>4. s \in P
  <2> HIDE DEF P
  <2> QED BY <1>1, <1>2, <1>3, SequenceInduction
<1> QED BY <1>4

-----------------------------------------------------------------------------
(* merged-matching, one operation at a time.                                *)

(* A turn of merged-matching keeps to operations.                           *)
LEMMA MergeTyped ==
  ASSUME NEW E, NEW s \in Seq(E), NEW op \in E, NEW pattern
  PROVE  Merge(s, op, pattern) \in Seq(E)
<1>1. WithoutNewest(s, op.prop) \in Seq(E) /\ Append(s, op) \in Seq(E)
  BY WithoutNewestTyped
<1> QED BY <1>1 DEF Merge

(* f is the run of the loop of merged-matching over the tail t.             *)
Merges(f, base, t, pattern) ==
  /\ f[0] = base
  /\ \A i \in 1..Len(t) : f[i] = Merge(f[i - 1], t[i], pattern)
  /\ Merged(base, t, pattern) = f[Len(t)]

(* merged-matching is the last value of such a run.                         *)
LEMMA MergedIs ==
  ASSUME NEW E, NEW base \in Seq(E), NEW t \in Seq(E), NEW pattern
  PROVE  /\ Merged(base, t, pattern) \in Seq(E)
         /\ \E f : Merges(f, base, t, pattern)
<1> DEFINE n == Len(t)
           g == [a \in (1..n) \X Seq(E) |-> Merge(a[2], t[a[1]], pattern)]
           Is(f) == f = [i \in 0..n |-> IF i = 0 THEN base ELSE Merge(f[i - 1], t[i], pattern)]
           F == CHOOSE f : Is(f)
<1>1. n \in Nat /\ \A i \in 1..n : t[i] \in E
  OBVIOUS
<1>2. g \in [(1..n) \X Seq(E) -> Seq(E)]
  <2> SUFFICES ASSUME NEW i \in 1..n, NEW s \in Seq(E) PROVE g[<<i, s>>] \in Seq(E)
    BY Zenon
  <2>1. t[i] \in E
    BY <1>1
  <2>2. Merge(s, t[i], pattern) \in Seq(E)
    BY <2>1, MergeTyped
  <2> QED BY <2>2
<1>3. \A i \in 1..n, s \in Seq(E) : g[<<i, s>>] = Merge(s, t[i], pattern)
  OBVIOUS
<1> HIDE DEF n, g
<1>4. PICK f : Iterates(f, Seq(E), base, n, g)
  BY <1>1, <1>2, IterationExists
<1>5. f \in [0..n -> Seq(E)] /\ f[0] = base /\ \A k \in 1..n : f[k] = g[<<k, f[k - 1]>>]
  BY <1>4 DEF Iterates
<1>6. /\ \A i \in 1..n : i - 1 \in 0..n /\ i # 0 /\ i \in 0..n
      /\ \A i \in 0..n : i # 0 => i \in 1..n
      /\ 0 \in 0..n
  BY <1>1
<1>7. \A i \in 1..n : f[i] = Merge(f[i - 1], t[i], pattern)
  BY <1>3, <1>5, <1>6
<1>8. Is(f)
  <2>1. \A i \in 0..n : f[i] = IF i = 0 THEN base ELSE Merge(f[i - 1], t[i], pattern)
    BY <1>5, <1>6, <1>7
  <2> QED BY <1>5, <2>1, Zenon
<1> HIDE DEF Is
<1>9. Is(F)
  BY <1>8
<1>10. F = [i \in 0..n |-> IF i = 0 THEN base ELSE Merge(F[i - 1], t[i], pattern)]
  BY <1>9, Zenon DEF Is
<1>11. Merged(base, t, pattern) = F[n]
  BY Zenon DEF Merged, n, F, Is
<1> HIDE DEF F
<1>12. F[0] = base /\ \A i \in 1..n : F[i] = Merge(F[i - 1], t[i], pattern)
  BY <1>6, <1>10
<1>13. \A k \in 0..n : F[k] \in Seq(E)
  <2>1. ASSUME NEW k \in 1..n, F[k - 1] \in Seq(E) PROVE F[k] \in Seq(E)
    <3>1. t[k] \in E
      BY <1>1
    <3>2. Merge(F[k - 1], t[k], pattern) \in Seq(E)
      BY <2>1, <3>1, MergeTyped
    <3> QED BY <1>12, <3>2
  <2>2. F[0] \in Seq(E)
    BY <1>12
  <2> QED BY <1>1, <2>1, <2>2, Carried
<1>14. Merges(F, base, t, pattern)
  BY <1>11, <1>12 DEF Merges, n
<1>15. Merged(base, t, pattern) \in Seq(E)
  <2>1. n \in 0..n
    BY <1>1
  <2> QED BY <1>11, <1>13, <2>1
<1> QED BY <1>14, <1>15

(* An empty tail leaves the base as it is.                                  *)
LEMMA MergedEmpty ==
  ASSUME NEW E, NEW base \in Seq(E), NEW t \in Seq(E), Len(t) = 0, NEW pattern
  PROVE  Merged(base, t, pattern) = base
<1>1. PICK f : Merges(f, base, t, pattern)
  BY MergedIs
<1> QED BY <1>1 DEF Merges

(* One more operation in the tail is one more turn of the loop.             *)
LEMMA MergedAppend ==
  ASSUME NEW E, NEW base \in Seq(E), NEW s \in Seq(E), NEW x \in E, NEW pattern
  PROVE  Merged(base, Append(s, x), pattern) = Merge(Merged(base, s, pattern), x, pattern)
<1> DEFINE t == Append(s, x)
           n == Len(s)
<1>1. /\ t \in Seq(E) /\ Len(t) = n + 1 /\ n \in Nat /\ t[n + 1] = x
      /\ \A i \in 1..n : t[i] = s[i] /\ i \in 1..n + 1
      /\ n + 1 \in 1..n + 1
  BY Appended
<1>2. (n + 1) - 1 = n
  BY <1>1
<1> HIDE DEF t
<1>3. PICK h : /\ h[0] = base
               /\ \A i \in 1..n + 1 : h[i] = Merge(h[i - 1], t[i], pattern)
               /\ Merged(base, t, pattern) = h[n + 1]
  <2>1. PICK h : Merges(h, base, t, pattern)
    BY <1>1, MergedIs
  <2> QED BY <1>1, <2>1 DEF Merges
<1>4. PICK f : /\ f[0] = base
               /\ \A i \in 1..n : f[i] = Merge(f[i - 1], s[i], pattern)
               /\ Merged(base, s, pattern) = f[n]
  <2>1. PICK f : Merges(f, base, s, pattern)
    BY MergedIs
  <2> QED BY <2>1 DEF Merges
<1> HIDE DEF n
<1>5. ASSUME NEW k \in 1..n, h[k - 1] = f[k - 1] PROVE h[k] = f[k]
  <2>1. k \in 1..n + 1 /\ t[k] = s[k]
    BY <1>1, <1>5
  <2>2. h[k] = Merge(h[k - 1], t[k], pattern) /\ f[k] = Merge(f[k - 1], s[k], pattern)
    BY <1>3, <1>4, <1>5, <2>1
  <2> QED BY <1>5, <2>1, <2>2
<1>6. \A k \in 0..n : h[k] = f[k]
  <2>1. n \in Nat /\ h[0] = f[0]
    BY <1>1, <1>3, <1>4
  <2>2. SameTurns(h, f, n)
    BY <1>5, <2>1 DEF SameTurns
  <2> QED BY <2>1, <2>2, SameValues
<1>7. h[n] = f[n]
  <2>1. n \in 0..n
    BY <1>1
  <2> QED BY <1>6, <2>1
<1>8. h[n + 1] = Merge(h[n], x, pattern)
  BY <1>1, <1>2, <1>3
<1>9. Merged(base, t, pattern) = Merge(Merged(base, s, pattern), x, pattern)
  BY <1>3, <1>4, <1>7, <1>8
<1> QED BY <1>9 DEF t

(* The steps of a fold of the rows after the n-th, onto a fold.             *)
Folds(f, fold, rows, n) ==
  /\ f \in [n..Len(rows) -> FoldType] /\ f[n] = fold
  /\ \A i \in n + 1 .. Len(rows) : f[i] = ApplyOperation(f[i - 1], rows[i], i)
  /\ FoldFrom(fold, rows, n) = f[Len(rows)]

(* The fold of rows, one at a time.                                         *)
LEMMA FoldIs ==
  ASSUME NEW rows \in Seq(OperationRow), NEW fold \in FoldType, NEW n \in 0..Len(rows)
  PROVE  \E f : Folds(f, fold, rows, n)
<1> DEFINE N == Len(rows)
           g == [a \in (1..N) \X FoldType |->
                   IF a[1] <= n THEN a[2] ELSE ApplyOperation(a[2], rows[a[1]], a[1])]
           Is(f) == f = [i \in n..N |-> IF i = n THEN fold ELSE ApplyOperation(f[i - 1], rows[i], i)]
           F == CHOOSE f : Is(f)
<1>1. N \in Nat /\ n \in Nat /\ n <= N /\ \A i \in 1..N : rows[i] \in OperationRow
  OBVIOUS
<1>2. ASSUME NEW i \in 1..N, NEW x \in FoldType PROVE ApplyOperation(x, rows[i], i) \in FoldType
  <2>1. i \in Nat \ {0} /\ rows[i] \in OperationRow
    BY <1>1
  <2> QED BY <2>1, FoldTyped
<1>3. g \in [(1..N) \X FoldType -> FoldType]
  <2> SUFFICES ASSUME NEW i \in 1..N, NEW x \in FoldType PROVE g[<<i, x>>] \in FoldType
    BY Zenon
  <2>1. ApplyOperation(x, rows[i], i) \in FoldType
    BY <1>2
  <2> QED BY <2>1
<1>4. \A i \in 1..N, x \in FoldType :
        g[<<i, x>>] = IF i <= n THEN x ELSE ApplyOperation(x, rows[i], i)
  OBVIOUS
<1> HIDE DEF N, g
<1>5. PICK f : Iterates(f, FoldType, fold, N, g)
  BY <1>1, <1>3, IterationExists
<1>6. f \in [0..N -> FoldType] /\ f[0] = fold /\ \A k \in 1..N : f[k] = g[<<k, f[k - 1]>>]
  BY <1>5 DEF Iterates
<1>7. /\ \A i \in 1..N : i - 1 \in 0..N
      /\ \A i \in n + 1 .. N : i - 1 \in n..N /\ i # n /\ i \in n..N /\ i \in 1..N /\ ~(i <= n)
      /\ \A i \in n..N : i \in 0..N /\ (i # n => i \in n + 1 .. N)
      /\ \A i \in 1..n : i \in 1..N /\ i <= n
      /\ n \in 0..n /\ n \in n..N
  BY <1>1
<1>8. \A i \in 1..N : f[i] = IF i <= n THEN f[i - 1] ELSE ApplyOperation(f[i - 1], rows[i], i)
  BY <1>4, <1>6, <1>7
<1>9. f[n] = fold
  <2> DEFINE X == {fold}
  <2>1. n \in Nat /\ f[0] \in X
    BY <1>1, <1>6
  <2>2. ASSUME NEW k \in 1..n, f[k - 1] \in X PROVE f[k] \in X
    BY <1>7, <1>8, <2>2
  <2>3. \A k \in 0..n : f[k] \in X
    <3> HIDE DEF X
    <3> QED BY <2>1, <2>2, Carried
  <2> QED BY <1>7, <2>3
<1> DEFINE h == [i \in n..N |-> f[i]]
<1>10. Is(h)
  <2>1. \A i \in n..N : h[i] = f[i]
    OBVIOUS
  <2>2. h = [i \in n..N |-> h[i]]
    OBVIOUS
  <2> HIDE DEF h
  <2>3. \A i \in n..N : h[i] = IF i = n THEN fold ELSE ApplyOperation(h[i - 1], rows[i], i)
    <3> SUFFICES ASSUME NEW i \in n..N, i # n PROVE h[i] = ApplyOperation(h[i - 1], rows[i], i)
      BY <1>7, <1>9, <2>1
    <3>1. i \in n + 1 .. N
      BY <1>7
    <3> QED BY <1>7, <1>8, <2>1, <3>1
  <2> QED BY <2>2, <2>3, Zenon
<1> HIDE DEF Is
<1>11. Is(F)
  BY <1>10
<1>12. F = [i \in n..N |-> IF i = n THEN fold ELSE ApplyOperation(F[i - 1], rows[i], i)]
  BY <1>11, Zenon DEF Is
<1>13. FoldFrom(fold, rows, n) = F[N]
  BY Zenon DEF FoldFrom, N, F, Is
<1> HIDE DEF F, h
<1>14. F[n] = fold /\ \A i \in n + 1 .. N : F[i] = ApplyOperation(F[i - 1], rows[i], i)
  BY <1>7, <1>12
<1>15. \A i \in n..N : F[i] \in FoldType
  <2> DEFINE e == [k \in 0..N - n |-> F[n + k]]
             M == N - n
  <2>1. M \in Nat /\ \A k \in 1..M : /\ n + k \in n + 1 .. N /\ n + k \in 1..N
                                     /\ (n + k) - 1 = n + (k - 1) /\ k - 1 \in 0..M /\ k \in 0..M
    BY <1>1
  <2>2. e[0] = fold /\ \A k \in 0..M : e[k] = F[n + k]
    <3>1. n + 0 = n /\ 0 \in 0..N - n
      BY <1>1
    <3> QED BY <1>14, <3>1
  <2> HIDE DEF e, M
  <2>3. ASSUME NEW k \in 1..M, e[k - 1] \in FoldType PROVE e[k] \in FoldType
    <3>1. F[n + k] = ApplyOperation(F[(n + k) - 1], rows[n + k], n + k)
      BY <1>14, <2>1
    <3>2. F[n + (k - 1)] \in FoldType
      BY <2>1, <2>2, <2>3
    <3> DEFINE i == n + k
               y == F[n + (k - 1)]
    <3>3. i \in 1..N /\ F[i] = ApplyOperation(y, rows[i], i)
      BY <2>1, <3>1
    <3> HIDE DEF i, y
    <3>4. y \in FoldType
      BY <3>2 DEF y
    <3>5. F[i] \in FoldType
      BY <1>2, <3>3, <3>4
    <3>6. F[n + k] \in FoldType
      BY <3>5 DEF i
    <3> QED BY <2>1, <2>2, <3>6
  <2>4. \A k \in 0..M : e[k] \in FoldType
    BY <2>1, <2>2, <2>3, Carried
  <2>5. \A i \in n..N : i - n \in 0..M /\ n + (i - n) = i
    BY <1>1 DEF M
  <2> QED BY <2>2, <2>4, <2>5
<1>16. F \in [n..N -> FoldType]
  BY <1>12, <1>15
<1> QED BY <1>13, <1>14, <1>16 DEF N, Folds

(* The fold of a whole history.                                             *)
FoldOf(rows) == FoldFrom(EmptyFold, rows, 0)

(* The fold of a history is the last of its steps.                          *)
LEMMA FoldOfIs ==
  ASSUME NEW rows \in Seq(OperationRow)
  PROVE  \E f : /\ f \in [0..Len(rows) -> FoldType] /\ f[0] = EmptyFold
                /\ \A i \in 1..Len(rows) : f[i] = ApplyOperation(f[i - 1], rows[i], i)
                /\ FoldOf(rows) = f[Len(rows)]
<1>1. EmptyFold \in FoldType /\ 0 \in 0..Len(rows) /\ 0 + 1 = 1
  BY EmptyExact
<1>2. PICK f : /\ f \in [0..Len(rows) -> FoldType] /\ f[0] = EmptyFold
               /\ \A i \in 0 + 1 .. Len(rows) : f[i] = ApplyOperation(f[i - 1], rows[i], i)
               /\ FoldFrom(EmptyFold, rows, 0) = f[Len(rows)]
  <2>1. PICK f : Folds(f, EmptyFold, rows, 0)
    BY <1>1, FoldIs
  <2> QED BY <2>1 DEF Folds
<1> QED BY <1>1, <1>2 DEF FoldOf

(* No rows fold to the empty fold.                                          *)
LEMMA FoldOfEmpty ==
  ASSUME NEW rows \in Seq(OperationRow), Len(rows) = 0
  PROVE  FoldOf(rows) = EmptyFold
<1>1. PICK f : /\ f \in [0..Len(rows) -> FoldType] /\ f[0] = EmptyFold
               /\ \A i \in 1..Len(rows) : f[i] = ApplyOperation(f[i - 1], rows[i], i)
               /\ FoldOf(rows) = f[Len(rows)]
  BY FoldOfIs
<1> QED BY <1>1

(* One more row is one more step of the fold.                               *)
LEMMA FoldOfAppend ==
  ASSUME NEW rows \in Seq(OperationRow), NEW row \in OperationRow
  PROVE  FoldOf(Append(rows, row)) = ApplyOperation(FoldOf(rows), row, Len(rows) + 1)
<1> DEFINE t == Append(rows, row)
           n == Len(rows)
<1>1. /\ t \in Seq(OperationRow) /\ Len(t) = n + 1 /\ n \in Nat /\ t[n + 1] = row
      /\ \A i \in 1..n : t[i] = rows[i] /\ i \in 1..n + 1
      /\ n + 1 \in 1..n + 1
  BY Appended
<1>2. (n + 1) - 1 = n
  BY <1>1
<1> HIDE DEF t
<1>3. PICK h : /\ h \in [0..n + 1 -> FoldType] /\ h[0] = EmptyFold
               /\ \A i \in 1..n + 1 : h[i] = ApplyOperation(h[i - 1], t[i], i)
               /\ FoldOf(t) = h[n + 1]
  BY <1>1, FoldOfIs
<1>4. PICK f : /\ f \in [0..n -> FoldType] /\ f[0] = EmptyFold
               /\ \A i \in 1..n : f[i] = ApplyOperation(f[i - 1], rows[i], i)
               /\ FoldOf(rows) = f[n]
  BY FoldOfIs
<1> HIDE DEF n
<1>5. ASSUME NEW k \in 1..n, h[k - 1] = f[k - 1] PROVE h[k] = f[k]
  <2>1. k \in 1..n + 1 /\ t[k] = rows[k]
    BY <1>1, <1>5
  <2>2. h[k] = ApplyOperation(h[k - 1], t[k], k) /\ f[k] = ApplyOperation(f[k - 1], rows[k], k)
    BY <1>3, <1>4, <1>5, <2>1
  <2> QED BY <1>5, <2>1, <2>2
<1>6. \A k \in 0..n : h[k] = f[k]
  <2>1. n \in Nat /\ h[0] = f[0]
    BY <1>1, <1>3, <1>4
  <2>2. SameTurns(h, f, n)
    BY <1>5, <2>1 DEF SameTurns
  <2> QED BY <2>1, <2>2, SameValues
<1>7. h[n] = f[n]
  <2>1. n \in 0..n
    BY <1>1
  <2> QED BY <1>6, <2>1
<1>8. h[n + 1] = ApplyOperation(h[n], row, n + 1)
  BY <1>1, <1>2, <1>3
<1>9. FoldOf(t) = ApplyOperation(FoldOf(rows), row, n + 1)
  BY <1>3, <1>4, <1>7, <1>8
<1> QED BY <1>9 DEF t, n

(* Folding on from the fold of a prefix is folding from scratch.            *)
LEMMA FoldContinues ==
  ASSUME NEW rows \in Seq(OperationRow), NEW t \in Seq(OperationRow)
  PROVE  FoldFrom(FoldOf(rows), rows \o t, Len(rows)) = FoldOf(rows \o t)
<1> DEFINE n == Len(rows)
           u == rows \o t
           N == Len(u)
<1>1. /\ u \in Seq(OperationRow) /\ N = n + Len(t) /\ n \in Nat /\ Len(t) \in Nat
      /\ \A i \in 1..n + Len(t) : u[i] = IF i <= n THEN rows[i] ELSE t[i - n]
  BY Joined
<1>2. /\ N \in Nat /\ n \in 0..N /\ n <= N /\ \A i \in 1..n : i \in 1..N
      /\ \A i \in 1..n : i \in 1..n + Len(t) /\ i <= n
  BY <1>1
<1> HIDE DEF u, n
<1>3. \A i \in 1..n : u[i] = rows[i]
  BY <1>1, <1>2
<1>4. PICK f : /\ f \in [0..n -> FoldType] /\ f[0] = EmptyFold
               /\ \A i \in 1..n : f[i] = ApplyOperation(f[i - 1], rows[i], i)
               /\ FoldOf(rows) = f[n]
  BY FoldOfIs DEF n
<1>5. PICK h : /\ h \in [0..N -> FoldType] /\ h[0] = EmptyFold
               /\ \A i \in 1..N : h[i] = ApplyOperation(h[i - 1], u[i], i)
               /\ FoldOf(u) = h[N]
  BY <1>1, FoldOfIs
<1>6. FoldOf(rows) \in FoldType
  <2>1. n \in 0..n
    BY <1>1
  <2> QED BY <1>4, <2>1
<1>7. PICK e : /\ e \in [n..N -> FoldType] /\ e[n] = FoldOf(rows)
               /\ \A i \in n + 1 .. N : e[i] = ApplyOperation(e[i - 1], u[i], i)
               /\ FoldFrom(FoldOf(rows), u, n) = e[N]
  <2>1. u \in Seq(OperationRow) /\ n \in 0..Len(u)
    BY <1>1, <1>2
  <2> DEFINE x == FoldOf(rows)
  <2>2. x \in FoldType
    BY <1>6
  <2> HIDE DEF x
  <2>3. \E e : /\ e \in [n..Len(u) -> FoldType] /\ e[n] = x
               /\ \A i \in n + 1 .. Len(u) : e[i] = ApplyOperation(e[i - 1], u[i], i)
               /\ FoldFrom(x, u, n) = e[Len(u)]
    <3>1. PICK e : Folds(e, x, u, n)
      BY <2>1, <2>2, FoldIs
    <3> QED BY <3>1 DEF Folds
  <2> QED BY <2>3 DEF x
<1> HIDE DEF N
<1>8. \A k \in 0..n : h[k] = f[k]
  <2>1. n \in Nat /\ h[0] = f[0]
    BY <1>1, <1>4, <1>5
  <2>2. ASSUME NEW k \in 1..n, h[k - 1] = f[k - 1] PROVE h[k] = f[k]
    <3>1. k \in 1..N /\ u[k] = rows[k]
      BY <1>2, <1>3
    <3>2. h[k] = ApplyOperation(h[k - 1], u[k], k) /\ f[k] = ApplyOperation(f[k - 1], rows[k], k)
      BY <1>4, <1>5, <3>1
    <3> QED BY <2>2, <3>1, <3>2
  <2>3. SameTurns(h, f, n)
    BY <2>1, <2>2 DEF SameTurns
  <2> QED BY <2>1, <2>3, SameValues
<1>9. h[n] = e[n]
  <2>1. n \in 0..n
    BY <1>1
  <2> QED BY <1>4, <1>7, <1>8, <2>1
<1>10. \A k \in 0..N : k >= n => h[k] = e[k]
  <2> DEFINE x == [k \in 0..N |-> IF k >= n THEN h[k] ELSE 0]
             y == [k \in 0..N |-> IF k >= n THEN e[k] ELSE 0]
  <2>1. \A k \in 0..N : x[k] = (IF k >= n THEN h[k] ELSE 0) /\ y[k] = (IF k >= n THEN e[k] ELSE 0)
    OBVIOUS
  <2> HIDE DEF x, y
  <2>2. x[0] = y[0]
    <3>1. 0 \in 0..N /\ (0 >= n => n = 0)
      BY <1>1, <1>2
    <3> QED BY <1>9, <2>1, <3>1
  <2>3. ASSUME NEW k \in 1..N, x[k - 1] = y[k - 1] PROVE x[k] = y[k]
    <3>1. k \in 0..N /\ k - 1 \in 0..N
      BY <1>2
    <3>2. CASE k = n
      BY <1>9, <2>1, <3>1, <3>2
    <3>3. CASE k > n
      <4>1. k \in n + 1 .. N /\ k - 1 >= n /\ k >= n
        BY <1>1, <1>2, <3>3
      <4>2. h[k - 1] = e[k - 1]
        BY <2>1, <2>3, <3>1, <4>1
      <4>3. h[k] = ApplyOperation(h[k - 1], u[k], k) /\ e[k] = ApplyOperation(e[k - 1], u[k], k)
        BY <1>5, <1>7, <4>1
      <4> QED BY <2>1, <3>1, <4>2, <4>3
    <3>4. CASE ~(k >= n)
      BY <2>1, <3>1, <3>4
    <3>5. k = n \/ k > n \/ ~(k >= n)
      BY <1>1
    <3> QED BY <3>2, <3>3, <3>4, <3>5
  <2>4. \A k \in 0..N : x[k] = y[k]
    <3>1. N \in Nat
      BY <1>2
    <3>2. SameTurns(x, y, N)
      BY <2>2, <2>3 DEF SameTurns
    <3> QED BY <3>1, <3>2, SameValues
  <2> QED BY <2>1, <2>4
<1>11. h[N] = e[N]
  <2>1. N \in 0..N /\ N >= n
    BY <1>1, <1>2
  <2> QED BY <1>10, <2>1
<1> QED BY <1>5, <1>7, <1>11 DEF u, n

(* And it is exact.                                                         *)
FoldIsExact(rows, fold) ==
  /\ fold \in FoldType /\ Len(fold.targets) = Len(rows)
  /\ BucketsExact(rows, fold) /\ TargetsExact(rows, fold)

(* The fold of any history is exact: the invariants of TermStore hold of    *)
(* it.                                                                      *)
LEMMA FoldOfExact ==
  ASSUME NEW rows \in Seq(OperationRow)
  PROVE  FoldIsExact(rows, FoldOf(rows))
<1> DEFINE P == {t \in Seq(OperationRow) : FoldIsExact(t, FoldOf(t))}
<1>1. <<>> \in P
  <2> DEFINE r == <<>>
  <2>1. r \in Seq(OperationRow) /\ Len(r) = 0
    OBVIOUS
  <2> HIDE DEF r
  <2>2. FoldOf(r) = EmptyFold
    BY <2>1, FoldOfEmpty
  <2>3. FoldIsExact(r, EmptyFold)
    BY <2>1, EmptyExact DEF FoldIsExact
  <2> QED BY <2>1, <2>2, <2>3 DEF r
<1>2. ASSUME NEW t \in P, NEW x \in OperationRow PROVE Append(t, x) \in P
  <2> DEFINE u == Append(t, x)
             n == Len(t)
             f == FoldOf(t)
             g == ApplyOperation(f, x, n + 1)
  <2>1. t \in Seq(OperationRow) /\ FoldIsExact(t, f)
    OBVIOUS
  <2>2. u \in Seq(OperationRow) /\ Len(u) = n + 1 /\ n \in Nat /\ u[n + 1] = x
    BY <2>1, Appended
  <2>3. FoldOf(u) = g
    BY <2>1, FoldOfAppend
  <2> HIDE DEF P, f, n
  <2>4. f \in FoldType /\ Len(f.targets) = n /\ BucketsExact(t, f) /\ TargetsExact(t, f)
    BY <2>1 DEF FoldIsExact, n
  <2>5. BucketsExact(u, f) /\ TargetsExact(u, f)
    <3>1. Len(f.targets) <= Len(t)
      BY <2>2, <2>4 DEF n
    <3> QED BY <2>1, <2>4, <3>1, PrefixFold
  <2>6. g \in FoldType /\ Len(g.targets) = n + 1
    <3>1. n + 1 \in Nat \ {0}
      BY <2>2
    <3> QED BY <2>4, <3>1, FoldTyped
  <2> HIDE DEF u
  <2>7. BucketsExact(u, g) /\ TargetsExact(u, g)
    <3>1. n + 1 \in Nat /\ n + 1 = Len(f.targets) + 1 /\ n + 1 <= Len(u)
      BY <2>2, <2>4
    <3> QED BY <2>2, <2>4, <2>5, <3>1, FoldExact
  <2> HIDE DEF g
  <2> QED BY <2>2, <2>3, <2>6, <2>7 DEF P, u, FoldIsExact
<1>3. P \in SUBSET Seq(OperationRow)
  OBVIOUS
<1>4. rows \in P
  <2> HIDE DEF P
  <2> QED BY <1>1, <1>2, <1>3, SequenceInduction
<1> QED BY <1>4

(* Appending to the second of two joined sequences.                         *)
LEMMA JoinedAppend ==
  ASSUME NEW E, NEW r \in Seq(E), NEW t \in Seq(E), NEW x \in E
  PROVE  r \o Append(t, x) = Append(r \o t, x)
<1> DEFINE a == Append(t, x)
           b == r \o t
           c == r \o a
           d == Append(b, x)
           n == Len(r)
           m == Len(t)
<1>1. /\ a \in Seq(E) /\ Len(a) = m + 1 /\ m \in Nat /\ a[m + 1] = x
      /\ \A i \in 1..m : a[i] = t[i]
  BY Appended
<1>2. /\ b \in Seq(E) /\ Len(b) = n + m /\ n \in Nat
      /\ \A i \in 1..n + m : b[i] = IF i <= n THEN r[i] ELSE t[i - n]
  BY Joined
<1> HIDE DEF a, b
<1>3. /\ c \in Seq(E) /\ Len(c) = n + Len(a)
      /\ \A i \in 1..n + Len(a) : c[i] = IF i <= n THEN r[i] ELSE a[i - n]
  BY <1>1, Joined
<1>4. /\ d \in Seq(E) /\ Len(d) = Len(b) + 1 /\ d[Len(b) + 1] = x
      /\ \A i \in 1..Len(b) : d[i] = b[i]
  BY <1>2, Appended
<1> HIDE DEF c, d, n, m
<1>5. n + (m + 1) = (n + m) + 1 /\ n + m \in Nat
  BY <1>1, <1>2
<1>6. Len(c) = (n + m) + 1 /\ Len(d) = (n + m) + 1
  BY <1>1, <1>2, <1>3, <1>4, <1>5
<1>7. ASSUME NEW i \in 1..(n + m) + 1 PROVE c[i] = d[i]
  <2>1. c[i] = IF i <= n THEN r[i] ELSE a[i - n]
    BY <1>1, <1>3, <1>5
  <2>2. CASE i = (n + m) + 1
    <3>1. ~(i <= n) /\ i - n = m + 1
      BY <1>1, <1>2, <2>2
    <3> QED BY <1>1, <1>2, <1>4, <2>1, <2>2, <3>1
  <2>3. CASE i # (n + m) + 1
    <3>1. i \in 1..n + m
      BY <1>5, <2>3
    <3>2. d[i] = IF i <= n THEN r[i] ELSE t[i - n]
      BY <1>2, <1>4, <3>1
    <3>3. ~(i <= n) => i - n \in 1..m
      BY <1>1, <1>2, <3>1
    <3> QED BY <1>1, <2>1, <3>2, <3>3
  <2> QED BY <2>2, <2>3
<1>8. c = d
  BY <1>3, <1>4, <1>6, <1>7
<1> QED BY <1>8 DEF a, b, c, d

(* Joining an empty sequence changes nothing.                               *)
LEMMA JoinedEmpty ==
  ASSUME NEW E, NEW r \in Seq(E), NEW t \in Seq(E), Len(t) = 0
  PROVE  r \o t = r
OBVIOUS

(* Removing the newest equal event adds no element.                         *)
LEMMA WithoutNewestElements ==
  ASSUME NEW E, NEW s \in Seq(E), NEW p
  PROVE  Elements(WithoutNewest(s, p)) \subseteq Elements(s)
<1> DEFINE P == {t \in Seq(E) : Elements(WithoutNewest(t, p)) \subseteq Elements(t)}
<1>1. <<>> \in P
  <2> DEFINE r == <<>>
  <2>1. r \in Seq(E) /\ Len(r) = 0
    OBVIOUS
  <2> HIDE DEF P, r
  <2>2. WithoutNewest(r, p) = r
    <3>1. \A i \in 1..Len(r) : r[i].prop # p
      BY <2>1
    <3> QED BY <3>1, NoneGoes
  <2> QED BY <2>1, <2>2 DEF P, r
<1>2. ASSUME NEW t \in P, NEW x \in E PROVE Append(t, x) \in P
  <2> DEFINE w == WithoutNewest(t, p)
  <2>1. t \in Seq(E) /\ Append(t, x) \in Seq(E) /\ Elements(w) \subseteq Elements(t)
    BY Appended
  <2>2. Elements(Append(t, x)) = Elements(t) \cup {x}
    BY <2>1, ElementsAppend
  <2>3. CASE x.prop = p
    <3>1. WithoutNewest(Append(t, x), p) = t
      BY <2>1, <2>3, AppendedGoes
    <3> QED BY <2>1, <2>2, <3>1
  <2>4. CASE x.prop # p
    <3>1. WithoutNewest(Append(t, x), p) = Append(w, x)
      BY <2>1, <2>4, OtherGoes
    <3>2. w \in Seq(E)
      BY <2>1, WithoutNewestTyped
    <3>3. Elements(Append(w, x)) = Elements(w) \cup {x}
      BY <3>2, ElementsAppend
    <3> QED BY <2>1, <2>2, <3>1, <3>3
  <2> QED BY <2>3, <2>4
<1>3. P \in SUBSET Seq(E)
  OBVIOUS
<1>4. s \in P
  <2> HIDE DEF P
  <2> QED BY <1>1, <1>2, <1>3, SequenceInduction
<1> QED BY <1>4

-----------------------------------------------------------------------------
(* What is live after a history, from the fold of that history.             *)

(* The live positions of a history, by its own fold (operation-live?).      *)
LivePositions(rows) ==
  {i \in DOMAIN rows : rows[i].action = "assert"
                       /\ Contains(FoldOf(rows).active[rows[i].prop], i)}

(* The live occurrences of a history, in commit order.                      *)
LiveOf(rows) == Sift(rows, LivePositions(rows))

(* What a store holds live is what is live in its history.                  *)
LEMMA LiveOfStore ==
  ASSUME NEW st, st.fold = FoldOf(st.rows)
  PROVE  LiveOccurrences(st) = LiveOf(st.rows)
BY DEF LiveOccurrences, LiveOf, LivePositions

(* Live occurrences are operations.                                         *)
LEMMA LiveOfTyped ==
  ASSUME NEW rows \in Seq(OperationRow)
  PROVE  LiveOf(rows) \in Seq(OperationRow)
BY SiftTyped DEF LiveOf

(* The live positions are the members of the active buckets.                *)
LEMMA LiveInBucket ==
  ASSUME NEW rows \in Seq(OperationRow)
  PROVE  /\ LivePositions(rows) \subseteq 1..Len(rows)
         /\ \A i \in 1..Len(rows) :
              /\ i \in LivePositions(rows) <=> i \in Elements(FoldOf(rows).active[rows[i].prop])
              /\ rows[i].prop \in Prop
         /\ \A p \in Prop : \A i \in Elements(FoldOf(rows).active[p]) :
              i \in 1..Len(rows) /\ rows[i].prop = p /\ rows[i].action = "assert"
<1> DEFINE f == FoldOf(rows)
           n == Len(rows)
<1>1. /\ f \in FoldType /\ Len(f.targets) = n
      /\ \A p \in Prop : Elements(f.active[p]) = Unwithdrawn(rows, f, p, Len(f.targets))
  BY FoldOfExact DEF FoldIsExact, BucketsExact
<1>2. DOMAIN rows = 1..n /\ n \in Nat
  OBVIOUS
<1>3. ASSUME NEW i \in 1..n PROVE rows[i].prop \in Prop
  <2>1. rows[i] \in OperationRow
    BY <1>3
  <2> QED BY <2>1 DEF OperationRow
<1>4. ASSUME NEW p \in Prop, NEW i \in Elements(f.active[p])
      PROVE  i \in 1..n /\ rows[i].prop = p /\ rows[i].action = "assert"
  <2> HIDE DEF f, n
  <2>1. i \in Unwithdrawn(rows, f, p, n)
    BY <1>1, <1>4
  <2> QED BY <2>1 DEF Unwithdrawn, Assertions
<1> HIDE DEF f, n
<1>5. ASSUME NEW i \in 1..n
      PROVE  i \in LivePositions(rows) <=> i \in Elements(f.active[rows[i].prop])
  <2>1. f.active[rows[i].prop] \in Seq(Nat \ {0})
    BY <1>1, <1>3, <1>5 DEF FoldType
  <2>2. Contains(f.active[rows[i].prop], i) <=> i \in Elements(f.active[rows[i].prop])
    <3> DEFINE b == f.active[rows[i].prop]
    <3>1. b \in Seq(Nat \ {0})
      BY <2>1
    <3> HIDE DEF b
    <3>2. DOMAIN b = 1..Len(b)
      BY <3>1
    <3>3. Contains(b, i) <=> i \in Elements(b)
      BY <3>2, Zenon DEF Contains, Elements
    <3> QED BY <3>3 DEF b
  <2>3. i \in LivePositions(rows) <=>
          rows[i].action = "assert" /\ Contains(f.active[rows[i].prop], i)
    BY <1>2, <1>5 DEF LivePositions, f
  <2> QED BY <1>3, <1>4, <1>5, <2>2, <2>3
<1>6. LivePositions(rows) \subseteq 1..n
  BY <1>2 DEF LivePositions
<1> QED BY <1>3, <1>4, <1>5, <1>6 DEF f, n

(* One more operation changes what is live as a turn of merged-matching     *)
(* changes what was.                                                        *)
LEMMA LiveOfAppend ==
  ASSUME NEW rows \in Seq(OperationRow), NEW row \in OperationRow
  PROVE  LiveOf(Append(rows, row)) =
           IF row.action = "retract" THEN WithoutNewest(LiveOf(rows), row.prop)
                                     ELSE Append(LiveOf(rows), row)
<1> DEFINE u == Append(rows, row)
           n == Len(rows)
           f == FoldOf(rows)
           g == FoldOf(u)
           p == row.prop
           held == f.active[p]
           K == LivePositions(rows)
           L == LivePositions(u)
<1>1. /\ u \in Seq(OperationRow) /\ Len(u) = n + 1 /\ n \in Nat /\ u[n + 1] = row
      /\ \A i \in 1..n : u[i] = rows[i] /\ i \in 1..n + 1
      /\ n + 1 \in 1..n + 1 /\ ~(n + 1 \in 1..n)
  BY Appended
<1>2. g = ApplyOperation(f, row, n + 1)
  BY FoldOfAppend
<1>3. p \in Prop /\ row.action \in {"assert", "retract"}
  BY DEF OperationRow, Action
<1> HIDE DEF u, p
<1>4. /\ K \subseteq 1..n
      /\ \A i \in 1..n : (i \in K <=> i \in Elements(f.active[rows[i].prop])) /\ rows[i].prop \in Prop
      /\ \A q \in Prop : \A i \in Elements(f.active[q]) :
           i \in 1..n /\ rows[i].prop = q /\ rows[i].action = "assert"
  BY LiveInBucket
<1>5. /\ \A i \in 1..n + 1 : i \in L <=> i \in Elements(g.active[u[i].prop])
      /\ \A q \in Prop : \A i \in Elements(g.active[q]) :
           i \in 1..n + 1 /\ u[i].prop = q /\ u[i].action = "assert"
  BY <1>1, LiveInBucket
<1>6. f \in FoldType /\ Ascending(held) /\ held \in Seq(Nat \ {0})
      /\ f.active \in [Prop -> Seq(Nat \ {0})]
  <2>1. f \in FoldType /\ BucketsExact(rows, f)
    BY FoldOfExact DEF FoldIsExact
  <2> QED BY <1>3, <2>1 DEF FoldType, BucketsExact
<1>7. /\ LiveOf(u) = IF n + 1 \in L THEN Append(Sift(rows, L), row) ELSE Sift(rows, L)
      /\ LiveOf(rows) = Sift(rows, K)
  BY SiftAppend DEF LiveOf, u
<1>8. ASSUME NEW J, \A i \in 1..n : i \in J <=> i \in L PROVE Sift(rows, J) = Sift(rows, L)
  <2>1. n <= n /\ \A i \in n + 1 .. n : i \notin L
    BY <1>1
  <2> QED BY <1>8, <2>1, SiftSame
<1> HIDE DEF f, g, K, L, n, held
<1>9. CASE row.action = "assert"
  <2>1. g.active = [f.active EXCEPT ![p] = Append(held, n + 1)]
    BY <1>2, <1>9 DEF ApplyOperation, FoldAssert, p, held
  <2>2. Elements(g.active[p]) = Elements(held) \cup {n + 1}
        /\ \A q \in Prop : q # p => g.active[q] = f.active[q]
    <3>1. n + 1 \in Nat \ {0}
      BY <1>1
    <3>2. Elements(Append(held, n + 1)) = Elements(held) \cup {n + 1}
      BY <1>6, <3>1, ElementsAppend
    <3> QED BY <1>3, <1>6, <2>1, <3>2
  <2>3. n + 1 \in L
    BY <1>1, <1>5, <2>2 DEF p
  <2>4. \A i \in 1..n : i \in K <=> i \in L
    <3> SUFFICES ASSUME NEW i \in 1..n PROVE i \in K <=> i \in L
      OBVIOUS
    <3>1. i \in L <=> i \in Elements(g.active[rows[i].prop])
      BY <1>1, <1>5
    <3>2. i \in K <=> i \in Elements(f.active[rows[i].prop])
      BY <1>4
    <3>3. CASE rows[i].prop = p
      <4>1. i # n + 1
        BY <1>1
      <4> QED BY <2>2, <3>1, <3>2, <3>3, <4>1 DEF held
    <3>4. CASE rows[i].prop # p
      BY <1>4, <2>2, <3>1, <3>2, <3>4
    <3> QED BY <3>3, <3>4
  <2>5. Sift(rows, K) = Sift(rows, L)
    BY <1>8, <2>4
  <2> QED BY <1>7, <1>9, <2>3, <2>5 DEF u
<1>10. CASE row.action = "retract" /\ held = <<>>
  <2>1. g.active = f.active
    BY <1>2, <1>10 DEF ApplyOperation, FoldRetract, p, held
  <2>2. Elements(held) = {}
    BY <1>10 DEF Elements
  <2>3. n + 1 \notin L
    BY <1>1, <1>5, <2>1, <2>2 DEF p, held
  <2>4. \A i \in 1..n : i \in K <=> i \in L
    BY <1>1, <1>4, <1>5, <2>1
  <2>5. Sift(rows, K) = Sift(rows, L)
    BY <1>8, <2>4
  <2>6. Elements(Sift(rows, K)) = {rows[i] : i \in {j \in 1..n : j \in K}}
    BY SiftElements DEF n
  <2>7. \A e \in Elements(Sift(rows, K)) : e.prop # p
    BY <1>4, <2>2, <2>6 DEF held
  <2>8. WithoutNewest(Sift(rows, K), p) = Sift(rows, K)
    <3>1. Sift(rows, K) \in Seq(OperationRow)
      BY SiftTyped
    <3> QED BY <2>7, <3>1, AbsentStays
  <2> QED BY <1>7, <1>10, <2>3, <2>5, <2>8 DEF u, p
<1>11. CASE row.action = "retract" /\ held # <<>>
  <2> DEFINE m == Newest(held)
  <2>1. g.active = [f.active EXCEPT ![p] = Pop(held)]
    BY <1>2, <1>11 DEF ApplyOperation, FoldRetract, p, held
  <2>2. /\ Elements(Pop(held)) = Elements(held) \ {m}
        /\ m \in Elements(held) /\ \A a \in Elements(held) : a <= m
    BY <1>6, <1>11, PopNewest
  <2> HIDE DEF m
  <2>3. m \in 1..n /\ rows[m].prop = p /\ m \in K
    BY <1>3, <1>4, <2>2 DEF held
  <2>4. Elements(g.active[p]) = Elements(held) \ {m}
        /\ \A q \in Prop : q # p => g.active[q] = f.active[q]
    BY <1>3, <1>6, <2>1, <2>2
  <2>5. n + 1 \notin L
    <3>1. n + 1 \in L => u[n + 1].action = "assert"
      <4>1. u[n + 1].prop = p
        BY <1>1 DEF p
      <4> QED BY <1>1, <1>3, <1>5, <4>1
    <3> QED BY <1>1, <1>11, <3>1
  <2>6. \A i \in 1..n : i \in K \ {m} <=> i \in L
    <3> SUFFICES ASSUME NEW i \in 1..n PROVE i \in K \ {m} <=> i \in L
      OBVIOUS
    <3>1. i \in L <=> i \in Elements(g.active[rows[i].prop])
      BY <1>1, <1>5
    <3>2. i \in K <=> i \in Elements(f.active[rows[i].prop])
      BY <1>4
    <3>3. CASE rows[i].prop = p
      BY <2>4, <3>1, <3>2, <3>3 DEF held
    <3>4. CASE rows[i].prop # p
      BY <1>4, <2>3, <2>4, <3>1, <3>2, <3>4
    <3> QED BY <3>3, <3>4
  <2>7. Sift(rows, K \ {m}) = Sift(rows, L)
    BY <1>8, <2>6
  <2>8. Sift(rows, K \ {m}) = WithoutNewest(Sift(rows, K), p)
    <3>1. \A i \in 1..Len(rows) : i \in K /\ rows[i].prop = p => i <= m
      BY <1>4, <2>2 DEF held, n
    <3>2. m \in 1..Len(rows)
      BY <2>3 DEF n
    <3> QED BY <2>3, <3>1, <3>2, SiftWithout
  <2> QED BY <1>7, <1>11, <2>5, <2>7, <2>8 DEF u, p
<1> QED BY <1>3, <1>9, <1>10, <1>11

(* A live occurrence is an assertion of the history.                        *)
LEMMA LiveOfElements ==
  ASSUME NEW rows \in Seq(OperationRow)
  PROVE  \A e \in Elements(LiveOf(rows)) : e \in Elements(rows) /\ e.action = "assert"
<1>1. Elements(LiveOf(rows)) = {rows[i] : i \in {j \in 1..Len(rows) : j \in LivePositions(rows)}}
  BY SiftElements DEF LiveOf
<1>2. \A i \in LivePositions(rows) : rows[i].action = "assert"
  BY DEF LivePositions
<1>3. \A i \in 1..Len(rows) : rows[i] \in Elements(rows)
  BY ElementAt
<1> QED BY <1>1, <1>2, <1>3

(* What is live after more operations was live before them or is one of     *)
(* them.                                                                    *)
LEMMA LiveOfJoined ==
  ASSUME NEW rows \in Seq(OperationRow), NEW t \in Seq(OperationRow)
  PROVE  Elements(LiveOf(rows \o t)) \subseteq Elements(LiveOf(rows)) \cup Elements(t)
<1> DEFINE P == {s \in Seq(OperationRow) :
                   Elements(LiveOf(rows \o s)) \subseteq Elements(LiveOf(rows)) \cup Elements(s)}
<1>1. <<>> \in P
  <2> DEFINE s == <<>>
  <2>1. s \in Seq(OperationRow) /\ Len(s) = 0
    OBVIOUS
  <2> HIDE DEF s, P
  <2>2. rows \o s = rows
    BY <2>1, JoinedEmpty
  <2> QED BY <2>1, <2>2 DEF s, P
<1>2. ASSUME NEW s \in P, NEW x \in OperationRow PROVE Append(s, x) \in P
  <2> DEFINE u == rows \o s
             v == LiveOf(u)
             p == x.prop
  <2>1. s \in Seq(OperationRow) /\ Elements(v) \subseteq Elements(LiveOf(rows)) \cup Elements(s)
    OBVIOUS
  <2>2. /\ Append(s, x) \in Seq(OperationRow)
        /\ Elements(Append(s, x)) = Elements(s) \cup {x}
        /\ rows \o Append(s, x) = Append(u, x)
    BY <2>1, Appended, ElementsAppend, JoinedAppend
  <2>3. u \in Seq(OperationRow)
    BY <2>1, Joined
  <2> HIDE DEF u
  <2>4. LiveOf(Append(u, x)) = IF x.action = "retract" THEN WithoutNewest(v, p) ELSE Append(v, x)
    BY <2>3, LiveOfAppend
  <2>5. v \in Seq(OperationRow)
    BY <2>3, LiveOfTyped
  <2>6. Elements(WithoutNewest(v, p)) \subseteq Elements(v)
        /\ Elements(Append(v, x)) = Elements(v) \cup {x}
    BY <2>5, WithoutNewestElements, ElementsAppend
  <2> HIDE DEF v, p
  <2>7. Elements(LiveOf(Append(u, x))) \subseteq Elements(v) \cup {x}
    BY <2>4, <2>6
  <2> QED BY <2>1, <2>2, <2>7
<1>3. P \in SUBSET Seq(OperationRow)
  OBVIOUS
<1>4. t \in P
  <2> HIDE DEF P
  <2> QED BY <1>1, <1>2, <1>3, SequenceInduction
<1> QED BY <1>4

-----------------------------------------------------------------------------
(* An answer computed from a base and a tail is what a projection of the    *)
(* whole history has.                                                       *)

(* A turn of merged-matching, on what a pattern selects of the live         *)
(* occurrences, gives what it selects after the operation is committed.     *)
LEMMA MergeIsNext ==
  ASSUME NEW rows \in Seq(OperationRow), NEW x \in OperationRow, NEW pattern
  PROVE  Merge(Narrowed(LiveOf(rows), pattern), x, pattern) =
           Narrowed(LiveOf(Append(rows, x)), pattern)
<1> DEFINE v == LiveOf(rows)
           p == x.prop
<1>1. v \in Seq(OperationRow)
  BY LiveOfTyped
<1>2. LiveOf(Append(rows, x)) = IF x.action = "retract" THEN WithoutNewest(v, p) ELSE Append(v, x)
  BY LiveOfAppend
<1> HIDE DEF v
<1>3. Narrowed(WithoutNewest(v, p), pattern) = WithoutNewest(Narrowed(v, pattern), p)
  BY <1>1, NarrowedWithout
<1>4. Narrowed(Append(v, x), pattern) =
        IF Matches(pattern, p) THEN Append(Narrowed(v, pattern), x) ELSE Narrowed(v, pattern)
  BY <1>1, NarrowedAppend
<1> QED BY <1>2, <1>3, <1>4 DEF Merge, v

(* Folding a tail over an answer gives the answer of the longer history.    *)
LEMMA AnswersLive ==
  ASSUME NEW rows \in Seq(OperationRow), NEW t \in Seq(OperationRow), NEW pattern
  PROVE  Merged(Narrowed(LiveOf(rows), pattern), t, pattern) =
           Narrowed(LiveOf(rows \o t), pattern)
<1> DEFINE base == Narrowed(LiveOf(rows), pattern)
           P == {s \in Seq(OperationRow) :
                   Merged(base, s, pattern) = Narrowed(LiveOf(rows \o s), pattern)}
<1>0. base \in Seq(OperationRow)
  BY LiveOfTyped, NarrowedTyped
<1>1. <<>> \in P
  <2> DEFINE s == <<>>
  <2>1. s \in Seq(OperationRow) /\ Len(s) = 0
    OBVIOUS
  <2> HIDE DEF s, P
  <2>2. rows \o s = rows
    BY <2>1, JoinedEmpty
  <2> HIDE DEF base
  <2>3. Merged(base, s, pattern) = base
    BY <1>0, <2>1, MergedEmpty
  <2> QED BY <2>1, <2>2, <2>3 DEF s, P, base
<1>2. ASSUME NEW s \in P, NEW x \in OperationRow PROVE Append(s, x) \in P
  <2> DEFINE u == rows \o s
  <2>1. s \in Seq(OperationRow) /\ Merged(base, s, pattern) = Narrowed(LiveOf(u), pattern)
    OBVIOUS
  <2>2. /\ Append(s, x) \in Seq(OperationRow)
        /\ rows \o Append(s, x) = Append(u, x)
    BY <2>1, Appended, JoinedAppend
  <2>3. u \in Seq(OperationRow)
    BY <2>1, Joined
  <2> HIDE DEF u, base
  <2>4. Merged(base, Append(s, x), pattern) = Merge(Merged(base, s, pattern), x, pattern)
    BY <1>0, <2>1, MergedAppend
  <2>5. Merge(Narrowed(LiveOf(u), pattern), x, pattern) = Narrowed(LiveOf(Append(u, x)), pattern)
    BY <2>3, MergeIsNext
  <2> QED BY <2>1, <2>2, <2>4, <2>5
<1>3. P \in SUBSET Seq(OperationRow)
  OBVIOUS
<1>4. t \in P
  <2> HIDE DEF P
  <2> QED BY <1>1, <1>2, <1>3, SequenceInduction
<1> QED BY <1>4

(* A rotation whose base is what was live after some rows, with the rows    *)
(* since then pending.                                                      *)
Rotation == [version : Nat, base : Seq(OperationRow), pending : Seq(OperationRow)]

(* A rotation of rows: its base is what was live after some beginning of    *)
(* them, and its tail is the rest.                                          *)
Rotates(rotation, rows) ==
  /\ rotation \in Rotation
  /\ \E before \in Seq(OperationRow) :
       rotation.base = LiveOf(before) /\ before \o rotation.pending = rows

(* Such a rotation answers every pattern with the live occurrences it       *)
(* matches.                                                                 *)
LEMMA RotationAnswers ==
  ASSUME NEW rows \in Seq(OperationRow), NEW rotation, Rotates(rotation, rows), NEW pattern
  PROVE  Answer(rotation, pattern) = Narrowed(LiveOf(rows), pattern)
<1> DEFINE t == rotation.pending
           base == rotation.base
<1>1. PICK before \in Seq(OperationRow) : base = LiveOf(before) /\ before \o t = rows
  BY DEF Rotates
<1>2. t \in Seq(OperationRow) /\ base \in Seq(OperationRow)
  BY DEF Rotates, Rotation
<1> HIDE DEF t, base
<1>3. Narrowed(Leaf(base, pattern), pattern) = Narrowed(base, pattern)
  BY <1>2, LeafNarrowed
<1>4. Merged(Narrowed(LiveOf(before), pattern), t, pattern) = Narrowed(LiveOf(before \o t), pattern)
  BY <1>2, AnswersLive
<1> QED BY <1>1, <1>3, <1>4 DEF Answer, t, base

-----------------------------------------------------------------------------
(* The rows up to a version and those after it.                             *)

UpTo(rows, version)  == Sift(rows, {i \in DOMAIN rows : rows[i].sequence <= version})

(* The rows of the transactions after a version (transaction-records-       *)
(* between).                                                                *)
After(rows, version) == Sift(rows, {i \in DOMAIN rows : rows[i].sequence > version})

(* Coordinates ascend, and none is later than the version.                  *)
Dated(rows, version) ==
  /\ \A i \in 1..Len(rows) : rows[i].sequence <= version
  /\ \A i, j \in 1..Len(rows) :
       i < j => \/ rows[i].sequence < rows[j].sequence
                \/ rows[i].sequence = rows[j].sequence /\ rows[i].ordinal < rows[j].ordinal

(* The fields of a row.                                                     *)
LEMMA RowTyped ==
  ASSUME NEW rows \in Seq(OperationRow), NEW i \in 1..Len(rows)
  PROVE  rows[i] \in OperationRow /\ rows[i].sequence \in Nat /\ rows[i].ordinal \in Nat
         /\ rows[i].prop \in Prop /\ rows[i].action \in {"assert", "retract"}
<1>1. rows[i] \in OperationRow
  OBVIOUS
<1> QED BY <1>1 DEF OperationRow, Action

(* Both parts of a history are histories.                                   *)
LEMMA UpToTyped ==
  ASSUME NEW rows \in Seq(OperationRow), NEW version
  PROVE  UpTo(rows, version) \in Seq(OperationRow) /\ After(rows, version) \in Seq(OperationRow)
BY SiftTyped DEF UpTo, After

(* Every row lies before a version that none passes.                        *)
LEMMA UpToAll ==
  ASSUME NEW rows \in Seq(OperationRow), NEW version,
         \A i \in 1..Len(rows) : rows[i].sequence <= version
  PROVE  UpTo(rows, version) = rows
<1>1. \A i \in 1..Len(rows) : i \in {j \in DOMAIN rows : rows[j].sequence <= version}
  OBVIOUS
<1> QED BY <1>1, SiftAll DEF UpTo

(* Later rows are no part of the past.                                      *)
LEMMA UpToJoined ==
  ASSUME NEW rows \in Seq(OperationRow), NEW t \in Seq(OperationRow), NEW version \in Nat,
         \A i \in 1..Len(t) : t[i].sequence > version
  PROVE  UpTo(rows \o t, version) = UpTo(rows, version)
<1> DEFINE n == Len(rows)
           u == rows \o t
           K == {i \in DOMAIN rows : rows[i].sequence <= version}
           L == {i \in DOMAIN u : u[i].sequence <= version}
<1>1. /\ u \in Seq(OperationRow) /\ Len(u) = n + Len(t) /\ n \in Nat /\ Len(t) \in Nat
      /\ \A i \in 1..n + Len(t) : u[i] = IF i <= n THEN rows[i] ELSE t[i - n]
  BY Joined
<1>2. DOMAIN rows = 1..n /\ DOMAIN u = 1..Len(u)
  BY <1>1
<1> HIDE DEF u, n
<1>3. n <= Len(u) /\ \A i \in 1..n : i \in 1..n + Len(t) /\ i <= n
  BY <1>1
<1>4. \A i \in 1..n : rows[i] = u[i] /\ (i \in K <=> i \in L)
  BY <1>1, <1>2, <1>3
<1>5. ASSUME NEW i \in n + 1 .. Len(u) PROVE i \notin L
  <2>1. i - n \in 1..Len(t) /\ ~(i <= n) /\ i \in 1..n + Len(t)
    BY <1>1
  <2>2. u[i] = t[i - n]
    BY <1>1, <2>1
  <2>3. t[i - n].sequence \in Nat /\ t[i - n].sequence > version
    BY <2>1, RowTyped
  <2>4. ~(t[i - n].sequence <= version)
    BY <2>3
  <2> QED BY <2>2, <2>4
<1> HIDE DEF K, L
<1>6. Sift(rows, K) = Sift(u, L)
  BY <1>1, <1>3, <1>4, <1>5, SiftSame DEF n
<1> QED BY <1>6 DEF UpTo, u, K, L

(* An ascending history is the rows up to a version, then those after it.   *)
LEMMA UpToAndAfter ==
  ASSUME NEW rows \in Seq(OperationRow), NEW version \in Nat,
         \A i, j \in 1..Len(rows) : i < j => rows[i].sequence <= rows[j].sequence
  PROVE  UpTo(rows, version) \o After(rows, version) = rows
<1> DEFINE Rises(s) == \A i, j \in 1..Len(s) : i < j => s[i].sequence <= s[j].sequence
           P == {s \in Seq(OperationRow) : Rises(s) => UpTo(s, version) \o After(s, version) = s}
<1>1. <<>> \in P
  <2> DEFINE s == <<>>
  <2>1. s \in Seq(OperationRow) /\ Len(s) = 0
    OBVIOUS
  <2> HIDE DEF s, P
  <2>2. UpTo(s, version) = s /\ After(s, version) = <<>>
    <3>1. \A i \in 1..Len(s) : i \notin {j \in DOMAIN s : s[j].sequence > version}
      BY <2>1
    <3>2. UpTo(s, version) = s
      <4>1. \A i \in 1..Len(s) : s[i].sequence <= version
        BY <2>1
      <4> QED BY <2>1, <4>1, UpToAll
    <3> QED BY <2>1, <3>1, <3>2, SiftNone DEF After
  <2>3. s \o <<>> = s
    BY <2>1
  <2>4. UpTo(s, version) \o After(s, version) = s
    BY <2>2, <2>3
  <2> QED BY <2>1, <2>4 DEF s, P
<1>2. ASSUME NEW s \in P, NEW x \in OperationRow PROVE Append(s, x) \in P
  <2> DEFINE t == Append(s, x)
             n == Len(s)
             a == UpTo(s, version)
             b == After(s, version)
             K(r) == {i \in DOMAIN r : r[i].sequence <= version}
             L(r) == {i \in DOMAIN r : r[i].sequence > version}
  <2>1. s \in Seq(OperationRow) /\ (Rises(s) => a \o b = s)
    OBVIOUS
  <2>2. /\ t \in Seq(OperationRow) /\ Len(t) = n + 1 /\ n \in Nat /\ t[n + 1] = x
        /\ \A i \in 1..n : t[i] = s[i] /\ i \in 1..n + 1
        /\ n + 1 \in 1..n + 1
    BY <2>1, Appended
  <2> HIDE DEF P
  <2> SUFFICES ASSUME Rises(t) PROVE UpTo(t, version) \o After(t, version) = t
    BY <2>2 DEF P
  <2>3. DOMAIN t = 1..n + 1 /\ DOMAIN s = 1..n
    BY <2>1, <2>2
  <2>4. a \in Seq(OperationRow) /\ b \in Seq(OperationRow)
    BY <2>1, UpToTyped
  <2> HIDE DEF t, n
  <2>5. Rises(s) /\ \A i \in 1..n : s[i].sequence <= x.sequence
    <3>1. \A i, j \in 1..n : i < j => s[i].sequence <= s[j].sequence
      BY <2>2
    <3>2. \A i \in 1..n : i < n + 1
      BY <2>2
    <3>3. \A i \in 1..n : s[i].sequence <= x.sequence
      BY <2>2, <3>2
    <3> QED BY <3>1, <3>3 DEF n
  <2>6. a \o b = s
    BY <2>1, <2>5
  <2> HIDE DEF Rises
  <2>7. UpTo(t, version) = IF x.sequence <= version THEN Append(a, x) ELSE a
    <3>1. (\A i \in 1..n : i \in K(s) <=> i \in K(t)) /\ (n + 1 \in K(t) <=> x.sequence <= version)
      BY <2>2, <2>3
    <3>2. a = Sift(s, K(s)) /\ UpTo(t, version) = Sift(t, K(t))
      BY DEF UpTo
    <3> HIDE DEF K, a
    <3>3. Sift(t, K(t)) = IF n + 1 \in K(t) THEN Append(Sift(s, K(s)), x) ELSE Sift(s, K(s))
      BY <2>1, <3>1, SiftStep DEF t, n
    <3> QED BY <3>1, <3>2, <3>3
  <2>8. After(t, version) = IF x.sequence > version THEN Append(b, x) ELSE b
    <3>1. (\A i \in 1..n : i \in L(s) <=> i \in L(t)) /\ (n + 1 \in L(t) <=> x.sequence > version)
      BY <2>2, <2>3
    <3>2. b = Sift(s, L(s)) /\ After(t, version) = Sift(t, L(t))
      BY DEF After
    <3> HIDE DEF L, b
    <3>3. Sift(t, L(t)) = IF n + 1 \in L(t) THEN Append(Sift(s, L(s)), x) ELSE Sift(s, L(s))
      BY <2>1, <3>1, SiftStep DEF t, n
    <3> QED BY <3>1, <3>2, <3>3
  <2>9. x.sequence \in Nat
    BY DEF OperationRow
  <2>10. CASE x.sequence <= version
    <3>1. ~(x.sequence > version)
      BY <2>9, <2>10
    <3>2. \A i \in 1..n : s[i].sequence <= version
      <4>1. \A i \in 1..n : s[i].sequence \in Nat
        BY <2>1, RowTyped DEF n
      <4> QED BY <2>5, <2>9, <2>10, <4>1
    <3>3. a = s
      BY <2>1, <3>2, UpToAll DEF n
    <3>4. Len(b) = 0
      <4>1. \A i \in 1..n : i \notin L(s)
        <5>1. \A i \in 1..n : s[i].sequence \in Nat
          BY <2>1, RowTyped DEF n
        <5>2. \A i \in 1..n : ~(s[i].sequence > version)
          BY <3>2, <5>1
        <5> QED BY <5>2
      <4>2. b = <<>>
        BY <2>1, <4>1, SiftNone DEF After, n
      <4> QED BY <4>2
    <3> HIDE DEF b
    <3>5. t \o b = t
      BY <2>2, <2>4, <3>4
    <3> QED BY <2>7, <2>8, <2>10, <3>1, <3>3, <3>5 DEF t
  <2>11. CASE ~(x.sequence <= version)
    <3>1. x.sequence > version
      BY <2>9, <2>11
    <3> HIDE DEF a, b
    <3>2. a \o Append(b, x) = Append(a \o b, x)
      BY <2>4, JoinedAppend
    <3> QED BY <2>6, <2>7, <2>8, <2>11, <3>1, <3>2 DEF t
  <2> QED BY <2>10, <2>11
<1>3. P \in SUBSET Seq(OperationRow)
  OBVIOUS
<1>4. rows \in P
  <2> HIDE DEF P
  <2> QED BY <1>1, <1>2, <1>3, SequenceInduction
<1>5. Rises(rows)
  OBVIOUS
<1> HIDE DEF Rises
<1> QED BY <1>4, <1>5

(* A store of the session: the fold is that of its rows, and they are in    *)
(* the order of their coordinates.                                          *)
StoreOk(st) ==
  /\ st.rows \in Seq(OperationRow) /\ st.version \in Nat
  /\ st.fold = FoldOf(st.rows)
  /\ Dated(st.rows, st.version)

(* The rows of one transaction.                                             *)
LEMMA RowsOfTyped ==
  ASSUME NEW sequence \in Nat \ {0}, NEW ops \in Seq(Op)
  PROVE  /\ RowsOf(sequence, ops) \in Seq(OperationRow)
         /\ Len(RowsOf(sequence, ops)) = Len(ops)
         /\ \A i \in 1..Len(ops) :
              /\ RowsOf(sequence, ops)[i] = Row(sequence, i - 1, ops[i])
              /\ RowsOf(sequence, ops)[i].sequence = sequence
              /\ RowsOf(sequence, ops)[i].ordinal = i - 1
              /\ RowsOf(sequence, ops)[i].action = ops[i].action
              /\ RowsOf(sequence, ops)[i].prop = ops[i].prop
<1> DEFINE rows == RowsOf(sequence, ops)
           n == Len(ops)
<1>1. DOMAIN ops = 1..n /\ n \in Nat /\ \A i \in 1..n : ops[i] \in Op
  OBVIOUS
<1> HIDE DEF n
<1>2. rows = [i \in 1..n |-> Row(sequence, i - 1, ops[i])]
  BY <1>1 DEF RowsOf
<1> HIDE DEF rows
<1>3. ASSUME NEW i \in 1..n PROVE Row(sequence, i - 1, ops[i]) \in OperationRow
  <2>1. i - 1 \in Nat /\ ops[i] \in Op
    BY <1>1
  <2> QED BY <2>1 DEF Row, Op, OperationRow
<1>4. rows \in Seq(OperationRow) /\ Len(rows) = n
  BY <1>1, <1>2, <1>3
<1>5. ASSUME NEW i \in 1..n
      PROVE  /\ rows[i] = Row(sequence, i - 1, ops[i])
             /\ rows[i].sequence = sequence /\ rows[i].ordinal = i - 1
             /\ rows[i].action = ops[i].action /\ rows[i].prop = ops[i].prop
  BY <1>2 DEF Row
<1> QED BY <1>4, <1>5 DEF rows, n

(* A commit appends the rows of its transaction, and its fold is the fold   *)
(* of the longer history.                                                   *)
LEMMA CommittedRows ==
  ASSUME NEW st, StoreOk(st), NEW ops \in Seq(Op)
  PROVE  /\ NextSequence(st) \in Nat \ {0} /\ NextSequence(st) = st.version + 1
         /\ RowsOf(NextSequence(st), ops) \in Seq(OperationRow)
         /\ Committed(st, ops).rows = st.rows \o RowsOf(NextSequence(st), ops)
         /\ Committed(st, ops).rows \in Seq(OperationRow)
         /\ Committed(st, ops).fold = FoldOf(Committed(st, ops).rows)
<1> DEFINE t == RowsOf(NextSequence(st), ops)
           rows == st.rows
<1>1. rows \in Seq(OperationRow) /\ st.version \in Nat /\ st.fold = FoldOf(rows)
  BY DEF StoreOk
<1>2. NextSequence(st) \in Nat \ {0} /\ NextSequence(st) = st.version + 1
  BY <1>1 DEF NextSequence
<1>3. t \in Seq(OperationRow)
  BY <1>2, RowsOfTyped
<1>4. /\ Committed(st, ops).rows = rows \o t
      /\ Committed(st, ops).fold = FoldFrom(st.fold, rows \o t, Len(rows))
  BY DEF Committed
<1> HIDE DEF t, rows
<1>5. FoldFrom(FoldOf(rows), rows \o t, Len(rows)) = FoldOf(rows \o t)
  BY <1>1, <1>3, FoldContinues
<1>6. rows \o t \in Seq(OperationRow)
  BY <1>1, <1>3
<1> QED BY <1>1, <1>2, <1>3, <1>4, <1>5, <1>6 DEF t, rows

(* A commit takes the next sequence for all its operations, one ordinal     *)
(* each.                                                                    *)
LEMMA CommittedOk ==
  ASSUME NEW st, StoreOk(st), NEW ops \in Seq(Op), ops # <<>>
  PROVE  StoreOk(Committed(st, ops)) /\ Committed(st, ops).version = st.version + 1
<1> DEFINE c == Committed(st, ops)
           rows == st.rows
           version == st.version
           t == RowsOf(NextSequence(st), ops)
           u == c.rows
           n == Len(rows)
<1>1. /\ NextSequence(st) \in Nat \ {0} /\ NextSequence(st) = version + 1
      /\ t \in Seq(OperationRow)
      /\ u = rows \o t /\ u \in Seq(OperationRow)
      /\ c.fold = FoldOf(u)
  BY CommittedRows
<1>2. c.version = version + 1
  BY <1>1 DEF Committed
<1>3. rows \in Seq(OperationRow) /\ version \in Nat /\ Dated(rows, version)
  BY DEF StoreOk
<1>4. /\ Len(t) = Len(ops)
      /\ \A i \in 1..Len(t) : t[i].sequence = version + 1 /\ t[i].ordinal = i - 1
  <2> DEFINE k == NextSequence(st)
  <2>1. k \in Nat \ {0} /\ k = version + 1
    BY <1>1
  <2> HIDE DEF k
  <2> DEFINE s == RowsOf(k, ops)
  <2>2. Len(s) = Len(ops)
        /\ \A i \in 1..Len(ops) : s[i].sequence = k /\ s[i].ordinal = i - 1
    BY <2>1, RowsOfTyped
  <2>3. s = t
    BY DEF k
  <2> HIDE DEF s, t
  <2> QED BY <2>1, <2>2, <2>3
<1> HIDE DEF c, rows, version, t, u, n
<1>5. /\ Len(u) = n + Len(t) /\ n \in Nat /\ Len(t) \in Nat
      /\ \A i \in 1..n + Len(t) : u[i] = IF i <= n THEN rows[i] ELSE t[i - n]
  BY <1>1, <1>3, Joined DEF n
<1>6. ASSUME NEW i \in 1..Len(u), i <= n
      PROVE  i \in 1..n /\ u[i] = rows[i] /\ u[i].sequence \in Nat /\ u[i].sequence <= version
             /\ u[i].ordinal \in Nat
  <2>1. i \in 1..n /\ i \in 1..n + Len(t)
    BY <1>5, <1>6
  <2>2. u[i] = rows[i]
    BY <1>5, <1>6, <2>1
  <2>3. rows[i].sequence \in Nat /\ rows[i].ordinal \in Nat
    BY <1>3, <2>1, RowTyped DEF n
  <2> QED BY <1>3, <2>1, <2>2, <2>3 DEF Dated, n
<1>7. ASSUME NEW i \in 1..Len(u), ~(i <= n)
      PROVE  u[i].sequence = version + 1 /\ u[i].ordinal = i - n - 1
  <2>1. i - n \in 1..Len(t) /\ i \in 1..n + Len(t)
    BY <1>5, <1>7
  <2>2. u[i] = t[i - n]
    BY <1>5, <1>7, <2>1
  <2> QED BY <1>4, <2>1, <2>2
<1>8. \A i \in 1..Len(u) : u[i].sequence <= version + 1
  <2> SUFFICES ASSUME NEW i \in 1..Len(u) PROVE u[i].sequence <= version + 1
    OBVIOUS
  <2>1. CASE i <= n
    <3>1. u[i].sequence \in Nat /\ u[i].sequence <= version
      BY <1>6, <2>1
    <3> QED BY <1>3, <3>1
  <2>2. CASE ~(i <= n)
    <3>1. u[i].sequence = version + 1
      BY <1>7, <2>2
    <3> QED BY <1>3, <3>1
  <2> QED BY <2>1, <2>2
<1>9. ASSUME NEW i \in 1..Len(u), NEW j \in 1..Len(u), i < j
      PROVE  \/ u[i].sequence < u[j].sequence
             \/ u[i].sequence = u[j].sequence /\ u[i].ordinal < u[j].ordinal
  <2>1. CASE j <= n
    <3>1. i <= n /\ i \in 1..n /\ j \in 1..n
      BY <1>5, <1>9, <2>1
    <3>2. u[i] = rows[i] /\ u[j] = rows[j]
      BY <1>6, <2>1, <3>1
    <3> QED BY <1>3, <1>9, <3>1, <3>2 DEF Dated, n
  <2>2. CASE i <= n /\ ~(j <= n)
    <3>1. u[i].sequence \in Nat /\ u[i].sequence <= version /\ u[j].sequence = version + 1
      BY <1>6, <1>7, <2>2
    <3> QED BY <1>3, <3>1
  <2>3. CASE ~(i <= n)
    <3>1. ~(j <= n)
      BY <1>5, <1>9, <2>3
    <3>2. /\ u[i].sequence = version + 1 /\ u[i].ordinal = i - n - 1
          /\ u[j].sequence = version + 1 /\ u[j].ordinal = j - n - 1
      BY <1>7, <2>3, <3>1
    <3>3. i - n - 1 < j - n - 1
      BY <1>5, <1>9
    <3> QED BY <3>2, <3>3
  <2> QED BY <2>1, <2>2, <2>3
<1>10. Dated(u, version + 1)
  BY <1>8, <1>9 DEF Dated
<1>11. version + 1 \in Nat
  BY <1>3
<1> QED BY <1>1, <1>2, <1>10, <1>11 DEF StoreOk, c, u, version

(* What was there at an earlier version does not change.                    *)
LEMMA PastStays ==
  ASSUME NEW st, StoreOk(st), NEW ops \in Seq(Op), NEW version \in Nat, version <= st.version
  PROVE  UpTo(Committed(st, ops).rows, version) = UpTo(st.rows, version)
<1> DEFINE t == RowsOf(NextSequence(st), ops)
<1>1. /\ NextSequence(st) \in Nat \ {0} /\ NextSequence(st) = st.version + 1
      /\ t \in Seq(OperationRow)
      /\ Committed(st, ops).rows = st.rows \o t
  BY CommittedRows
<1>2. st.rows \in Seq(OperationRow) /\ st.version \in Nat
  BY DEF StoreOk
<1>3. \A i \in 1..Len(t) : t[i].sequence = st.version + 1
  BY <1>1, RowsOfTyped
<1> HIDE DEF t
<1>4. st.version + 1 > version
  BY <1>2
<1>5. \A i \in 1..Len(t) : t[i].sequence > version
  BY <1>3, <1>4
<1>6. UpTo(st.rows \o t, version) = UpTo(st.rows, version)
  BY <1>1, <1>2, <1>5, UpToJoined
<1> QED BY <1>1, <1>6

(* The past up to the present version is the whole history.                 *)
LEMMA NowIsAll ==
  ASSUME NEW st, StoreOk(st)
  PROVE  UpTo(st.rows, st.version) = st.rows
BY UpToAll DEF StoreOk, Dated

-----------------------------------------------------------------------------
(* The session's view and the context.                                      *)

(* A rotation of the store as it was at some version, with a tail within    *)
(* the cap.                                                                 *)
ViewOk(st, rotation) ==
  /\ Rotates(rotation, UpTo(st.rows, rotation.version))
  /\ rotation.version <= st.version
  /\ Len(rotation.pending) <= FoldCap

(* A fresh projection is a rotation of the present.                         *)
LEMMA ProjectedOk ==
  ASSUME NEW st, StoreOk(st)
  PROVE  /\ Projected(st) = [version |-> st.version, base |-> LiveOf(st.rows), pending |-> <<>>]
         /\ ViewOk(st, Projected(st))
<1> DEFINE r == Projected(st)
           t == r.pending
<1>1. r = [version |-> st.version, base |-> LiveOf(st.rows), pending |-> <<>>]
  BY LiveOfStore DEF Projected, StoreOk
<1>2. st.rows \in Seq(OperationRow) /\ st.version \in Nat
  BY DEF StoreOk
<1>3. LiveOf(st.rows) \in Seq(OperationRow)
  BY <1>2, LiveOfTyped
<1>4. t \in Seq(OperationRow) /\ Len(t) = 0 /\ r.version = st.version /\ r.base = LiveOf(st.rows)
  BY <1>1
<1>5. r \in Rotation
  BY <1>1, <1>2, <1>3 DEF Rotation
<1> HIDE DEF r
<1>6. st.rows \o t = st.rows
  BY <1>2, <1>4, JoinedEmpty
<1>7. Rotates(r, st.rows)
  BY <1>2, <1>4, <1>5, <1>6 DEF Rotates
<1>8. Len(t) <= FoldCap /\ r.version <= st.version
  BY <1>2, <1>4, SessionAssumption
<1> QED BY <1>1, <1>4, <1>7, <1>8, NowIsAll DEF ViewOk, r

(* A refresh brings any rotation to the present and its tail under the cap. *)
LEMMA RefreshedOk ==
  ASSUME NEW st, StoreOk(st), NEW rotation,
         Rotates(rotation, UpTo(st.rows, rotation.version)), rotation.version <= st.version
  PROVE  /\ ViewOk(st, Refreshed(rotation, st))
         /\ Refreshed(rotation, st).version = st.version
<1> DEFINE rows == st.rows
           version == rotation.version
           old == rotation.pending
           new == After(rows, version)
           a == Advanced(rotation, st)
           r == Refreshed(rotation, st)
<1>1. rows \in Seq(OperationRow) /\ st.version \in Nat /\ Dated(rows, st.version)
  BY DEF StoreOk
<1>2. rotation \in Rotation /\ version \in Nat /\ old \in Seq(OperationRow)
      /\ rotation.base \in Seq(OperationRow)
  BY DEF Rotates, Rotation
<1>3. PICK before \in Seq(OperationRow) :
        rotation.base = LiveOf(before) /\ before \o old = UpTo(rows, version)
  BY DEF Rotates
<1>4. new \in Seq(OperationRow)
  BY <1>1, UpToTyped
<1>5. UpTo(rows, version) \o new = rows
  <2>1. \A i, j \in 1..Len(rows) : i < j => rows[i].sequence <= rows[j].sequence
    <3> SUFFICES ASSUME NEW i \in 1..Len(rows), NEW j \in 1..Len(rows), i < j
                 PROVE  rows[i].sequence <= rows[j].sequence
      OBVIOUS
    <3>1. rows[i].sequence \in Nat /\ rows[j].sequence \in Nat
      BY <1>1, RowTyped
    <3>2. rows[i].sequence < rows[j].sequence \/ rows[i].sequence = rows[j].sequence
      BY <1>1 DEF Dated
    <3> QED BY <3>1, <3>2
  <2> HIDE DEF rows, version
  <2> QED BY <1>1, <1>2, <2>1, UpToAndAfter
<1>6. a = [version |-> st.version, base |-> rotation.base, pending |-> old \o new]
  <2>1. new = RecordsAfter(st, version)
    BY DEF After, RecordsAfter
  <2>2. rotation = [version |-> version, base |-> rotation.base, pending |-> old]
    BY <1>2 DEF Rotation
  <2>3. a = [rotation EXCEPT !.version = st.version, !.pending = old \o new]
    BY <2>1, Zenon DEF Advanced
  <2> HIDE DEF new, old, version, a
  <2> DEFINE b == rotation.base
             c == old \o new
  <2> HIDE DEF b, c
  <2>4. rotation = [version |-> version, base |-> b, pending |-> old]
    BY <2>2 DEF b
  <2>5. a = [version |-> st.version, base |-> b, pending |-> c]
    BY <2>3, <2>4 DEF c
  <2> QED BY <2>5 DEF b, c
<1> HIDE DEF rows, version, old, new
<1>7. old \o new \in Seq(OperationRow)
  BY <1>2, <1>4
<1>8. before \o (old \o new) = rows
  <2>1. before \o (old \o new) = (before \o old) \o new
    BY <1>2, <1>4
  <2> QED BY <1>3, <1>5, <2>1
<1>9. Rotates(a, rows) /\ a.version = st.version /\ a.pending = old \o new
  <2>1. a.version = st.version /\ a.base = rotation.base /\ a.pending = old \o new
    BY <1>6
  <2>2. a \in Rotation
    BY <1>1, <1>2, <1>6, <1>7 DEF Rotation
  <2>3. a.base = LiveOf(before) /\ before \o a.pending = rows
    BY <1>3, <1>8, <2>1
  <2> HIDE DEF a
  <2> QED BY <2>1, <2>2, <2>3 DEF Rotates
<1> HIDE DEF a
<1>10. CASE Len(a.pending) > FoldCap
  <2> DEFINE t == r.pending
  <2>1. r = [version |-> st.version, base |-> Answer(a, AnyTriple), pending |-> <<>>]
    BY <1>10 DEF Refreshed, a
  <2>2. Answer(a, AnyTriple) = LiveOf(rows)
    <3>1. Answer(a, AnyTriple) = Narrowed(LiveOf(rows), AnyTriple)
      BY <1>1, <1>9, RotationAnswers
    <3>2. LiveOf(rows) \in Seq(OperationRow)
      BY <1>1, LiveOfTyped
    <3> QED BY <3>1, <3>2, NarrowedByAny
  <2>3. r = Projected(st)
    BY <2>1, <2>2, ProjectedOk DEF rows
  <2> QED BY <2>1, <2>3, ProjectedOk
<1>11. CASE ~(Len(a.pending) > FoldCap)
  <2>1. r = a
    BY <1>11 DEF Refreshed, a
  <2>2. Len(a.pending) <= FoldCap
    <3>1. Len(a.pending) \in Nat
      BY <1>7, <1>9
    <3> QED BY <1>11, <3>1, SessionAssumption
  <2>3. st.version <= st.version
    BY <1>1
  <2> HIDE DEF r
  <2>4. ViewOk(st, r)
    BY <1>9, <2>1, <2>2, <2>3, NowIsAll DEF ViewOk, rows
  <2> QED BY <1>9, <2>1, <2>4 DEF r
<1> QED BY <1>10, <1>11

(* The keys of single-cardinality predicates.                               *)
Keys == {Key(p) : p \in Prop}

(* The type of an authoring context.                                        *)
ContextType ==
  [sequence : Nat \ {0}, ops : Seq(Op), view : Rotation, single : SUBSET Keys]

(* A context whose commit would succeed reads a rotation of what that       *)
(* commit would leave.                                                      *)
ContextOk(st, c) ==
  /\ c \in ContextType
  /\ c.sequence <= NextSequence(st)
  /\ c.sequence = NextSequence(st) =>
       Rotates(c.view, st.rows \o RowsOf(c.sequence, c.ops))

(* The inductive invariant: the store is the fold of its dated history, the *)
(* session reads a rotation of its past, and the context one of its future. *)
SessionCore == StoreOk(store) /\ ViewOk(store, view) /\ ContextOk(store, context)

(* resync! makes a rotation of what the staged operations would leave.      *)
LEMMA ResyncedOk ==
  ASSUME NEW st, StoreOk(st), NEW sequence \in Nat \ {0}, NEW ops \in Seq(Op)
  PROVE  Rotates(Resynced(st, sequence, ops), st.rows \o RowsOf(sequence, ops))
<1> DEFINE t == RowsOf(sequence, ops)
           r == Resynced(st, sequence, ops)
           live == LiveOf(st.rows)
<1>1. t \in Seq(OperationRow)
  BY RowsOfTyped
<1>2. Projected(st) = [version |-> st.version, base |-> live, pending |-> <<>>]
  BY ProjectedOk
<1>3. st.rows \in Seq(OperationRow) /\ st.version \in Nat
  BY DEF StoreOk
<1>4. live \in Seq(OperationRow)
  BY <1>3, LiveOfTyped
<1> HIDE DEF live
<1>5. r = [version |-> st.version, base |-> live, pending |-> <<>> \o t]
  BY <1>2 DEF Resynced, Staged
<1> HIDE DEF t, r
<1>6. <<>> \o t = t
  BY <1>1
<1>7. r.base = live /\ r.pending = t /\ r \in Rotation
  BY <1>1, <1>3, <1>4, <1>5, <1>6 DEF Rotation
<1> QED BY <1>3, <1>7 DEF Rotates, r, t, live

(* A context that is just opened satisfies the invariant.                   *)
LEMMA OpenedOk ==
  ASSUME NEW st, StoreOk(st)
  PROVE  ContextOk(st, OpenedOn(st)) /\ OpenedOn(st).single = {}
<1> DEFINE c == OpenedOn(st)
           ops == c.ops
           r == Resynced(st, NextSequence(st), ops)
<1>1. NextSequence(st) \in Nat \ {0}
  BY DEF StoreOk, NextSequence
<1>2. c = [sequence |-> NextSequence(st), ops |-> <<>>, view |-> r, single |-> {}]
  BY DEF OpenedOn
<1>3. ops \in Seq(Op) /\ c.sequence = NextSequence(st) /\ c.view = r /\ c.single = {}
  BY DEF OpenedOn
<1> HIDE DEF ops
<1>4. Rotates(r, st.rows \o RowsOf(NextSequence(st), ops))
  BY <1>1, <1>3, ResyncedOk
<1>5. c \in ContextType
  <2>1. r \in Rotation /\ <<>> \in Seq(Op)
    BY <1>4 DEF Rotates
  <2> HIDE DEF r, c
  <2> QED BY <1>1, <1>2, <2>1 DEF ContextType
<1>6. NextSequence(st) <= NextSequence(st)
  BY <1>1
<1> HIDE DEF r, c
<1> QED BY <1>3, <1>4, <1>5, <1>6 DEF ContextOk, c, ops

(* A context whose sequence another commit has taken promises nothing.      *)
LEMMA DriftedOk ==
  ASSUME NEW st, StoreOk(st), NEW c, ContextOk(st, c),
         NEW next, StoreOk(next), next.version = st.version + 1
  PROVE  ContextOk(next, c)
<1>1. c \in ContextType /\ c.sequence \in Nat /\ c.sequence <= st.version + 1
  BY DEF ContextOk, ContextType, NextSequence
<1>2. st.version \in Nat
  BY DEF StoreOk
<1>3. NextSequence(next) = (st.version + 1) + 1
  BY DEF NextSequence
<1>4. c.sequence <= NextSequence(next) /\ c.sequence # NextSequence(next)
  BY <1>1, <1>2, <1>3
<1> QED BY <1>1, <1>4 DEF ContextOk

-----------------------------------------------------------------------------
(* compile-single-update.                                                   *)

(* The pattern an update reads: the key, and any value.                     *)
KeyPattern(key) == <<key[1], key[2], Unbound>>

(* A proposition has three bound slots.                                     *)
LEMMA PropTyped ==
  ASSUME NEW p \in Prop
  PROVE  /\ p = <<p[1], p[2], p[3]>> /\ DOMAIN p = Slots
         /\ p[1] # Unbound /\ p[2] # Unbound /\ p[3] # Unbound
         /\ [p EXCEPT ![3] = Unbound] = KeyPattern(Key(p))
<1>1. p \in Term \X Term \X Term /\ Unbound \notin Term
  BY SessionAssumption
<1>2. p = <<p[1], p[2], p[3]>> /\ p[1] \in Term /\ p[2] \in Term /\ p[3] \in Term
  BY <1>1
<1>3. DOMAIN p = 1..3
  BY <1>2
<1>4. [p EXCEPT ![3] = Unbound] = <<p[1], p[2], Unbound>>
  BY <1>2
<1> QED BY <1>1, <1>2, <1>3, <1>4 DEF Slots, KeyPattern, Key

(* The pattern of a key matches the propositions of the key, and that of a  *)
(* proposition only itself.                                                 *)
LEMMA KeyMatches ==
  ASSUME NEW p \in Prop, NEW q \in Prop
  PROVE  /\ Matches(KeyPattern(Key(p)), q) <=> Key(p) = Key(q)
         /\ Matches(p, q) <=> p = q
<1>1. /\ p = <<p[1], p[2], p[3]>> /\ q = <<q[1], q[2], q[3]>>
      /\ p[1] # Unbound /\ p[2] # Unbound /\ p[3] # Unbound
  BY PropTyped
<1> DEFINE k == <<p[1], p[2], Unbound>>
<1>2. KeyPattern(Key(p)) = k
  BY DEF KeyPattern, Key
<1>3. k[1] = p[1] /\ k[2] = p[2] /\ k[3] = Unbound
  OBVIOUS
<1> HIDE DEF k
<1>4. Slots = {1, 2, 3}
  BY DEF Slots
<1>5. BoundSlots(k) = {1, 2} /\ BoundSlots(p) = {1, 2, 3}
  BY <1>1, <1>3, <1>4 DEF BoundSlots
<1>6. Matches(k, q) <=> p[1] = q[1] /\ p[2] = q[2]
  BY <1>3, <1>5 DEF Matches, Selects
<1>7. Matches(p, q) <=> p[1] = q[1] /\ p[2] = q[2] /\ p[3] = q[3]
  BY <1>5 DEF Matches, Selects
<1>8. (p[1] = q[1] /\ p[2] = q[2]) <=> Key(p) = Key(q)
  BY DEF Key
<1> QED BY <1>1, <1>2, <1>6, <1>7, <1>8

(* An answer is made of operations.                                         *)
LEMMA AnswerTyped ==
  ASSUME NEW rotation \in Rotation, NEW pattern
  PROVE  Answer(rotation, pattern) \in Seq(OperationRow)
<1> DEFINE base == Narrowed(Leaf(rotation.base, pattern), pattern)
           t == rotation.pending
<1>1. t \in Seq(OperationRow) /\ rotation.base \in Seq(OperationRow)
  BY DEF Rotation
<1>2. base \in Seq(OperationRow)
  BY <1>1, NarrowedTyped
<1>3. Answer(rotation, pattern) = Merged(base, t, pattern)
  BY DEF Answer
<1> HIDE DEF base, t
<1>4. Merged(base, t, pattern) \in Seq(OperationRow)
  BY <1>1, <1>2, MergedIs
<1> QED BY <1>3, <1>4

(* It retracts what the key has, newest first, and asserts the value.       *)
CompilesTo(rotation, p, s) ==
  LET ops == CompileSingle(rotation, p)
      n   == Len(s)
  IN  /\ ops \in Seq(Op) /\ ops # <<>> /\ Len(ops) = n + 1
      /\ n \in Nat /\ s \in Seq(OperationRow)
      /\ \A i \in 1..n : ops[i] = RetractOp(s[n + 1 - i].prop)
      /\ ops[n + 1] = AssertOp(p)

(* What an update compiles to, given what its key reads.                    *)
LEMMA CompiledOps ==
  ASSUME NEW rotation \in Rotation, NEW p \in Prop
  PROVE  /\ CompilesTo(rotation, p, Answer(rotation, KeyPattern(Key(p))))
         /\ CompileSingle(rotation, p) \in Seq(Op)
<1> DEFINE s == Answer(rotation, KeyPattern(Key(p)))
           n == Len(s)
           r == Reverse(s)
           a == [i \in DOMAIN r |-> RetractOp(r[i].prop)]
           b == <<AssertOp(p)>>
           ops == CompileSingle(rotation, p)
<1>1. s \in Seq(OperationRow) /\ n \in Nat
  BY AnswerTyped
<1>2. ops = a \o b
  BY PropTyped DEF CompileSingle
<1> HIDE DEF s
<1>14. n = Len(s)
  OBVIOUS
<1> HIDE DEF n
<1>3. r = [i \in 1..n |-> s[n + 1 - i]]
  <2>1. r = [i \in 1..n |-> s[n - i + 1]]
    BY <1>14 DEF Reverse
  <2>2. \A i \in 1..n : n - i + 1 = n + 1 - i
    BY <1>1
  <2> HIDE DEF r
  <2> QED BY <2>1, <2>2
<1> HIDE DEF r, ops
<1>4. DOMAIN r = 1..n /\ \A i \in 1..n : r[i] = s[n + 1 - i]
  BY <1>3
<1>5. a = [i \in 1..n |-> RetractOp(s[n + 1 - i].prop)]
  BY <1>4
<1> HIDE DEF a
<1>6. ASSUME NEW i \in 1..n PROVE RetractOp(s[n + 1 - i].prop) \in Op
  <2>1. n + 1 - i \in 1..Len(s)
    BY <1>1, <1>14
  <2>2. s[n + 1 - i].prop \in Prop
    BY <1>1, <2>1, RowTyped
  <2> QED BY <2>2 DEF RetractOp, Op, Action
<1>7. a \in Seq(Op) /\ Len(a) = n /\ \A i \in 1..n : a[i] = RetractOp(s[n + 1 - i].prop)
  BY <1>1, <1>5, <1>6
<1>8. AssertOp(p) \in Op
  BY DEF AssertOp, Op, Action
<1>9. b \in Seq(Op) /\ Len(b) = 1 /\ b[1] = AssertOp(p)
  BY <1>8
<1> HIDE DEF b
<1>10. /\ ops \in Seq(Op) /\ Len(ops) = n + 1
       /\ \A i \in 1..n + 1 : ops[i] = IF i <= n THEN a[i] ELSE b[i - n]
  <2> DEFINE c == a \o b
  <2>1. /\ c \in Seq(Op) /\ Len(c) = Len(a) + Len(b)
        /\ \A i \in 1..Len(a) + Len(b) : c[i] = IF i <= Len(a) THEN a[i] ELSE b[i - Len(a)]
    BY <1>7, <1>9, Joined
  <2> HIDE DEF c
  <2>2. Len(a) = n /\ Len(b) = 1
    BY <1>7, <1>9
  <2>3. /\ c \in Seq(Op) /\ Len(c) = n + 1
        /\ \A i \in 1..n + 1 : c[i] = IF i <= n THEN a[i] ELSE b[i - n]
    BY <2>1, <2>2
  <2> QED BY <1>2, <2>3 DEF c
<1>11. /\ \A i \in 1..n : i \in 1..n + 1 /\ i <= n
       /\ n + 1 \in 1..n + 1 /\ ~(n + 1 <= n) /\ (n + 1) - n = 1
  BY <1>1
<1>12. ops[n + 1] = AssertOp(p) /\ \A i \in 1..n : ops[i] = RetractOp(s[n + 1 - i].prop)
  BY <1>7, <1>9, <1>10, <1>11
<1>13. ops # <<>>
  BY <1>1, <1>10
<1>15. CompilesTo(rotation, p, s)
  BY <1>1, <1>10, <1>12, <1>13, <1>14 DEF ops, CompilesTo
<1> QED BY <1>10, <1>15 DEF ops, s

-----------------------------------------------------------------------------
(* Every action keeps the store, the view and the context.                  *)

(* The empty store satisfies the invariant.                                 *)
LEMMA EmptyStoreOk == StoreOk(EmptyStore)
<1> DEFINE rows == EmptyStore.rows
<1>1. /\ rows \in Seq(OperationRow) /\ Len(rows) = 0 /\ EmptyStore.version = 0
      /\ EmptyStore.fold = EmptyFold
  BY DEF EmptyStore
<1> HIDE DEF rows
<1>2. FoldOf(rows) = EmptyFold
  BY <1>1, FoldOfEmpty
<1>3. Dated(rows, 0)
  BY <1>1 DEF Dated
<1> QED BY <1>1, <1>2, <1>3 DEF StoreOk, rows

(* So does the whole initial state.                                         *)
LEMMA SessionCoreInit == SessionInit => SessionCore
BY EmptyStoreOk, ProjectedOk, OpenedOk DEF SessionInit, SessionCore

(* What a commit does to the three of them.                                 *)
LEMMA CommitKeeps ==
  ASSUME SessionCore, NEW ops \in Seq(Op), CommitBoundary(ops)
  PROVE  /\ store' = Committed(store, ops)
         /\ StoreOk(store') /\ store'.version = store.version + 1
         /\ ContextOk(store', context)
         /\ ViewOk(store', view)
         /\ ViewOk(store', Refreshed(view, store'))
         /\ ContextOk(store', OpenedOn(store'))
<1> DEFINE now == Committed(store, ops)
<1>1. StoreOk(store) /\ ViewOk(store, view) /\ ContextOk(store, context)
  BY DEF SessionCore
<1>2. store' = now /\ ops # <<>>
  BY DEF CommitBoundary
<1>3. StoreOk(now) /\ now.version = store.version + 1
  BY <1>1, <1>2, CommittedOk
<1>4. store.version \in Nat /\ view.version \in Nat /\ view.version <= store.version
      /\ Rotates(view, UpTo(store.rows, view.version)) /\ Len(view.pending) <= FoldCap
  BY <1>1 DEF StoreOk, ViewOk, Rotates, Rotation
<1>5. UpTo(now.rows, view.version) = UpTo(store.rows, view.version)
  BY <1>1, <1>4, PastStays
<1> HIDE DEF now
<1>6. view.version <= now.version
  BY <1>3, <1>4
<1>7. ViewOk(now, view)
  BY <1>4, <1>5, <1>6 DEF ViewOk
<1>8. ViewOk(now, Refreshed(view, now))
  BY <1>3, <1>4, <1>5, <1>6, RefreshedOk
<1>9. ContextOk(now, context)
  BY <1>1, <1>3, DriftedOk
<1>10. ContextOk(now, OpenedOn(now))
  BY <1>3, OpenedOk
<1>11. /\ StoreOk(store') /\ store'.version = store.version + 1
       /\ ContextOk(store', context) /\ ViewOk(store', view)
       /\ ViewOk(store', Refreshed(view, store')) /\ ContextOk(store', OpenedOn(store'))
  BY <1>2, <1>3, <1>7, <1>8, <1>9, <1>10
<1> QED BY <1>2, <1>11 DEF now

(* The types that the invariant gives.                                      *)
LEMMA ContextTyped ==
  ASSUME SessionCore
  PROVE  /\ context.ops \in Seq(Op) /\ context.sequence \in Nat \ {0}
         /\ context.view \in Rotation /\ context.single \subseteq Keys
         /\ view \in Rotation /\ store.rows \in Seq(OperationRow) /\ StoreOk(store)
BY DEF SessionCore, ContextOk, ContextType, ViewOk, Rotates, StoreOk

(* The operations of a mutation.                                            *)
LEMMA ActionsTyped ==
  ASSUME NEW actions \in Actions
  PROVE  /\ actions \in Seq(ClientAction) /\ Len(actions) \in Nat \ {0}
         /\ [i \in DOMAIN actions |-> actions[i].op] \in Seq(Op)
         /\ Len([i \in DOMAIN actions |-> actions[i].op]) = Len(actions)
<1>1. PICK n \in 1..MaxActions : actions \in [1..n -> ClientAction]
  BY DEF Actions
<1>2. n \in Nat \ {0}
  BY <1>1, SessionAssumption
<1>3. \A i \in 1..n : actions[i].op \in Op
  BY <1>1 DEF ClientAction
<1> QED BY <1>1, <1>2, <1>3

(* Staging keeps the invariant and touches only the context.                *)
LEMMA StageKeeps ==
  ASSUME SessionCore, NEW ops \in Seq(Op), NEW keys \in SUBSET Keys, Stage(ops, keys)
  PROVE  /\ SessionCore'
         /\ UNCHANGED <<store, view, receipts, decisions, single>>
         /\ context'.sequence = context.sequence
         /\ context'.ops = context.ops \o ops
         /\ context'.single = keys
<1> DEFINE all == context.ops \o ops
           r == Resynced(store, context.sequence, all)
           c == context'
<1>1. /\ context \in ContextType /\ context.sequence <= NextSequence(store)
      /\ StoreOk(store) /\ ViewOk(store, view)
  BY DEF SessionCore, ContextOk
<1>2. /\ UNCHANGED <<store, view, receipts, decisions, single>>
      /\ c = [context EXCEPT !.ops = all, !.view = r, !.single = keys]
  BY DEF Stage
<1>3. context.ops \in Seq(Op) /\ context.sequence \in Nat \ {0}
  BY <1>1 DEF ContextType
<1>4. all \in Seq(Op)
  BY <1>3
<1> HIDE DEF all
<1>5. Rotates(r, store.rows \o RowsOf(context.sequence, all))
  BY <1>1, <1>3, <1>4, ResyncedOk
<1>6. r \in Rotation
  BY <1>5 DEF Rotates
<1> HIDE DEF r, c
<1>7. c \in ContextType /\ c.sequence = context.sequence /\ c.ops = all /\ c.view = r /\ c.single = keys
  BY <1>1, <1>2, <1>4, <1>6 DEF ContextType
<1>8. ContextOk(store, c)
  BY <1>1, <1>5, <1>7 DEF ContextOk
<1>9. StoreOk(store') /\ ViewOk(store', view') /\ ContextOk(store', context')
  BY <1>1, <1>2, <1>8 DEF c
<1>10. SessionCore'
  BY <1>9 DEF SessionCore
<1> QED BY <1>2, <1>7, <1>10 DEF c, all

(* Every step keeps the invariant.                                          *)
LEMMA SessionCoreStep == SessionCore /\ [SessionNext]_sessionVars => SessionCore'
<1> SUFFICES ASSUME SessionCore, [SessionNext]_sessionVars PROVE SessionCore'
  OBVIOUS
<1>1. StoreOk(store) /\ ViewOk(store, view) /\ ContextOk(store, context)
  BY DEF SessionCore
<1>2. context.single \subseteq Keys /\ context.view \in Rotation /\ view \in Rotation
      /\ context.ops \in Seq(Op)
  BY ContextTyped
<1>3. ASSUME NEW p \in Prop, StageAssert(p) PROVE SessionCore'
  <2>1. <<AssertOp(p)>> \in Seq(Op)
    <3>1. AssertOp(p) \in Op
      BY DEF AssertOp, Op, Action
    <3> QED BY <3>1
  <2>2. context.single \ {Key(p)} \in SUBSET Keys
    BY <1>2
  <2> QED BY <1>3, <2>1, <2>2, StageKeeps DEF StageAssert
<1>4. ASSUME NEW p \in Prop, StageUpdate(p) PROVE SessionCore'
  <2>1. CompileSingle(context.view, p) \in Seq(Op)
    BY <1>2, CompiledOps
  <2>2. context.single \cup {Key(p)} \in SUBSET Keys
    BY <1>2 DEF Keys
  <2> QED BY <1>4, <2>1, <2>2, StageKeeps DEF StageUpdate
<1>5. ASSUME Reopen PROVE SessionCore'
  <2>1. UNCHANGED <<store, view>> /\ context' = OpenedOn(store)
    BY <1>5 DEF Reopen
  <2>2. ContextOk(store, OpenedOn(store))
    BY <1>1, OpenedOk
  <2> QED BY <1>1, <2>1, <2>2 DEF SessionCore
<1>6. ASSUME CommitContext PROVE SessionCore'
  <2>1. CommitBoundary(context.ops) /\ view' = view /\ context' = OpenedOn(store')
    BY <1>6 DEF CommitContext
  <2>2. StoreOk(store') /\ ViewOk(store', view) /\ ContextOk(store', OpenedOn(store'))
    BY <1>2, <2>1, CommitKeeps
  <2> QED BY <2>1, <2>2 DEF SessionCore
<1>7. ASSUME NEW ops \in Seq(Op), CommitAndRefresh(ops), context' = context PROVE SessionCore'
  <2>1. CommitBoundary(ops) /\ view' = Refreshed(view, store')
    BY <1>7 DEF CommitAndRefresh
  <2>2. StoreOk(store') /\ ViewOk(store', Refreshed(view, store')) /\ ContextOk(store', context)
    BY <2>1, CommitKeeps
  <2> QED BY <1>7, <2>1, <2>2 DEF SessionCore
<1>8. ASSUME NEW p \in Prop, AssertSingle(p) PROVE SessionCore'
  <2>1. CompileSingle(view, p) \in Seq(Op)
    BY <1>2, CompiledOps
  <2>2. CommitAndRefresh(CompileSingle(view, p)) /\ context' = context
    BY <1>8 DEF AssertSingle
  <2> QED BY <1>7, <2>1, <2>2
<1>9. ASSUME NEW actions \in Actions, Mutate(actions) PROVE SessionCore'
  <2>1. [i \in DOMAIN actions |-> actions[i].op] \in Seq(Op)
    BY ActionsTyped
  <2>2. CommitAndRefresh([i \in DOMAIN actions |-> actions[i].op]) /\ context' = context
    BY <1>9 DEF Mutate
  <2> QED BY <1>7, <2>1, <2>2
<1>10. ASSUME RefreshView PROVE SessionCore'
  <2>1. UNCHANGED <<store, context>> /\ view' = Refreshed(view, store)
    BY <1>10 DEF RefreshView
  <2>2. ViewOk(store, Refreshed(view, store))
    BY <1>1, RefreshedOk DEF ViewOk
  <2> QED BY <1>1, <2>1, <2>2 DEF SessionCore
<1>11. ASSUME Reproject PROVE SessionCore'
  <2>1. UNCHANGED <<store, context>> /\ view' = Projected(store)
    BY <1>11 DEF Reproject
  <2>2. ViewOk(store, Projected(store))
    BY <1>1, ProjectedOk
  <2> QED BY <1>1, <2>1, <2>2 DEF SessionCore
<1>12. ASSUME UNCHANGED sessionVars PROVE SessionCore'
  BY <1>1, <1>12 DEF SessionCore, sessionVars
<1> QED BY <1>3, <1>4, <1>5, <1>6, <1>8, <1>9, <1>10, <1>11, <1>12 DEF SessionNext

(* Whatever is staged, committed, refreshed, folded down or projected       *)
(* afresh, in any order, the store is the fold of its history, the session  *)
(* reads a rotation of its past and an undrifted context one of its future  *)
(* (project!, refresh!, staged, resync!).                                   *)
THEOREM SessionCoreHolds == SessionSpec => []SessionCore
<1>1. SessionInit => SessionCore
  BY SessionCoreInit
<1>2. SessionCore /\ [SessionNext]_sessionVars => SessionCore'
  BY SessionCoreStep
<1> QED BY <1>1, <1>2, PTL DEF SessionSpec

-----------------------------------------------------------------------------
(* Reads.                                                                   *)

(* The store as of a version folds the past of its history.                 *)
LEMMA PastIs ==
  ASSUME NEW st, StoreOk(st), NEW version
  PROVE  /\ LiveOccurrences(AsOf(st, version)) = LiveOf(UpTo(st.rows, version))
         /\ UpTo(st.rows, version) \in Seq(OperationRow)
<1> DEFINE rows == UpTo(st.rows, version)
           past == AsOf(st, version)
<1>1. past.rows = rows /\ past.fold = FoldOf(rows)
  BY DEF AsOf, UpTo, FoldOf
<1> HIDE DEF past, rows
<1>2. LiveOccurrences(past) = LiveOf(past.rows)
  BY <1>1, LiveOfStore
<1>3. rows \in Seq(OperationRow)
  BY UpToTyped DEF StoreOk, rows
<1> QED BY <1>1, <1>2, <1>3 DEF past, rows

(* What a pattern matches of the live occurrences.                          *)
LEMMA LiveMatchingIs ==
  ASSUME NEW st, NEW pattern
  PROVE  LiveMatching(st, pattern) = Narrowed(LiveOccurrences(st), pattern)
BY DEF LiveMatching, Narrowed

(* The past is part of the history.                                         *)
LEMMA UpToElements ==
  ASSUME NEW rows \in Seq(OperationRow), NEW version
  PROVE  Elements(UpTo(rows, version)) \subseteq Elements(rows)
<1> DEFINE K == {i \in DOMAIN rows : rows[i].sequence <= version}
<1>1. Elements(Sift(rows, K)) = {rows[i] : i \in {j \in 1..Len(rows) : j \in K}}
  BY SiftElements
<1>2. \A i \in 1..Len(rows) : rows[i] \in Elements(rows)
  BY ElementAt
<1> HIDE DEF K
<1>3. Elements(Sift(rows, K)) \subseteq Elements(rows)
  BY <1>1, <1>2
<1> QED BY <1>3 DEF UpTo, K

(* No two rows have one coordinate.                                         *)
LEMMA CoordinatesDiffer ==
  ASSUME NEW rows \in Seq(OperationRow), NEW version, Dated(rows, version),
         NEW i \in 1..Len(rows), NEW j \in 1..Len(rows),
         Coordinate(rows[i]) = Coordinate(rows[j])
  PROVE  i = j
<1>1. rows[i].sequence = rows[j].sequence /\ rows[i].ordinal = rows[j].ordinal
  BY DEF Coordinate
<1>2. /\ rows[i].sequence \in Nat /\ rows[i].ordinal \in Nat
      /\ rows[j].sequence \in Nat /\ rows[j].ordinal \in Nat
  BY RowTyped
<1>3. ~(rows[i].sequence < rows[j].sequence) /\ ~(rows[i].ordinal < rows[j].ordinal)
      /\ ~(rows[j].sequence < rows[i].sequence) /\ ~(rows[j].ordinal < rows[i].ordinal)
  BY <1>1, <1>2
<1>4. ~(i < j) /\ ~(j < i)
  BY <1>3 DEF Dated
<1> QED BY <1>4

(* Membership in a sequence.                                                *)
LEMMA ContainsElement ==
  ASSUME NEW E, NEW s \in Seq(E), NEW e
  PROVE  (Contains(s, e) <=> e \in Elements(s)) /\ ToSet(s) = Elements(s)
BY DEF Contains, Elements, ToSet

(* The elements of two joined sequences.                                    *)
LEMMA JoinedElements ==
  ASSUME NEW E, NEW a \in Seq(E), NEW b \in Seq(E)
  PROVE  ToSet(a \o b) = Elements(a) \cup Elements(b)
<1> DEFINE c == a \o b
           n == Len(a)
           m == Len(b)
<1>1. /\ c \in Seq(E) /\ Len(c) = n + m /\ n \in Nat /\ m \in Nat
      /\ \A i \in 1..n + m : c[i] = IF i <= n THEN a[i] ELSE b[i - n]
  BY Joined
<1>2. DOMAIN a = 1..n /\ DOMAIN b = 1..m
  OBVIOUS
<1> HIDE DEF c, n, m
<1>3. ToSet(c) = {c[i] : i \in 1..n + m}
  <2>1. ToSet(c) = {c[i] : i \in DOMAIN c}
    BY DEF ToSet
  <2>2. DOMAIN c = 1..n + m
    BY <1>1
  <2> QED BY <2>1, <2>2
<1>4. Elements(a) = {a[i] : i \in 1..n} /\ Elements(b) = {b[i] : i \in 1..m}
  BY <1>2 DEF Elements
<1>5. ASSUME NEW i \in 1..n PROVE i \in 1..n + m /\ c[i] = a[i]
  <2>1. i \in 1..n + m /\ i <= n
    BY <1>1
  <2> QED BY <1>1, <2>1
<1>6. ASSUME NEW i \in 1..m PROVE n + i \in 1..n + m /\ c[n + i] = b[i]
  <2>1. n + i \in 1..n + m /\ ~(n + i <= n) /\ (n + i) - n = i
    BY <1>1
  <2> QED BY <1>1, <2>1
<1>7. ASSUME NEW i \in 1..n + m PROVE c[i] \in Elements(a) \cup Elements(b)
  <2>1. CASE i <= n
    <3>1. i \in 1..n
      BY <1>1, <2>1
    <3> QED BY <1>4, <1>5, <3>1
  <2>2. CASE ~(i <= n)
    <3>1. i - n \in 1..m
      BY <1>1, <2>2
    <3>2. c[i] = b[i - n]
      BY <1>1, <2>2
    <3> QED BY <1>4, <3>1, <3>2
  <2> QED BY <2>1, <2>2
<1>8. ToSet(c) = Elements(a) \cup Elements(b)
  BY <1>3, <1>4, <1>5, <1>6, <1>7
<1> QED BY <1>8 DEF c

(* The session answers every pattern as the store of its version would.     *)
LEMMA ViewAnswersLive ==
  ASSUME SessionCore
  PROVE  ViewIsLive
<1> DEFINE rows == UpTo(store.rows, view.version)
<1>1. StoreOk(store) /\ Rotates(view, rows)
  BY DEF SessionCore, ViewOk
<1>2. LiveOccurrences(AsOf(store, view.version)) = LiveOf(rows) /\ rows \in Seq(OperationRow)
  BY <1>1, PastIs
<1> HIDE DEF rows
<1>3. ASSUME NEW pattern \in Pattern
      PROVE  Answer(view, pattern) = LiveMatching(AsOf(store, view.version), pattern)
  <2>1. Answer(view, pattern) = Narrowed(LiveOf(rows), pattern)
    BY <1>1, <1>2, RotationAnswers
  <2> QED BY <1>2, <2>1, LiveMatchingIs
<1> QED BY <1>3 DEF ViewIsLive

(* It finds an occurrence exactly when that store holds it live.            *)
LEMMA FoundAreLive ==
  ASSUME SessionCore
  PROVE  FoundIffLive
<1> DEFINE rows == UpTo(store.rows, view.version)
           all == store.rows
           live == LiveOf(rows)
<1>1. StoreOk(store) /\ Rotates(view, rows)
  BY DEF SessionCore, ViewOk
<1>2. LiveOccurrences(AsOf(store, view.version)) = live /\ rows \in Seq(OperationRow)
  BY <1>1, PastIs
<1>3. all \in Seq(OperationRow) /\ Dated(all, store.version)
  BY <1>1 DEF StoreOk
<1>4. Elements(rows) \subseteq Elements(all)
  BY <1>3, UpToElements
<1>5. \A e \in Elements(live) : e \in Elements(rows) /\ e.action = "assert"
  BY <1>2, LiveOfElements
<1>6. PICK before \in Seq(OperationRow) :
        view.base = LiveOf(before) /\ before \o view.pending = rows
  BY <1>1 DEF Rotates
<1>7. view.base \in Seq(OperationRow) /\ view.pending \in Seq(OperationRow)
  BY <1>1 DEF Rotates, Rotation
<1>8. live \in Seq(OperationRow)
  BY <1>2, LiveOfTyped
<1> HIDE DEF rows, all, live
<1>9. Elements(live) \subseteq Elements(view.base) \cup Elements(view.pending)
  BY <1>6, <1>7, LiveOfJoined DEF live
<1>10. ToSet(view.base \o view.pending) = Elements(view.base) \cup Elements(view.pending)
  <2> DEFINE a == view.base
             b == view.pending
  <2> HIDE DEF a, b
  <2>1. a \in Seq(OperationRow) /\ b \in Seq(OperationRow)
    BY <1>7 DEF a, b
  <2>2. ToSet(a \o b) = Elements(a) \cup Elements(b)
    BY <2>1, JoinedElements
  <2> QED BY <2>2 DEF a, b
<1>11. ASSUME NEW pattern
       PROVE  ToSet(Answer(view, pattern)) = {e \in Elements(live) : Matches(pattern, e.prop)}
  <2>1. Answer(view, pattern) = Narrowed(live, pattern)
    BY <1>1, <1>2, RotationAnswers DEF live
  <2>2. Narrowed(live, pattern) \in Seq(OperationRow)
    BY <1>8, NarrowedTyped
  <2>3. Elements(Narrowed(live, pattern)) = {e \in Elements(live) : Matches(pattern, e.prop)}
    BY <1>8, NarrowedElements
  <2> QED BY <2>1, <2>2, <2>3, ContainsElement
<1>12. ASSUME NEW i \in 1..Len(all)
       PROVE  EventAt(view, Coordinate(all[i])) <=> Contains(live, all[i])
  <2>1. Contains(live, all[i]) <=> all[i] \in Elements(live)
    BY <1>8, ContainsElement
  <2>2. ASSUME all[i] \in Elements(live) PROVE EventAt(view, Coordinate(all[i]))
    <3>1. all[i] \in ToSet(view.base \o view.pending) /\ all[i].action = "assert"
      BY <1>5, <1>9, <1>10, <2>2
    <3>2. all[i].prop \in Prop
      BY <1>3, <1>12, RowTyped
    <3>3. Matches(all[i].prop, all[i].prop)
      BY <3>2, KeyMatches
    <3>4. all[i] \in ToSet(Answer(view, all[i].prop))
      BY <1>11, <2>2, <3>3
    <3> QED BY <3>1, <3>4 DEF EventAt
  <2>3. ASSUME EventAt(view, Coordinate(all[i])) PROVE all[i] \in Elements(live)
    <3>0. PICK candidate \in ToSet(view.base \o view.pending) :
            \E event \in ToSet(Answer(view, candidate.prop)) :
              Coordinate(event) = Coordinate(all[i])
      BY <2>3 DEF EventAt
    <3>1. PICK event \in ToSet(Answer(view, candidate.prop)) :
            Coordinate(event) = Coordinate(all[i])
      BY <3>0
    <3>2. event \in Elements(live)
      BY <1>11, <3>1
    <3>3. event \in Elements(all)
      BY <1>4, <1>5, <3>2
    <3>4. PICK j \in 1..Len(all) : all[j] = event
      BY <1>3, <3>3, ElementAt
    <3>5. i = j
      BY <1>3, <1>12, <3>1, <3>4, CoordinatesDiffer
    <3> QED BY <3>2, <3>4, <3>5
  <2> QED BY <2>1, <2>2, <2>3
<1>13. DOMAIN all = 1..Len(all)
  BY <1>3
<1> QED BY <1>2, <1>12, <1>13 DEF FoundIffLive, all

(* "The per-answer fold agrees with the from-scratch projection of the same *)
(* history", for every history, every pattern and every cap of the tail:    *)
(* the rotation never answers with anything but what was live at its        *)
(* version, and the tail stays within pending-fold-cap.                     *)
THEOREM ReadsNeverDiffer == SessionSpec => []ReadsAgree
<1>1. SessionCore => ReadsAgree
  <2> SUFFICES ASSUME SessionCore PROVE ReadsAgree
    OBVIOUS
  <2>1. view.version <= store.version /\ Len(view.pending) <= FoldCap
    BY DEF SessionCore, ViewOk
  <2> QED BY <2>1, ViewAnswersLive, FoundAreLive DEF ReadsAgree
<1> QED BY <1>1, SessionCoreHolds, PTL

(* The staged reads of a context that has not drifted are those after its   *)
(* commit.                                                                  *)
LEMMA StagedAgrees ==
  ASSUME SessionCore
  PROVE  StagedReadAgrees
<1> SUFFICES ASSUME Undrifted, NEW pattern \in Pattern
             PROVE  Answer(context.view, pattern) =
                      LiveMatching(Committed(store, context.ops), pattern)
  BY DEF StagedReadAgrees
<1> DEFINE future == Committed(store, context.ops)
<1>1. context.ops \in Seq(Op) /\ StoreOk(store)
  BY ContextTyped
<1>2. /\ future.rows = store.rows \o RowsOf(NextSequence(store), context.ops)
      /\ future.rows \in Seq(OperationRow) /\ future.fold = FoldOf(future.rows)
  BY <1>1, CommittedRows
<1> HIDE DEF future
<1>3. Rotates(context.view, future.rows)
  BY <1>2 DEF SessionCore, ContextOk, Undrifted
<1>4. Answer(context.view, pattern) = Narrowed(LiveOf(future.rows), pattern)
  BY <1>2, <1>3, RotationAnswers
<1>5. LiveOccurrences(future) = LiveOf(future.rows)
  BY <1>2, LiveOfStore
<1> QED BY <1>4, <1>5, LiveMatchingIs DEF future

-----------------------------------------------------------------------------
(* Receipts.                                                                *)

(* Where a commit puts its operations, and what was there before it.        *)
LEMMA CommittedAt ==
  ASSUME NEW st, StoreOk(st), NEW ops \in Seq(Op)
  PROVE  /\ Len(st.rows) \in Nat /\ Len(ops) \in Nat
         /\ Len(Committed(st, ops).rows) = Len(st.rows) + Len(ops)
         /\ \A i \in 1..Len(st.rows) :
              /\ i \in 1..Len(st.rows) + Len(ops)
              /\ Committed(st, ops).rows[i] = st.rows[i]
         /\ \A i \in 1..Len(ops) :
              /\ Len(st.rows) + i \in 1..Len(st.rows) + Len(ops)
              /\ Committed(st, ops).rows[Len(st.rows) + i] =
                   Row(NextSequence(st), i - 1, ops[i])
<1> DEFINE sequence == NextSequence(st)
           t == RowsOf(sequence, ops)
           rows == st.rows
           u == Committed(st, ops).rows
           n == Len(rows)
           m == Len(ops)
<1>1. sequence \in Nat \ {0} /\ t \in Seq(OperationRow) /\ u = rows \o t
  BY CommittedRows
<1>2. rows \in Seq(OperationRow)
  BY DEF StoreOk
<1>3. Len(t) = m /\ m \in Nat /\ \A i \in 1..m : t[i] = Row(sequence, i - 1, ops[i])
  <2> HIDE DEF sequence
  <2> QED BY <1>1, RowsOfTyped
<1> HIDE DEF sequence, t, rows, u, n, m
<1>4. /\ Len(u) = n + m /\ n \in Nat
      /\ \A i \in 1..n + m : u[i] = IF i <= n THEN rows[i] ELSE t[i - n]
  BY <1>1, <1>2, <1>3, Joined DEF n
<1>5. ASSUME NEW i \in 1..n PROVE i \in 1..n + m /\ u[i] = rows[i]
  <2>1. i \in 1..n + m /\ i <= n
    BY <1>3, <1>4
  <2> QED BY <1>4, <2>1
<1>6. ASSUME NEW i \in 1..m PROVE n + i \in 1..n + m /\ u[n + i] = Row(sequence, i - 1, ops[i])
  <2>1. n + i \in 1..n + m /\ ~(n + i <= n) /\ (n + i) - n = i
    BY <1>3, <1>4
  <2> QED BY <1>3, <1>4, <2>1
<1> QED BY <1>3, <1>4, <1>5, <1>6 DEF sequence, rows, u, n, m

(* A promised operation is found at its coordinate.                         *)
PromiseKept(rows, receipt) ==
  \E i \in DOMAIN rows :
    /\ Coordinate(rows[i]) = receipt.coordinate
    /\ [action |-> rows[i].action, prop |-> rows[i].prop] = receipt.op

(* A commit keeps what its builder promised.                                *)
LEMMA PromisesKept ==
  ASSUME NEW st, StoreOk(st), NEW ops \in Seq(Op),
         NEW receipt \in PromisedBy(NextSequence(st), ops)
  PROVE  PromiseKept(Committed(st, ops).rows, receipt)
<1> DEFINE u == Committed(st, ops).rows
           n == Len(st.rows)
           sequence == NextSequence(st)
<1>1. u \in Seq(OperationRow)
  BY CommittedRows
<1>2. DOMAIN ops = 1..Len(ops) /\ DOMAIN u = 1..Len(u)
  BY <1>1
<1>3. PICK i \in 1..Len(ops) : receipt = [coordinate |-> <<sequence, i - 1>>, op |-> ops[i]]
  BY <1>2 DEF PromisedBy
<1>4. /\ Len(u) = n + Len(ops) /\ n + i \in 1..n + Len(ops)
      /\ u[n + i] = Row(sequence, i - 1, ops[i])
  BY CommittedAt
<1>5. ops[i] \in Op
  BY <1>3
<1>6. ops[i] = [action |-> ops[i].action, prop |-> ops[i].prop]
  BY <1>5 DEF Op
<1> HIDE DEF u, n, sequence
<1>7. n + i \in DOMAIN u
  BY <1>2, <1>4
<1>8. Coordinate(u[n + i]) = receipt.coordinate
  BY <1>3, <1>4 DEF Coordinate, Row
<1>9. [action |-> u[n + i].action, prop |-> u[n + i].prop] = receipt.op
  BY <1>3, <1>4, <1>6 DEF Row
<1>10. PromiseKept(u, receipt)
  BY <1>7, <1>8, <1>9 DEF PromiseKept
<1> QED BY <1>10 DEF u

(* Every step keeps what was promised.                                      *)
LEMMA ReceiptsStep ==
  SessionCore /\ ReceiptsHold /\ [SessionNext]_sessionVars => ReceiptsHold'
<1> SUFFICES ASSUME SessionCore, ReceiptsHold, [SessionNext]_sessionVars PROVE ReceiptsHold'
  OBVIOUS
<1>1. StoreOk(store) /\ context.ops \in Seq(Op) /\ view \in Rotation /\ context.view \in Rotation
  BY ContextTyped
<1>2. \A receipt \in receipts : PromiseKept(store.rows, receipt)
  BY DEF ReceiptsHold, PromiseKept
<1>3. ASSUME \A receipt \in receipts' : PromiseKept(store'.rows, receipt) PROVE ReceiptsHold'
  <2> DEFINE now == store'
             promised == receipts'
  <2> HIDE DEF now, promised
  <2>1. \A receipt \in promised : \E i \in DOMAIN now.rows :
          /\ Coordinate(now.rows[i]) = receipt.coordinate
          /\ [action |-> now.rows[i].action, prop |-> now.rows[i].prop] = receipt.op
    BY <1>3 DEF PromiseKept, now, promised
  <2> QED BY <2>1 DEF ReceiptsHold, now, promised
<1>4. ASSUME NEW ops \in Seq(Op), CommitBoundary(ops),
             receipts' = PromisedBy(NextSequence(store), ops)
      PROVE  ReceiptsHold'
  <2>1. store' = Committed(store, ops)
    BY <1>4 DEF CommitBoundary
  <2>2. \A receipt \in PromisedBy(NextSequence(store), ops) :
          PromiseKept(Committed(store, ops).rows, receipt)
    BY <1>1, PromisesKept
  <2> QED BY <1>3, <1>4, <2>1, <2>2
<1>5. ASSUME UNCHANGED <<store, receipts>> PROVE ReceiptsHold'
  BY <1>5 DEF ReceiptsHold
<1>6. ASSUME NEW p \in Prop, StageAssert(p) \/ StageUpdate(p) PROVE ReceiptsHold'
  <2>1. UNCHANGED <<store, receipts>>
    BY <1>6 DEF StageAssert, StageUpdate, Stage
  <2> QED BY <1>5, <2>1
<1>7. ASSUME Reopen PROVE ReceiptsHold'
  BY <1>5, <1>7 DEF Reopen
<1>8. ASSUME CommitContext PROVE ReceiptsHold'
  <2>1. /\ CommitBoundary(context.ops)
        /\ receipts' = PromisedBy(NextSequence(store), context.ops)
    BY <1>8 DEF CommitContext
  <2> QED BY <1>1, <1>4, <2>1
<1>9. ASSUME NEW p \in Prop, AssertSingle(p) PROVE ReceiptsHold'
  <2>1. CompileSingle(view, p) \in Seq(Op)
    BY <1>1, CompiledOps
  <2>2. /\ CommitBoundary(CompileSingle(view, p))
        /\ receipts' = PromisedBy(NextSequence(store), CompileSingle(view, p))
    BY <1>9 DEF AssertSingle, CommitAndRefresh
  <2> QED BY <1>4, <2>1, <2>2
<1>10. ASSUME NEW actions \in Actions, Mutate(actions) PROVE ReceiptsHold'
  <2> DEFINE ops == [i \in DOMAIN actions |-> actions[i].op]
  <2>1. ops \in Seq(Op)
    BY ActionsTyped
  <2>2. CommitBoundary(ops) /\ receipts' = PromisedBy(NextSequence(store), ops)
    BY <1>10 DEF Mutate, CommitAndRefresh
  <2> QED BY <1>4, <2>1, <2>2
<1>11. ASSUME RefreshView \/ Reproject \/ UNCHANGED sessionVars PROVE ReceiptsHold'
  <2>1. UNCHANGED <<store, receipts>>
    BY <1>11 DEF RefreshView, Reproject, sessionVars
  <2> QED BY <1>5, <2>1
<1> QED BY <1>6, <1>7, <1>8, <1>9, <1>10, <1>11 DEF SessionNext

(* "A coordinate minted here can never name another transaction record":    *)
(* whoever commits in whatever order, what a builder promised before its    *)
(* commit is found at the promised coordinate, ever after.                  *)
THEOREM PromisesHold == SessionSpec => []ReceiptsHold
<1>1. SessionInit => ReceiptsHold
  BY DEF SessionInit, ReceiptsHold
<1>2. SessionCore /\ ReceiptsHold /\ [SessionNext]_sessionVars => ReceiptsHold'
  BY ReceiptsStep
<1> QED BY <1>1, <1>2, SessionCoreHolds, PTL DEF SessionSpec

-----------------------------------------------------------------------------
(* Single values.                                                           *)

(* The live values of a key.                                                *)
Valued(rows, key) == Narrowed(LiveOf(rows), KeyPattern(key))

(* They are operations of the key.                                          *)
LEMMA ValuedIs ==
  ASSUME NEW rows \in Seq(OperationRow), NEW p \in Prop
  PROVE  /\ Valued(rows, Key(p)) \in Seq(OperationRow)
         /\ \A e \in Elements(Valued(rows, Key(p))) : e.prop \in Prop /\ Key(e.prop) = Key(p)
<1> DEFINE v == LiveOf(rows)
           s == Valued(rows, Key(p))
<1>1. v \in Seq(OperationRow)
  BY LiveOfTyped
<1>2. s \in Seq(OperationRow)
  BY <1>1, NarrowedTyped DEF Valued
<1>3. Elements(s) = {e \in Elements(v) : Matches(KeyPattern(Key(p)), e.prop)}
  BY <1>1, NarrowedElements DEF Valued
<1> HIDE DEF s, v
<1>4. ASSUME NEW e \in Elements(s) PROVE e.prop \in Prop /\ Key(e.prop) = Key(p)
  <2>1. e \in OperationRow
    BY <1>2, ElementAt
  <2>2. e.prop \in Prop
    BY <2>1 DEF OperationRow
  <2> QED BY <1>3, <2>2, KeyMatches
<1> QED BY <1>2, <1>4 DEF s

(* Operations on other keys do not change what a key has.                   *)
LEMMA UntouchedStays ==
  ASSUME NEW rows \in Seq(OperationRow), NEW t \in Seq(OperationRow), NEW p \in Prop,
         \A i \in 1..Len(t) : Key(t[i].prop) # Key(p)
  PROVE  Valued(rows \o t, Key(p)) = Valued(rows, Key(p))
<1> DEFINE key == Key(p)
           Other(s) == \A i \in 1..Len(s) : Key(s[i].prop) # key
           P == {s \in Seq(OperationRow) : Other(s) => Valued(rows \o s, key) = Valued(rows, key)}
<1>1. <<>> \in P
  <2> DEFINE s == <<>>
  <2>1. s \in Seq(OperationRow) /\ Len(s) = 0
    OBVIOUS
  <2> HIDE DEF s, P
  <2>2. rows \o s = rows
    BY <2>1, JoinedEmpty
  <2> QED BY <2>1, <2>2 DEF s, P
<1>2. ASSUME NEW s \in P, NEW x \in OperationRow PROVE Append(s, x) \in P
  <2> DEFINE u == rows \o s
             v == Valued(u, key)
  <2>1. s \in Seq(OperationRow) /\ (Other(s) => v = Valued(rows, key))
    OBVIOUS
  <2>2. /\ Append(s, x) \in Seq(OperationRow) /\ Append(s, x)[Len(s) + 1] = x
        /\ \A i \in 1..Len(s) : Append(s, x)[i] = s[i] /\ i \in 1..Len(s) + 1
        /\ Len(Append(s, x)) = Len(s) + 1 /\ Len(s) + 1 \in 1..Len(s) + 1
    BY <2>1, Appended
  <2>3. rows \o Append(s, x) = Append(u, x) /\ u \in Seq(OperationRow)
    BY <2>1, JoinedAppend, Joined
  <2> HIDE DEF u, P
  <2> SUFFICES ASSUME Other(Append(s, x)) PROVE Valued(Append(u, x), key) = Valued(rows, key)
    BY <2>2, <2>3 DEF P
  <2>4. Other(s) /\ Key(x.prop) # key
    BY <2>2
  <2>5. Valued(Append(u, x), key) = Merge(v, x, KeyPattern(key))
    BY <2>3, MergeIsNext DEF Valued
  <2>6. v \in Seq(OperationRow) /\ \A e \in Elements(v) : Key(e.prop) = key
    BY <2>3, ValuedIs
  <2> HIDE DEF v, Other
  <2>7. WithoutNewest(v, x.prop) = v
    BY <2>4, <2>6, AbsentStays
  <2>8. ~Matches(KeyPattern(key), x.prop)
    <3>1. x.prop \in Prop
      BY DEF OperationRow
    <3> QED BY <2>4, <3>1, KeyMatches
  <2>9. Merge(v, x, KeyPattern(key)) = v
    BY <2>7, <2>8 DEF Merge
  <2> QED BY <2>1, <2>4, <2>5, <2>9
<1>3. P \in SUBSET Seq(OperationRow)
  OBVIOUS
<1>4. t \in P
  <2> HIDE DEF P
  <2> QED BY <1>1, <1>2, <1>3, SequenceInduction
<1>5. Other(t)
  OBVIOUS
<1> HIDE DEF Other
<1> QED BY <1>4, <1>5

(* A longer beginning of a sequence has one more element.                   *)
LEMMA FrontGrows ==
  ASSUME NEW E, NEW s \in Seq(E), NEW j \in 1..Len(s)
  PROVE  /\ SubSeq(s, 1, j - 1) \in Seq(E) /\ s[j] \in E
         /\ SubSeq(s, 1, j) = Append(SubSeq(s, 1, j - 1), s[j])
<1> DEFINE a == SubSeq(s, 1, j - 1)
           b == SubSeq(s, 1, j)
           c == Append(a, s[j])
<1>1. j \in Nat /\ j - 1 \in Nat /\ (j - 1) + 1 = j /\ s[j] \in E
  OBVIOUS
<1>2. a \in Seq(E) /\ Len(a) = j - 1 /\ \A i \in 1..j - 1 : a[i] = s[i]
  OBVIOUS
<1>3. b \in Seq(E) /\ Len(b) = j /\ \A i \in 1..j : b[i] = s[i]
  OBVIOUS
<1> HIDE DEF a, b
<1>4. /\ c \in Seq(E) /\ Len(c) = Len(a) + 1 /\ c[Len(a) + 1] = s[j]
      /\ \A i \in 1..Len(a) : c[i] = a[i]
  BY <1>1, <1>2, Appended
<1> HIDE DEF c
<1>5. Len(c) = j /\ c[j] = s[j] /\ \A i \in 1..j - 1 : c[i] = s[i]
  BY <1>1, <1>2, <1>4
<1>6. \A i \in 1..j : i = j \/ i \in 1..j - 1
  BY <1>1
<1>7. \A i \in 1..j : b[i] = c[i]
  BY <1>3, <1>5, <1>6
<1>8. b = c
  BY <1>3, <1>4, <1>5, <1>7
<1> QED BY <1>1, <1>2, <1>8 DEF a, b, c

(* Retracting what a key has, newest first, and asserting a value leaves    *)
(* that one.                                                                *)
LEMMA UpdateLeavesOne ==
  ASSUME NEW rows \in Seq(OperationRow), NEW t \in Seq(OperationRow), NEW p \in Prop,
         NEW s, s = Valued(rows, Key(p)), NEW n, n = Len(s), Len(t) = n + 1,
         \A i \in 1..n : t[i].action = "retract" /\ t[i].prop = s[n + 1 - i].prop,
         t[n + 1].action = "assert" /\ t[n + 1].prop = p
  PROVE  Len(Valued(rows \o t, Key(p))) = 1
<1> DEFINE pattern == KeyPattern(Key(p))
           front(j) == SubSeq(s, 1, j)
<1>1. s \in Seq(OperationRow) /\ n \in Nat
  BY ValuedIs
<1>2. Valued(rows \o t, Key(p)) = Merged(s, t, pattern)
  BY AnswersLive DEF Valued
<1>3. PICK f : Merges(f, s, t, pattern)
  BY <1>1, MergedIs
<1>4. /\ f[0] = s
      /\ \A i \in 1..n + 1 : f[i] = Merge(f[i - 1], t[i], pattern)
      /\ Merged(s, t, pattern) = f[n + 1]
  BY <1>3 DEF Merges
<1>5. ASSUME NEW j \in 1..n
      PROVE  front(j) = Append(front(j - 1), s[j]) /\ front(j - 1) \in Seq(OperationRow)
             /\ s[j] \in OperationRow
  BY <1>1, FrontGrows
<1>6. front(n) = s /\ front(0) = <<>>
  BY <1>1
<1> HIDE DEF front, pattern
<1> DEFINE S == {k \in Nat : k <= n => f[k] = front(n - k)}
<1>7. 0 \in S
  <2>1. n - 0 = n
    BY <1>1
  <2> QED BY <1>4, <1>6, <2>1
<1>8. ASSUME NEW k \in S PROVE k + 1 \in S
  <2> SUFFICES ASSUME k + 1 <= n PROVE f[k + 1] = front(n - (k + 1))
    OBVIOUS
  <2> DEFINE j == n - k
  <2>1. k \in Nat /\ k <= n /\ k + 1 \in 1..n /\ k + 1 \in 1..n + 1 /\ (k + 1) - 1 = k
        /\ j \in 1..n /\ n + 1 - (k + 1) = j /\ n - (k + 1) = j - 1
    BY <1>1
  <2>2. f[k] = front(j)
    BY <2>1
  <2> HIDE DEF j, S
  <2>3. f[k + 1] = Merge(f[k], t[k + 1], pattern)
    BY <1>4, <2>1
  <2>4. t[k + 1].action = "retract" /\ t[k + 1].prop = s[j].prop
    <3>1. t[k + 1].action = "retract" /\ t[k + 1].prop = s[n + 1 - (k + 1)].prop
      BY <2>1
    <3> QED BY <2>1, <3>1
  <2>5. f[k + 1] = WithoutNewest(Append(front(j - 1), s[j]), s[j].prop)
    <3>1. f[k + 1] = WithoutNewest(f[k], s[j].prop)
      BY <2>3, <2>4 DEF Merge
    <3>2. front(j) = Append(front(j - 1), s[j])
      BY <1>5, <2>1
    <3> QED BY <2>2, <3>1, <3>2
  <2>6. WithoutNewest(Append(front(j - 1), s[j]), s[j].prop) = front(j - 1)
    <3>1. front(j - 1) \in Seq(OperationRow) /\ s[j] \in OperationRow
      BY <1>5, <2>1
    <3> DEFINE w == front(j - 1)
               y == s[j]
    <3> HIDE DEF w, y
    <3>2. w \in Seq(OperationRow) /\ y \in OperationRow
      BY <3>1 DEF w, y
    <3>3. WithoutNewest(Append(w, y), y.prop) = w
      BY <3>2, AppendedGoes
    <3> QED BY <3>3 DEF w, y
  <2> QED BY <2>1, <2>5, <2>6
<1>9. f[n] = <<>>
  <2> HIDE DEF S
  <2>1. S \in SUBSET Nat
    BY DEF S
  <2>2. n \in S
    BY <1>1, <1>7, <1>8, <2>1, Induction
  <2>3. n <= n /\ n - n = 0
    BY <1>1
  <2> QED BY <1>6, <2>2, <2>3 DEF S
<1>10. f[n + 1] = Merge(<<>>, t[n + 1], pattern)
  <2>1. n + 1 \in 1..n + 1 /\ (n + 1) - 1 = n
    BY <1>1
  <2> QED BY <1>4, <1>9, <2>1
<1>11. Matches(pattern, t[n + 1].prop)
  BY KeyMatches DEF pattern
<1>12. f[n + 1] = Append(<<>>, t[n + 1])
  BY <1>10, <1>11 DEF Merge
<1>13. Len(f[n + 1]) = 1
  BY <1>12
<1> QED BY <1>2, <1>4, <1>13

(* The rows of a longer transaction begin with those of a shorter.          *)
LEMMA RowsOfJoined ==
  ASSUME NEW sequence \in Nat \ {0}, NEW a \in Seq(Op), NEW b \in Seq(Op)
  PROVE  \E t \in Seq(OperationRow) :
           /\ Len(t) = Len(b)
           /\ \A i \in 1..Len(b) : t[i].action = b[i].action /\ t[i].prop = b[i].prop
           /\ RowsOf(sequence, a \o b) = RowsOf(sequence, a) \o t
<1> DEFINE n == Len(a)
           m == Len(b)
           c == a \o b
           t == [i \in 1..m |-> Row(sequence, n + i - 1, b[i])]
           r == RowsOf(sequence, a)
           u == RowsOf(sequence, c)
           v == r \o t
<1>1. /\ c \in Seq(Op) /\ Len(c) = n + m /\ n \in Nat /\ m \in Nat
      /\ \A i \in 1..n + m : c[i] = IF i <= n THEN a[i] ELSE b[i - n]
  BY Joined
<1>2. \A i \in 1..m : b[i] \in Op
  OBVIOUS
<1> HIDE DEF c, n, m
<1>3. \A i \in 1..m : Row(sequence, n + i - 1, b[i]) \in OperationRow
  <2> SUFFICES ASSUME NEW i \in 1..m PROVE Row(sequence, n + i - 1, b[i]) \in OperationRow
    OBVIOUS
  <2>1. n + i - 1 \in Nat /\ b[i] \in Op
    BY <1>1, <1>2
  <2> QED BY <2>1 DEF Row, Op, OperationRow
<1>4. t \in Seq(OperationRow) /\ Len(t) = m /\ \A i \in 1..m : t[i] = Row(sequence, n + i - 1, b[i])
  BY <1>1, <1>3
<1> HIDE DEF t
<1>5. r \in Seq(OperationRow) /\ Len(r) = n /\ \A i \in 1..n : r[i] = Row(sequence, i - 1, a[i])
  BY RowsOfTyped DEF n
<1>6. /\ u \in Seq(OperationRow) /\ Len(u) = n + m
      /\ \A i \in 1..n + m : u[i] = Row(sequence, i - 1, c[i])
  <2>1. c \in Seq(Op) /\ Len(c) = n + m
    BY <1>1
  <2>2. /\ u \in Seq(OperationRow) /\ Len(u) = Len(c)
        /\ \A i \in 1..Len(c) : u[i] = Row(sequence, i - 1, c[i])
    BY <2>1, RowsOfTyped
  <2> HIDE DEF u
  <2> QED BY <2>1, <2>2
<1> HIDE DEF r, u
<1>7. /\ v \in Seq(OperationRow) /\ Len(v) = n + m
      /\ \A i \in 1..n + m : v[i] = IF i <= n THEN r[i] ELSE t[i - n]
  <2>1. /\ v \in Seq(OperationRow) /\ Len(v) = Len(r) + Len(t)
        /\ \A i \in 1..Len(r) + Len(t) : v[i] = IF i <= Len(r) THEN r[i] ELSE t[i - Len(r)]
    BY <1>4, <1>5, Joined
  <2> HIDE DEF v
  <2>2. Len(r) = n /\ Len(t) = m
    BY <1>4, <1>5
  <2> QED BY <2>1, <2>2
<1> HIDE DEF v
<1>8. ASSUME NEW i \in 1..n + m PROVE u[i] = v[i]
  <2>1. CASE i <= n
    <3>1. i \in 1..n
      BY <1>1, <2>1
    <3>2. u[i] = Row(sequence, i - 1, c[i]) /\ v[i] = r[i]
      BY <1>6, <1>7, <2>1
    <3>3. r[i] = Row(sequence, i - 1, a[i]) /\ c[i] = a[i]
      BY <1>1, <1>5, <2>1, <3>1
    <3> QED BY <3>2, <3>3
  <2>2. CASE ~(i <= n)
    <3>1. i - n \in 1..m /\ n + (i - n) - 1 = i - 1
      BY <1>1, <2>2
    <3>2. t[i - n] = Row(sequence, i - 1, b[i - n])
      BY <1>4, <3>1
    <3> QED BY <1>1, <1>6, <1>7, <2>2, <3>2
  <2> QED BY <2>1, <2>2
<1>9. u = v
  BY <1>6, <1>7, <1>8
<1>10. \A i \in 1..m : t[i].action = b[i].action /\ t[i].prop = b[i].prop
  BY <1>4 DEF Row
<1> QED BY <1>4, <1>9, <1>10 DEF u, v, r, c, m

(* The same, for the operations an update compiles, and for others.         *)
LEMMA CompiledLeavesOne ==
  ASSUME NEW rows \in Seq(OperationRow), NEW p \in Prop, NEW rotation \in Rotation,
         Answer(rotation, KeyPattern(Key(p))) = Valued(rows, Key(p)),
         NEW t \in Seq(OperationRow), Len(t) = Len(CompileSingle(rotation, p)),
         \A i \in 1..Len(CompileSingle(rotation, p)) :
            /\ t[i].action = CompileSingle(rotation, p)[i].action
            /\ t[i].prop = CompileSingle(rotation, p)[i].prop
  PROVE  /\ Len(Valued(rows \o t, Key(p))) = 1
         /\ \A i \in 1..Len(t) : Key(t[i].prop) = Key(p)
<1> DEFINE s == Valued(rows, Key(p))
           n == Len(s)
           ops == CompileSingle(rotation, p)
<1>1. /\ Len(ops) = n + 1 /\ n \in Nat /\ s \in Seq(OperationRow)
      /\ \A i \in 1..n : ops[i] = RetractOp(s[n + 1 - i].prop)
      /\ ops[n + 1] = AssertOp(p)
  <2>1. s = Answer(rotation, KeyPattern(Key(p))) /\ n = Len(s)
    OBVIOUS
  <2> HIDE DEF s, n, ops
  <2>2. CompilesTo(rotation, p, s)
    BY <2>1, CompiledOps
  <2> QED BY <2>1, <2>2 DEF ops, CompilesTo
<1>2. \A e \in Elements(s) : Key(e.prop) = Key(p)
  BY ValuedIs
<1>3. Len(t) = Len(ops) /\ \A i \in 1..Len(ops) : t[i].action = ops[i].action /\ t[i].prop = ops[i].prop
  OBVIOUS
<1> HIDE DEF s, n, ops
<1>4. ASSUME NEW i \in 1..n
      PROVE  t[i].action = "retract" /\ t[i].prop = s[n + 1 - i].prop
  <2>1. i \in 1..n + 1
    BY <1>1
  <2>2. ops[i] = RetractOp(s[n + 1 - i].prop)
    BY <1>1
  <2>3. t[i].action = ops[i].action /\ t[i].prop = ops[i].prop
    BY <1>1, <1>3, <2>1
  <2> QED BY <2>2, <2>3 DEF RetractOp
<1>5. t[n + 1].action = "assert" /\ t[n + 1].prop = p
  <2>1. n + 1 \in 1..n + 1
    BY <1>1
  <2> QED BY <1>1, <1>3, <2>1 DEF AssertOp
<1>6. Len(t) = n + 1
  BY <1>1, <1>3
<1>7. Len(Valued(rows \o t, Key(p))) = 1
  BY <1>4, <1>5, <1>6, UpdateLeavesOne DEF s, n
<1>8. ASSUME NEW i \in 1..Len(t) PROVE Key(t[i].prop) = Key(p)
  <2>1. CASE i \in 1..n
    <3>1. n + 1 - i \in 1..Len(s)
      BY <1>1, <2>1 DEF n
    <3>2. s[n + 1 - i] \in Elements(s)
      BY <1>1, <3>1, ElementAt
    <3> QED BY <1>2, <1>4, <2>1, <3>2
  <2>2. CASE ~(i \in 1..n)
    <3>1. i = n + 1
      BY <1>1, <1>6, <2>2
    <3> QED BY <1>5, <3>1
  <2> QED BY <2>1, <2>2
<1> QED BY <1>7, <1>8

(* A key with exactly one live value.                                       *)
HasOne(rows, key) == Len(Valued(rows, key)) = 1

(* The history that the commit of a context would leave.                    *)
Staging(st, c) == st.rows \o RowsOf(c.sequence, c.ops)

(* The inductive invariant of single values: a context keeps its own        *)
(* promises in the history its commit would leave.                          *)
SingleInv ==
  /\ single \subseteq Keys
  /\ \A key \in single : HasOne(store.rows, key)
  /\ Undrifted => \A key \in context.single : HasOne(Staging(store, context), key)

(* It implies the property.                                                 *)
LEMMA SingleInvSuffices ==
  ASSUME SessionCore, SingleInv
  PROVE  SingleValued
<1> DEFINE one(st, key) == Len(LiveMatching(st, <<key[1], key[2], Unbound>>)) = 1
           future == Committed(store, context.ops)
<1>1. StoreOk(store) /\ context.ops \in Seq(Op)
  BY ContextTyped
<1>2. ASSUME NEW st, NEW key, st.fold = FoldOf(st.rows), HasOne(st.rows, key) PROVE one(st, key)
  <2>1. LiveOccurrences(st) = LiveOf(st.rows)
    BY <1>2, LiveOfStore
  <2>2. LiveMatching(st, KeyPattern(key)) = Valued(st.rows, key)
    BY <2>1, LiveMatchingIs DEF Valued
  <2> QED BY <1>2, <2>2 DEF HasOne, KeyPattern
<1>3. store.fold = FoldOf(store.rows)
  BY <1>1 DEF StoreOk
<1>4. future.fold = FoldOf(future.rows)
      /\ future.rows = store.rows \o RowsOf(NextSequence(store), context.ops)
  BY <1>1, CommittedRows
<1> HIDE DEF one, future
<1>5. \A key \in single : one(store, key)
  BY <1>2, <1>3 DEF SingleInv
<1>6. ASSUME Undrifted PROVE \A key \in context.single : one(future, key)
  <2>1. Staging(store, context) = future.rows
    BY <1>4, <1>6 DEF Undrifted, Staging
  <2> QED BY <1>2, <1>4, <1>6, <2>1 DEF SingleInv
<1> QED BY <1>5, <1>6 DEF SingleValued, one, future

(* A commit leaves the keys it does not touch alone, and no context that it *)
(* drifts promises anything.                                                *)
LEMMA CommitLeavesSingle ==
  ASSUME SessionCore, SingleInv, NEW ops \in Seq(Op), CommitBoundary(ops)
  PROVE  /\ \A key \in single \ Touched(ops) : HasOne(store'.rows, key)
         /\ context.sequence # NextSequence(store')
         /\ store'.rows = store.rows \o RowsOf(NextSequence(store), ops)
<1> DEFINE t == RowsOf(NextSequence(store), ops)
           now == store'
<1>1. StoreOk(store) /\ store.rows \in Seq(OperationRow)
      /\ single \subseteq Keys /\ \A key \in single : HasOne(store.rows, key)
  BY ContextTyped DEF SingleInv
<1>2. now = Committed(store, ops) /\ now.version = store.version + 1
  BY CommitKeeps
<1>3. /\ NextSequence(store) \in Nat \ {0} /\ NextSequence(store) = store.version + 1
      /\ t \in Seq(OperationRow) /\ now.rows = store.rows \o t
  BY <1>1, <1>2, CommittedRows
<1>4. Len(t) = Len(ops) /\ \A i \in 1..Len(ops) : t[i].prop = ops[i].prop
  BY <1>3, RowsOfTyped
<1> HIDE DEF t, now
<1>5. ASSUME NEW key \in single \ Touched(ops) PROVE HasOne(now.rows, key)
  <2>1. PICK p \in Prop : key = Key(p)
    BY <1>1 DEF Keys
  <2>2. \A i \in 1..Len(t) : Key(t[i].prop) # Key(p)
    <3>1. DOMAIN ops = 1..Len(ops)
      OBVIOUS
    <3>2. \A i \in 1..Len(ops) : Key(ops[i].prop) \in Touched(ops)
      BY <3>1 DEF Touched
    <3> QED BY <1>4, <2>1, <3>2
  <2>3. Valued(store.rows \o t, Key(p)) = Valued(store.rows, Key(p))
    BY <1>1, <1>3, <2>2, UntouchedStays
  <2> QED BY <1>1, <1>3, <2>1, <2>3 DEF HasOne
<1>6. context.sequence # NextSequence(now)
  <2>1. context.sequence \in Nat /\ context.sequence <= store.version + 1
    BY <1>3, ContextTyped DEF SessionCore, ContextOk
  <2>2. NextSequence(now) = (store.version + 1) + 1 /\ store.version \in Nat
    BY <1>1, <1>2 DEF NextSequence, StoreOk
  <2> QED BY <2>1, <2>2
<1> QED BY <1>3, <1>5, <1>6 DEF now, t

(* An update leaves its own key with one value and every other key with     *)
(* what it had.                                                             *)
LEMMA UpdateKeeps ==
  ASSUME NEW rows \in Seq(OperationRow), NEW p \in Prop,
         NEW rotation, Rotates(rotation, rows),
         NEW t \in Seq(OperationRow), Len(t) = Len(CompileSingle(rotation, p)),
         \A i \in 1..Len(CompileSingle(rotation, p)) :
            /\ t[i].action = CompileSingle(rotation, p)[i].action
            /\ t[i].prop = CompileSingle(rotation, p)[i].prop
  PROVE  /\ HasOne(rows \o t, Key(p))
         /\ \A key \in Keys : HasOne(rows, key) => HasOne(rows \o t, key)
<1>1. rotation \in Rotation /\ Answer(rotation, KeyPattern(Key(p))) = Valued(rows, Key(p))
  BY RotationAnswers DEF Rotates, Valued
<1>2. HasOne(rows \o t, Key(p)) /\ \A i \in 1..Len(t) : Key(t[i].prop) = Key(p)
  BY <1>1, CompiledLeavesOne DEF HasOne
<1>3. ASSUME NEW key \in Keys, HasOne(rows, key) PROVE HasOne(rows \o t, key)
  <2>1. PICK q \in Prop : key = Key(q)
    BY DEF Keys
  <2>2. CASE Key(q) = Key(p)
    BY <1>2, <2>1, <2>2
  <2>3. CASE Key(q) # Key(p)
    <3>1. \A i \in 1..Len(t) : Key(t[i].prop) # Key(q)
      BY <1>2, <2>3
    <3>2. Valued(rows \o t, Key(q)) = Valued(rows, Key(q))
      BY <3>1, UntouchedStays
    <3> QED BY <1>3, <2>1, <3>2 DEF HasOne
  <2> QED BY <2>2, <2>3
<1> QED BY <1>2, <1>3

(* What a context stages is appended to what its commit would leave.        *)
LEMMA StagingGrows ==
  ASSUME SessionCore, NEW ops \in Seq(Op)
  PROVE  /\ Staging(store, context) \in Seq(OperationRow)
         /\ \E t \in Seq(OperationRow) :
              /\ Len(t) = Len(ops)
              /\ \A i \in 1..Len(ops) : t[i].action = ops[i].action /\ t[i].prop = ops[i].prop
              /\ \A c : (c.sequence = context.sequence /\ c.ops = context.ops \o ops)
                          => Staging(store, c) = Staging(store, context) \o t
<1> DEFINE r == store.rows
           a == RowsOf(context.sequence, context.ops)
           b == RowsOf(context.sequence, context.ops \o ops)
<1>1. /\ context.ops \in Seq(Op) /\ context.sequence \in Nat \ {0} /\ r \in Seq(OperationRow)
  BY ContextTyped
<1>2. a \in Seq(OperationRow)
  BY <1>1, RowsOfTyped
<1>3. PICK t \in Seq(OperationRow) :
        /\ Len(t) = Len(ops)
        /\ \A i \in 1..Len(ops) : t[i].action = ops[i].action /\ t[i].prop = ops[i].prop
        /\ b = a \o t
  BY <1>1, RowsOfJoined
<1> HIDE DEF r, a, b
<1>4. r \o a \in Seq(OperationRow) /\ r \o (a \o t) = (r \o a) \o t
  BY <1>1, <1>2
<1>5. Staging(store, context) = r \o a
  BY DEF Staging, r, a
<1>6. ASSUME NEW c, c.sequence = context.sequence, c.ops = context.ops \o ops
      PROVE  Staging(store, c) = r \o b
  BY <1>6 DEF Staging, r, b
<1> QED BY <1>3, <1>4, <1>5, <1>6

(* A staged operation keeps the promises of the context.                    *)
LEMMA StageLeavesSingle ==
  ASSUME SessionCore, SingleInv,
         NEW p \in Prop, StageAssert(p) \/ StageUpdate(p)
  PROVE  SingleInv'
<1> DEFINE staged == Staging(store, context)
           later == Staging(store, context')
           keys == context'.single
<1>1. \A key \in context.single : key \in Keys
  BY ContextTyped
<1>2. SingleInv' <=>
        /\ single' \subseteq Keys
        /\ \A key \in single' : HasOne(store'.rows, key)
        /\ Undrifted' => \A key \in keys : HasOne(Staging(store', context'), key)
  BY DEF SingleInv, HasOne, Staging, Valued
<1>3. ASSUME NEW ops \in Seq(Op), NEW S \in SUBSET Keys, Stage(ops, S),
             Undrifted =>
               \A t \in Seq(OperationRow) :
                 /\ Len(t) = Len(ops)
                 /\ \A i \in 1..Len(ops) : t[i].action = ops[i].action /\ t[i].prop = ops[i].prop
                 => \A key \in S : HasOne(staged \o t, key)
      PROVE  SingleInv'
  <2>1. /\ store' = store /\ single' = single
        /\ context'.sequence = context.sequence /\ context'.ops = context.ops \o ops
        /\ keys = S
    BY <1>3, StageKeeps
  <2>2. PICK t \in Seq(OperationRow) :
          /\ Len(t) = Len(ops)
          /\ \A i \in 1..Len(ops) : t[i].action = ops[i].action /\ t[i].prop = ops[i].prop
          /\ later = staged \o t
    BY <2>1, StagingGrows
  <2>3. Undrifted' <=> Undrifted
    BY <2>1 DEF Undrifted, NextSequence
  <2>4. Undrifted => \A key \in S : HasOne(staged \o t, key)
    BY <1>3, <2>2
  <2> HIDE DEF staged, later, keys
  <2>5. Staging(store', context') = later
    BY <2>1 DEF later
  <2> QED BY <1>2, <2>1, <2>2, <2>3, <2>4, <2>5 DEF SingleInv
<1>4. staged \in Seq(OperationRow)
  <2>1. context.ops \in Seq(Op)
    BY ContextTyped
  <2> QED BY <2>1, StagingGrows
<1>5. Undrifted => Rotates(context.view, staged)
  BY DEF SessionCore, ContextOk, Undrifted, Staging
<1>6. Undrifted => \A key \in context.single : HasOne(staged, key)
  BY DEF SingleInv
<1>7. CASE StageAssert(p)
  <2> DEFINE ops == <<AssertOp(p)>>
             S == context.single \ {Key(p)}
  <2>1. ops \in Seq(Op) /\ Len(ops) = 1 /\ ops[1].prop = p
    <3>1. AssertOp(p) \in Op /\ AssertOp(p).prop = p
      BY DEF AssertOp, Op, Action
    <3> QED BY <3>1
  <2>2. Stage(ops, S) /\ S \in SUBSET Keys
    BY <1>1, <1>7 DEF StageAssert
  <2>3. ASSUME Undrifted, NEW t \in Seq(OperationRow), Len(t) = Len(ops),
               \A i \in 1..Len(ops) : t[i].action = ops[i].action /\ t[i].prop = ops[i].prop,
               NEW key \in S
        PROVE  HasOne(staged \o t, key)
    <3>1. PICK q \in Prop : key = Key(q)
      BY <2>2 DEF Keys
    <3>2. \A i \in 1..Len(t) : Key(t[i].prop) # Key(q)
      <4> HIDE DEF ops
      <4>1. Len(t) = 1 /\ t[1].prop = p
        BY <2>1, <2>3
      <4>2. Key(p) # Key(q)
        BY <2>3, <3>1
      <4> QED BY <4>1, <4>2
    <3> HIDE DEF staged
    <3>3. Valued(staged \o t, Key(q)) = Valued(staged, Key(q))
      BY <1>4, <3>2, UntouchedStays
    <3>4. HasOne(staged, key)
      BY <1>6, <2>3
    <3> QED BY <3>1, <3>3, <3>4 DEF HasOne
  <2> HIDE DEF ops, S, staged
  <2> QED BY <1>3, <2>1, <2>2, <2>3
<1>8. CASE StageUpdate(p)
  <2> DEFINE ops == CompileSingle(context.view, p)
             S == context.single \cup {Key(p)}
  <2>1. ops \in Seq(Op)
    BY CompiledOps, ContextTyped
  <2>2. Stage(ops, S) /\ S \in SUBSET Keys
    BY <1>1, <1>8 DEF StageUpdate, Keys
  <2>3. ASSUME Undrifted, NEW t \in Seq(OperationRow), Len(t) = Len(ops),
               \A i \in 1..Len(ops) : t[i].action = ops[i].action /\ t[i].prop = ops[i].prop,
               NEW key \in S
        PROVE  HasOne(staged \o t, key)
    <3> HIDE DEF staged
    <3>1. /\ HasOne(staged \o t, Key(p))
          /\ \A k \in Keys : HasOne(staged, k) => HasOne(staged \o t, k)
      BY <1>4, <1>5, <2>3, UpdateKeeps
    <3> QED BY <1>1, <1>6, <2>3, <3>1
  <2> HIDE DEF ops, S, staged
  <2> QED BY <1>3, <2>1, <2>2, <2>3
<1> QED BY <1>7, <1>8

(* Every step of the session keeps them, whoever commits.                   *)
LEMMA SingleInvStep ==
  SessionCore /\ SingleInv /\ [SessionNext]_sessionVars => SingleInv'
<1> SUFFICES ASSUME SessionCore, SingleInv, [SessionNext]_sessionVars PROVE SingleInv'
  OBVIOUS
<1>1. /\ context.ops \in Seq(Op) /\ context.single \subseteq Keys
      /\ view \in Rotation /\ StoreOk(store) /\ store.rows \in Seq(OperationRow)
  BY ContextTyped
<1>2. single \subseteq Keys /\ \A key \in single : HasOne(store.rows, key)
  BY DEF SingleInv
<1>3. SingleInv' <=>
        /\ single' \subseteq Keys
        /\ \A key \in single' : HasOne(store'.rows, key)
        /\ Undrifted' => \A key \in context'.single : HasOne(Staging(store', context'), key)
  BY DEF SingleInv, HasOne, Staging, Valued
<1>4. Undrifted' <=> context'.sequence = NextSequence(store')
  BY DEF Undrifted, NextSequence
<1>5. ASSUME NEW p \in Prop, StageAssert(p) \/ StageUpdate(p) PROVE SingleInv'
  BY <1>5, StageLeavesSingle
<1>6. ASSUME Reopen PROVE SingleInv'
  <2>1. context' = OpenedOn(store) /\ store' = store /\ single' = single
    BY <1>6 DEF Reopen
  <2>2. context'.single = {}
    BY <1>1, <2>1, OpenedOk
  <2> QED BY <1>2, <1>3, <2>1, <2>2
<1>7. ASSUME CommitContext PROVE SingleInv'
  <2> DEFINE ops == context.ops
  <2>1. /\ Undrifted /\ CommitBoundary(ops) /\ context' = OpenedOn(store')
        /\ single' = (single \ Touched(ops)) \cup context.single
    BY <1>7 DEF CommitContext, Undrifted
  <2>2. /\ \A key \in single \ Touched(ops) : HasOne(store'.rows, key)
        /\ store'.rows = store.rows \o RowsOf(NextSequence(store), ops)
    BY <1>1, <2>1, CommitLeavesSingle
  <2>3. \A key \in context.single : HasOne(store'.rows, key)
    <3>1. store'.rows = Staging(store, context)
      BY <2>1, <2>2 DEF Staging, Undrifted
    <3>2. \A key \in context.single : HasOne(Staging(store, context), key)
      BY <2>1 DEF SingleInv
    <3> QED BY <3>1, <3>2
  <2>4. context'.single = {}
    <3>1. StoreOk(store')
      BY <1>1, <2>1, CommitKeeps
    <3>2. StoreOk(store') => OpenedOn(store').single = {}
      BY DEF OpenedOn
    <3> QED BY <2>1, <3>1, <3>2
  <2> HIDE DEF ops
  <2>5. single' \subseteq Keys /\ \A key \in single' : HasOne(store'.rows, key)
    BY <1>1, <1>2, <2>1, <2>2, <2>3
  <2> QED BY <1>3, <2>4, <2>5
<1>8. ASSUME NEW p \in Prop, AssertSingle(p) PROVE SingleInv'
  <2> DEFINE ops == CompileSingle(view, p)
             t == RowsOf(NextSequence(store), ops)
             now == store'
  <2>1. ops \in Seq(Op)
    BY <1>1, CompiledOps
  <2>2. /\ Pinned /\ CommitBoundary(ops) /\ context' = context
        /\ single' = single \cup {Key(p)}
    BY <1>8 DEF AssertSingle, CommitAndRefresh
  <2>3. now.rows = store.rows \o t /\ context.sequence # NextSequence(now)
    BY <2>1, <2>2, CommitLeavesSingle
  <2>4. /\ t \in Seq(OperationRow) /\ Len(t) = Len(ops)
        /\ \A i \in 1..Len(ops) : t[i].action = ops[i].action /\ t[i].prop = ops[i].prop
    <3>1. NextSequence(store) \in Nat \ {0}
      BY <1>1, CommittedRows
    <3> HIDE DEF ops
    <3> QED BY <2>1, <3>1, RowsOfTyped
  <2>5. Rotates(view, store.rows)
    <3>1. view.version = store.version /\ ViewOk(store, view)
      BY <2>2 DEF Pinned, SessionCore
    <3> QED BY <1>1, <3>1, NowIsAll DEF ViewOk
  <2> HIDE DEF t, now
  <2>6. /\ HasOne(now.rows, Key(p))
        /\ \A key \in Keys : HasOne(store.rows, key) => HasOne(now.rows, key)
    BY <1>1, <2>3, <2>4, <2>5, UpdateKeeps
  <2>7. Key(p) \in Keys
    BY DEF Keys
  <2>8. single' \subseteq Keys /\ \A key \in single' : HasOne(now.rows, key)
    BY <1>2, <2>2, <2>6, <2>7
  <2> QED BY <1>3, <1>4, <2>2, <2>3, <2>8 DEF now
<1>9. ASSUME NEW actions \in Actions, Mutate(actions) PROVE SingleInv'
  <2> DEFINE ops == [i \in DOMAIN actions |-> actions[i].op]
  <2>1. ops \in Seq(Op)
    BY ActionsTyped
  <2>2. CommitBoundary(ops) /\ context' = context /\ single' = single \ Touched(ops)
    BY <1>9 DEF Mutate, CommitAndRefresh
  <2> HIDE DEF ops
  <2>3. /\ \A key \in single \ Touched(ops) : HasOne(store'.rows, key)
        /\ context.sequence # NextSequence(store')
    BY <2>1, <2>2, CommitLeavesSingle
  <2> QED BY <1>2, <1>3, <1>4, <2>2, <2>3
<1>10. ASSUME RefreshView \/ Reproject \/ UNCHANGED sessionVars PROVE SingleInv'
  <2>1. store' = store /\ context' = context /\ single' = single
    BY <1>10 DEF RefreshView, Reproject, sessionVars
  <2> QED BY <2>1 DEF SingleInv, Undrifted
<1> QED BY <1>5, <1>6, <1>7, <1>8, <1>9, <1>10 DEF SessionNext

(* "A staged read cannot disagree with its own commit": while its commit    *)
(* would succeed, a context reads what the store will answer after it; and  *)
(* a key whose last write was an update-single! has exactly one value,      *)
(* however many it had, in the store and in what a context would commit.    *)
THEOREM StagedReadsAgree == SessionSpec => []StagingAgrees
<1>1. SessionInit => SingleInv
  <2> SUFFICES ASSUME SessionInit PROVE SingleInv
    OBVIOUS
  <2>1. single = {} /\ context.single = {}
    BY DEF SessionInit, OpenedOn
  <2> QED BY <2>1 DEF SingleInv
<1>2. SessionCore /\ SingleInv /\ [SessionNext]_sessionVars => SingleInv'
  BY SingleInvStep
<1>3. SessionCore /\ SingleInv => StagingAgrees
  BY StagedAgrees, SingleInvSuffices DEF StagingAgrees
<1> QED BY <1>1, <1>2, <1>3, SessionCoreHolds, PTL DEF SessionSpec

(* The propositions of operations, in their order.                          *)
Props(s) == [i \in DOMAIN s |-> s[i].prop]

(* The propositions of a longer list of operations.                         *)
LEMMA PropsAppend ==
  ASSUME NEW s \in Seq(OperationRow), NEW x \in OperationRow
  PROVE  Props(s) \in Seq(Prop) /\ Props(Append(s, x)) = Append(Props(s), x.prop)
<1> DEFINE n == Len(s)
           u == Append(s, x)
           a == Props(s)
           b == Props(u)
           c == Append(a, x.prop)
<1>1. /\ u \in Seq(OperationRow) /\ Len(u) = n + 1 /\ n \in Nat /\ u[n + 1] = x
      /\ \A i \in 1..n : u[i] = s[i]
      /\ \A i \in 1..n + 1 : i = n + 1 \/ i \in 1..n
      /\ ~(n + 1 \in 1..n) /\ DOMAIN s = 1..n
  BY Appended
<1>2. x.prop \in Prop
  BY DEF OperationRow
<1>3. \A i \in 1..n : s[i].prop \in Prop
  BY RowTyped
<1> HIDE DEF u
<1>4. DOMAIN u = 1..n + 1
  BY <1>1
<1> HIDE DEF n
<1>5. a \in Seq(Prop) /\ Len(a) = n /\ \A i \in 1..n : a[i] = s[i].prop
  BY <1>1, <1>3 DEF Props
<1>6. b = [i \in 1..n + 1 |-> u[i].prop]
  BY <1>4 DEF Props
<1> HIDE DEF a, b
<1>7. c \in Seq(Prop) /\ Len(c) = n + 1 /\ c[n + 1] = x.prop /\ \A i \in 1..n : c[i] = a[i]
  BY <1>1, <1>2, <1>5
<1> HIDE DEF c
<1>8. ASSUME NEW i \in 1..n + 1 PROVE c[i] = u[i].prop
  BY <1>1, <1>5, <1>7
<1>9. c = [i \in 1..n + 1 |-> c[i]]
  BY <1>1, <1>7
<1>10. b = c
  BY <1>6, <1>8, <1>9
<1> QED BY <1>5, <1>10 DEF a, b, c, u

(* Removing the newest equal proposition from the simulated ones follows    *)
(* the removal of the newest equal occurrence from the live ones.           *)
LEMMA PropsWithout ==
  ASSUME NEW s \in Seq(OperationRow), NEW p
  PROVE  Props(WithoutNewest(s, p)) = RemoveLastEqual(Props(s), p)
<1> DEFINE n == Len(s)
           a == Props(s)
           I == {i \in 1..n : s[i].prop = p}
<1>1. n \in Nat /\ DOMAIN s = 1..n /\ \A i \in 1..n : s[i].prop \in Prop
  BY RowTyped
<1>2. a \in Seq(Prop) /\ Len(a) = n /\ \A i \in 1..n : a[i] = s[i].prop
  BY <1>1 DEF Props
<1> HIDE DEF a
<1>3. CASE I = {}
  <2>1. \A i \in 1..n : s[i].prop # p
    BY <1>3
  <2>2. WithoutNewest(s, p) = s
    BY <2>1, NoneGoes
  <2>3. RemoveLastEqual(a, p) = a
    BY <1>2, <2>1, NoEqualGoes
  <2> QED BY <2>2, <2>3 DEF a
<1>4. CASE I # {}
  <2>1. PICK m \in I : \A i \in I : i <= m
    <3>1. I \in SUBSET (1..Len(s)) /\ Len(s) \in Nat
      OBVIOUS
    <3> HIDE DEF I
    <3> QED BY <1>4, <3>1, SomeIsNewest
  <2>2. m \in 1..n /\ s[m].prop = p /\ \A i \in 1..n : s[i].prop = p => i <= m
    BY <2>1
  <2> DEFINE u == RemoveAt(s, m)
             v == RemoveAt(a, m)
             w == Props(u)
  <2>3. /\ WithoutNewest(s, p) = u
        /\ u \in Seq(OperationRow) /\ Len(u) = n - 1
        /\ \A i \in 1..n - 1 : u[i] = IF i < m THEN s[i] ELSE s[i + 1]
    BY <2>2, NewestGoes, RemovedAt
  <2> HIDE DEF n, I, u
  <2>4. m \in 1..Len(a) /\ a[m] = p /\ \A i \in 1..Len(a) : a[i] = p => i <= m
    BY <1>2, <2>2
  <2>5. RemoveLastEqual(a, p) = v
    BY <1>2, <2>4, LastEqualGoes
  <2>6. v \in Seq(Prop) /\ Len(v) = Len(a) - 1
        /\ \A i \in 1..Len(a) - 1 : v[i] = IF i < m THEN a[i] ELSE a[i + 1]
    BY <1>2, <2>4, RemovedAt
  <2> HIDE DEF v
  <2>7. n - 1 \in Nat /\ \A i \in 1..n - 1 : i \in 1..n /\ i + 1 \in 1..n
    BY <1>1, <2>2
  <2>8. DOMAIN u = 1..n - 1 /\ DOMAIN v = 1..n - 1
    BY <1>2, <2>3, <2>6, <2>7
  <2>9. \A i \in 1..n - 1 : v[i] = u[i].prop
    BY <1>2, <2>3, <2>6, <2>7
  <2>10. w = [i \in 1..n - 1 |-> u[i].prop] /\ v = [i \in 1..n - 1 |-> v[i]]
    BY <2>6, <2>8 DEF Props
  <2>11. w = v
    BY <2>9, <2>10
  <2> QED BY <2>3, <2>5, <2>11 DEF a
<1> QED BY <1>3, <1>4

(* Folding more rows never changes what an earlier retraction withdrew.     *)
LEMMA TargetsStay ==
  ASSUME NEW rows \in Seq(OperationRow), NEW t \in Seq(OperationRow)
  PROVE  \A i \in 1..Len(rows) : FoldOf(rows \o t).targets[i] = FoldOf(rows).targets[i]
<1> DEFINE Stay(s) == \A i \in 1..Len(rows) : FoldOf(rows \o s).targets[i] = FoldOf(rows).targets[i]
           P == {s \in Seq(OperationRow) : Stay(s)}
<1>1. <<>> \in P
  <2> DEFINE s == <<>>
  <2>1. s \in Seq(OperationRow) /\ Len(s) = 0
    OBVIOUS
  <2> HIDE DEF s, P
  <2>2. rows \o s = rows
    BY <2>1, JoinedEmpty
  <2> QED BY <2>1, <2>2 DEF s, P
<1>2. ASSUME NEW s \in P, NEW x \in OperationRow PROVE Append(s, x) \in P
  <2> DEFINE u == rows \o s
             f == FoldOf(u)
             g == ApplyOperation(f, x, Len(u) + 1)
  <2>1. s \in Seq(OperationRow) /\ Stay(s)
    OBVIOUS
  <2>2. u \in Seq(OperationRow) /\ Len(u) = Len(rows) + Len(s) /\ Len(rows) \in Nat /\ Len(s) \in Nat
        /\ rows \o Append(s, x) = Append(u, x) /\ Append(s, x) \in Seq(OperationRow)
    BY <2>1, Joined, JoinedAppend, Appended
  <2> HIDE DEF u, P
  <2>3. FoldOf(Append(u, x)) = g
    BY <2>2, FoldOfAppend
  <2>4. f \in FoldType /\ Len(f.targets) = Len(u)
    BY <2>2, FoldOfExact DEF FoldIsExact
  <2> HIDE DEF f
  <2>5. \A i \in 1..Len(u) : g.targets[i] = f.targets[i]
    <3>1. f.targets \in Seq(Nat) /\ f.active \in [Prop -> Seq(Nat \ {0})]
      BY <2>4 DEF FoldType
    <3>2. PICK y : g.targets = Append(f.targets, y)
      BY DEF ApplyOperation, FoldAssert, FoldRetract
    <3> QED BY <2>4, <3>1, <3>2
  <2>6. \A i \in 1..Len(rows) : i \in 1..Len(u)
    BY <2>2
  <2> HIDE DEF g
  <2>7. \A i \in 1..Len(rows) : f.targets[i] = FoldOf(rows).targets[i]
    BY <2>1 DEF f, u
  <2> QED BY <2>2, <2>3, <2>5, <2>6, <2>7 DEF P
<1>3. P \in SUBSET Seq(OperationRow)
  OBVIOUS
<1>4. t \in P
  <2> HIDE DEF P
  <2> QED BY <1>1, <1>2, <1>3, SequenceInduction
<1> QED BY <1>4

(* A sequence is its beginning and its rest.                                *)
LEMMA Cut ==
  ASSUME NEW E, NEW u \in Seq(E), NEW j \in 0..Len(u)
  PROVE  /\ SubSeq(u, 1, j) \in Seq(E) /\ Len(SubSeq(u, 1, j)) = j
         /\ \A i \in 1..j : SubSeq(u, 1, j)[i] = u[i]
         /\ SubSeq(u, j + 1, Len(u)) \in Seq(E)
         /\ u = SubSeq(u, 1, j) \o SubSeq(u, j + 1, Len(u))
<1> DEFINE n == Len(u)
           a == SubSeq(u, 1, j)
           b == SubSeq(u, j + 1, n)
           c == a \o b
<1>1. n \in Nat /\ j \in Nat /\ j <= n
  OBVIOUS
<1>2. a \in Seq(E) /\ Len(a) = j /\ \A i \in 1..j : a[i] = u[i]
  OBVIOUS
<1>3. b \in Seq(E) /\ Len(b) = n - j /\ \A i \in 1..n - j : b[i] = u[j + i]
  OBVIOUS
<1> HIDE DEF a, b
<1>4. c \in Seq(E) /\ Len(c) = Len(a) + Len(b)
      /\ \A i \in 1..Len(a) + Len(b) : c[i] = IF i <= Len(a) THEN a[i] ELSE b[i - Len(a)]
  BY <1>2, <1>3, Joined
<1> HIDE DEF c
<1>5. Len(c) = n /\ \A i \in 1..n : c[i] = IF i <= j THEN a[i] ELSE b[i - j]
  BY <1>1, <1>2, <1>3, <1>4
<1> HIDE DEF n
<1>6. ASSUME NEW i \in 1..n PROVE c[i] = u[i]
  <2>1. CASE i <= j
    BY <1>1, <1>2, <1>5, <2>1
  <2>2. CASE ~(i <= j)
    <3>1. i - j \in 1..n - j /\ j + (i - j) = i
      BY <1>1, <2>2
    <3>2. b[i - j] = u[j + (i - j)]
      BY <1>3, <3>1
    <3> QED BY <1>5, <2>2, <3>1, <3>2
  <2> QED BY <2>1, <2>2
<1>7. c = u
  BY <1>4, <1>5, <1>6 DEF n
<1> QED BY <1>2, <1>3, <1>7 DEF a, b, c, n

(* A proposition with a live occurrence.                                    *)
Holds(rows, p) == \E e \in Elements(LiveOf(rows)) : e.prop = p

(* What is live before an operation is what nothing had withdrawn then.     *)
LEMMA HeldBefore ==
  ASSUME NEW u \in Seq(OperationRow), NEW j \in 1..Len(u), NEW p \in Prop
  PROVE  Holds(SubSeq(u, 1, j - 1), p) <=> Unwithdrawn(u, FoldOf(u), p, j - 1) # {}
<1> DEFINE n == j - 1
           r == SubSeq(u, 1, n)
           f == FoldOf(r)
           g == FoldOf(u)
           K == LivePositions(r)
<1>1. n \in Nat /\ n \in 0..Len(u) /\ \A i \in 1..n : i \in 1..n
  OBVIOUS
<1> HIDE DEF n
<1>2. /\ r \in Seq(OperationRow) /\ Len(r) = n /\ \A i \in 1..n : r[i] = u[i]
      /\ \A i \in 1..n : g.targets[i] = f.targets[i]
  <2> DEFINE b == SubSeq(u, n + 1, Len(u))
  <2>1. /\ r \in Seq(OperationRow) /\ Len(r) = n /\ \A i \in 1..n : r[i] = u[i]
        /\ b \in Seq(OperationRow) /\ u = r \o b
    BY <1>1, Cut
  <2> HIDE DEF r, b
  <2>2. \A i \in 1..Len(r) : FoldOf(r \o b).targets[i] = FoldOf(r).targets[i]
    BY <2>1, TargetsStay
  <2> QED BY <2>1, <2>2
<1> HIDE DEF r
<1>3. f \in FoldType /\ Len(f.targets) = n /\ BucketsExact(r, f)
  BY <1>2, FoldOfExact DEF FoldIsExact
<1>4. /\ K \subseteq 1..n
      /\ \A i \in 1..n : i \in K <=> i \in Elements(f.active[r[i].prop])
      /\ \A i \in Elements(f.active[p]) : i \in 1..n /\ r[i].prop = p /\ r[i].action = "assert"
  BY <1>2, LiveInBucket
<1> HIDE DEF f, g, K
<1>5. Elements(f.active[p]) = Unwithdrawn(r, f, p, n)
  BY <1>3 DEF BucketsExact
<1>6. Unwithdrawn(r, f, p, n) = Unwithdrawn(u, g, p, n)
  BY <1>2 DEF Unwithdrawn, Assertions
<1>7. Elements(LiveOf(r)) = {r[i] : i \in {k \in 1..n : k \in K}}
  <2>1. Elements(Sift(r, K)) = {r[i] : i \in {k \in 1..Len(r) : k \in K}}
    BY <1>2, SiftElements
  <2> QED BY <1>2, <2>1 DEF LiveOf, K
<1>8. Holds(r, p) <=> Elements(f.active[p]) # {}
  <2>1. ASSUME Holds(r, p) PROVE Elements(f.active[p]) # {}
    <3>1. PICK e \in Elements(LiveOf(r)) : e.prop = p
      BY <2>1 DEF Holds
    <3>2. PICK i \in 1..n : i \in K /\ r[i] = e
      BY <1>7, <3>1
    <3> QED BY <1>4, <3>1, <3>2
  <2>2. ASSUME Elements(f.active[p]) # {} PROVE Holds(r, p)
    <3>1. PICK i \in Elements(f.active[p]) : TRUE
      BY <2>2
    <3>2. i \in 1..n /\ r[i].prop = p /\ i \in K
      BY <1>4, <3>1
    <3>3. r[i] \in Elements(LiveOf(r))
      BY <1>7, <3>2
    <3> QED BY <3>2, <3>3 DEF Holds
  <2> QED BY <2>1, <2>2
<1> QED BY <1>5, <1>6, <1>8 DEF r, g, n

(* A retraction withdraws something exactly when its proposition is live    *)
(* before it.                                                               *)
LEMMA WithdrawsIffHeld ==
  ASSUME NEW u \in Seq(OperationRow), NEW j \in 1..Len(u), u[j].action = "retract"
  PROVE  Holds(SubSeq(u, 1, j - 1), u[j].prop) <=> FoldOf(u).targets[j] # NoTarget
<1> DEFINE g == FoldOf(u)
           p == u[j].prop
           live == Unwithdrawn(u, g, p, j - 1)
<1>1. g \in FoldType /\ Len(g.targets) = Len(u) /\ TargetsExact(u, g) /\ p \in Prop
  BY FoldOfExact, RowTyped DEF FoldIsExact
<1>2. Holds(SubSeq(u, 1, j - 1), p) <=> live # {}
  BY <1>1, HeldBefore
<1> HIDE DEF g, p
<1>3. live \subseteq 1..j - 1
  BY DEF Unwithdrawn, Assertions
<1>4. j \in DOMAIN g.targets
  <2>1. g.targets \in Seq(Nat)
    BY <1>1 DEF FoldType
  <2> QED BY <1>1, <2>1
<1>5. TargetExact(u, g, j)
  BY <1>1, <1>4 DEF TargetsExact
<1>6. CASE live = {}
  BY <1>2, <1>5, <1>6 DEF TargetExact, p, g
<1>7. CASE live # {}
  <2>1. g.targets[j] \in live
    BY <1>5, <1>7 DEF TargetExact, p
  <2>2. g.targets[j] # NoTarget
    <3> HIDE DEF live
    <3> QED BY <1>3, <2>1 DEF NoTarget
  <2> QED BY <1>2, <1>7, <2>2 DEF p, g
<1> QED BY <1>6, <1>7

-----------------------------------------------------------------------------
(* The type of a plan.                                                      *)
PlanType == [ok : BOOLEAN, simulated : Seq(Prop), changed : Seq(BOOLEAN)]

(* Removing a proposition leaves propositions.                              *)
LEMMA RemoveTyped ==
  ASSUME NEW s \in Seq(Prop), NEW p
  PROVE  RemoveLastEqual(s, p) \in Seq(Prop)
<1> DEFINE I == {i \in 1..Len(s) : s[i] = p}
<1>1. CASE I = {}
  <2>1. \A i \in 1..Len(s) : s[i] # p
    BY <1>1
  <2> QED BY <2>1, NoEqualGoes
<1>2. CASE I # {}
  <2>1. PICK m \in I : \A i \in I : i <= m
    <3>1. I \in SUBSET (1..Len(s)) /\ Len(s) \in Nat
      OBVIOUS
    <3> HIDE DEF I
    <3> QED BY <1>2, <3>1, SomeIsNewest
  <2>2. m \in 1..Len(s) /\ s[m] = p /\ \A i \in 1..Len(s) : s[i] = p => i <= m
    BY <2>1
  <2> HIDE DEF I
  <2>3. RemoveLastEqual(s, p) = RemoveAt(s, m)
    BY <2>2, LastEqualGoes
  <2> QED BY <2>2, <2>3, RemovedAt
<1> QED BY <1>1, <1>2

(* A turn of the plan keeps its type.                                       *)
LEMMA PrepareTyped ==
  ASSUME NEW plan \in PlanType, NEW action \in ClientAction
  PROVE  Prepare(plan, action) \in PlanType
<1>1. action.op.prop \in Prop /\ action.existing \in BOOLEAN
  BY SessionAssumption DEF ClientAction, Op
<1>2. plan.ok \in BOOLEAN /\ plan.simulated \in Seq(Prop) /\ plan.changed \in Seq(BOOLEAN)
  BY DEF PlanType
<1> DEFINE p == action.op.prop
           removes == action.op.action = "retract"
           a == plan.ok /\ (action.existing => SubjectKnown(plan.simulated, p))
           b == IF removes THEN RemoveLastEqual(plan.simulated, p) ELSE Append(plan.simulated, p)
           d == removes => Contains(plan.simulated, p)
           c == Append(plan.changed, d)
<1>3. a \in BOOLEAN
  BY <1>2
<1>4. b \in Seq(Prop)
  <2>1. RemoveLastEqual(plan.simulated, p) \in Seq(Prop)
    BY <1>2, RemoveTyped
  <2>2. Append(plan.simulated, p) \in Seq(Prop)
    BY <1>1, <1>2
  <2> QED BY <2>1, <2>2
<1>5. c \in Seq(BOOLEAN)
  <2>1. d \in BOOLEAN
    OBVIOUS
  <2> HIDE DEF d
  <2> QED BY <1>2, <2>1
<1>6. Prepare(plan, action) = [ok |-> a, simulated |-> b, changed |-> c]
  BY DEF Prepare
<1> HIDE DEF a, b, c
<1> QED BY <1>3, <1>4, <1>5, <1>6 DEF PlanType

(* P is the run of the loop of prepare-actions.                             *)
PlanRuns(P, actions) ==
  /\ P[0] = Unplanned(actions)
  /\ \A i \in 1..Len(actions) : P[i] = Prepare(P[i - 1], actions[i])
  /\ \A i \in 0..Len(actions) : P[i] \in PlanType
  /\ Plan(actions) = P[Len(actions)]

(* The plan is the last of its turns.                                       *)
LEMMA PlanIs ==
  ASSUME StoreOk(store), NEW actions \in Actions
  PROVE  \E P : PlanRuns(P, actions)
<1> DEFINE N == Len(actions)
           x == Unplanned(actions)
           g == [a \in (1..N) \X PlanType |-> Prepare(a[2], actions[a[1]])]
           Is(f) == f = [i \in 0..N |-> IF i = 0 THEN x ELSE Prepare(f[i - 1], actions[i])]
           F == CHOOSE f : Is(f)
<1>1. N \in Nat /\ \A i \in 1..N : actions[i] \in ClientAction
  <2>1. actions \in Seq(ClientAction) /\ N \in Nat \ {0}
    BY ActionsTyped
  <2> QED BY <2>1
<1>2. x \in PlanType
  <2>1. LivePropositions(store) \in Seq(Prop)
    <3>1. LiveOccurrences(store) = LiveOf(store.rows) /\ store.rows \in Seq(OperationRow)
      BY LiveOfStore DEF StoreOk
    <3>2. LiveOf(store.rows) \in Seq(OperationRow)
      BY <3>1, LiveOfTyped
    <3> DEFINE s == LiveOf(store.rows)
    <3>3. LivePropositions(store) = [i \in DOMAIN s |-> s[i].prop]
      BY <3>1 DEF LivePropositions
    <3> HIDE DEF s
    <3>4. \A i \in 1..Len(s) : s[i].prop \in Prop
      BY <3>2, RowTyped DEF s
    <3> QED BY <3>2, <3>3, <3>4 DEF s
  <2> DEFINE a == IF PlanReadsLive(actions) THEN LivePropositions(store) ELSE <<>>
             b == <<>>
  <2>2. a \in Seq(Prop) /\ b \in Seq(BOOLEAN)
    BY <2>1
  <2>3. x = [ok |-> TRUE, simulated |-> a, changed |-> b]
    BY DEF Unplanned
  <2> HIDE DEF a, b, x
  <2> QED BY <2>2, <2>3 DEF PlanType
<1>3. g \in [(1..N) \X PlanType -> PlanType]
  <2> SUFFICES ASSUME NEW i \in 1..N, NEW y \in PlanType PROVE g[<<i, y>>] \in PlanType
    BY Zenon
  <2>1. Prepare(y, actions[i]) \in PlanType
    BY <1>1, PrepareTyped
  <2> QED BY <2>1
<1>4. \A i \in 1..N, y \in PlanType : g[<<i, y>>] = Prepare(y, actions[i])
  OBVIOUS
<1> HIDE DEF N, g, x
<1>5. PICK f : Iterates(f, PlanType, x, N, g)
  BY <1>1, <1>2, <1>3, IterationExists
<1>6. f \in [0..N -> PlanType] /\ f[0] = x /\ \A k \in 1..N : f[k] = g[<<k, f[k - 1]>>]
  BY <1>5 DEF Iterates
<1>7. /\ \A i \in 1..N : i - 1 \in 0..N /\ i # 0 /\ i \in 0..N
      /\ \A i \in 0..N : i # 0 => i \in 1..N
      /\ 0 \in 0..N /\ N \in 0..N
  BY <1>1
<1>8. \A i \in 1..N : f[i] = Prepare(f[i - 1], actions[i])
  BY <1>4, <1>6, <1>7
<1>9. Is(f)
  <2>1. \A i \in 0..N : f[i] = IF i = 0 THEN x ELSE Prepare(f[i - 1], actions[i])
    BY <1>6, <1>7, <1>8
  <2>2. f = [i \in 0..N |-> f[i]]
    BY <1>6
  <2> QED BY <2>1, <2>2
<1>10. Is(F)
  <2> HIDE DEF Is
  <2> QED BY <1>9
<1>11. F[0] = x /\ \A i \in 1..N : F[i] = Prepare(F[i - 1], actions[i])
  BY <1>7, <1>10
<1>12. Plan(actions) = F[N]
  BY Zenon DEF Plan, N, x
<1> HIDE DEF Is, F
<1>13. \A k \in 0..N : F[k] = f[k]
  <2>1. F[0] = f[0]
    BY <1>6, <1>11
  <2>2. ASSUME NEW k \in 1..N, F[k - 1] = f[k - 1] PROVE F[k] = f[k]
    BY <1>8, <1>11, <2>2
  <2>3. SameTurns(F, f, N)
    BY <2>1, <2>2 DEF SameTurns
  <2> QED BY <1>1, <2>3, SameValues
<1>14. \A k \in 0..N : F[k] \in PlanType
  BY <1>6, <1>13
<1> QED BY <1>11, <1>12, <1>14 DEF PlanRuns, x, N

(* What each turn of the plan adds: a decision for its action, and, while   *)
(* the plan is ok, the judgement of its policy.                             *)
Judged(P, actions, i) ==
  actions[i].op.action = "retract" => Contains(P[i - 1].simulated, actions[i].op.prop)

(* The policy of an action, judged on what is simulated at its turn.        *)
Permitted(P, actions, i) ==
  actions[i].existing => SubjectKnown(P[i - 1].simulated, actions[i].op.prop)

(* What the plan says after k turns.                                        *)
PlanSays(P, actions, k) ==
  /\ Len(P[k].changed) = k
  /\ \A i \in 1..k : P[k].changed[i] = Judged(P, actions, i)
  /\ P[k].ok => \A i \in 1..k : Permitted(P, actions, i)

(* Each turn records the decision of its action, and an ok plan has found   *)
(* every policy satisfied at its turn.                                      *)
LEMMA PlanJudges ==
  ASSUME NEW actions \in Actions, NEW P, PlanRuns(P, actions)
  PROVE  \A k \in 0..Len(actions) : PlanSays(P, actions, k)
<1> DEFINE m == Len(actions)
           S == {k \in Nat : k <= m => PlanSays(P, actions, k)}
<1>1. m \in Nat
  BY ActionsTyped
<1>2. /\ P[0] = Unplanned(actions)
      /\ \A i \in 1..m : P[i] = Prepare(P[i - 1], actions[i])
      /\ \A i \in 0..m : P[i] \in PlanType
  BY DEF PlanRuns
<1> HIDE DEF m
<1>3. 0 \in S
  <2>1. P[0].changed = <<>>
    BY <1>2 DEF Unplanned
  <2>2. PlanSays(P, actions, 0)
    BY <2>1 DEF PlanSays
  <2> QED BY <2>2
<1>4. ASSUME NEW k \in S PROVE k + 1 \in S
  <2> SUFFICES ASSUME k + 1 <= m PROVE PlanSays(P, actions, k + 1)
    OBVIOUS
  <2>1. k \in Nat /\ k <= m /\ k + 1 \in 1..m /\ k \in 0..m /\ (k + 1) - 1 = k
    BY <1>1
  <2>2. PlanSays(P, actions, k)
    BY <2>1
  <2> DEFINE a == P[k].changed
             b == P[k + 1].changed
             d == Judged(P, actions, k + 1)
  <2>3. a \in Seq(BOOLEAN) /\ Len(a) = k /\ \A i \in 1..k : a[i] = Judged(P, actions, i)
    BY <1>2, <2>1, <2>2 DEF PlanType, PlanSays
  <2>4. P[k + 1] = Prepare(P[k], actions[k + 1])
    BY <1>2, <2>1
  <2> DEFINE q == actions[k + 1].op.prop
             removes == actions[k + 1].op.action = "retract"
             held == Contains(P[k].simulated, q)
             known == actions[k + 1].existing => SubjectKnown(P[k].simulated, q)
  <2>12. (d <=> (removes => held)) /\ d \in BOOLEAN /\ (Permitted(P, actions, k + 1) <=> known)
    <3>1. P[(k + 1) - 1] = P[k]
      BY <2>1
    <3> QED BY <3>1 DEF Judged, Permitted
  <2>13. /\ Prepare(P[k], actions[k + 1]).changed = Append(a, removes => held)
         /\ Prepare(P[k], actions[k + 1]).ok = (P[k].ok /\ known)
    BY Zenon DEF Prepare
  <2> HIDE DEF removes, held, known
  <2>5. b = Append(a, d)
    <3>1. d = (removes => held)
      BY <2>12
    <3> HIDE DEF d
    <3> QED BY <2>4, <2>13, <3>1
  <2>6. d \in BOOLEAN
    BY <2>12
  <2>7. P[k + 1].ok => P[k].ok /\ Permitted(P, actions, k + 1)
    <3>1. P[k + 1].ok = (P[k].ok /\ known)
      BY <2>4, <2>13
    <3> QED BY <2>12, <3>1
  <2>8. P[k].ok => \A i \in 1..k : Permitted(P, actions, i)
    BY <2>2 DEF PlanSays
  <2> HIDE DEF a, d, S
  <2>9. /\ Len(b) = k + 1 /\ b[k + 1] = d /\ \A i \in 1..k : b[i] = a[i]
        /\ \A i \in 1..k + 1 : i = k + 1 \/ i \in 1..k
    BY <2>1, <2>3, <2>5, <2>6
  <2> HIDE DEF b
  <2>10. \A i \in 1..k + 1 : b[i] = Judged(P, actions, i)
    BY <2>3, <2>9 DEF d
  <2>11. P[k + 1].ok => \A i \in 1..k + 1 : Permitted(P, actions, i)
    BY <2>7, <2>8, <2>9
  <2> QED BY <2>9, <2>10, <2>11 DEF PlanSays, b
<1>5. \A k \in Nat : k \in S
  <2>1. S \in SUBSET Nat
    OBVIOUS
  <2> HIDE DEF S
  <2> QED BY <1>3, <1>4, <2>1, Induction
<1>6. ASSUME NEW k \in 0..m PROVE PlanSays(P, actions, k)
  <2>1. k \in Nat /\ k <= m
    BY <1>1
  <2> QED BY <1>5, <2>1
<1> QED BY <1>6 DEF m

(* The operations of the actions.                                           *)
OpsOf(actions) == [i \in DOMAIN actions |-> actions[i].op]

(* While it plans, what a plan that reads the live propositions simulates   *)
(* is what the store will hold when the same operations are committed.      *)
LEMMA PlanFollows ==
  ASSUME StoreOk(store), NEW actions \in Actions, PlanReadsLive(actions),
         NEW P, PlanRuns(P, actions)
  PROVE  \A k \in 0..Len(actions) :
           P[k].simulated =
             Props(LiveOf(SubSeq(Committed(store, OpsOf(actions)).rows, 1, Len(store.rows) + k)))
<1> DEFINE m == Len(actions)
           n == Len(store.rows)
           ops == OpsOf(actions)
           u == Committed(store, ops).rows
           Follows(k) == P[k].simulated = Props(LiveOf(SubSeq(u, 1, n + k)))
           S == {k \in Nat : k <= m => Follows(k)}
<1>1. ops \in Seq(Op) /\ Len(ops) = m /\ m \in Nat /\ \A i \in 1..m : ops[i] = actions[i].op
  <2>1. actions \in Seq(ClientAction)
    BY ActionsTyped
  <2>2. ops \in Seq(Op) /\ Len(ops) = m
    BY ActionsTyped DEF OpsOf
  <2>3. DOMAIN actions = 1..m /\ m \in Nat
    BY <2>1
  <2> QED BY <2>2, <2>3 DEF OpsOf
<1>2. store.rows \in Seq(OperationRow) /\ store.fold = FoldOf(store.rows)
  BY DEF StoreOk
<1> HIDE DEF ops
<1>3. /\ u \in Seq(OperationRow) /\ n \in Nat /\ Len(u) = n + m
      /\ \A i \in 1..n : u[i] = store.rows[i]
      /\ \A i \in 1..m : n + i \in 1..n + m /\ u[n + i] = Row(NextSequence(store), i - 1, ops[i])
  <2>1. StoreOk(store) /\ ops \in Seq(Op)
    BY <1>1
  <2>2. u \in Seq(OperationRow)
    BY <2>1, CommittedRows
  <2>3. /\ Len(store.rows) \in Nat /\ Len(ops) \in Nat
        /\ Len(u) = Len(store.rows) + Len(ops)
        /\ \A i \in 1..Len(store.rows) : u[i] = store.rows[i]
        /\ \A i \in 1..Len(ops) :
             /\ Len(store.rows) + i \in 1..Len(store.rows) + Len(ops)
             /\ u[Len(store.rows) + i] = Row(NextSequence(store), i - 1, ops[i])
    BY <2>1, CommittedAt
  <2> HIDE DEF u, m
  <2> QED BY <1>1, <2>2, <2>3
<1>4. /\ P[0] = Unplanned(actions)
      /\ \A i \in 1..m : P[i] = Prepare(P[i - 1], actions[i])
  BY DEF PlanRuns
<1> HIDE DEF m, n, u
<1>5. SubSeq(u, 1, n + 0) = store.rows
  <2> DEFINE a == SubSeq(u, 1, n)
  <2>1. n \in 0..Len(u) /\ n + 0 = n
    BY <1>1, <1>3
  <2>2. a \in Seq(OperationRow) /\ Len(a) = n /\ \A i \in 1..n : a[i] = u[i]
    BY <1>3, <2>1, Cut
  <2> HIDE DEF a
  <2>3. Len(store.rows) = n
    BY DEF n
  <2>4. a = store.rows
    BY <1>2, <1>3, <2>2, <2>3
  <2> QED BY <2>1, <2>4 DEF a
<1>6. 0 \in S
  <2>1. P[0].simulated = LivePropositions(store)
    BY <1>4 DEF Unplanned
  <2>2. LivePropositions(store) = Props(LiveOf(store.rows))
    BY <1>2, LiveOfStore DEF LivePropositions, Props
  <2> QED BY <1>5, <2>1, <2>2
<1>7. ASSUME NEW k \in S PROVE k + 1 \in S
  <2> SUFFICES ASSUME k + 1 <= m PROVE Follows(k + 1)
    OBVIOUS
  <2>1. /\ k \in Nat /\ k <= m /\ k + 1 \in 1..m /\ (k + 1) - 1 = k
        /\ n + (k + 1) \in 1..Len(u) /\ (n + (k + 1)) - 1 = n + k
    BY <1>1, <1>3
  <2>2. Follows(k)
    BY <2>1
  <2> DEFINE a == SubSeq(u, 1, n + k)
             b == SubSeq(u, 1, n + (k + 1))
             x == u[n + (k + 1)]
             p == actions[k + 1].op.prop
             live == LiveOf(a)
  <2>3. a \in Seq(OperationRow) /\ x \in OperationRow /\ b = Append(a, x)
    BY <1>3, <2>1, FrontGrows
  <2>4. x.action = actions[k + 1].op.action /\ x.prop = p
    <3>1. x = Row(NextSequence(store), (k + 1) - 1, ops[k + 1]) /\ ops[k + 1] = actions[k + 1].op
      BY <1>1, <1>3, <2>1
    <3> QED BY <3>1 DEF Row
  <2> HIDE DEF a, b, x
  <2>5. LiveOf(b) = IF x.action = "retract" THEN WithoutNewest(live, x.prop) ELSE Append(live, x)
    BY <2>3, LiveOfAppend
  <2>6. live \in Seq(OperationRow)
    BY <2>3, LiveOfTyped
  <2>7. P[k].simulated = Props(live)
    BY <2>2 DEF a
  <2>8. P[k + 1].simulated = IF x.action = "retract" THEN RemoveLastEqual(P[k].simulated, p)
                                                     ELSE Append(P[k].simulated, p)
    <3>1. P[k + 1] = Prepare(P[k], actions[k + 1])
      BY <1>4, <2>1
    <3>2. Prepare(P[k], actions[k + 1]).simulated =
            IF actions[k + 1].op.action = "retract" THEN RemoveLastEqual(P[k].simulated, p)
                                                    ELSE Append(P[k].simulated, p)
      BY Zenon DEF Prepare
    <3> QED BY <2>4, <3>1, <3>2
  <2> HIDE DEF live, p
  <2>9. P[k + 1].simulated = Props(LiveOf(b))
    <3>1. CASE x.action = "retract"
      <4>1. Props(WithoutNewest(live, p)) = RemoveLastEqual(Props(live), p)
        BY <2>6, PropsWithout
      <4> QED BY <2>4, <2>5, <2>7, <2>8, <3>1, <4>1
    <3>2. CASE x.action # "retract"
      <4>1. Props(Append(live, x)) = Append(Props(live), x.prop)
        BY <2>3, <2>6, PropsAppend
      <4> QED BY <2>4, <2>5, <2>7, <2>8, <3>2, <4>1
    <3> QED BY <3>1, <3>2
  <2> QED BY <2>9 DEF b
<1>8. \A k \in Nat : k \in S
  <2>1. S \in SUBSET Nat
    OBVIOUS
  <2> HIDE DEF S
  <2> QED BY <1>6, <1>7, <2>1, Induction
<1>9. ASSUME NEW k \in 0..m PROVE Follows(k)
  <2>1. k \in Nat /\ k <= m
    BY <1>1
  <2> QED BY <1>8, <2>1
<1> QED BY <1>9 DEF m, n, u, ops

(* Membership in the propositions of operations.                            *)
LEMMA PropsElements ==
  ASSUME NEW s \in Seq(OperationRow)
  PROVE  /\ ToSet(Props(s)) = {e.prop : e \in Elements(s)}
         /\ \A p : Contains(Props(s), p) <=> \E e \in Elements(s) : e.prop = p
<1> DEFINE a == Props(s)
<1>1. DOMAIN a = DOMAIN s /\ \A i \in DOMAIN s : a[i] = s[i].prop
  BY DEF Props
<1> HIDE DEF a
<1>2. ToSet(a) = {a[i] : i \in DOMAIN a}
  BY DEF ToSet
<1>3. \A p : Contains(a, p) <=> p \in ToSet(a)
  BY <1>2 DEF Contains
<1>4. ToSet(a) = {e.prop : e \in Elements(s)}
  BY <1>1, <1>2 DEF Elements
<1>5. \A p : Contains(a, p) <=> \E e \in Elements(s) : e.prop = p
  BY <1>3, <1>4
<1> QED BY <1>4, <1>5 DEF a

(* What was predicted of action i holds of the row j it becomes.            *)
Decides(actions, i, u, j) ==
  /\ u \in Seq(OperationRow) /\ j \in 1..Len(u)
  /\ Coordinate(u[j]) = <<NextSequence(store), i - 1>>
  /\ Plan(actions).changed[i] <=> (u[j].action = "assert" \/ FoldOf(u).targets[j] # NoTarget)
  /\ actions[i].existing =>
       \E p \in Prop : p[1] = u[j].prop[1] /\ Unwithdrawn(u, FoldOf(u), p, j - 1) # {}

(* What a response says of an action, before its commit, is what the commit *)
(* does.                                                                    *)
LEMMA PlanDecides ==
  ASSUME StoreOk(store), NEW actions \in Actions, Plan(actions).ok,
         NEW i \in 1..Len(actions), NEW u, u = Committed(store, OpsOf(actions)).rows,
         NEW j, j = Len(store.rows) + i
  PROVE  Decides(actions, i, u, j)
<1> DEFINE m == Len(actions)
           n == Len(store.rows)
           ops == OpsOf(actions)
           q == actions[i].op.prop
           r == SubSeq(u, 1, j - 1)
           live == LiveOf(r)
<1>1. ops \in Seq(Op) /\ Len(ops) = m /\ m \in Nat /\ \A k \in 1..m : ops[k] = actions[k].op
  <2>1. actions \in Seq(ClientAction)
    BY ActionsTyped
  <2>2. ops \in Seq(Op) /\ Len(ops) = m
    BY ActionsTyped DEF OpsOf
  <2>3. DOMAIN actions = 1..m /\ m \in Nat
    BY <2>1
  <2> QED BY <2>2, <2>3 DEF OpsOf
<1>2. actions[i] \in ClientAction /\ i \in DOMAIN actions
  <2>1. actions \in Seq(ClientAction)
    BY ActionsTyped
  <2> QED BY <2>1
<1>3. q \in Prop /\ actions[i].op.action \in {"assert", "retract"} /\ actions[i].existing \in BOOLEAN
  BY <1>2, SessionAssumption DEF ClientAction, Op, Action
<1> HIDE DEF ops
<1>4. /\ u \in Seq(OperationRow) /\ n \in Nat /\ Len(u) = n + m
      /\ j \in 1..Len(u) /\ j = n + i /\ u[j] = Row(NextSequence(store), i - 1, ops[i])
  <2>1. StoreOk(store) /\ ops \in Seq(Op) /\ u = Committed(store, ops).rows
    BY <1>1 DEF ops
  <2>2. u \in Seq(OperationRow)
    BY <2>1, CommittedRows
  <2>3. /\ Len(store.rows) \in Nat /\ Len(ops) \in Nat
        /\ Len(u) = Len(store.rows) + Len(ops)
        /\ \A k \in 1..Len(ops) :
             /\ Len(store.rows) + k \in 1..Len(store.rows) + Len(ops)
             /\ u[Len(store.rows) + k] = Row(NextSequence(store), k - 1, ops[k])
    BY <2>1, CommittedAt
  <2>4. i \in 1..Len(ops)
    BY <1>1
  <2> HIDE DEF m
  <2> QED BY <1>1, <2>2, <2>3, <2>4
<1>5. /\ u[j].action = actions[i].op.action /\ u[j].prop = q
      /\ Coordinate(u[j]) = <<NextSequence(store), i - 1>>
  BY <1>1, <1>4 DEF Row, Coordinate
<1>6. PICK P : PlanRuns(P, actions)
  BY PlanIs
<1>7. /\ PlanSays(P, actions, m) /\ Plan(actions) = P[m]
  <2>1. m \in 0..m
    BY <1>1
  <2> QED BY <1>6, <2>1, PlanJudges DEF PlanRuns
<1>8. /\ Plan(actions).changed[i] <=> Judged(P, actions, i)
      /\ Permitted(P, actions, i)
  BY <1>7 DEF PlanSays
<1>9. ASSUME PlanReadsLive(actions) PROVE P[i - 1].simulated = Props(live)
  <2>1. i - 1 \in 0..m /\ n + (i - 1) = j - 1
    BY <1>1, <1>4
  <2>2. P[i - 1].simulated = Props(LiveOf(SubSeq(u, 1, n + (i - 1))))
    BY <1>6, <1>9, <2>1, PlanFollows
  <2> QED BY <2>1, <2>2
<1>10. r \in Seq(OperationRow) /\ live \in Seq(OperationRow)
  <2>1. j - 1 \in 0..Len(u)
    BY <1>4
  <2>2. r \in Seq(OperationRow)
    BY <1>4, <2>1, Cut
  <2> QED BY <2>2, LiveOfTyped
<1>11. /\ ToSet(Props(live)) = {e.prop : e \in Elements(live)}
       /\ Contains(Props(live), q) <=> Holds(r, q)
  <2> DEFINE s == live
  <2>1. s \in Seq(OperationRow)
    BY <1>10
  <2> HIDE DEF s
  <2>2. /\ ToSet(Props(s)) = {e.prop : e \in Elements(s)}
        /\ \A p : Contains(Props(s), p) <=> \E e \in Elements(s) : e.prop = p
    BY <2>1, PropsElements
  <2> QED BY <2>2 DEF Holds, s
<1>12. Plan(actions).changed[i] <=> (u[j].action = "assert" \/ FoldOf(u).targets[j] # NoTarget)
  <2>1. CASE actions[i].op.action = "assert"
    BY <1>5, <1>8, <2>1 DEF Judged
  <2>2. CASE actions[i].op.action = "retract"
    <3>1. PlanReadsLive(actions)
      BY <1>2, <2>2 DEF PlanReadsLive
    <3>2. Plan(actions).changed[i] <=> Holds(r, q)
      BY <1>8, <1>9, <1>11, <2>2, <3>1 DEF Judged
    <3>3. Holds(r, q) <=> FoldOf(u).targets[j] # NoTarget
      BY <1>4, <1>5, <2>2, WithdrawsIffHeld
    <3> QED BY <1>5, <2>2, <3>2, <3>3
  <2> QED BY <1>3, <2>1, <2>2
<1>13. ASSUME actions[i].existing
       PROVE  \E p \in Prop : p[1] = u[j].prop[1] /\ Unwithdrawn(u, FoldOf(u), p, j - 1) # {}
  <2>1. PlanReadsLive(actions)
    BY <1>2, <1>13 DEF PlanReadsLive
  <2>2. PICK e \in Elements(live) : e.prop[1] = q[1]
    <3>1. SubjectKnown(Props(live), q)
      BY <1>8, <1>9, <1>13, <2>1 DEF Permitted
    <3> HIDE DEF live
    <3> QED BY <1>11, <3>1 DEF SubjectKnown
  <2>3. e.prop \in Prop /\ Holds(r, e.prop)
    <3>1. e \in OperationRow
      <4> HIDE DEF live
      <4> QED BY <1>10, ElementAt
    <3> QED BY <3>1 DEF OperationRow, Holds
  <2> DEFINE p == e.prop
  <2>4. p \in Prop /\ Holds(r, p) /\ p[1] = u[j].prop[1]
    BY <1>5, <2>2, <2>3
  <2> HIDE DEF p, live, q
  <2>5. Unwithdrawn(u, FoldOf(u), p, j - 1) # {}
    BY <1>4, <2>4, HeldBefore
  <2> QED BY <2>4, <2>5
<1> QED BY <1>4, <1>5, <1>12, <1>13 DEF Decides

(* Every step keeps what the last response said.                            *)
LEMMA DecisionsStep ==
  SessionCore /\ DecisionsHold /\ [SessionNext]_sessionVars => DecisionsHold'
<1> SUFFICES ASSUME SessionCore, DecisionsHold, [SessionNext]_sessionVars PROVE DecisionsHold'
  OBVIOUS
<1>1. StoreOk(store)
  BY ContextTyped
<1>2. ASSUME UNCHANGED <<store, decisions>> PROVE DecisionsHold'
  BY <1>2 DEF DecisionsHold
<1>3. ASSUME decisions' = {} PROVE DecisionsHold'
  BY <1>3 DEF DecisionsHold
<1>4. ASSUME NEW p \in Prop, StageAssert(p) \/ StageUpdate(p) PROVE DecisionsHold'
  <2>1. UNCHANGED <<store, decisions>>
    BY <1>4 DEF StageAssert, StageUpdate, Stage
  <2> QED BY <1>2, <2>1
<1>5. ASSUME Reopen \/ RefreshView \/ Reproject \/ UNCHANGED sessionVars PROVE DecisionsHold'
  <2>1. UNCHANGED <<store, decisions>>
    BY <1>5 DEF Reopen, RefreshView, Reproject, sessionVars
  <2> QED BY <1>2, <2>1
<1>6. ASSUME CommitContext PROVE DecisionsHold'
  BY <1>3, <1>6 DEF CommitContext
<1>7. ASSUME NEW p \in Prop, AssertSingle(p) PROVE DecisionsHold'
  <2>1. decisions' = {}
    BY <1>7 DEF AssertSingle
  <2> QED BY <1>3, <2>1
<1>8. ASSUME NEW actions \in Actions, Mutate(actions) PROVE DecisionsHold'
  <2> DEFINE ops == OpsOf(actions)
             now == store'
             u == now.rows
             said(i) == [coordinate |-> <<NextSequence(store), i - 1>>,
                         changed    |-> Plan(actions).changed[i],
                         existing   |-> actions[i].existing]
             told == decisions'
  <2>1. /\ Plan(actions).ok /\ CommitBoundary(ops)
        /\ told = {said(i) : i \in DOMAIN actions}
    BY <1>8 DEF Mutate, CommitAndRefresh, OpsOf
  <2>2. ops \in Seq(Op) /\ DOMAIN actions = 1..Len(actions)
    <3>1. actions \in Seq(ClientAction)
      BY ActionsTyped
    <3> QED BY <3>1, ActionsTyped DEF OpsOf
  <2>3. now = Committed(store, ops) /\ now.fold = FoldOf(u)
    <3>1. now = Committed(store, ops)
      BY <2>1 DEF CommitBoundary
    <3>2. Committed(store, ops).fold = FoldOf(Committed(store, ops).rows)
      BY <1>1, <2>2, CommittedRows
    <3> QED BY <3>1, <3>2
  <2> SUFFICES ASSUME NEW decision \in told
               PROVE  \E j \in DOMAIN u :
                        /\ Coordinate(u[j]) = decision.coordinate
                        /\ decision.changed <=> (u[j].action = "assert" \/ now.fold.targets[j] # NoTarget)
                        /\ decision.existing =>
                             \E p \in Prop : p[1] = u[j].prop[1]
                                             /\ Unwithdrawn(u, now.fold, p, j - 1) # {}
    BY DEF DecisionsHold
  <2>4. PICK i \in 1..Len(actions) : decision = said(i)
    BY <2>1, <2>2
  <2>5. /\ decision.coordinate = <<NextSequence(store), i - 1>>
        /\ decision.changed = Plan(actions).changed[i]
        /\ decision.existing = actions[i].existing
    BY <2>4
  <2> DEFINE j == Len(store.rows) + i
  <2> HIDE DEF said, told, now, j
  <2>6. /\ u \in Seq(OperationRow) /\ j \in 1..Len(u)
        /\ Coordinate(u[j]) = <<NextSequence(store), i - 1>>
        /\ Plan(actions).changed[i] <=> (u[j].action = "assert" \/ FoldOf(u).targets[j] # NoTarget)
        /\ actions[i].existing =>
             \E p \in Prop : p[1] = u[j].prop[1] /\ Unwithdrawn(u, FoldOf(u), p, j - 1) # {}
    <3>1. u = Committed(store, OpsOf(actions)).rows /\ j = Len(store.rows) + i
      BY <2>3 DEF j
    <3>2. Plan(actions).ok
      BY <2>1
    <3> HIDE DEF ops, u
    <3>3. Decides(actions, i, u, j)
      BY <1>1, <3>1, <3>2, PlanDecides
    <3> QED BY <3>3 DEF Decides
  <2>7. j \in DOMAIN u
    BY <2>6
  <2> QED BY <2>3, <2>5, <2>6, <2>7
<1> QED BY <1>4, <1>5, <1>6, <1>7, <1>8 DEF SessionNext

(* "A2": the response predicted before the commit tells what the commit     *)
(* did: an action changed something unless it is a retraction that withdrew *)
(* nothing, and the subject of a subject-existing action was live when its  *)
(* turn came.                                                               *)
THEOREM ResponsesHold == SessionSpec => []DecisionsHold
<1>1. SessionInit => DecisionsHold
  BY DEF SessionInit, DecisionsHold
<1>2. SessionCore /\ DecisionsHold /\ [SessionNext]_sessionVars => DecisionsHold'
  BY DecisionsStep
<1> QED BY <1>1, <1>2, SessionCoreHolds, PTL DEF SessionSpec
=============================================================================
