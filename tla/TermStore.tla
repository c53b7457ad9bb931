----------------------------- MODULE TermStore -----------------------------
(***************************************************************************)
(* The in-memory TermStore of src/store/src/store/store.bgl: an append-only *)
(* history of transactions and operations, and the state the store derives  *)
(* from it by folding one operation at a time.                              *)
(*                                                                          *)
(* Propositions are model values: interning (the handle of a Triple) is not *)
(* modelled.                                                                *)
(*                                                                          *)
(* The loop bodies of append-valid-transaction! and rebuild-operation-state!*)
(* are steps of their own: `todo` and `loaded` are the loops' state, so     *)
(* every invariant also holds between two operations of one transaction.    *)
(***************************************************************************)
EXTENDS OperationFold

CONSTANTS
  MaxSequence,    \* max-transaction-sequence, the largest legal sequence
  MaxOperations,  \* bound of the model: operations in one history
  MaxBatch        \* bound of the model: operations in one transaction

ASSUME TermStoreAssumption ==
  /\ MaxSequence \in Nat \ {0}
  /\ MaxOperations \in Nat
  /\ MaxBatch \in Nat \ {0}

VARIABLES
  transactions,   \* TransactionRows: [sequence, first, count]
  operations,     \* OperationRows: [sequence, ordinal, action, prop]
  targets,        \* withdrawal-targets, one per folded operation
  active,         \* the active bucket of every proposition
  nextSequence,   \* next-sequence
  phase,          \* "idle", "appending", "loading" or "trapped"
  todo,           \* the operations the append loop has not reached yet
  loaded          \* the store load-term-store-result! is rebuilding

vars == <<transactions, operations, targets, active, nextSequence, phase,
          todo, loaded>>

(* A batch of at least one valid operation: valid-operations?.             *)
Batch == UNION {[1..n -> Op] : n \in 1..MaxBatch}

(***************************************************************************)
(* valid-history-rows?: what a dump must satisfy to be loaded, and what     *)
(* validated-store! demands of a store a boot has just built.               *)
(***************************************************************************)
ValidSlice(row) ==
  /\ row.count > 0
  /\ row.first + row.count - 1 <= Len(operations)
  /\ \A ordinal \in 0..(row.count - 1) :
       LET operation == operations[row.first + ordinal]
       IN  operation.sequence = row.sequence /\ operation.ordinal = ordinal

ValidHistoryRows ==
  /\ \A i \in DOMAIN transactions :
       /\ ValidSlice(transactions[i])
       /\ IF i = 1
          THEN transactions[i].sequence > -1 /\ transactions[i].first = 1
          ELSE LET previous == transactions[i - 1]
               IN  /\ transactions[i].sequence > previous.sequence
                   /\ transactions[i].first = previous.first + previous.count
  /\ IF transactions = <<>>
     THEN operations = <<>> /\ nextSequence = 1
     ELSE LET last == transactions[Len(transactions)]
          IN  /\ last.first + last.count - 1 = Len(operations)
              /\ nextSequence > 0
              /\ nextSequence - 1 = last.sequence
-----------------------------------------------------------------------------
Init ==
  /\ transactions = <<>>
  /\ operations = <<>>
  /\ targets = <<>>
  /\ active = EmptyFold.active
  /\ nextSequence = 1
  /\ phase = "idle"
  /\ todo = <<>>
  /\ loaded = EmptyFold

(* append-valid-transaction!, up to the loop over the operations.          *)
BeginTransaction(sequence, ops) ==
  /\ phase = "idle"
  /\ Len(operations) + Len(ops) <= MaxOperations
  /\ transactions' =
       Append(transactions, [sequence |-> sequence,
                             first    |-> Len(operations) + 1,
                             count    |-> Len(ops)])
  /\ todo' = ops
  /\ phase' = "appending"
  /\ UNCHANGED <<operations, targets, active, nextSequence, loaded>>

(* commit-boundary!: a commit takes the store's own next sequence, and      *)
(* append-transaction! does not compare it with the maximum.                *)
Commit(ops) == BeginTransaction(nextSequence, ops)

(* append-replayed-transaction!: a record of the log carries its sequence,  *)
(* which may leave a gap but may not go back or pass the maximum.           *)
Replay(sequence, ops) ==
  /\ sequence >= nextSequence
  /\ sequence <= MaxSequence
  /\ BeginTransaction(sequence, ops)

(* One turn of the loop: push the row, then fold it.                       *)
AppendOperation ==
  /\ phase = "appending"
  /\ todo # <<>>
  /\ LET transaction == transactions[Len(transactions)]
         position    == Len(operations) + 1
         row  == Row(transaction.sequence, position - transaction.first, Head(todo))
         fold == ApplyOperation([targets |-> targets, active |-> active],
                                row, position)
     IN  /\ operations' = Append(operations, row)
         /\ targets' = fold.targets
         /\ active' = fold.active
  /\ todo' = Tail(todo)
  /\ UNCHANGED <<transactions, nextSequence, phase, loaded>>

(* The reset of next-sequence after the loop.  Past the maximum the         *)
(* increment overflows Int and traps the process: nothing is returned.      *)
FinishTransaction ==
  /\ phase = "appending"
  /\ todo = <<>>
  /\ LET sequence == transactions[Len(transactions)].sequence
     IN  IF sequence <= MaxSequence
         THEN nextSequence' = sequence + 1 /\ phase' = "idle"
         ELSE phase' = "trapped" /\ UNCHANGED nextSequence
  /\ UNCHANGED <<transactions, operations, targets, active, todo, loaded>>

(* Faulty: the buckets are not reset before the rebuild.                    *)
BeginLoadKeepingBuckets ==
  /\ phase = "idle"
  /\ ValidHistoryRows
  /\ phase' = "loading"
  /\ loaded' = [targets |-> <<>>, active |-> active]
  /\ UNCHANGED <<transactions, operations, targets, active, nextSequence, todo>>

(* load-term-store-result! of the store's own dump: a new store over the    *)
(* same rows, whose derived state is rebuilt from nothing.                  *)
BeginLoad ==
  /\ phase = "idle"
  /\ ValidHistoryRows
  /\ phase' = "loading"
  /\ loaded' = EmptyFold
  /\ UNCHANGED <<transactions, operations, targets, active, nextSequence, todo>>

(* One turn of rebuild-operation-state!.                                   *)
RebuildOperation ==
  LET position == Len(loaded.targets) + 1
  IN  /\ phase = "loading"
      /\ position <= Len(operations)
      /\ loaded' = ApplyOperation(loaded, operations[position], position)
      /\ UNCHANGED <<transactions, operations, targets, active, nextSequence,
                     phase, todo>>

(* The reset of ctx: the rebuilt store replaces the one it was dumped from. *)
InstallLoaded ==
  /\ phase = "loading"
  /\ Len(loaded.targets) = Len(operations)
  /\ targets' = loaded.targets
  /\ active' = loaded.active
  /\ phase' = "idle"
  /\ loaded' = EmptyFold
  /\ UNCHANGED <<transactions, operations, nextSequence, todo>>

Next ==
  \/ \E ops \in Batch : Commit(ops)
  \/ \E sequence \in 1..MaxSequence, ops \in Batch : Replay(sequence, ops)
  \/ AppendOperation
  \/ FinishTransaction
  \/ BeginLoad
  \/ RebuildOperation
  \/ InstallLoaded

Spec == Init /\ [][Next]_vars
-----------------------------------------------------------------------------
FoldType == [targets : Seq(Nat), active : [Prop -> Seq(Nat \ {0})]]

TransactionRow == [sequence : Nat \ {0}, first : Nat \ {0}, count : Nat \ {0}]

OperationRow == [sequence : Nat \ {0}, ordinal : Nat, action : Action, prop : Prop]

MainFold == [targets |-> targets, active |-> active]

(* The type of every variable.                                             *)
TypeOK ==
  /\ transactions \in Seq(TransactionRow)
  /\ operations \in Seq(OperationRow)
  /\ MainFold \in FoldType
  /\ loaded \in FoldType
  /\ nextSequence \in Nat \ {0}
  /\ phase \in {"idle", "appending", "loading", "trapped"}
  /\ todo \in Seq(Op)

Ascending(positions) ==
  \A i, j \in DOMAIN positions : i < j => positions[i] < positions[j]

Elements(positions) == {positions[i] : i \in DOMAIN positions}

BucketsExact(rows, fold) ==
  \A p \in Prop :
    /\ Ascending(fold.active[p])
    /\ Elements(fold.active[p]) = Unwithdrawn(rows, fold, p, Len(fold.targets))

(* What a retraction at r did: it withdrew the newest assertion of its      *)
(* proposition that was not withdrawn before r, or there was none.          *)
TargetExact(rows, fold, r) ==
  LET live == Unwithdrawn(rows, fold, rows[r].prop, r - 1)
  IN  IF rows[r].action = "assert" \/ live = {}
      THEN fold.targets[r] = NoTarget
      ELSE /\ fold.targets[r] \in live
           /\ \A a \in live : a <= fold.targets[r]

TargetsExact(rows, fold) ==
  \A r \in DOMAIN fold.targets : TargetExact(rows, fold, r)

(* An active bucket holds, in ascending order, exactly the assertions of    *)
(* its proposition that nothing has withdrawn: the claim operation-live?    *)
(* rests on ("liveness is derived, never stored").                          *)
LivenessIsDerived == BucketsExact(operations, MainFold)

(* Every retraction withdrew the newest live equal assertion that preceded  *)
(* it, or records that there was none (withdrawal-targets; "withdraws       *)
(* exactly the newest live equal assertion occurrence").                    *)
WithdrawsNewestLive == TargetsExact(operations, MainFold)

(* Installing a load never changes what was live or what withdrew what: a   *)
(* rebuild derives exactly the state that incremental folding had reached   *)
(* (validated-store!: "Replay produces exactly the derived state a load     *)
(* rebuilds"); and between transactions a dump always passes the checks of  *)
(* a load, even after replay has left gaps in the sequences.                *)
LoadRestoresFold ==
  [][/\ phase \in {"idle", "loading"} => ValidHistoryRows
     /\ phase = "loading" => UNCHANGED <<targets, active>>]_vars

(***************************************************************************)
(* The store implements OccurrenceHistory, one occurrence per turn of the   *)
(* append loop; loads and sequence bookkeeping are stuttering steps.        *)
(***************************************************************************)
HistoryOf(rows) ==
  [i \in DOMAIN rows |-> [action |-> rows[i].action, prop |-> rows[i].prop]]

WithdrawalOf(withdrawals) ==
  {<<r, withdrawals[r]>> : r \in {q \in DOMAIN withdrawals : withdrawals[q] # NoTarget}}

Abstract == INSTANCE OccurrenceHistory
              WITH history <- HistoryOf(operations),
                   withdrawal <- WithdrawalOf(targets)

(* Every behaviour of the fold is one of the abstract occurrence history.   *)
ImplementsHistory == Abstract!HistorySpec
=============================================================================
