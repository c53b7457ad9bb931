--------------------------- MODULE OperationFold ---------------------------
(***************************************************************************)
(* The fold of store.bgl that everything else rests on: what one committed  *)
(* operation does to the derived state of a store.  The state of the fold   *)
(* is a record: `targets` (withdrawal-targets, one per folded operation)    *)
(* and `active` (the active bucket of every proposition).                   *)
(*                                                                          *)
(* Positions are 1-based here and 0-based in the code, so the code's        *)
(* withdrawal target -1, "none", is NoTarget == 0.                          *)
(***************************************************************************)
EXTENDS Integers, Sequences

CONSTANT Prop   \* the propositions (interned Triples)

Action   == {"assert", "retract"}
Op       == [action : Action, prop : Prop]
NoTarget == 0

Row(sequence, ordinal, op) ==
  [sequence |-> sequence, ordinal |-> ordinal,
   action |-> op.action, prop |-> op.prop]

EmptyFold == [targets |-> <<>>, active |-> [p \in Prop |-> <<>>]]

(* Faulty variants, which the properties must tell from the code: a         *)
(* retraction that withdraws the oldest live assertion, in two ways.        *)
OldestPosition(positions) == Head(positions)
PopOldest(positions)      == Tail(positions)

Newest(positions) == positions[Len(positions)]
Pop(positions)    == SubSeq(positions, 1, Len(positions) - 1)

(***************************************************************************)
(* apply-operation-state!: an assertion is live from its position on; a     *)
(* retraction withdraws the newest live assertion of its proposition, or    *)
(* records that there was none.                                             *)
(***************************************************************************)

(* Faulty: the withdrawn assertion stays in its bucket.                     *)
FoldRetractKeeping(fold, row) ==
  IF fold.active[row.prop] = <<>>
  THEN [targets |-> Append(fold.targets, NoTarget), active |-> fold.active]
  ELSE [targets |-> Append(fold.targets, Newest(fold.active[row.prop])),
        active  |-> fold.active]

FoldAssert(fold, row, position) ==
  [targets |-> Append(fold.targets, NoTarget),
   active  |-> [fold.active EXCEPT ![row.prop] = Append(@, position)]]

FoldRetract(fold, row) ==
  IF fold.active[row.prop] = <<>>
  THEN [targets |-> Append(fold.targets, NoTarget), active |-> fold.active]
  ELSE [targets |-> Append(fold.targets, Newest(fold.active[row.prop])),
        active  |-> [fold.active EXCEPT ![row.prop] = Pop(@)]]

ApplyOperation(fold, row, position) ==
  IF row.action = "assert" THEN FoldAssert(fold, row, position)
                           ELSE FoldRetract(fold, row)

(* The assertions of p among the first n rows, and those of them that no    *)
(* retraction among the same n withdraws.                                   *)
Assertions(rows, p, n) ==
  {a \in 1..n : rows[a].action = "assert" /\ rows[a].prop = p}

Unwithdrawn(rows, fold, p, n) ==
  {a \in Assertions(rows, p, n) : \A r \in 1..n : fold.targets[r] # a}
=============================================================================
