------------------------- MODULE OccurrenceHistory -------------------------
(***************************************************************************)
(* What the store promises of liveness, without buckets, loops or rows: a   *)
(* history of assertions and retractions that only grows, and the relation  *)
(* `withdrawal` of pairs <<retraction, assertion>>.  A retraction withdraws *)
(* the newest assertion of an equal proposition that is not withdrawn yet,  *)
(* and withdraws nothing when there is none.                                *)
(***************************************************************************)
EXTENDS Integers, Sequences

CONSTANT Prop

VARIABLES history, withdrawal

historyVars == <<history, withdrawal>>

LiveAt(p) ==
  {a \in DOMAIN history :
     /\ history[a].action = "assert"
     /\ history[a].prop = p
     /\ \A pair \in withdrawal : pair[2] # a}

HistoryInit ==
  /\ history = <<>>
  /\ withdrawal = {}

Assert(p) ==
  /\ history' = Append(history, [action |-> "assert", prop |-> p])
  /\ UNCHANGED withdrawal

WithdrawNewest(p) ==
  \E a \in LiveAt(p) :
    /\ \A b \in LiveAt(p) : b <= a
    /\ history' = Append(history, [action |-> "retract", prop |-> p])
    /\ withdrawal' = withdrawal \cup {<<Len(history) + 1, a>>}

RetractMissing(p) ==
  /\ LiveAt(p) = {}
  /\ history' = Append(history, [action |-> "retract", prop |-> p])
  /\ UNCHANGED withdrawal

HistoryNext ==
  \E p \in Prop : Assert(p) \/ WithdrawNewest(p) \/ RetractMissing(p)

HistorySpec == HistoryInit /\ [][HistoryNext]_historyVars
=============================================================================
