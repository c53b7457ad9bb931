------------------------------ MODULE Session ------------------------------
(***************************************************************************)
(* What reads and writes of one Store session rest on: the rotation of      *)
(* store/rotation.bgl (an indexed base plus a pending tail of operations    *)
(* that every read folds over it), the session that refreshes it after      *)
(* every commit (schema.bgl), the transaction builder pinned to a sequence  *)
(* (txn.bgl), the authoring context that reads its own staged operations    *)
(* (resolve_read.bclj), and the plan of a client's mutation                 *)
(* (native_dispatch.bgl).                                                   *)
(*                                                                          *)
(* An index leaf is the part of the base that its key selects: the hash     *)
(* chains that find it, and the growth of their buckets, are left out.      *)
(***************************************************************************)
EXTENDS OperationFold, SequencesExt

CONSTANTS
  Term,           \* the Terms propositions are made of
  Unbound,        \* nil in a slot of a pattern
  FoldCap,        \* pending-fold-cap
  Policies,       \* the subject policies clients use: TRUE is subject-existing
  MaxHistory,     \* bound of the model: operations in one history
  MaxStaged,      \* bound of the model: operations staged in a context
  MaxActions      \* bound of the model: actions in one mutation

Slots == 1..3

ASSUME SessionAssumption ==
  /\ Prop \subseteq Term \X Term \X Term
  /\ Unbound \notin Term
  /\ Policies \subseteq BOOLEAN
  /\ FoldCap \in Nat /\ MaxHistory \in Nat
  /\ MaxStaged \in Nat /\ MaxActions \in Nat \ {0}

(* The elements of s at the positions K, in their order.                    *)
Sift(s, K) ==
  LET sifted[i \in 0..Len(s)] ==
        IF i = 0 THEN <<>>
        ELSE IF i \in K THEN Append(sifted[i - 1], s[i]) ELSE sifted[i - 1]
  IN  sifted[Len(s)]

(* The fold of rows, of which the first n are folded already.               *)
FoldFrom(fold, rows, n) ==
  LET folded[i \in n..Len(rows)] ==
        IF i = n THEN fold ELSE ApplyOperation(folded[i - 1], rows[i], i)
  IN  folded[Len(rows)]

VARIABLES
  store,      \* the TermStore: [rows, fold, version]
  view,       \* the session's rotation: [version, base, pending]
  context,    \* the authoring context: [sequence, ops, view, single]
  receipts,   \* history: the coordinates the last committed write promised
  decisions,  \* history: what its response said of each action, if a mutation
  single      \* history: the [t1, t2] whose last write was an update-single!

sessionVars == <<store, view, context, receipts, decisions, single>>

-----------------------------------------------------------------------------
(* The store, one commit at a time (TermStore has the loop inside).         *)

EmptyStore == [rows |-> <<>>, fold |-> EmptyFold, version |-> 0]

NextSequence(st) == st.version + 1

RowsOf(sequence, ops) == [i \in DOMAIN ops |-> Row(sequence, i - 1, ops[i])]

Committed(st, ops) ==
  LET rows == st.rows \o RowsOf(NextSequence(st), ops)
  IN  [rows    |-> rows,
       fold    |-> FoldFrom(st.fold, rows, Len(st.rows)),
       version |-> IF ops = <<>> THEN st.version ELSE NextSequence(st)]

(* operation-live? of every position, in commit order.                      *)
LiveOccurrences(st) ==
  Sift(st.rows, {i \in DOMAIN st.rows :
                   st.rows[i].action = "assert"
                   /\ Contains(st.fold.active[st.rows[i].prop], i)})

LivePropositions(st) ==
  LET live == LiveOccurrences(st) IN [i \in DOMAIN live |-> live[i].prop]

-----------------------------------------------------------------------------
(* rotation.bgl                                                             *)

(* The patterns that some proposition matches; no other has an answer.      *)
Pattern ==
  {[slot \in Slots |-> IF slot \in bound THEN p[slot] ELSE Unbound] :
     bound \in SUBSET Slots, p \in Prop}

AnyTriple == [slot \in Slots |-> Unbound]

BoundSlots(pattern) == {slot \in Slots : pattern[slot] # Unbound}

Selects(slots, pattern, p) == \A slot \in slots : pattern[slot] = p[slot]

(* pattern-match?                                                           *)
Matches(pattern, p) == Selects(BoundSlots(pattern), pattern, p)

(* The slots of a pattern that an index carries: by-t23 and by-t13 probe    *)
(* [t3], by-proposition probes [t1 t2], every other pattern its own leaf.   *)
Indexed(pattern) ==
  LET slots == BoundSlots(pattern)
  IN  IF slots \in {{2, 3}, {1, 3}} THEN {3} ELSE slots \ (IF slots = Slots THEN {3} ELSE {})

Leaf(base, pattern) ==
  Sift(base, {i \in DOMAIN base : Selects(Indexed(pattern), pattern, base[i].prop)})

Narrowed(leaf, pattern) ==
  Sift(leaf, {i \in DOMAIN leaf : Matches(pattern, leaf[i].prop)})

(* Faulty: the oldest equal event goes instead of the newest.               *)
WithoutOldest(events, p) ==
  LET at == SelectInSeq(events, LAMBDA event : event.prop = p)
  IN  IF at = 0 THEN events ELSE RemoveAt(events, at)

(* without-newest-of                                                        *)
WithoutNewest(events, p) ==
  LET at == SelectLastInSeq(events, LAMBDA event : event.prop = p)
  IN  IF at = 0 THEN events ELSE RemoveAt(events, at)

(* merged-matching, and one turn of its loop.                               *)
Merge(events, op, pattern) ==
  IF op.action = "retract" THEN WithoutNewest(events, op.prop)
  ELSE IF Matches(pattern, op.prop) THEN Append(events, op) ELSE events

Merged(base, pending, pattern) ==
  LET merged[i \in 0..Len(pending)] ==
        IF i = 0 THEN base ELSE Merge(merged[i - 1], pending[i], pattern)
  IN  merged[Len(pending)]

(* matching                                                                 *)
Answer(rotation, pattern) ==
  Merged(Narrowed(Leaf(rotation.base, pattern), pattern), rotation.pending, pattern)

Coordinate(event) == <<event.sequence, event.ordinal>>

(* event-at: an assertion of the base or of the tail carries the coordinate,*)
(* and its proposition's own answer still has it.                           *)
EventAt(rotation, coordinate) ==
  \E candidate \in ToSet(rotation.base \o rotation.pending) :
    /\ candidate.action = "assert" /\ Coordinate(candidate) = coordinate
    /\ \E event \in ToSet(Answer(rotation, candidate.prop)) :
         Coordinate(event) = coordinate

(* project!                                                                 *)
Projected(st) ==
  [version |-> st.version, base |-> LiveOccurrences(st), pending |-> <<>>]

(* transaction-records-between, as operation occurrences.                   *)
RecordsAfter(st, version) ==
  Sift(st.rows, {i \in DOMAIN st.rows : st.rows[i].sequence > version})

Advanced(rotation, st) ==
  [rotation EXCEPT !.version = st.version,
                   !.pending = @ \o RecordsAfter(st, rotation.version)]

(* refresh!: extend the tail, and fold it down when it exceeds the cap.     *)
Refreshed(rotation, st) ==
  LET advanced == Advanced(rotation, st)
  IN  IF Len(advanced.pending) > FoldCap
      THEN [version |-> st.version, base |-> Answer(advanced, AnyTriple), pending |-> <<>>]
      ELSE advanced

(* Faulty: the staged operations are counted from one.                      *)
StagedFromOne(rotation, sequence, ops) ==
  [rotation EXCEPT !.pending =
     @ \o [i \in DOMAIN ops |-> Row(sequence, i, ops[i])]]

(* staged: uncommitted operations behind a committed rotation.              *)
Staged(rotation, sequence, ops) ==
  [rotation EXCEPT !.pending = @ \o RowsOf(sequence, ops)]

-----------------------------------------------------------------------------
(* txn.bgl                                                                  *)

AssertOp(p)  == [action |-> "assert", prop |-> p]
RetractOp(p) == [action |-> "retract", prop |-> p]

(* compile-single-update: retract what is live, newest first, then assert.  *)
CompileSingle(rotation, p) ==
  LET live == Reverse(Answer(rotation, [p EXCEPT ![3] = Unbound]))
  IN  [i \in DOMAIN live |-> RetractOp(live[i].prop)] \o <<AssertOp(p)>>

Key(p) == <<p[1], p[2]>>

Touched(ops) == {Key(ops[i].prop) : i \in DOMAIN ops}

PromisedBy(sequence, ops) ==
  {[coordinate |-> <<sequence, i - 1>>, op |-> ops[i]] : i \in DOMAIN ops}

Fits(ops) == Len(store.rows) + Len(ops) <= MaxHistory

(* commit-boundary!                                                         *)
CommitBoundary(ops) ==
  /\ ops # <<>> /\ Fits(ops)
  /\ store' = Committed(store, ops)

(* ... and schema/refresh!, of the session that commits.                    *)
CommitAndRefresh(ops) == CommitBoundary(ops) /\ view' = Refreshed(view, store')

-----------------------------------------------------------------------------
(* resolve_read.bclj: the context's view is a fresh projection of the store *)
(* with the context's own operations staged on it.                          *)

Resynced(st, sequence, ops) == Staged(Projected(st), sequence, ops)

OpenedOn(st) ==
  [sequence |-> NextSequence(st), ops |-> <<>>,
   view |-> Resynced(st, NextSequence(st), <<>>), single |-> {}]

SessionInit ==
  /\ store = EmptyStore
  /\ view = Projected(EmptyStore)
  /\ context = OpenedOn(EmptyStore)
  /\ receipts = {} /\ decisions = {} /\ single = {}

(* append!, then resync!                                                    *)
Stage(ops, keys) ==
  /\ Fits(context.ops \o ops) /\ Len(context.ops \o ops) <= MaxStaged
  /\ context' = [context EXCEPT
                   !.ops = @ \o ops,
                   !.view = Resynced(store, context.sequence, context.ops \o ops),
                   !.single = keys]
  /\ UNCHANGED <<store, view, receipts, decisions, single>>

StageAssert(p) == Stage(<<AssertOp(p)>>, context.single \ {Key(p)})

(* update-single!                                                           *)
StageUpdate(p) ==
  Stage(CompileSingle(context.view, p), context.single \cup {Key(p)})

(* context! on the same store: what was staged is dropped.                  *)
Reopen ==
  /\ context' = OpenedOn(store)
  /\ UNCHANGED <<store, view, receipts, decisions, single>>

(* Faulty: the store may have advanced under the builder.                   *)
CommitDrifted ==
  /\ CommitBoundary(context.ops)
  /\ UNCHANGED view
  /\ receipts' = PromisedBy(context.sequence, context.ops)
  /\ single' = (single \ Touched(context.ops)) \cup context.single
  /\ context' = OpenedOn(store')
  /\ decisions' = {}

(* commit!: refused with transaction-sequence-drift when another            *)
(* transaction has taken the pinned coordinate, else committed and reopened.*)
(* A session on the same store is not told: its rotation falls behind.      *)
CommitContext ==
  /\ context.sequence = NextSequence(store)
  /\ CommitBoundary(context.ops)
  /\ UNCHANGED view
  /\ receipts' = PromisedBy(context.sequence, context.ops)
  /\ single' = (single \ Touched(context.ops)) \cup context.single
  /\ context' = OpenedOn(store')
  /\ decisions' = {}

(* pinned?: "a caller holding an unpinned rotation is reading a version that*)
(* no longer exists".  The code leaves it to the caller to refresh first.   *)
Pinned == view.version = store.version

(* schema.bgl assert! of a single-cardinality predicate: a fresh builder,   *)
(* compiled against the session's view, committed and refreshed.            *)
AssertSingle(p) ==
  LET ops == CompileSingle(view, p)
  IN  /\ Pinned
      /\ CommitAndRefresh(ops)
      /\ receipts' = PromisedBy(NextSequence(store), ops)
      /\ single' = single \cup {Key(p)}
      /\ decisions' = {}
      /\ UNCHANGED context

-----------------------------------------------------------------------------
(* native_dispatch.bgl: a client's mutation.                                *)

ClientAction == [op : Op, existing : Policies]

Actions == UNION {[1..n -> ClientAction] : n \in 1..MaxActions}

SubjectKnown(props, p) == \E known \in ToSet(props) : known[1] = p[1]

(* remove-last-equal                                                        *)
RemoveLastEqual(props, p) ==
  LET at == SelectLastInSeq(props, LAMBDA known : known = p)
  IN  IF at = 0 THEN props ELSE RemoveAt(props, at)

(* Faulty: only the policy is taken for a reader of the live propositions.  *)
PlanReadsPolicy(actions) == \E i \in DOMAIN actions : actions[i].existing

(* plan-reads-live?                                                         *)
PlanReadsLive(actions) ==
  \E i \in DOMAIN actions : actions[i].op.action = "retract" \/ actions[i].existing

(* One turn of prepare-actions: the policy is judged, then the operation is *)
(* simulated and its decision recorded.                                     *)
Prepare(plan, action) ==
  LET p == action.op.prop
      removes == action.op.action = "retract"
  IN  [ok        |-> plan.ok /\ (action.existing => SubjectKnown(plan.simulated, p)),
       simulated |-> IF removes THEN RemoveLastEqual(plan.simulated, p)
                                ELSE Append(plan.simulated, p),
       changed   |-> Append(plan.changed, removes => Contains(plan.simulated, p))]

Unplanned(actions) ==
  [ok        |-> TRUE,
   simulated |-> IF PlanReadsLive(actions) THEN LivePropositions(store) ELSE <<>>,
   changed   |-> <<>>]

Plan(actions) ==
  LET planned[i \in 0..Len(actions)] ==
        IF i = 0 THEN Unplanned(actions) ELSE Prepare(planned[i - 1], actions[i])
  IN  planned[Len(actions)]

(* execute-actions! and commit-mutation!: a plan that is not ok changes     *)
(* nothing; the response predicted before the commit is the one that is     *)
(* sent after it.                                                           *)
Mutate(actions) ==
  LET plan == Plan(actions)
      ops  == [i \in DOMAIN actions |-> actions[i].op]
  IN  /\ plan.ok
      /\ CommitAndRefresh(ops)
      /\ receipts' = PromisedBy(NextSequence(store), ops)
      /\ decisions' =
           {[coordinate |-> <<NextSequence(store), i - 1>>,
             changed    |-> plan.changed[i],
             existing   |-> actions[i].existing] : i \in DOMAIN actions}
      /\ single' = single \ Touched(ops)
      /\ UNCHANGED context

(* schema/refresh!, over everything that was committed since.               *)
RefreshView ==
  /\ ~Pinned
  /\ view' = Refreshed(view, store)
  /\ UNCHANGED <<store, context, receipts, decisions, single>>

(* A generation is rebuilt (boot, compaction): session! projects afresh.    *)
Reproject ==
  /\ view' = Projected(store)
  /\ UNCHANGED <<store, context, receipts, decisions, single>>

SessionNext ==
  \/ \E p \in Prop : StageAssert(p) \/ StageUpdate(p)
  \/ Reopen
  \/ CommitContext
  \/ \E p \in Prop : AssertSingle(p)
  \/ \E actions \in Actions : Mutate(actions)
  \/ RefreshView
  \/ Reproject

SessionSpec == SessionInit /\ [][SessionNext]_sessionVars
-----------------------------------------------------------------------------
LiveMatching(st, pattern) ==
  LET live == LiveOccurrences(st)
  IN  Sift(live, {i \in DOMAIN live : Matches(pattern, live[i].prop)})

(* The store as it was at an earlier version: its rows folded from scratch. *)
AsOf(st, version) ==
  LET rows == Sift(st.rows, {i \in DOMAIN st.rows : st.rows[i].sequence <= version})
  IN  [rows |-> rows, fold |-> FoldFrom(EmptyFold, rows, 0), version |-> version]

(* "The per-answer fold agrees with the from-scratch projection of the same *)
(* history": whatever was committed since the base was built, every pattern *)
(* is answered with exactly the occurrences it matches that were live at    *)
(* the view's version, in commit order (matching, refresh!).                *)
ViewIsLive ==
  LET pinned == AsOf(store, view.version)
  IN  \A pattern \in Pattern : Answer(view, pattern) = LiveMatching(pinned, pattern)

(* An occurrence is found through the view exactly when it is live at the   *)
(* view's version, also when the tail has withdrawn it since (event-at,     *)
(* live-occurrence?).                                                       *)
FoundIffLive ==
  LET live == LiveOccurrences(AsOf(store, view.version))
  IN  \A i \in DOMAIN store.rows :
        EventAt(view, Coordinate(store.rows[i])) <=> Contains(live, store.rows[i])

(* What a reader is told, together; and the tail it reads stays within the  *)
(* cap and never runs ahead of the store (refresh!).                        *)
ReadsAgree ==
  /\ ViewIsLive /\ FoundIffLive
  /\ view.version <= store.version /\ Len(view.pending) <= FoldCap

Undrifted == context.sequence = NextSequence(store)

(* "A staged read cannot disagree with its own commit": while its commit    *)
(* would succeed, a context reads what the store will answer after it.      *)
StagedReadAgrees ==
  Undrifted =>
    LET future == Committed(store, context.ops)
    IN  \A pattern \in Pattern :
          Answer(context.view, pattern) = LiveMatching(future, pattern)

(* A key whose last write was an update-single! has exactly one live value, *)
(* however many it had, in the store and in what a context would commit.    *)
SingleValued ==
  LET one(st, key) == Len(LiveMatching(st, <<key[1], key[2], Unbound>>)) = 1
  IN  /\ \A key \in single : one(store, key)
      /\ Undrifted =>
           \A key \in context.single : one(Committed(store, context.ops), key)

(* What a context has staged, together: its reads and its single values.    *)
StagingAgrees == StagedReadAgrees /\ SingleValued

(* "A coordinate minted here can never name another transaction record":    *)
(* the operation found at a promised coordinate is the promised one.        *)
ReceiptsHold ==
  \A receipt \in receipts : \E i \in DOMAIN store.rows :
    /\ Coordinate(store.rows[i]) = receipt.coordinate
    /\ [action |-> store.rows[i].action, prop |-> store.rows[i].prop] = receipt.op

(* A2: the response predicted before the commit tells what the commit did:  *)
(* an action changed something unless it is a retraction that withdrew      *)
(* nothing, and the subject of a subject-existing action was live when its  *)
(* turn came.                                                               *)
DecisionsHold ==
  \A decision \in decisions : \E i \in DOMAIN store.rows :
    LET row == store.rows[i]
    IN  /\ Coordinate(row) = decision.coordinate
        /\ decision.changed <=> (row.action = "assert" \/ store.fold.targets[i] # NoTarget)
        /\ decision.existing =>
             \E p \in Prop : p[1] = row.prop[1]
                             /\ Unwithdrawn(store.rows, store.fold, p, i - 1) # {}
=============================================================================
