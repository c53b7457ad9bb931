----------------------------- MODULE AtomicLog -----------------------------
(***************************************************************************)
(* What a Store server promises its clients (docs/guarantees.md, D1, I2 and *)
(* I3): one totally ordered log of committed transactions that only grows,  *)
(* conditional commits that apply at the version they name or not at all,   *)
(* and answers that are linearizable: an answer speaks of a version that    *)
(* was current at some moment between the question and the answer.          *)
(*                                                                          *)
(* There is no crash, no file and no lock at this level.                    *)
(***************************************************************************)
EXTENDS Integers, Sequences

CONSTANTS
  Write,       \* the logical write requests
  Request,     \* all logical requests, the writes included
  AnyVersion,  \* the guard of a write that names no expected version
  NoAnswer     \* the answer of a request that has none yet

VARIABLES
  committed,   \* the transactions, in commit order
  guard,       \* the expected version of every write
  asked,       \* the version that was current when a request was last asked
  answer       \* the last answer of every request

abstractVars == <<committed, guard, asked, answer>>

AbstractInit ==
  /\ committed = <<>>
  /\ guard = [w \in Write |-> AnyVersion]
  /\ asked = [r \in Request |-> -1]
  /\ answer = [r \in Request |-> NoAnswer]

(* A request, or its retry, is asked.  A retry keeps the first guard.       *)
Ask(r) ==
  /\ asked' = [asked EXCEPT ![r] = Len(committed)]
  /\ \/ r \in Write /\ asked[r] = -1 /\ guard' = [guard EXCEPT ![r] = guard'[r]]
     \/ UNCHANGED guard
  /\ UNCHANGED <<committed, answer>>

(* A write that was asked takes effect: at the version it names, if any.    *)
AtomicCommit(w) ==
  /\ asked[w] # -1
  /\ guard[w] \in {AnyVersion, Len(committed)}
  /\ committed' = Append(committed, w)
  /\ UNCHANGED <<guard, asked, answer>>

(* A success names the version at which the write took effect.              *)
AnswerCommit(w, version) ==
  /\ version \in DOMAIN committed
  /\ version > asked[w]
  /\ committed[version] = w
  /\ answer' = [answer EXCEPT ![w] = [ok |-> TRUE, version |-> version]]
  /\ UNCHANGED <<committed, guard, asked>>

(* A conflict names a version other than the one the write expected.        *)
AnswerConflict(w, version) ==
  /\ version \in asked[w]..Len(committed)
  /\ guard[w] \notin {AnyVersion, version}
  /\ answer' = [answer EXCEPT ![w] = [ok |-> FALSE, version |-> version]]
  /\ UNCHANGED <<committed, guard, asked>>

(* Any other request is answered from one version.                          *)
AnswerRead(r, version) ==
  /\ version \in asked[r]..Len(committed)
  /\ answer' = [answer EXCEPT ![r] = [ok |-> TRUE, version |-> version]]
  /\ UNCHANGED <<committed, guard, asked>>

AbstractNext ==
  \/ \E r \in Request : Ask(r)
  \/ \E w \in Write : AtomicCommit(w)
  \/ \E w \in Write : \E version \in 0..Len(committed) :
       AnswerCommit(w, version) \/ AnswerConflict(w, version)
  \/ \E r \in Request \ Write : \E version \in 0..Len(committed) :
       AnswerRead(r, version)

AtomicLogSpec == AbstractInit /\ [][AbstractNext]_abstractVars
=============================================================================
