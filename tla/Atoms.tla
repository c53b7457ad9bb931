-------------------------------- MODULE Atoms --------------------------------
(* An atom of native-core/shim/native_shim.c: a value of several words behind *)
(* a spin lock.  Threads read it, reset it, exchange it if it still is what   *)
(* they expect, and swap it through an updater that runs under the lock.      *)
(* A copy of the value, in or out, takes a step for every word.               *)
EXTENDS Integers, FiniteSets

CONSTANTS
  Thread,  \* the threads that share the atom
  Words,   \* the words of a value
  MaxOps   \* bound: operations of a thread

ASSUME AtomsAssumption == Words \in Nat \ {0}

VARIABLES
  locked,    \* atom->locked
  memory,    \* atom->value, word by word
  thread,    \* per thread: what it does and where, the value it copies, how far
  register,  \* the value an atomic register would hold
  done       \* operations a thread has completed

atomsVars == <<locked, memory, thread, register, done>>

Word == 1..Words
Whole(n) == [w \in Word |-> n]
Updated(n) == n + 1
Expected == 0
ResetTo == 7
Operations == {"deref", "reset", "swap", "exchange"}
Idle == [op |-> "none", at |-> "idle", local |-> Whole(0), copied |-> 0, saw |-> 0]

AtomsInit ==
  /\ locked = FALSE /\ memory = Whole(0) /\ register = 0
  /\ thread = [t \in Thread |-> Idle]
  /\ done = [t \in Thread |-> 0]

Move(t, at, local, copied) ==
  thread' = [thread EXCEPT ![t].at = at, ![t].local = local, ![t].copied = copied]

Call(t, op) ==
  /\ thread[t].at = "idle" /\ done[t] < MaxOps
  /\ thread' = [thread EXCEPT ![t] = [Idle EXCEPT !.op = op, !.at = "spinning"]]
  /\ UNCHANGED <<locked, memory, register, done>>

(* Faulty: the lock is taken without looking whether it is free.             *)
AcquireAnyway(t) ==
  /\ thread[t].at = "spinning"
  /\ locked' = TRUE
  /\ thread' = [thread EXCEPT ![t].at = "reading", ![t].saw = register]
  /\ UNCHANGED <<memory, register, done>>

(* native_atom_acquire: an exchange that finds the lock free takes it.       *)
Acquire(t) ==
  /\ thread[t].at = "spinning" /\ ~locked
  /\ locked' = TRUE
  /\ thread' = [thread EXCEPT ![t].at = "reading", ![t].saw = register]
  /\ UNCHANGED <<memory, register, done>>

(* The value is copied out (native_atom_deref, native_atom_lock), or compared *)
(* (native_atom_compare_exchange).                                           *)
Read(t) ==
  LET w == thread[t].copied + 1
  IN  /\ thread[t].at = "reading"
      /\ Move(t, IF w = Words THEN "holding" ELSE "reading",
              [thread[t].local EXCEPT ![w] = memory[w]], w)
      /\ UNCHANGED <<locked, memory, register, done>>

(* What the operation stores: a reset its own value, a swap what the updater *)
(* makes of the value it was given, an exchange only where all words agree.  *)
Decide(t) ==
  LET op == thread[t].op
      held == thread[t].local
      new == IF op = "reset" THEN Whole(ResetTo) ELSE [w \in Word |-> Updated(held[w])]
  IN  /\ thread[t].at = "holding"
      /\ IF op = "deref" \/ (op = "exchange" /\ held # Whole(Expected))
           THEN Move(t, "releasing", held, 0)
           ELSE Move(t, "writing", new, 0)
      /\ UNCHANGED <<locked, memory, register, done>>

(* native_atom_store_unlock: the value is copied in, word by word.           *)
Write(t) ==
  LET w == thread[t].copied + 1
  IN  /\ thread[t].at = "writing"
      /\ memory' = [memory EXCEPT ![w] = thread[t].local[w]]
      /\ Move(t, IF w = Words THEN "releasing" ELSE "writing", thread[t].local, w)
      /\ UNCHANGED <<locked, register, done>>

(* native_atom_release; here the operation takes effect on the register.     *)
Release(t) ==
  /\ thread[t].at = "releasing"
  /\ locked' = FALSE
  /\ register' = CASE thread[t].op = "reset" -> ResetTo
                   [] thread[t].op = "swap" -> Updated(register)
                   [] thread[t].op = "exchange" /\ register = Expected -> Updated(register)
                   [] OTHER -> register
  /\ thread' = [thread EXCEPT ![t].at = "returned"]
  /\ done' = [done EXCEPT ![t] = @ + 1]
  /\ UNCHANGED memory

Return(t) ==
  /\ thread[t].at = "returned"
  /\ thread' = [thread EXCEPT ![t] = Idle]
  /\ UNCHANGED <<locked, memory, register, done>>

Step(t) ==
  Acquire(t) \/ Read(t) \/ Decide(t) \/ Write(t) \/ Release(t) \/ Return(t)
AtomsNext == \E t \in Thread : Step(t) \/ \E op \in Operations : Call(t, op)
AtomsSpec == AtomsInit /\ [][AtomsNext]_atomsVars

-----------------------------------------------------------------------------
(* The atom is an atomic register: with the lock free it holds what the       *)
(* completed operations, one after the other, have made of it; no update is  *)
(* lost, and a read returns one of its values, whole and as it was then.     *)
AtomIsRegister ==
  /\ ~locked => memory = Whole(register)
  /\ \A t \in Thread :
       thread[t].op = "deref" /\ thread[t].at = "returned" =>
         thread[t].local = Whole(thread[t].saw)
=============================================================================
