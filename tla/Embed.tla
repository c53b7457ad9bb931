------------------------------- MODULE Embed -------------------------------
(* The store inside another program, by the public calls of store.h.  Threads *)
(* of the embedder open a database, transact or query, ask for or add a       *)
(* compiler value, release what they were given, and close.  Memory comes     *)
(* from two allocators: the embedder's, from which everything that leaves a   *)
(* call is taken, and the C library's, from which the store takes its own.    *)
(* A block is [heap, what, of]: `of' is the thread whose call made it, which  *)
(* tells the blocks of two calls apart.                                       *)
EXTENDS Integers, FiniteSets

CONSTANTS
  Thread,
  Regimes,      \* storage of the library ("posix") or of the embedder ("host")
  MaxSessions,  \* bound: how often the database is opened
  MaxEntries    \* bound: calls of one session

ASSUME EmbedAssumption == "all" \notin Thread

VARIABLES
  regime,
  handle,    \* "closed", "opening", "open" or "closing"
  heap,      \* the blocks that are allocated
  storage,   \* the storage of the library is open
  inside,    \* the threads inside the mutex
  call,      \* call[t]: [pc, kind, status, found]
  given,     \* given[t]: the blocks t has been given and has not released
  answer,    \* answer[t]: what the last call of t returned
  sessions, entries

embedVars ==
  <<regime, handle, heap, storage, inside, call, given, answer, sessions, entries>>

Host(what, t) == [heap |-> "host", what |-> what, of |-> t]
Libc(what, t) == [heap |-> "libc", what |-> what, of |-> t]
Handle == Host("database", "all")
Engine == Libc("store", "all")
Owned(t) == {b \in heap : b.of = t} \ given[t]

Resting == [pc |-> "rest", kind |-> "none", status |-> "ok", found |-> FALSE]
NoAnswer == [status |-> "none", kind |-> "none", got |-> FALSE, found |-> FALSE]

EmbedInit ==
  /\ regime \in Regimes
  /\ handle = "closed"
  /\ heap = {} /\ storage = FALSE /\ inside = {}
  /\ call = [t \in Thread |-> Resting]
  /\ given = [t \in Thread |-> {}]
  /\ answer = [t \in Thread |-> NoAnswer]
  /\ sessions = 0 /\ entries = 0

(* Statuses of the store, as the embedder sees them.                          *)
Failures == {"client", "host", "memory", "fatal"}
PublicStatus(status) ==
  CASE status = "ok" -> "ok"
    [] status = "client" -> "client"
    [] status = "host" -> "host"
    [] status = "memory" -> "memory"
    [] OTHER -> "engine"

Return(t, status, got, found) ==
  /\ call' = [call EXCEPT ![t] = Resting]
  /\ answer' = [answer EXCEPT ![t] = [status |-> status, kind |-> call[t].kind,
                                      got |-> got, found |-> found]]

-----------------------------------------------------------------------------
(* store_open.                                                                *)

(* Options that are not valid, an engine of another ABI, or no memory for the *)
(* handle: nothing has been taken yet.                                        *)
OpenRefused(t) ==
  /\ handle = "closed" /\ call[t].pc = "rest" /\ sessions < MaxSessions
  /\ sessions' = sessions + 1
  /\ \E status \in {"argument", "engine", "memory"} :
       answer' = [answer EXCEPT ![t] = [NoAnswer EXCEPT !.status = status, !.kind = "open"]]
  /\ UNCHANGED <<regime, handle, heap, storage, inside, call, given, entries>>

OpenBegins(t) ==
  /\ handle = "closed" /\ call[t].pc = "rest" /\ sessions < MaxSessions
  /\ handle' = "opening" /\ sessions' = sessions + 1 /\ entries' = 0
  /\ heap' = heap \cup {Handle}
  /\ call' = [call EXCEPT ![t] = [Resting EXCEPT !.pc = "boot", !.kind = "open"]]
  /\ UNCHANGED <<regime, storage, inside, given, answer>>

(* The mutex cannot be made: the handle is given back.                        *)
OpenWithoutMutex(t) ==
  /\ call[t].pc = "boot"
  /\ handle' = "closed" /\ heap' = heap \ {Handle}
  /\ Return(t, "engine", FALSE, FALSE)
  /\ UNCHANGED <<regime, storage, inside, given, sessions, entries>>

(* store_boot opens the storage of the library and closes it again when the   *)
(* boot fails; a boot over the embedder's storage leaves that alone.          *)
Boot(t) ==
  /\ call[t].pc = "boot"
  /\ handle' = "open" /\ heap' = heap \cup {Engine}
  /\ storage' = (regime = "posix")
  /\ Return(t, "ok", TRUE, FALSE)
  /\ UNCHANGED <<regime, inside, given, sessions, entries>>
BootFails(t) ==
  /\ call[t].pc = "boot"
  /\ handle' = "closed" /\ heap' = heap \ {Handle}
  /\ \E status \in Failures : Return(t, PublicStatus(status), FALSE, FALSE)
  /\ UNCHANGED <<regime, storage, inside, given, sessions, entries>>

-----------------------------------------------------------------------------
(* Calls.  store_transact, store_query and store_snapshot are one function;   *)
(* the compiler's two calls are another.                                      *)

Kinds == {"call", "query", "append"}
BeginCall(t) ==
  /\ handle = "open" /\ call[t].pc = "rest" /\ entries < MaxEntries
  /\ given[t] = {}  \* the owner t passes is empty
  /\ entries' = entries + 1
  /\ \E kind \in Kinds :
       call' = [call EXCEPT ![t] = [Resting EXCEPT !.pc = "prepare", !.kind = kind]]
  /\ answer' = [answer EXCEPT ![t] = NoAnswer]
  /\ UNCHANGED <<regime, handle, heap, storage, inside, given, sessions>>

(* Arguments that are not valid are refused before anything is taken.         *)
Refuse(t) ==
  /\ call[t].pc = "prepare"
  /\ Return(t, "argument", FALSE, FALSE)
  /\ UNCHANGED <<regime, handle, heap, storage, inside, given, sessions, entries>>

(* A compiler call copies its targets, if it has any, into memory of the      *)
(* embedder before it enters.                                                 *)
Targets(t) == Host("targets", t)
Prepare(t) ==
  /\ call[t].pc = "prepare"
  /\ \/ heap' = heap
     \/ call[t].kind # "call" /\ heap' = heap \cup {Targets(t)}
  /\ call' = [call EXCEPT ![t].pc = "enter"]
  /\ UNCHANGED <<regime, handle, storage, inside, given, answer, sessions, entries>>
NoTargets(t) ==
  /\ call[t].pc = "prepare" /\ call[t].kind # "call"
  /\ Return(t, "memory", FALSE, FALSE)
  /\ UNCHANGED <<regime, handle, heap, storage, inside, given, sessions, entries>>

EnterCall(t) ==
  /\ call[t].pc = "enter" /\ inside = {}
  /\ inside' = {t}
  /\ call' = [call EXCEPT ![t].pc = IF @ = "enter" /\ call[t].kind = "call"
                                    THEN "decode" ELSE "compile"]
  /\ UNCHANGED <<regime, handle, heap, storage, given, answer, sessions, entries>>
CannotEnter(t) ==
  /\ call[t].pc = "enter"
  /\ heap' = heap \ {Targets(t)}
  /\ Return(t, "engine", FALSE, FALSE)
  /\ UNCHANGED <<regime, handle, storage, inside, given, sessions, entries>>

(* A step takes a block and goes on, or fails and has taken nothing.          *)
Takes(t, pc, block, next) ==
  /\ call[t].pc = pc
  /\ heap' = heap \cup {block}
  /\ call' = [call EXCEPT ![t].pc = next]
  /\ UNCHANGED <<regime, handle, storage, inside, given, answer, sessions, entries>>
Fails(t, pc, statuses) ==
  /\ call[t].pc = pc
  /\ \E status \in statuses :
       call' = [call EXCEPT ![t].pc = "cleanup", ![t].status = status]
  /\ UNCHANGED <<regime, handle, heap, storage, inside, given, answer, sessions, entries>>

DecodeCall(t) == Takes(t, "decode", Libc("request", t), "dispatch")
DecodeCallFails(t) == Fails(t, "decode", {"client", "memory", "fatal"})
DispatchCall(t) == Takes(t, "dispatch", Libc("response", t), "encode")
DispatchCallFails(t) == Fails(t, "dispatch", {"host", "memory", "fatal"})
EncodeCall(t) == Takes(t, "encode", Libc("encoded", t), "copy")
EncodeCallFails(t) == Fails(t, "encode", {"memory"})
CopyAnswer(t) == Takes(t, "copy", Host("answer", t), "cleanup")
CopyFails(t) == Fails(t, "copy", {"memory"})

(* compile_query finds a value, which it has taken from the C library, or     *)
(* finds none; compile_append keeps the value or has it already.              *)
CompileFinds(t) ==
  /\ call[t].kind = "query"
  /\ call[t].pc = "compile"
  /\ heap' = heap \cup {Libc("value", t)}
  /\ call' = [call EXCEPT ![t].pc = "copyValue", ![t].found = TRUE]
  /\ UNCHANGED <<regime, handle, storage, inside, given, answer, sessions, entries>>
CompileEnds(t) ==
  /\ call[t].pc = "compile"
  /\ call' = [call EXCEPT ![t].pc = "cleanup", ![t].found = (call[t].kind = "append")]
  /\ UNCHANGED <<regime, handle, heap, storage, inside, given, answer, sessions, entries>>
CompileFails(t) == Fails(t, "compile", {"client", "host", "memory", "fatal"})

(* The whole value goes into one block of the embedder's; a value that cannot *)
(* be read, or that there is no memory for, fails the call.                   *)
CopyValue(t) == Takes(t, "copyValue", Host("answer", t), "cleanup")
CopyValueFails(t) == Fails(t, "copyValue", {"memory", "fatal"})

(* The store's blocks are released inside the mutex, in every case.           *)
ReleaseNothing(t) == {}  \* mutant
ReleaseInside(t) == {b \in heap : b.of = t /\ b.heap = "libc"}
Cleanup(t) ==
  /\ call[t].pc = "cleanup"
  /\ heap' = heap \ ReleaseInside(t)
  /\ inside' = inside \ {t}
  /\ call' = [call EXCEPT ![t].pc = "finish"]
  /\ UNCHANGED <<regime, handle, storage, given, answer, sessions, entries>>

(* After it, the targets are given back; a call that failed gives back the    *)
(* copy it made, and one that did not gives it to the caller.                 *)
Finish(t) ==
  LET copy == {Host("answer", t)} \cap heap
      ok == call[t].status = "ok"
  IN  /\ call[t].pc = "finish"
      /\ heap' = (heap \ {Targets(t)}) \ (IF ok THEN {} ELSE copy)
      /\ given' = [given EXCEPT ![t] = IF ok THEN copy ELSE {}]
      /\ Return(t, PublicStatus(call[t].status), ok /\ copy # {}, ok /\ call[t].found)
      /\ UNCHANGED <<regime, handle, storage, inside, sessions, entries>>

(* A result of the compiler that contradicts itself is an error of the engine *)
(* and the copy is released.                                                  *)
FinishInvalid(t) ==
  /\ call[t].pc = "finish" /\ call[t].status = "ok" /\ call[t].kind # "call"
  /\ heap' = heap \ {Targets(t), Host("answer", t)}
  /\ Return(t, "engine", FALSE, FALSE)
  /\ UNCHANGED <<regime, handle, storage, inside, given, sessions, entries>>

(* What a caller was given it may keep, past the close of the database too.   *)
(* Releasing empties the owner, so a second release finds nothing to do.      *)
ReleaseGiven(t) ==
  /\ call[t].pc = "rest" /\ given[t] # {}
  /\ heap' = heap \ given[t]
  /\ given' = [given EXCEPT ![t] = {}]
  /\ UNCHANGED <<regime, handle, storage, inside, call, answer, sessions, entries>>

-----------------------------------------------------------------------------
(* store_close, which an embedder calls when no other call is under way.      *)

CloseBegins(t) ==
  /\ handle = "open" /\ \A u \in Thread : call[u].pc = "rest"
  /\ handle' = "closing"
  /\ \E locked \in BOOLEAN :
       /\ inside' = IF locked THEN {t} ELSE {}
       /\ call' = [call EXCEPT ![t] = [Resting EXCEPT !.pc = "shutdown", !.kind = "close",
                                          !.status = IF locked THEN "ok" ELSE "engine"]]
  /\ UNCHANGED <<regime, heap, storage, given, answer, sessions, entries>>

(* The shutdown syncs and closes the storage and frees the store, whatever    *)
(* fails on the way; then the handle goes.                                    *)
CloseFrees == {Handle, Engine}
Close(t) ==
  /\ call[t].pc = "shutdown"
  /\ storage' = FALSE
  /\ heap' = heap \ CloseFrees
  /\ inside' = {} /\ handle' = "closed"
  /\ \E status \in {"ok", "host", "fatal"} :
       Return(t, IF call[t].status = "ok" THEN PublicStatus(status) ELSE "engine", FALSE, FALSE)
  /\ UNCHANGED <<regime, given, sessions, entries>>

EmbedNext ==
  \E t \in Thread :
    \/ OpenRefused(t) \/ OpenBegins(t) \/ OpenWithoutMutex(t) \/ Boot(t) \/ BootFails(t)
    \/ BeginCall(t) \/ Refuse(t) \/ Prepare(t) \/ NoTargets(t) \/ EnterCall(t) \/ CannotEnter(t)
    \/ DecodeCall(t) \/ DecodeCallFails(t) \/ DispatchCall(t) \/ DispatchCallFails(t)
    \/ EncodeCall(t) \/ EncodeCallFails(t) \/ CopyAnswer(t) \/ CopyFails(t)
    \/ CompileFinds(t) \/ CompileEnds(t) \/ CompileFails(t) \/ CopyValue(t) \/ CopyValueFails(t)
    \/ Cleanup(t) \/ Finish(t) \/ FinishInvalid(t) \/ ReleaseGiven(t)
    \/ CloseBegins(t) \/ Close(t)

EmbedSpec == EmbedInit /\ [][EmbedNext]_embedVars

-----------------------------------------------------------------------------
(* A thread that is not in a call owns only what it was given, and that is    *)
(* memory of the embedder: nothing of the store's outlives a call, on any     *)
(* path out of it.  A closed database has left nothing but what was given.    *)
NothingStays ==
  /\ \A t \in Thread :
       /\ call[t].pc = "rest" => Owned(t) = {}
       /\ given[t] \subseteq {b \in heap : b.heap = "host"}
  /\ handle = "closed" => ~storage /\ \A b \in heap : b \in UNION {given[t] : t \in Thread}
  /\ handle = "open" => {Handle, Engine} \subseteq heap

(* The store is used by one thread at a time, and only while it exists.       *)
OneInside ==
  /\ Cardinality(inside) <= 1
  /\ \A t \in Thread :
       call[t].pc \in {"decode", "dispatch", "encode", "copy", "compile", "copyValue", "cleanup"}
         => inside = {t} /\ Engine \in heap

(* A call gives a block exactly when it succeeds with something to give: a    *)
(* response, or the value a query found.                                      *)
AnswersAreWhole ==
  \A t \in Thread :
    /\ answer[t].status # "ok" => ~answer[t].got /\ ~answer[t].found
    /\ answer[t].status = "ok" =>
         /\ answer[t].kind = "call" => answer[t].got
         /\ answer[t].kind = "query" => (answer[t].got <=> answer[t].found)
         /\ answer[t].kind = "append" => answer[t].found /\ ~answer[t].got

CallsAreClean == NothingStays /\ OneInside /\ AnswersAreWhole
=============================================================================
