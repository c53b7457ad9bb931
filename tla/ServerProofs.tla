---------------------------- MODULE ServerProofs ----------------------------
(***************************************************************************)
(* Proofs about what surrounds the store: the threads that admit and serve  *)
(* connections, and the opening of a store by programs that share its log.  *)
(***************************************************************************)
EXTENDS Acceptor, Startup, Embed, Generations, FiniteSetTheorems, SequenceTheorems,
        WellFoundedInduction, TLAPS

-----------------------------------------------------------------------------
(* The threads of native/server_host.c, for every set of connections, every *)
(* cap and every number of quiet polls.                                     *)

NotRunning == {"none", "gone"}
Locking == {"closing", "leaving"}
Serving == {"read", "dispatch", "dispatching", "write", "release", "exit"}

(* The type of every variable that the safety of the threads rests on.      *)
TypeOK ==
  /\ peer \in [Conn -> {"none", "silent", "sent", "gone"}]
  /\ backlog \subseteq Conn
  /\ loop \in {"check", "poll", "compact", "admit", "arm", "drain", "shut",
               "wait", "waiting", "done"}
  /\ candidate \in Conn \cup {Nobody}
  /\ jobs \subseteq Conn /\ named \subseteq Conn /\ open \subseteq Conn
  /\ worker \in [Conn -> NotRunning \cup Serving \cup Locking]
  /\ lock \in Conn \cup {Acceptor, Nobody}
  /\ dispatch \in Conn \cup {Nobody}

(* A connection is accepted once: until then it has no worker.              *)
AcceptedOnce ==
  /\ \A c \in Conn : peer[c] = "none" \/ c \in backlog => worker[c] = "none"
  /\ \A c \in Conn : peer[c] = "none" => c \notin backlog
  /\ loop = "admit" =>
       /\ candidate \in Conn \ backlog
       /\ worker[candidate] = "none" /\ peer[candidate] # "none"

(* A job is listed, and its socket named, exactly while its worker runs; an *)
(* open socket is a worker's that has not closed it, or the candidate's.    *)
JobsHaveWorkers ==
  /\ jobs = {c \in Conn : worker[c] \notin NotRunning}
  /\ named = jobs
  /\ open = {c \in Conn : worker[c] \notin NotRunning \cup {"leaving"}}
              \cup (IF loop = "admit" THEN {candidate} ELSE {})

(* Who is between lock and unlock holds the mutex.                          *)
MutexesHeld ==
  /\ \A c \in Conn : lock = c <=> worker[c] \in Locking
  /\ lock = Acceptor <=> loop \in {"shut", "wait"}
  /\ \A c \in Conn : dispatch = c <=> worker[c] = "dispatching"

(* The acceptor compacts and ends only without clients; only it admits one. *)
AloneWhenItMatters == loop \in {"compact", "done"} => jobs = {}

AcceptorInv ==
  /\ TypeOK /\ AcceptedOnce /\ JobsHaveWorkers /\ MutexesHeld /\ AloneWhenItMatters
  /\ Cardinality(jobs) <= MaxActive

(* A server that starts has no connections.                                 *)
LEMMA AcceptorInvInit == Init => AcceptorInv
<1> SUFFICES ASSUME Init PROVE AcceptorInv
  OBVIOUS
<1>1. TypeOK
  BY DEF Init, TypeOK, NotRunning
<1>2. AcceptedOnce
  BY DEF Init, AcceptedOnce
<1>3. JobsHaveWorkers
  BY DEF Init, JobsHaveWorkers, NotRunning
<1>4. MutexesHeld
  BY AcceptorAssumption DEF Init, MutexesHeld, Locking
<1>5. AloneWhenItMatters /\ Cardinality(jobs) <= MaxActive
  BY AcceptorAssumption, FS_EmptySet DEF Init, AloneWhenItMatters
<1> QED BY <1>1, <1>2, <1>3, <1>4, <1>5 DEF AcceptorInv

-----------------------------------------------------------------------------
(* Steps that move one thread and leave the clients as they are.            *)

(* The acceptor goes on, not to or from a place where it holds clients_mutex*)
(* or a candidate: accept_loop between two connections.                     *)
LEMMA LoopMoves ==
  ASSUME AcceptorInv, UNCHANGED <<peer, backlog, jobs, worker, named, open, lock, dispatch>>,
         loop \notin {"admit", "shut", "wait"},
         loop' \in {"check", "poll", "compact", "drain", "waiting"},
         loop' = "compact" => jobs = {},
         candidate' \in Conn \cup {Nobody}
  PROVE  AcceptorInv'
<1>1. TypeOK'
  BY DEF AcceptorInv, TypeOK
<1>2. AcceptedOnce'
  BY DEF AcceptorInv, AcceptedOnce
<1>3. JobsHaveWorkers'
  BY DEF AcceptorInv, JobsHaveWorkers
<1>4. MutexesHeld'
  BY DEF AcceptorInv, MutexesHeld
<1>5. AloneWhenItMatters' /\ (Cardinality(jobs) <= MaxActive)'
  BY DEF AcceptorInv, AloneWhenItMatters
<1> QED BY <1>1, <1>2, <1>3, <1>4, <1>5 DEF AcceptorInv

(* A worker goes on between its start and its exit; it takes dispatch_mutex *)
(* and gives it back: serve_client_worker.                                  *)
LEMMA WorkerMoves ==
  ASSUME AcceptorInv, NEW c \in Conn, NEW to \in Serving,
         worker[c] \in Serving, worker' = [worker EXCEPT ![c] = to],
         UNCHANGED <<peer, backlog, loop, candidate, jobs, named, open, lock>>,
         \/ dispatch' = dispatch /\ "dispatching" \notin {worker[c], to}
         \/ dispatch = Nobody /\ dispatch' = c /\ to = "dispatching"
         \/ dispatch' = Nobody /\ worker[c] = "dispatching" /\ to # "dispatching"
  PROVE  AcceptorInv'
<1> USE DEF NotRunning, Serving, Locking
<1>1. TypeOK'
  BY DEF AcceptorInv, TypeOK
<1>2. AcceptedOnce'
  BY DEF AcceptorInv, TypeOK, AcceptedOnce
<1>3. JobsHaveWorkers'
  <2>1. \A d \in Conn : /\ worker'[d] \in NotRunning <=> worker[d] \in NotRunning
                        /\ worker'[d] = "leaving" <=> worker[d] = "leaving"
    BY DEF AcceptorInv, TypeOK
  <2> QED BY <2>1 DEF AcceptorInv, JobsHaveWorkers
<1>4. MutexesHeld'
  <2>1. \A d \in Conn : worker'[d] \in Locking <=> worker[d] \in Locking
    BY DEF AcceptorInv, TypeOK
  <2>2. ASSUME NEW d \in Conn PROVE dispatch' = d <=> worker'[d] = "dispatching"
    BY AcceptorAssumption DEF AcceptorInv, TypeOK, MutexesHeld
  <2> QED BY <2>1, <2>2 DEF AcceptorInv, MutexesHeld
<1>5. AloneWhenItMatters' /\ (Cardinality(jobs) <= MaxActive)'
  BY DEF AcceptorInv, AloneWhenItMatters
<1> QED BY <1>1, <1>2, <1>3, <1>4, <1>5 DEF AcceptorInv

(* A client's end changes, or another connection is queued.                 *)
LEMMA PeerMoves ==
  ASSUME AcceptorInv, NEW c \in Conn,
         UNCHANGED <<loop, candidate, jobs, worker, named, open, lock, dispatch>>,
         \/ /\ peer[c] = "none" /\ peer' = [peer EXCEPT ![c] = "silent"]
            /\ backlog' = backlog \cup {c}
         \/ /\ peer[c] = "silent" /\ backlog' = backlog
            /\ \E to \in {"sent", "gone"} : peer' = [peer EXCEPT ![c] = to]
  PROVE  AcceptorInv'
<1>1. TypeOK'
  BY DEF AcceptorInv, TypeOK
<1>2. AcceptedOnce'
  BY DEF AcceptorInv, TypeOK, AcceptedOnce
<1>3. JobsHaveWorkers' /\ MutexesHeld' /\ AloneWhenItMatters'
  BY DEF AcceptorInv, JobsHaveWorkers, MutexesHeld, AloneWhenItMatters
<1> QED BY <1>1, <1>2, <1>3 DEF AcceptorInv

(* Nothing the invariant speaks of has changed.                             *)
LEMMA NothingMoves ==
  ASSUME AcceptorInv,
         UNCHANGED <<peer, backlog, loop, candidate, jobs, worker, named, open, lock, dispatch>>
  PROVE  AcceptorInv'
BY DEF AcceptorInv, TypeOK, AcceptedOnce, JobsHaveWorkers, MutexesHeld, AloneWhenItMatters

-----------------------------------------------------------------------------
(* The acceptor takes a connection in.                                      *)

(* accept: the candidate has an open socket and no worker yet.              *)
LEMMA AcceptSafe ==
  ASSUME AcceptorInv, NEW c \in backlog, Accept(c)
  PROVE  AcceptorInv'
<1>1. /\ c \in Conn /\ loop = "poll" /\ loop' \in {"drain", "check", "admit"}
      /\ backlog' = backlog \ {c}
      /\ UNCHANGED <<peer, jobs, worker, named, lock, dispatch>>
      /\ loop' = "admit" => candidate' = c /\ open' = open \cup {c}
      /\ loop' # "admit" => UNCHANGED <<candidate, open>>
  BY DEF Accept, workerVars, AcceptorInv, TypeOK
<1>2. worker[c] = "none" /\ peer[c] # "none"
  BY <1>1 DEF AcceptorInv, TypeOK, AcceptedOnce
<1>3. TypeOK'
  BY <1>1 DEF AcceptorInv, TypeOK
<1>4. AcceptedOnce'
  BY <1>1, <1>2 DEF AcceptorInv, AcceptedOnce
<1>5. JobsHaveWorkers'
  BY <1>1 DEF AcceptorInv, JobsHaveWorkers
<1>6. MutexesHeld'
  BY <1>1 DEF AcceptorInv, MutexesHeld
<1>7. AloneWhenItMatters' /\ (Cardinality(jobs) <= MaxActive)'
  BY <1>1 DEF AcceptorInv, AloneWhenItMatters
<1> QED BY <1>3, <1>4, <1>5, <1>6, <1>7 DEF AcceptorInv

(* The job is linked while there is room, and its worker runs.              *)
LEMMA AdmitSafe ==
  ASSUME AcceptorInv, Admit
  PROVE  AcceptorInv'
<1> DEFINE c == candidate
<1>1. /\ loop = "admit" /\ loop' = "arm"
      /\ jobs' = jobs \cup {c} /\ named' = named \cup {c}
      /\ worker' = [worker EXCEPT ![c] = "read"]
      /\ UNCHANGED <<peer, backlog, candidate, open, lock, dispatch>>
      /\ MayAdmit
  BY DEF Admit
<1>2. c \in Conn /\ worker[c] = "none" /\ peer[c] # "none" /\ c \notin backlog
  BY <1>1 DEF AcceptorInv, AcceptedOnce
<1> HIDE DEF c
<1>3. \A d \in Conn : worker'[d] = IF d = c THEN "read" ELSE worker[d]
  BY <1>1, <1>2 DEF AcceptorInv, TypeOK
<1>4. TypeOK'
  BY <1>1, <1>2 DEF AcceptorInv, TypeOK, Serving
<1>5. AcceptedOnce'
  BY <1>1, <1>2, <1>3 DEF AcceptorInv, AcceptedOnce
<1>6. JobsHaveWorkers'
  BY <1>1, <1>2, <1>3 DEF AcceptorInv, JobsHaveWorkers, NotRunning, c
<1>7. MutexesHeld'
  BY <1>1, <1>2, <1>3 DEF AcceptorInv, MutexesHeld, Locking
<1>8. (Cardinality(jobs) <= MaxActive)'
  <2>1. IsFiniteSet(jobs) /\ Cardinality(jobs) \in Nat
    BY AcceptorAssumption, FS_Subset, FS_CardinalityType DEF AcceptorInv, TypeOK
  <2>2. Cardinality(jobs \cup {c}) <= Cardinality(jobs) + 1
    BY <2>1, FS_AddElement
  <2>3. Cardinality(jobs \cup {c}) \in Nat
    BY <2>1, FS_AddElement, FS_CardinalityType
  <2> QED BY <1>1, <2>1, <2>2, <2>3, AcceptorAssumption DEF MayAdmit
<1>9. AloneWhenItMatters'
  BY <1>1 DEF AloneWhenItMatters
<1> QED BY <1>4, <1>5, <1>6, <1>7, <1>8, <1>9 DEF AcceptorInv

(* A connection that cannot be served is closed at once.                    *)
LEMMA RefuseSafe ==
  ASSUME AcceptorInv, RefuseConnection
  PROVE  AcceptorInv'
<1>1. /\ loop = "admit" /\ loop' \in {"check", "drain"}
      /\ open' = open \ {candidate} /\ candidate' = Nobody
      /\ UNCHANGED <<peer, backlog, jobs, worker, named, lock, dispatch>>
  BY DEF RefuseConnection, workerVars
<1>2. candidate \in Conn /\ worker[candidate] \in NotRunning
  BY <1>1 DEF AcceptorInv, AcceptedOnce, NotRunning
<1>3. TypeOK'
  BY <1>1 DEF AcceptorInv, TypeOK
<1>4. AcceptedOnce'
  BY <1>1 DEF AcceptorInv, AcceptedOnce
<1>5. JobsHaveWorkers'
  BY <1>1, <1>2 DEF AcceptorInv, JobsHaveWorkers
<1>6. MutexesHeld' /\ AloneWhenItMatters' /\ (Cardinality(jobs) <= MaxActive)'
  BY <1>1 DEF AcceptorInv, MutexesHeld, AloneWhenItMatters
<1> QED BY <1>3, <1>4, <1>5, <1>6 DEF AcceptorInv

-----------------------------------------------------------------------------
(* clients_mutex changes hands.                                             *)

(* The acceptor takes clients_mutex for the drain, and again when it wakes; *)
(* no worker is between lock and unlock then.                               *)
LEMMA AcceptorLocks ==
  ASSUME AcceptorInv, Unlocked, lock' = Acceptor,
         loop \in {"drain", "waiting"}, loop' \in {"shut", "wait"},
         UNCHANGED <<peer, backlog, candidate, jobs, worker, named, open, dispatch>>
  PROVE  AcceptorInv'
<1>1. TypeOK'
  BY DEF AcceptorInv, TypeOK
<1>2. MutexesHeld'
  BY AcceptorAssumption DEF AcceptorInv, MutexesHeld, Unlocked
<1>3. AcceptedOnce' /\ JobsHaveWorkers' /\ AloneWhenItMatters' /\ (Cardinality(jobs) <= MaxActive)'
  BY DEF AcceptorInv, AcceptedOnce, JobsHaveWorkers, AloneWhenItMatters
<1> QED BY <1>1, <1>2, <1>3 DEF AcceptorInv

(* It releases the mutex to wait, or for good when no client is left.       *)
LEMMA WaitSafe ==
  ASSUME AcceptorInv, Wait
  PROVE  AcceptorInv'
<1>1. /\ loop = "wait" /\ lock' = Nobody
      /\ loop' = IF jobs = {} THEN "done" ELSE "waiting"
      /\ UNCHANGED <<peer, backlog, candidate, jobs, worker, named, open, dispatch>>
  BY DEF Wait, workerVars, socketVars
<1>2. TypeOK'
  BY <1>1 DEF AcceptorInv, TypeOK
<1>3. MutexesHeld'
  <2>1. lock = Acceptor
    BY <1>1 DEF AcceptorInv, MutexesHeld
  <2> QED BY <1>1, <2>1, AcceptorAssumption DEF AcceptorInv, MutexesHeld
<1>4. AcceptedOnce' /\ JobsHaveWorkers' /\ AloneWhenItMatters' /\ (Cardinality(jobs) <= MaxActive)'
  BY <1>1 DEF AcceptorInv, AcceptedOnce, JobsHaveWorkers, AloneWhenItMatters
<1> QED BY <1>2, <1>3, <1>4 DEF AcceptorInv

(* ShutSockets keeps clients_mutex.                                         *)
LEMMA ShutSocketsSafe ==
  ASSUME AcceptorInv, ShutSockets
  PROVE  AcceptorInv'
<1>1. /\ loop = "shut" /\ loop' = "wait"
      /\ UNCHANGED <<peer, backlog, candidate, jobs, worker, named, open, lock, dispatch>>
  BY DEF ShutSockets, workerVars
<1> QED
  BY <1>1 DEF AcceptorInv, TypeOK, AcceptedOnce, JobsHaveWorkers, MutexesHeld,
              AloneWhenItMatters

(* A worker that exits takes clients_mutex ...                              *)
LEMMA TakeClientsSafe ==
  ASSUME AcceptorInv, NEW c \in Conn, TakeClients(c)
  PROVE  AcceptorInv'
<1>1. /\ worker[c] = "exit" /\ lock = Nobody /\ lock' = c
      /\ worker' = [worker EXCEPT ![c] = "closing"]
      /\ UNCHANGED <<peer, backlog, loop, candidate, jobs, named, open, dispatch>>
  BY DEF TakeClients, Goes, Unlocked, WorkerElse, acceptorVars, socketVars
<1>2. \A d \in Conn : worker'[d] = IF d = c THEN "closing" ELSE worker[d]
  BY <1>1 DEF AcceptorInv, TypeOK
<1>3. TypeOK'
  BY <1>1 DEF AcceptorInv, TypeOK, Locking
<1>4. AcceptedOnce'
  BY <1>1, <1>2 DEF AcceptorInv, AcceptedOnce
<1>5. JobsHaveWorkers'
  BY <1>1, <1>2 DEF AcceptorInv, JobsHaveWorkers, NotRunning
<1>6. MutexesHeld'
  BY <1>1, <1>2, AcceptorAssumption DEF AcceptorInv, MutexesHeld, Locking
<1>7. AloneWhenItMatters' /\ (Cardinality(jobs) <= MaxActive)'
  BY <1>1 DEF AcceptorInv, AloneWhenItMatters
<1> QED BY <1>3, <1>4, <1>5, <1>6, <1>7 DEF AcceptorInv

(* ... closes its socket under it ...                                       *)
LEMMA CloseSocketSafe ==
  ASSUME AcceptorInv, NEW c \in Conn, CloseSocket(c)
  PROVE  AcceptorInv'
<1>1. /\ worker[c] = "closing" /\ open' = open \ {c}
      /\ worker' = [worker EXCEPT ![c] = "leaving"]
      /\ UNCHANGED <<peer, backlog, loop, candidate, jobs, named, lock, dispatch>>
  BY DEF CloseSocket, Goes, WorkerElse, acceptorVars
<1>2. \A d \in Conn : worker'[d] = IF d = c THEN "leaving" ELSE worker[d]
  BY <1>1 DEF AcceptorInv, TypeOK
<1>3. TypeOK'
  BY <1>1 DEF AcceptorInv, TypeOK, Locking
<1>4. AcceptedOnce'
  BY <1>1, <1>2 DEF AcceptorInv, AcceptedOnce
<1>5. JobsHaveWorkers'
  <2>1. jobs' = {d \in Conn : worker'[d] \notin NotRunning} /\ named' = jobs'
    BY <1>1, <1>2 DEF AcceptorInv, JobsHaveWorkers, NotRunning
  <2>2. loop = "admit" => candidate # c
    BY <1>1 DEF AcceptorInv, AcceptedOnce
  <2>3. {d \in Conn : worker'[d] \notin NotRunning \cup {"leaving"}}
          = {d \in Conn : worker[d] \notin NotRunning \cup {"leaving"}} \ {c}
    BY <1>1, <1>2 DEF NotRunning
  <2> QED BY <1>1, <2>1, <2>2, <2>3 DEF AcceptorInv, JobsHaveWorkers
<1>6. MutexesHeld'
  BY <1>1, <1>2 DEF AcceptorInv, MutexesHeld, Locking
<1>7. AloneWhenItMatters' /\ (Cardinality(jobs) <= MaxActive)'
  BY <1>1 DEF AcceptorInv, AloneWhenItMatters
<1> QED BY <1>3, <1>4, <1>5, <1>6, <1>7 DEF AcceptorInv

(* ... and unlinks its job before it unlocks.                               *)
LEMMA LeaveSafe ==
  ASSUME AcceptorInv, NEW c \in Conn, Leave(c)
  PROVE  AcceptorInv'
<1>1. /\ worker[c] = "leaving" /\ lock' = Nobody
      /\ jobs' = jobs \ {c} /\ named' = named \ {c}
      /\ worker' = [worker EXCEPT ![c] = "gone"]
      /\ UNCHANGED <<peer, backlog, loop, candidate, open, dispatch>>
  BY DEF Leave, Goes, WorkerElse, acceptorVars
<1>2. \A d \in Conn : worker'[d] = IF d = c THEN "gone" ELSE worker[d]
  BY <1>1 DEF AcceptorInv, TypeOK
<1>3. TypeOK'
  BY <1>1 DEF AcceptorInv, TypeOK, NotRunning
<1>4. AcceptedOnce'
  BY <1>1, <1>2 DEF AcceptorInv, AcceptedOnce
<1>5. JobsHaveWorkers'
  <2>1. jobs' = {d \in Conn : worker'[d] \notin NotRunning} /\ named' = jobs'
    BY <1>1, <1>2 DEF AcceptorInv, JobsHaveWorkers, NotRunning
  <2>2. {d \in Conn : worker'[d] \notin NotRunning \cup {"leaving"}}
          = {d \in Conn : worker[d] \notin NotRunning \cup {"leaving"}}
    BY <1>1, <1>2 DEF NotRunning
  <2> QED BY <1>1, <2>1, <2>2 DEF AcceptorInv, JobsHaveWorkers
<1>6. MutexesHeld'
  <2>1. lock = c
    BY <1>1 DEF AcceptorInv, MutexesHeld, Locking
  <2> QED BY <1>1, <1>2, <2>1, AcceptorAssumption DEF AcceptorInv, MutexesHeld, Locking
<1>7. AloneWhenItMatters'
  BY <1>1 DEF AcceptorInv, AloneWhenItMatters
<1>8. (Cardinality(jobs) <= MaxActive)'
  <2>1. IsFiniteSet(jobs)
    BY AcceptorAssumption, FS_Subset DEF AcceptorInv, TypeOK
  <2>2. /\ Cardinality(jobs') <= Cardinality(jobs)
        /\ Cardinality(jobs') \in Nat /\ Cardinality(jobs) \in Nat
    BY <1>1, <2>1, FS_Subset, FS_CardinalityType
  <2> QED BY <2>2, AcceptorAssumption DEF AcceptorInv
<1> QED BY <1>3, <1>4, <1>5, <1>6, <1>7, <1>8 DEF AcceptorInv

-----------------------------------------------------------------------------
(* Whatever thread runs next, and whatever clients do, the lists, sockets   *)
(* and mutexes of the server stay in step with its threads.                 *)
LEMMA AcceptorInvStep == AcceptorInv /\ [Next]_vars => AcceptorInv'
<1> SUFFICES ASSUME AcceptorInv, [Next]_vars PROVE AcceptorInv'
  OBVIOUS
<1>1. ASSUME NEW c \in Conn, Connect(c) \/ SendRequest(c) \/ Vanish(c)
      PROVE  AcceptorInv'
  BY <1>1, PeerMoves
  DEF Connect, SendRequest, Vanish, Environment, acceptorVars, workerVars, socketVars
<1>2. CASE Signal
  BY <1>2, NothingMoves DEF Signal, Environment, acceptorVars, workerVars, socketVars
<1>3. CASE AcceptorStep
  <2> USE DEF AcceptorInv, TypeOK, workerVars, socketVars
  <2>1. CASE CheckStop
    BY <2>1, LoopMoves DEF CheckStop
  <2>2. CASE PollQuiet
    BY <2>2, LoopMoves DEF PollQuiet
  <2>3. CASE CompactQuiet
    BY <2>3, LoopMoves DEF CompactQuiet
  <2>4. CASE ListenerFails
    BY <2>4, LoopMoves DEF ListenerFails
  <2>5. CASE Arm
    BY <2>5, LoopMoves DEF Arm
  <2>6. CASE \E c \in backlog : Accept(c)
    BY <2>6, AcceptSafe
  <2>7. CASE Admit
    BY <2>7, AdmitSafe
  <2>8. CASE RefuseConnection
    BY <2>8, RefuseSafe
  <2>9. CASE BeginDrain
    BY <2>9, AcceptorLocks DEF BeginDrain
  <2>10. CASE ShutSockets
    BY <2>10, ShutSocketsSafe
  <2>11. CASE Wait
    BY <2>11, WaitSafe
  <2>12. CASE Wake
    BY <2>12, AcceptorLocks DEF Wake
  <2> QED
    BY <1>3, <2>1, <2>2, <2>3, <2>4, <2>5, <2>6, <2>7, <2>8, <2>9, <2>10, <2>11, <2>12
    DEF AcceptorStep
<1>4. ASSUME NEW c \in Conn, WorkerStep(c) PROVE AcceptorInv'
  <2> USE DEF WorkerElse, acceptorVars, socketVars, Goes
  <2>1. CASE ReadRequest(c)
    BY <2>1, WorkerMoves DEF ReadRequest, Serving
  <2>2. CASE ReadNothing(c)
    BY <2>2, WorkerMoves DEF ReadNothing, Serving
  <2>3. CASE TakeDispatch(c)
    BY <2>3, WorkerMoves DEF TakeDispatch, Serving
  <2>4. CASE EndDispatch(c)
    BY <2>4, WorkerMoves DEF EndDispatch, Serving
  <2>5. CASE WriteResponse(c)
    BY <2>5, WorkerMoves DEF WriteResponse, Serving
  <2>6. CASE ReleaseResponse(c)
    BY <2>6, WorkerMoves DEF ReleaseResponse, Serving
  <2>7. CASE TakeClients(c)
    BY <2>7, TakeClientsSafe
  <2>8. CASE CloseSocket(c)
    BY <2>8, CloseSocketSafe
  <2>9. CASE Leave(c)
    BY <2>9, LeaveSafe
  <2> QED
    BY <1>4, <2>1, <2>2, <2>3, <2>4, <2>5, <2>6, <2>7, <2>8, <2>9 DEF WorkerStep
<1>5. CASE UNCHANGED vars
  BY <1>5, NothingMoves DEF vars, acceptorVars, workerVars, socketVars
<1> QED BY <1>1, <1>2, <1>3, <1>4, <1>5 DEF Next

(* What the invariant says where it matters: in a drain nobody is between   *)
(* closing its socket and leaving, and without jobs there is no worker.     *)
LEMMA AcceptorInvImplies == AcceptorInv => ClientsAreAccounted
<1> SUFFICES ASSUME AcceptorInv PROVE ClientsAreAccounted
  OBVIOUS
<1>1. jobs = {} => \A c \in Conn : worker[c] \in NotRunning
  BY DEF AcceptorInv, JobsHaveWorkers
<1>2. ShutsOwnSockets
  <2> SUFFICES ASSUME loop = "shut", NEW c \in jobs PROVE c \in open
    BY DEF ShutsOwnSockets
  <2>1. c \in Conn /\ lock # c /\ worker[c] \notin NotRunning
    BY AcceptorAssumption DEF AcceptorInv, TypeOK, MutexesHeld, JobsHaveWorkers
  <2>2. worker[c] # "leaving"
    BY <2>1 DEF AcceptorInv, MutexesHeld, Locking
  <2> QED BY <2>1, <2>2 DEF AcceptorInv, JobsHaveWorkers
<1>3. CompactsAlone
  BY <1>1 DEF AcceptorInv, AloneWhenItMatters, CompactsAlone, NotRunning
<1>4. NoWorkerOutlivesServer
  <2> SUFFICES ASSUME loop = "done"
               PROVE  /\ \A c \in Conn : worker[c] \in NotRunning
                      /\ open = {} /\ lock = Nobody /\ dispatch = Nobody
    BY DEF NoWorkerOutlivesServer, NotRunning
  <2>1. \A c \in Conn : worker[c] \in NotRunning
    BY <1>1 DEF AcceptorInv, AloneWhenItMatters
  <2>2. open = {}
    BY <2>1 DEF AcceptorInv, JobsHaveWorkers
  <2>3. lock = Nobody
    BY <2>1 DEF AcceptorInv, TypeOK, MutexesHeld, NotRunning, Locking
  <2>4. dispatch = Nobody
    BY <2>1 DEF AcceptorInv, TypeOK, MutexesHeld, NotRunning
  <2> QED BY <2>1, <2>2, <2>3, <2>4
<1> QED BY <1>2, <1>3, <1>4 DEF ClientsAreAccounted, AcceptorInv

(* The host never shuts down a socket that may be another file's by then,   *)
(* compacts alone, leaves no worker behind when it ends, and never has more *)
(* than max_active_clients clients, however its threads interleave.         *)
THEOREM HostIsSafe == Spec => []ClientsAreAccounted
BY AcceptorInvInit, AcceptorInvStep, AcceptorInvImplies, PTL DEF Spec

-----------------------------------------------------------------------------
(* The opening of a store by several programs on one log, for any programs  *)
(* and any settings.                                                        *)

Opened == Changing \cup {"openSnapshot"}
Steps == Opened \cup {"ended", "authority", "openLog", "closed"}
Listeners ==
  {NoListener} \cup {Wanted(s) : s \in Settings} \cup {s.inherited : s \in Settings}
Programs ==
  [pc : Steps, kind : {"none", "library", "server"}, settings : Settings \cup {NoListener},
   listener : Listeners, seen : Nat]
Logs == [records : Seq(Nat), torn : BOOLEAN]

(* A program holds a lock from the step that takes it to the one that gives *)
(* it back; what it has read of the log is still there when it cuts the     *)
(* tail; and what it listens on was checked against its settings.           *)
ProgramOk(p, state, side, logHolder, snapshotHolder, l) ==
  /\ state.pc \in Opened <=> logHolder = p
  /\ state.pc \in Changing <=> snapshotHolder = p
  /\ state.kind = "server" /\ state.pc \notin {"ended", "authority"} <=> side = p
  /\ state.pc = "repair" => state.seen = Len(l.records)
  /\ state.pc \in {"first", "sync", "listen", "serving"} => ~l.torn
  /\ state.pc \in {"authority", "listen"} => state.kind = "server"
  /\ state.kind = "server" => state.settings \in Settings /\ Usable(state.settings)
  /\ state.pc = "serving" /\ state.kind = "server" =>
       /\ state.listener.listening /\ state.listener.port = state.settings.port
       /\ state.listener.address = Address(state.settings)

AnsweredLogged(known, l) == \A n \in known : \E i \in DOMAIN l.records : l.records[i] = n

StartupInv ==
  /\ program \in [Opener -> Programs] /\ log \in Logs /\ written \in Nat
  /\ \A p \in Opener : ProgramOk(p, program[p], sidecar, logLock, snapshotLock, log)
  /\ AnsweredLogged(answered, log)

(* One program moves: it changes no lock but its own, and the log only while *)
(* it has both locks, which keeps every other program as it is.             *)
LEMMA OneProgramMoves ==
  ASSUME StartupInv, NEW p \in Opener,
         program' \in [Opener -> Programs], log' \in Logs, written' \in Nat,
         \A q \in Opener \ {p} :
           /\ program'[q] = program[q]
           /\ sidecar' = q <=> sidecar = q
           /\ logLock' = q <=> logLock = q
           /\ snapshotLock' = q <=> snapshotLock = q,
         log' = log \/ program[p].pc \in Changing,
         ProgramOk(p, program'[p], sidecar', logLock', snapshotLock', log'),
         AnsweredLogged(answered', log')
  PROVE  StartupInv'
<1>1. ASSUME NEW q \in Opener, q # p
      PROVE  ProgramOk(q, program'[q], sidecar', logLock', snapshotLock', log')
  <2>1. /\ ProgramOk(q, program[q], sidecar, logLock, snapshotLock, log)
        /\ ProgramOk(p, program[p], sidecar, logLock, snapshotLock, log)
    BY DEF StartupInv
  <2>2. CASE log' = log
    BY <1>1, <2>1, <2>2 DEF ProgramOk
  <2>3. CASE program[p].pc \in Changing
    <3>1. program[q].pc \notin Changing
      BY <1>1, <2>1, <2>3 DEF ProgramOk
    <3>2. program[q].pc \notin {"repair", "first", "sync", "listen", "serving"}
      BY <3>1 DEF Changing
    <3> QED
      BY <1>1, <2>1, <3>2 DEF ProgramOk
  <2> QED
    BY <2>2, <2>3
<1> QED
  BY <1>1 DEF StartupInv

LEMMA ProgramFacts ==
  ASSUME StartupInv, NEW p \in Opener
  PROVE  /\ program[p] \in Programs /\ program[p].pc \in Steps
         /\ ProgramOk(p, program[p], sidecar, logLock, snapshotLock, log)
         /\ p # NoProgram /\ log \in Logs /\ log.records \in Seq(Nat)
         /\ Changing \subseteq Steps /\ Changing \subseteq Opened
<1>1. program[p] \in Programs /\ program[p].pc \in Steps
  BY DEF StartupInv, Programs
<1>2. log \in Logs /\ log.records \in Seq(Nat)
  BY DEF StartupInv, Logs
<1> QED
  BY <1>1, <1>2, OpenerAssumption DEF StartupInv, Steps, Opened

(* A program that has both locks goes on to a step at which it keeps them.  *)
LEMMA GoesOn ==
  ASSUME StartupInv, NEW p \in Opener, program[p].pc \in Changing,
         NEW pc \in Changing \ {"repair"}, Proceeds(p, pc), UNCHANGED Locks,
         log' \in Logs, written' \in Nat, AnsweredLogged(answered', log'),
         pc \in {"first", "sync", "listen", "serving"} => ~log'.torn,
         pc = "serving" => program[p].kind # "server",
         pc = "listen" => program[p].kind = "server"
  PROVE  StartupInv'
<1> DEFINE state == program[p]
           next == [state EXCEPT !.pc = pc]
<1>1. /\ state \in Programs /\ ProgramOk(p, state, sidecar, logLock, snapshotLock, log)
      /\ Changing \subseteq Steps /\ Changing \subseteq Opened
  BY ProgramFacts
<1>2. pc \in Steps /\ pc \in Opened /\ pc \in Changing /\ pc # "repair"
  BY <1>1
<1>3. /\ next \in Programs /\ next.pc = pc /\ next.kind = state.kind
      /\ next.settings = state.settings /\ next.listener = state.listener
  BY <1>1, <1>2 DEF Programs
<1>4. /\ program' = [program EXCEPT ![p] = next] /\ program \in [Opener -> Programs]
      /\ sidecar' = sidecar /\ logLock' = logLock /\ snapshotLock' = snapshotLock
  BY DEF Proceeds, Locks, StartupInv
<1> HIDE DEF next
<1>5. program' \in [Opener -> Programs] /\ program'[p] = next
      /\ \A q \in Opener \ {p} : program'[q] = program[q]
  BY <1>3, <1>4
<1>6. state.pc \in Opened /\ pc \notin {"ended", "authority"} /\ state.pc \notin {"ended", "authority"}
  BY <1>1, <1>2 DEF Changing
<1>7. ProgramOk(p, next, sidecar, logLock, snapshotLock, log')
  BY <1>1, <1>2, <1>3, <1>6 DEF ProgramOk
<1> QED
  BY <1>4, <1>5, <1>7, OneProgramMoves

(* What a program gives back when its opening fails, when it is killed and  *)
(* when it has closed the store.                                            *)
LEMMA ProgramEnds ==
  ASSUME StartupInv, NEW p \in Opener,
         program' = [program EXCEPT ![p] = Ended],
         sidecar' = Without(p, sidecar), logLock' = Without(p, logLock),
         snapshotLock' = Without(p, snapshotLock),
         log' \in Logs, written' \in Nat, AnsweredLogged(answered', log'),
         log' = log \/ program[p].pc \in Changing
  PROVE  StartupInv'
<1>1. p # NoProgram /\ program \in [Opener -> Programs] /\ NoProgram \notin Opener
  BY OpenerAssumption DEF StartupInv
<1>2. Ended \in Programs /\ Ended.pc = "ended" /\ Ended.kind = "none"
  BY DEF Ended, Programs, Steps, Listeners
<1> HIDE DEF Ended
<1>3. program' \in [Opener -> Programs] /\ program'[p] = Ended
      /\ \A q \in Opener \ {p} : program'[q] = program[q]
  BY <1>1, <1>2
<1>4. /\ sidecar' # p /\ logLock' # p /\ snapshotLock' # p
      /\ \A q \in Opener \ {p} : /\ sidecar' = q <=> sidecar = q
                                 /\ logLock' = q <=> logLock = q
                                 /\ snapshotLock' = q <=> snapshotLock = q
  BY <1>1 DEF Without
<1>5. ProgramOk(p, Ended, sidecar', logLock', snapshotLock', log')
  BY <1>2, <1>4 DEF ProgramOk, Opened, Changing
<1> QED
  BY <1>3, <1>4, <1>5, OneProgramMoves

LEMMA StartKeeps == ASSUME StartupInv, NEW p \in Opener, Start(p) PROVE StartupInv'
<1> DEFINE library == [Ended EXCEPT !.pc = "openLog", !.kind = "library"]
           server(s) == [Ended EXCEPT !.pc = "authority", !.kind = "server", !.settings = s]
<1>1. /\ program \in [Opener -> Programs] /\ program[p].pc = "ended" /\ Ended \in Programs
      /\ ProgramOk(p, program[p], sidecar, logLock, snapshotLock, log)
      /\ UNCHANGED <<sidecar, logLock, snapshotLock, log, answered, written>>
  BY ProgramFacts DEF Start, StartupInv, Locks, LogState, Ended, Programs, Steps, Listeners
<1>2. log' \in Logs /\ written' \in Nat /\ AnsweredLogged(answered', log')
  BY <1>1 DEF StartupInv
<1>3. ASSUME NEW state \in Programs, program' = [program EXCEPT ![p] = state],
             state.pc \in {"openLog", "authority"},
             state.kind = "server" <=> state.pc = "authority",
             state.kind = "server" => state.settings \in Settings /\ Usable(state.settings)
      PROVE  StartupInv'
  <2>1. /\ program' \in [Opener -> Programs] /\ program'[p] = state
        /\ \A q \in Opener \ {p} : program'[q] = program[q]
    BY <1>1, <1>3
  <2>2. ProgramOk(p, state, sidecar, logLock, snapshotLock, log)
    BY <1>1, <1>3 DEF ProgramOk, Opened, Changing
  <2> QED
    BY <1>1, <1>2, <2>1, <2>2, OneProgramMoves
<1>4. CASE program' = [program EXCEPT ![p] = library]
  <2>1. library \in Programs /\ library.pc = "openLog" /\ library.kind = "library"
    BY DEF Ended, Programs, Steps, Listeners
  <2> QED
    BY <1>3, <1>4, <2>1
<1>5. ASSUME NEW s \in Settings, Usable(s), program' = [program EXCEPT ![p] = server(s)]
      PROVE  StartupInv'
  <2>1. /\ server(s) \in Programs /\ server(s).pc = "authority" /\ server(s).kind = "server"
        /\ server(s).settings = s
    BY DEF Ended, Programs, Steps, Listeners
  <2> QED
    BY <1>3, <1>5, <2>1
<1>6. CASE program' = program
  BY <1>1, <1>2, <1>6 DEF StartupInv
<1> QED
  BY <1>4, <1>5, <1>6 DEF Start

(* One program takes a lock that nobody has.                                *)
LEMMA TakesLock ==
  ASSUME StartupInv, NEW p \in Opener, NEW pc \in Steps, Proceeds(p, pc), UNCHANGED LogState,
         \/ /\ program[p].pc = "authority" /\ sidecar = NoProgram /\ pc = "openLog"
            /\ sidecar' = p /\ UNCHANGED <<logLock, snapshotLock>>
         \/ /\ program[p].pc = "openLog" /\ logLock = NoProgram /\ pc = "openSnapshot"
            /\ logLock' = p /\ UNCHANGED <<sidecar, snapshotLock>>
         \/ /\ program[p].pc = "openSnapshot" /\ snapshotLock = NoProgram /\ pc = "read"
            /\ snapshotLock' = p /\ UNCHANGED <<sidecar, logLock>>
  PROVE  StartupInv'
<1> DEFINE state == program[p]
           next == [state EXCEPT !.pc = pc]
<1>1. /\ state \in Programs /\ program \in [Opener -> Programs]
      /\ ProgramOk(p, state, sidecar, logLock, snapshotLock, log)
      /\ NoProgram \notin Opener
      /\ log' = log /\ log' \in Logs /\ written' \in Nat /\ AnsweredLogged(answered', log')
  BY ProgramFacts, OpenerAssumption DEF StartupInv, LogState
<1>2. next \in Programs /\ next.pc = pc /\ next.kind = state.kind /\ next.settings = state.settings
  BY <1>1 DEF Programs
<1>3. /\ program' \in [Opener -> Programs] /\ program'[p] = next
      /\ \A q \in Opener \ {p} : program'[q] = program[q]
  BY <1>1, <1>2 DEF Proceeds
<1> HIDE DEF next
<1>4. \A q \in Opener \ {p} : /\ sidecar' = q <=> sidecar = q
                              /\ logLock' = q <=> logLock = q
                              /\ snapshotLock' = q <=> snapshotLock = q
  BY <1>1
<1>5. ProgramOk(p, next, sidecar', logLock', snapshotLock', log)
  <2>1. CASE pc = "openLog"
    <3>1. state.pc = "authority" /\ sidecar' = p /\ UNCHANGED <<logLock, snapshotLock>>
      BY <2>1
    <3> QED
      BY <1>1, <1>2, <2>1, <3>1 DEF ProgramOk, Opened, Changing
  <2>2. CASE pc = "openSnapshot"
    <3>1. state.pc = "openLog" /\ logLock' = p /\ UNCHANGED <<sidecar, snapshotLock>>
      BY <2>2
    <3> QED
      BY <1>1, <1>2, <2>2, <3>1 DEF ProgramOk, Opened, Changing
  <2>3. CASE pc = "read"
    <3>1. state.pc = "openSnapshot" /\ snapshotLock' = p /\ UNCHANGED <<sidecar, logLock>>
      BY <2>3
    <3> QED
      BY <1>1, <1>2, <2>3, <3>1 DEF ProgramOk, Opened, Changing
  <2> QED
    BY <2>1, <2>2, <2>3
<1> QED
  BY <1>1, <1>3, <1>4, <1>5, OneProgramMoves

LEMMA ReadLogKeeps == ASSUME StartupInv, NEW p \in Opener, ReadLog(p) PROVE StartupInv'
<1> DEFINE state == program[p]
           next == [state EXCEPT !.pc = "repair", !.seen = Len(log.records)]
<1>1. /\ state \in Programs /\ program \in [Opener -> Programs] /\ state.pc = "read"
      /\ ProgramOk(p, state, sidecar, logLock, snapshotLock, log)
      /\ log.records \in Seq(Nat) /\ program' = [program EXCEPT ![p] = next]
      /\ UNCHANGED <<sidecar, logLock, snapshotLock, log, answered, written>>
      /\ log' \in Logs /\ written' \in Nat /\ AnsweredLogged(answered', log')
  <2>1. /\ state.pc = "read"
        /\ program' = [program EXCEPT ![p].pc = "repair", ![p].seen = Len(log.records)]
        /\ UNCHANGED <<sidecar, logLock, snapshotLock, log, answered, written>>
    BY DEF ReadLog, Locks, LogState
  <2>2. program \in [Opener -> Programs] /\ log \in Logs /\ written \in Nat /\ AnsweredLogged(answered, log)
    BY DEF StartupInv
  <2>3. program' = [program EXCEPT ![p] = next]
    BY <2>1, <2>2
  <2> QED
    BY <2>1, <2>2, <2>3, ProgramFacts
<1>2. /\ next \in Programs /\ next.pc = "repair" /\ next.kind = state.kind
      /\ next.settings = state.settings /\ next.seen = Len(log.records)
  <2>1. Len(log.records) \in Nat /\ "repair" \in Steps
    BY <1>1, LenProperties DEF Steps, Opened, Changing
  <2> HIDE DEF Steps
  <2> QED
    BY <1>1, <2>1 DEF Programs
<1> HIDE DEF next
<1>3. /\ program' \in [Opener -> Programs] /\ program'[p] = next
      /\ \A q \in Opener \ {p} : program'[q] = program[q]
  BY <1>1, <1>2
<1>4. ProgramOk(p, next, sidecar, logLock, snapshotLock, log)
  BY <1>1, <1>2 DEF ProgramOk, Opened, Changing
<1> QED
  BY <1>1, <1>3, <1>4, OneProgramMoves

(* The repair keeps everything that was read, and nothing was added since.  *)
LEMMA RepairTailKeeps == ASSUME StartupInv, NEW p \in Opener, RepairTail(p) PROVE StartupInv'
<1>1. /\ program[p].pc = "repair" /\ program[p].seen = Len(log.records)
      /\ log.records \in Seq(Nat) /\ UNCHANGED <<answered, written>> /\ UNCHANGED Locks
      /\ written \in Nat /\ AnsweredLogged(answered, log)
      /\ log' = [records |-> SubSeq(log.records, 1, program[p].seen), torn |-> FALSE]
  BY ProgramFacts DEF RepairTail, ProgramOk, StartupInv
<1>2. SubSeq(log.records, 1, Len(log.records)) = log.records
  BY <1>1, SubSeqFull
<1>3. log' \in Logs /\ log'.records = log.records /\ ~log'.torn
  BY <1>1, <1>2 DEF Logs
<1>4. AnsweredLogged(answered', log')
  <2>1. AnsweredLogged(answered, log) /\ answered' = answered
    BY <1>1
  <2> QED
    BY <1>3, <2>1 DEF AnsweredLogged
<1>5. CASE Proceeds(p, "first")
  BY <1>1, <1>3, <1>4, <1>5, GoesOn DEF Changing
<1>6. CASE Proceeds(p, "sync")
  BY <1>1, <1>3, <1>4, <1>6, GoesOn DEF Changing
<1> QED
  BY <1>5, <1>6 DEF RepairTail

(* Appending to the log, whole or in part, takes nothing from it.           *)
LEMMA AppendLogs ==
  ASSUME NEW l \in Logs, NEW n \in Nat, NEW known, AnsweredLogged(known, l)
  PROVE  /\ [l EXCEPT !.records = Append(@, n)] \in Logs
         /\ [l EXCEPT !.torn = TRUE] \in Logs
         /\ [l EXCEPT !.records = Append(@, n)].torn = l.torn
         /\ AnsweredLogged(known, [l EXCEPT !.torn = TRUE])
         /\ AnsweredLogged(known \cup {n}, [l EXCEPT !.records = Append(@, n)])
         /\ AnsweredLogged(known, [l EXCEPT !.records = Append(@, n)])
<1> DEFINE longer == [l EXCEPT !.records = Append(@, n)]
           torn == [l EXCEPT !.torn = TRUE]
<1>1. l.records \in Seq(Nat) /\ l.torn \in BOOLEAN
  BY DEF Logs
<1>2. /\ Append(l.records, n) \in Seq(Nat)
      /\ Len(Append(l.records, n)) = Len(l.records) + 1
      /\ Append(l.records, n)[Len(l.records) + 1] = n
      /\ \A i \in 1..Len(l.records) : Append(l.records, n)[i] = l.records[i]
  BY <1>1, AppendProperties
<1>3. longer \in Logs /\ longer.records = Append(l.records, n) /\ longer.torn = l.torn
  BY <1>1, <1>2 DEF Logs
<1>4. torn \in Logs /\ torn.records = l.records
  BY <1>1 DEF Logs
<1> HIDE DEF longer, torn
<1>5. AnsweredLogged(known, torn)
  BY <1>4 DEF AnsweredLogged
<1>6. /\ DOMAIN l.records = 1..Len(l.records) /\ DOMAIN longer.records = 1..(Len(l.records) + 1)
      /\ Len(l.records) \in Nat
  BY <1>1, <1>2, <1>3, LenProperties
<1>7. \A i \in DOMAIN l.records : i \in DOMAIN longer.records /\ longer.records[i] = l.records[i]
  BY <1>2, <1>3, <1>6
<1>8. Len(l.records) + 1 \in DOMAIN longer.records /\ longer.records[Len(l.records) + 1] = n
  BY <1>2, <1>3, <1>6
<1>9. AnsweredLogged(known, longer)
  BY <1>7 DEF AnsweredLogged
<1>10. AnsweredLogged(known \cup {n}, longer)
  BY <1>8, <1>9 DEF AnsweredLogged
<1> QED
  BY <1>3, <1>4, <1>5, <1>9, <1>10 DEF longer, torn

LEMMA WriteFirstKeeps == ASSUME StartupInv, NEW p \in Opener, WriteFirst(p) PROVE StartupInv'
<1>1. /\ program[p].pc = "first" /\ UNCHANGED <<answered, written>> /\ UNCHANGED Locks
      /\ log \in Logs /\ ~log.torn /\ written \in Nat /\ AnsweredLogged(answered, log)
  BY ProgramFacts DEF WriteFirst, ProgramOk, StartupInv
<1>2. CASE log' = [log EXCEPT !.records = Append(@, 0)] /\ Proceeds(p, "sync")
  <2>1. log' \in Logs /\ ~log'.torn /\ AnsweredLogged(answered', log')
    BY <1>1, <1>2, AppendLogs
  <2> QED
    BY <1>1, <1>2, <2>1, GoesOn DEF Changing
<1>3. CASE log' = [log EXCEPT !.torn = TRUE] /\ Proceeds(p, "undo")
  <2>1. log' \in Logs /\ AnsweredLogged(answered', log')
    BY <1>1, <1>3, AppendLogs
  <2> QED
    BY <1>1, <1>3, <2>1, GoesOn DEF Changing
<1> QED
  BY <1>2, <1>3 DEF WriteFirst

LEMMA SyncBootKeeps == ASSUME StartupInv, NEW p \in Opener, SyncBoot(p) PROVE StartupInv'
<1>1. /\ program[p].pc = "sync" /\ UNCHANGED <<log, answered, written>> /\ UNCHANGED Locks
      /\ log' \in Logs /\ ~log'.torn /\ written' \in Nat /\ AnsweredLogged(answered', log')
  BY ProgramFacts DEF SyncBoot, ProgramOk, StartupInv, LogState
<1>2. CASE program[p].kind = "server"
  <2>1. Proceeds(p, "listen")
    BY <1>2 DEF SyncBoot
  <2> QED
    BY <1>1, <1>2, <2>1, GoesOn DEF Changing
<1>3. CASE program[p].kind # "server"
  <2>1. Proceeds(p, "serving")
    BY <1>3 DEF SyncBoot
  <2> QED
    BY <1>1, <1>3, <2>1, GoesOn DEF Changing
<1> QED
  BY <1>2, <1>3

(* READY is said of a listener that is what the settings ask for.           *)
LEMMA ListenKeeps == ASSUME StartupInv, NEW p \in Opener, Listen(p) PROVE StartupInv'
<1> DEFINE state == program[p]
           s == state.settings
           next(socket) == [state EXCEPT !.pc = "serving", !.listener = socket]
<1>1. /\ state.pc = "listen" /\ state \in Programs /\ program \in [Opener -> Programs]
      /\ ProgramOk(p, state, sidecar, logLock, snapshotLock, log)
      /\ UNCHANGED <<log, answered, written>> /\ UNCHANGED Locks
      /\ log' \in Logs /\ ~log'.torn /\ written' \in Nat /\ AnsweredLogged(answered', log')
  BY ProgramFacts DEF Listen, ProgramOk, StartupInv, LogState
<1>2. ASSUME NEW socket \in Listeners, program' = [program EXCEPT ![p] = next(socket)],
             state.kind = "server" =>
               socket.listening /\ socket.port = s.port /\ socket.address = Address(s)
      PROVE  StartupInv'
  <2>1. /\ next(socket) \in Programs /\ next(socket).pc = "serving"
        /\ next(socket).kind = state.kind /\ next(socket).settings = s
        /\ next(socket).listener = socket
    <3>1. "serving" \in Steps
      BY DEF Steps, Opened, Changing
    <3> HIDE DEF Steps, Listeners
    <3> QED
      BY <1>1, <3>1 DEF Programs
  <2> HIDE DEF next
  <2>2. /\ program' \in [Opener -> Programs] /\ program'[p] = next(socket)
        /\ \A q \in Opener \ {p} : program'[q] = program[q]
    BY <1>1, <1>2, <2>1
  <2>3. ProgramOk(p, next(socket), sidecar, logLock, snapshotLock, log)
    BY <1>1, <1>2, <2>1 DEF ProgramOk, Opened, Changing
  <2>4. sidecar' = sidecar /\ logLock' = logLock /\ snapshotLock' = snapshotLock /\ log' = log
    BY <1>1 DEF Locks
  <2> QED
    BY <1>1, <2>2, <2>3, <2>4, OneProgramMoves
<1>3. CASE Proceeds(p, "closing")
  BY <1>1, <1>3, GoesOn DEF Changing
<1>4. CASE program' = [program EXCEPT ![p].pc = "serving", ![p].listener = Wanted(s)]
  <2>1. Wanted(s) \in Listeners
    <3>1. s \in Settings
      BY <1>1 DEF ProgramOk
    <3> QED
      BY <3>1 DEF Listeners
  <2>2. program' = [program EXCEPT ![p] = next(Wanted(s))]
    BY <1>1, <1>4
  <2>3. Wanted(s).listening /\ Wanted(s).port = s.port /\ Wanted(s).address = Address(s)
    BY DEF Wanted
  <2> QED
    BY <1>2, <2>1, <2>2, <2>3
<1>5. CASE Fits(s, s.inherited)
           /\ program' = [program EXCEPT ![p].pc = "serving", ![p].listener = s.inherited]
  <2>1. s.inherited \in Listeners
    <3>1. s \in Settings
      BY <1>1 DEF ProgramOk
    <3> QED
      BY <3>1 DEF Listeners
  <2>2. program' = [program EXCEPT ![p] = next(s.inherited)]
    BY <1>1, <1>5
  <2>3. /\ s.inherited.listening /\ s.inherited.port = s.port
        /\ s.inherited.address = Address(s)
    BY <1>5 DEF Fits, AddressFits, Address
  <2> QED
    BY <1>2, <2>1, <2>2, <2>3
<1> QED
  BY <1>3, <1>4, <1>5 DEF Listen

LEMMA WriteKeeps == ASSUME StartupInv, NEW p \in Opener, Write(p) PROVE StartupInv'
<1>1. /\ program[p].pc = "serving" /\ UNCHANGED Locks /\ written' = written + 1
      /\ log \in Logs /\ ~log.torn /\ written \in Nat /\ AnsweredLogged(answered, log)
      /\ program \in [Opener -> Programs]
      /\ ProgramOk(p, program[p], sidecar, logLock, snapshotLock, log)
  BY ProgramFacts DEF Write, ProgramOk, StartupInv
<1>2. written' \in Nat
  BY <1>1
<1>3. CASE /\ log' = [log EXCEPT !.records = Append(@, written')]
           /\ answered' = answered \cup {written'} /\ UNCHANGED program
  <2>1. log' \in Logs /\ ~log'.torn /\ AnsweredLogged(answered', log')
    BY <1>1, <1>2, <1>3, AppendLogs
  <2>2. ProgramOk(p, program[p], sidecar, logLock, snapshotLock, log')
    BY <1>1, <2>1 DEF ProgramOk
  <2> QED
    BY <1>1, <1>2, <1>3, <2>1, <2>2, OneProgramMoves DEF Locks, Changing
<1>4. CASE /\ log' = [log EXCEPT !.torn = TRUE] /\ Proceeds(p, "poisoned")
           /\ UNCHANGED answered
  <2>1. log' \in Logs /\ AnsweredLogged(answered', log')
    BY <1>1, <1>4, AppendLogs
  <2> QED
    BY <1>1, <1>2, <1>4, <2>1, GoesOn DEF Changing
<1> QED
  BY <1>3, <1>4 DEF Write

LEMMA StopKeeps == ASSUME StartupInv, NEW p \in Opener, Stop(p) PROVE StartupInv'
<1>1. /\ program[p].pc \in Changing /\ UNCHANGED Locks /\ Proceeds(p, "closing")
      /\ log' \in Logs /\ written' \in Nat /\ AnsweredLogged(answered', log')
  BY DEF StartupInv, Stop, LogState, Changing
<1> QED
  BY <1>1, GoesOn DEF Changing

LEMMA CloseStoreKeeps == ASSUME StartupInv, NEW p \in Opener, CloseStore(p) PROVE StartupInv'
<1> DEFINE state == program[p]
           next == [state EXCEPT !.pc = "closed", !.listener = NoListener]
<1>1. /\ state.pc = "closing" /\ state \in Programs /\ program \in [Opener -> Programs]
      /\ ProgramOk(p, state, sidecar, logLock, snapshotLock, log)
      /\ NoProgram \notin Opener /\ UNCHANGED <<sidecar, log, answered, written>>
      /\ logLock' = Without(p, logLock) /\ snapshotLock' = Without(p, snapshotLock)
      /\ log' \in Logs /\ written' \in Nat /\ AnsweredLogged(answered', log')
  BY ProgramFacts, OpenerAssumption DEF CloseStore, StartupInv, LogState
<1>2. program' = [program EXCEPT ![p] = next]
  BY <1>1 DEF CloseStore
<1>3. /\ next \in Programs /\ next.pc = "closed" /\ next.kind = state.kind
      /\ next.settings = state.settings
  <2>1. "closed" \in Steps /\ NoListener \in Listeners
    BY DEF Steps, Listeners
  <2> HIDE DEF Steps, Listeners
  <2> QED
    BY <1>1, <2>1 DEF Programs
<1> HIDE DEF next
<1>4. /\ program' \in [Opener -> Programs] /\ program'[p] = next
      /\ \A q \in Opener \ {p} : program'[q] = program[q]
  BY <1>1, <1>2, <1>3
<1>5. /\ logLock' # p /\ snapshotLock' # p
      /\ \A q \in Opener \ {p} : /\ sidecar' = q <=> sidecar = q
                                 /\ logLock' = q <=> logLock = q
                                 /\ snapshotLock' = q <=> snapshotLock = q
  BY <1>1 DEF Without
<1>6. ProgramOk(p, next, sidecar', logLock', snapshotLock', log')
  BY <1>1, <1>3, <1>5 DEF ProgramOk, Opened, Changing
<1> QED
  BY <1>1, <1>4, <1>5, <1>6, OneProgramMoves

(* A start that is refused, an opening that fails, a store that was closed, *)
(* and a program that is killed.                                            *)
LEMMA EndingKeeps ==
  ASSUME StartupInv, NEW p \in Opener,
         NoAuthority(p) \/ OpeningFails(p) \/ ReleaseAuthority(p) \/ Kill(p)
  PROVE  StartupInv'
<1>1. /\ log \in Logs /\ written \in Nat /\ AnsweredLogged(answered, log)
      /\ ProgramOk(p, program[p], sidecar, logLock, snapshotLock, log)
  BY ProgramFacts DEF StartupInv
<1>2. CASE NoAuthority(p)
  <2>1. sidecar # p /\ logLock # p /\ snapshotLock # p
    BY <1>1, <1>2 DEF NoAuthority, ProgramOk, Opened, Changing
  <2> QED
    BY <1>1, <1>2, <2>1, ProgramEnds DEF NoAuthority, Without, Locks, LogState
<1>3. CASE OpeningFails(p)
  BY <1>1, <1>3, ProgramEnds DEF OpeningFails, ReleaseAll, LogState
<1>4. CASE ReleaseAuthority(p)
  BY <1>1, <1>4, ProgramEnds DEF ReleaseAuthority, ReleaseAll, LogState
<1>5. CASE Kill(p)
  <2>1. /\ UNCHANGED <<answered, written>> /\ program' = [program EXCEPT ![p] = Ended]
        /\ sidecar' = Without(p, sidecar) /\ snapshotLock' = Without(p, snapshotLock)
        /\ logLock' = Without(p, logLock)
    BY <1>5 DEF Kill
  <2>2. CASE log' = log
    BY <1>1, <2>1, <2>2, ProgramEnds
  <2>3. CASE log' # log
    <3>1. program[p].pc \in Changing /\ log' = [log EXCEPT !.torn = TRUE]
      BY <1>5, <2>3 DEF Kill, Changing
    <3>2. log' \in Logs /\ AnsweredLogged(answered, log')
      BY <1>1, <3>1, AppendLogs
    <3> QED
      BY <1>1, <2>1, <3>1, <3>2, ProgramEnds
  <2> QED
    BY <2>2, <2>3
<1> QED
  BY <1>2, <1>3, <1>4, <1>5

LEMMA TakingKeeps ==
  ASSUME StartupInv, NEW p \in Opener, TakeAuthority(p) \/ OpenLog(p) \/ OpenSnapshot(p)
  PROVE  StartupInv'
<1>1. {"openLog", "openSnapshot", "read"} \subseteq Steps
  BY DEF Steps, Opened, Changing
<1>2. CASE TakeAuthority(p)
  BY <1>1, <1>2, TakesLock DEF TakeAuthority
<1>3. CASE OpenLog(p)
  BY <1>1, <1>3, TakesLock DEF OpenLog, MayLock
<1>4. CASE OpenSnapshot(p)
  BY <1>1, <1>4, TakesLock DEF OpenSnapshot, MayLock
<1> QED
  BY <1>2, <1>3, <1>4

(* The invariant of the programs that share a log.                          *)
THEOREM OpeningIsSound == StartupSpec => []StartupInv
<1>1. ASSUME StartupInit PROVE StartupInv
  <2>1. Ended \in Programs /\ Ended.pc = "ended" /\ Ended.kind = "none"
    BY DEF Ended, Programs, Steps, Listeners
  <2>2. log \in Logs /\ log.torn = FALSE
    BY <1>1, EmptySeq DEF StartupInit, Logs
  <2>3. ASSUME NEW p \in Opener
        PROVE  ProgramOk(p, Ended, sidecar, logLock, snapshotLock, log)
    BY <1>1, <2>1, OpenerAssumption DEF StartupInit, ProgramOk, Opened, Changing
  <2> HIDE DEF Ended
  <2> QED
    BY <1>1, <2>1, <2>2, <2>3 DEF StartupInit, StartupInv, AnsweredLogged
<1>2. ASSUME StartupInv, [StartupNext]_startupVars PROVE StartupInv'
  <2>1. CASE UNCHANGED startupVars
    BY <1>2, <2>1 DEF startupVars, StartupInv
  <2>2. ASSUME NEW p \in Opener,
               \/ Start(p) \/ TakeAuthority(p) \/ NoAuthority(p)
               \/ OpenLog(p) \/ OpenSnapshot(p) \/ ReadLog(p) \/ RepairTail(p) \/ WriteFirst(p)
               \/ SyncBoot(p) \/ OpeningFails(p) \/ Listen(p) \/ Write(p) \/ Stop(p)
               \/ CloseStore(p) \/ ReleaseAuthority(p) \/ Kill(p)
        PROVE  StartupInv'
    BY <1>2, <2>2, StartKeeps, TakingKeeps, EndingKeeps, ReadLogKeeps, RepairTailKeeps,
       WriteFirstKeeps, SyncBootKeeps, ListenKeeps, WriteKeeps, StopKeeps, CloseStoreKeeps
  <2> QED
    BY <1>2, <2>1, <2>2 DEF StartupNext
<1> QED
  BY <1>1, <1>2, PTL DEF StartupSpec

(* Two programs never change one log at a time, no repair cuts an answered  *)
(* record and none is appended behind a part of one, no program that ended  *)
(* keeps a lock, and a server listens where it was told (store_boot,        *)
(* acquire_writer_authority and main of server_host.c).                     *)
THEOREM OpeningsAreExclusive == StartupSpec => []OpeningIsExclusive
<1>1. ASSUME StartupInv PROVE OpeningIsExclusive
  <2>1. \A p \in Opener : ProgramOk(p, program[p], sidecar, logLock, snapshotLock, log)
    BY <1>1 DEF StartupInv
  <2>2. OneWriter
    <3> DEFINE writers == {p \in Opener : program[p].pc \in Changing}
    <3>1. writers \subseteq {snapshotLock}
      BY <2>1 DEF ProgramOk
    <3>2. IsFiniteSet({snapshotLock}) /\ Cardinality({snapshotLock}) = 1
      BY FS_Singleton
    <3>3. Cardinality(writers) <= 1
      BY <3>1, <3>2, FS_Subset
    <3> QED
      BY <3>3 DEF OneWriter
  <2>3. AnsweredStay
    BY <1>1, <2>1 DEF StartupInv, AnsweredStay, AnsweredLogged, ProgramOk
  <2>4. LocksAreReturned
    BY <2>1 DEF LocksAreReturned, ProgramOk, Opened, Changing
  <2>5. ServesWhereTold
    BY <2>1 DEF ServesWhereTold, ProgramOk
  <2> QED
    BY <2>2, <2>3, <2>4, <2>5 DEF OpeningIsExclusive
<1> QED
  BY <1>1, OpeningIsSound, PTL

-----------------------------------------------------------------------------
(* The store inside another program, for any number of threads, sessions    *)
(* and calls.                                                               *)

Blocks ==
  [heap : {"host", "libc"},
   what : {"database", "store", "targets", "request", "response", "encoded", "answer", "value"},
   of : Thread \cup {"all"}]
Decoding == {"decode", "dispatch", "encode", "copy"}
Within == Decoding \cup {"compile", "copyValue", "cleanup"}
Calling == Within \cup {"prepare", "enter", "finish"}
Statuses == Failures \cup {"ok", "engine"}
Calls ==
  [pc : Calling \cup {"rest", "boot", "shutdown"},
   kind : Kinds \cup {"none", "open", "close"}, status : Statuses, found : BOOLEAN]
Answers ==
  [status : Statuses \cup {"none", "argument"}, kind : Kinds \cup {"none", "open", "close"},
   got : BOOLEAN, found : BOOLEAN]

(* What a thread owns at each step of a call: outside one only what it was  *)
(* given, before the mutex and behind it nothing of the store's, and at the *)
(* end of a call without an error the copy that its answer announces.       *)
CallOk(t, c, mine, gave) ==
  /\ c \in Calls
  /\ \A b \in mine : b.heap = "libc" \/ b = Targets(t) \/ b = Host("answer", t)
  /\ c.pc \notin Calling => mine = gave /\ gave \subseteq {Host("answer", t)}
  /\ c.pc \in Calling => gave = {} /\ c.kind \in Kinds
  /\ c.pc = "boot" => c.kind = "open"
  /\ c.pc = "shutdown" => c.kind = "close"
  /\ c.pc = "prepare" => mine = {}
  /\ c.pc \in {"enter", "finish"} => \A b \in mine : b.heap # "libc"
  /\ c.pc \in Calling \ {"cleanup", "finish"} =>
       Host("answer", t) \notin mine /\ c.status = "ok" /\ (c.found <=> c.pc = "copyValue")
  /\ c.pc \in Decoding => c.kind = "call"
  /\ c.pc = "compile" => c.kind # "call"
  /\ c.pc = "copyValue" => c.kind = "query"
  /\ c.pc \in {"cleanup", "finish"} /\ c.status = "ok" =>
       /\ Host("answer", t) \in mine <=> (c.kind = "call" \/ (c.kind = "query" /\ c.found))
       /\ c.kind = "append" => c.found

(* Where a thread may be while the database is in a state, and the mutex.   *)
PlaceOk(t, pc, state, within) ==
  /\ pc = "boot" => state = "opening"
  /\ pc = "shutdown" => state = "closing"
  /\ pc \in Calling => state = "open"
  /\ pc \in Within => t \in within
  /\ t \in within => pc \in Within \cup {"shutdown"}

AnswerOk(a) ==
  /\ a \in Answers
  /\ a.status # "ok" => ~a.got /\ ~a.found
  /\ a.status = "ok" =>
       /\ a.kind = "call" => a.got
       /\ a.kind = "query" => (a.got <=> a.found)
       /\ a.kind = "append" => a.found /\ ~a.got

(* What nobody's call made: the handle, and the store while it is open.     *)
SharedOk(state, blocks, opened) ==
  /\ state \in {"closed", "opening", "open", "closing"}
  /\ blocks = (IF state = "closed" THEN {} ELSE {Handle})
                \cup (IF state \in {"open", "closing"} THEN {Engine} ELSE {})
  /\ state \in {"closed", "opening"} => ~opened

Of(t, blocks) == {b \in blocks : b.of = t}

EmbedInv ==
  /\ heap \subseteq Blocks /\ storage \in BOOLEAN
  /\ call \in [Thread -> Calls] /\ given \in [Thread -> SUBSET Blocks]
  /\ answer \in [Thread -> Answers]
  /\ \A t \in Thread : /\ CallOk(t, call[t], Of(t, heap), given[t])
                       /\ PlaceOk(t, call[t].pc, handle, inside)
                       /\ AnswerOk(answer[t])
  /\ \A t, u \in Thread : t # u /\ call[t].pc \in {"boot", "shutdown"} => call[u].pc = "rest"
  /\ inside \subseteq Thread /\ \A t, u \in inside : t = u
  /\ SharedOk(handle, Of("all", heap), storage)
LEMMA BlockFacts ==
  ASSUME NEW t \in Thread
  PROVE  /\ Targets(t) \in Blocks /\ Targets(t).of = t /\ Targets(t).heap = "host"
         /\ Host("answer", t) \in Blocks /\ Host("answer", t).of = t
         /\ Host("answer", t).heap = "host" /\ Targets(t) # Host("answer", t)
         /\ \A what \in {"request", "response", "encoded", "value"} :
              /\ Libc(what, t) \in Blocks /\ Libc(what, t).of = t /\ Libc(what, t).heap = "libc"
         /\ Handle \in Blocks /\ Engine \in Blocks /\ Handle.of = "all" /\ Engine.of = "all"
         /\ t # "all"
BY EmbedAssumption DEF Targets, Host, Libc, Handle, Engine, Blocks

(* One thread moves in a call, or between two: the blocks of others and the *)
(* database stay.                                                           *)
LEMMA MovesInCall ==
  ASSUME EmbedInv, NEW t \in Thread, call[t].pc \in Calling \cup {"rest"},
         call' \in [Thread -> Calls], given' \in [Thread -> SUBSET Blocks],
         answer' \in [Thread -> Answers],
         \A u \in Thread \ {t} :
           call'[u] = call[u] /\ given'[u] = given[u] /\ answer'[u] = answer[u],
         heap' \subseteq Blocks,
         \A b \in Blocks : b.of # t => (b \in heap' <=> b \in heap),
         CallOk(t, call'[t], Of(t, heap'), given'[t]), AnswerOk(answer'[t]),
         call'[t].pc \in Calling \cup {"rest"},
         PlaceOk(t, call'[t].pc, handle, inside'),
         \/ inside' = inside
         \/ inside = {} /\ inside' = {t}
         \/ inside' = inside \ {t},
         UNCHANGED <<handle, storage>>
  PROVE  EmbedInv'
<1>1. /\ heap \subseteq Blocks /\ inside \subseteq Thread /\ \A u, v \in inside : u = v
      /\ \A u \in Thread : /\ CallOk(u, call[u], Of(u, heap), given[u])
                           /\ PlaceOk(u, call[u].pc, handle, inside)
                           /\ AnswerOk(answer[u])
      /\ \A u, v \in Thread : u # v /\ call[u].pc \in {"boot", "shutdown"} => call[v].pc = "rest"
      /\ SharedOk(handle, Of("all", heap), storage)
  BY DEF EmbedInv
<1>2. \A u \in Thread \cup {"all"} : u # t => Of(u, heap') = Of(u, heap)
  BY <1>1 DEF Of
<1>3. SharedOk(handle', Of("all", heap'), storage')
  BY <1>1, <1>2, EmbedAssumption
<1>4. inside' \subseteq Thread /\ (\A u, v \in inside' : u = v)
      /\ \A u \in Thread \ {t} : u \in inside' <=> u \in inside
  BY <1>1
<1>5. ASSUME NEW u \in Thread
      PROVE  /\ CallOk(u, call'[u], Of(u, heap'), given'[u])
             /\ PlaceOk(u, call'[u].pc, handle', inside')
             /\ AnswerOk(answer'[u])
  <2>1. CASE u = t
    BY <2>1
  <2>2. CASE u # t
    <3>1. CallOk(u, call'[u], Of(u, heap'), given'[u]) /\ AnswerOk(answer'[u])
      BY <1>1, <1>2, <2>2
    <3>2. PlaceOk(u, call'[u].pc, handle', inside')
      BY <1>1, <1>4, <2>2 DEF PlaceOk
    <3> QED
      BY <3>1, <3>2
  <2> QED
    BY <2>1, <2>2
<1>6. ASSUME NEW u \in Thread, NEW v \in Thread, u # v, call'[u].pc \in {"boot", "shutdown"}
      PROVE  call'[v].pc = "rest"
  <2>1. u # t
    BY <1>6 DEF Calling, Within, Decoding
  <2>2. call[u].pc \in {"boot", "shutdown"} /\ call[v].pc = "rest"
    BY <1>1, <1>6, <2>1
  <2>3. CASE v = t
    <3>1. handle \in {"opening", "closing"}
      BY <1>1, <2>2 DEF PlaceOk
    <3>2. call'[t].pc \notin Calling
      BY <3>1 DEF PlaceOk
    <3> QED
      BY <2>3, <3>2
  <2>4. CASE v # t
    BY <2>2, <2>4
  <2> QED
    BY <2>3, <2>4
<1> QED
  BY <1>3, <1>4, <1>5, <1>6 DEF EmbedInv

LEMMA EmbedFacts ==
  ASSUME EmbedInv, NEW t \in Thread
  PROVE  /\ call \in [Thread -> Calls] /\ given \in [Thread -> SUBSET Blocks]
         /\ answer \in [Thread -> Answers] /\ heap \subseteq Blocks
         /\ CallOk(t, call[t], Of(t, heap), given[t])
         /\ PlaceOk(t, call[t].pc, handle, inside) /\ AnswerOk(answer[t])
         /\ call[t] \in Calls
BY DEF EmbedInv

(* A step inside a call that answers nothing yet.                           *)
LEMMA Proceeding ==
  ASSUME EmbedInv, NEW t \in Thread, call[t].pc \in Calling \cup {"rest"},
         NEW c \in Calls, call' = [call EXCEPT ![t] = c], c.pc \in Calling,
         NEW mine \in SUBSET Blocks, \A b \in mine : b.of = t,
         heap' = (heap \ Of(t, heap)) \cup mine,
         CallOk(t, c, mine, given[t]),
         PlaceOk(t, c.pc, handle, inside'),
         \/ inside' = inside
         \/ inside = {} /\ inside' = {t}
         \/ inside' = inside \ {t},
         UNCHANGED <<handle, storage, given>>,
         answer' \in [Thread -> Answers], AnswerOk(answer'[t]),
         \A u \in Thread \ {t} : answer'[u] = answer[u]
  PROVE  EmbedInv'
<1>1. call \in [Thread -> Calls] /\ heap \subseteq Blocks /\ given \in [Thread -> SUBSET Blocks]
  BY EmbedFacts
<1>2. Of(t, heap') = mine /\ heap' \subseteq Blocks
      /\ \A b \in Blocks : b.of # t => (b \in heap' <=> b \in heap)
  BY <1>1 DEF Of
<1>3. /\ call' \in [Thread -> Calls] /\ call'[t] = c
      /\ \A u \in Thread \ {t} : call'[u] = call[u]
  BY <1>1
<1> QED
  BY <1>1, <1>2, <1>3, MovesInCall

(* A call that ends, with what its caller is given.                         *)
LEMMA Returning ==
  ASSUME EmbedInv, NEW t \in Thread, call[t].pc \in Calling,
         NEW status, NEW got, NEW found, Return(t, status, got, found),
         NEW mine \in SUBSET {Host("answer", t)},
         heap' = (heap \ Of(t, heap)) \cup mine,
         given' \in [Thread -> SUBSET Blocks], given'[t] = mine,
         \A u \in Thread \ {t} : given'[u] = given[u],
         [status |-> status, kind |-> call[t].kind, got |-> got, found |-> found] \in Answers,
         AnswerOk([status |-> status, kind |-> call[t].kind, got |-> got, found |-> found]),
         t \notin inside, UNCHANGED <<handle, storage, inside>>
  PROVE  EmbedInv'
<1> DEFINE said == [status |-> status, kind |-> call[t].kind, got |-> got, found |-> found]
<1>1. call \in [Thread -> Calls] /\ heap \subseteq Blocks /\ answer \in [Thread -> Answers]
  BY EmbedFacts
<1>2. mine \subseteq Blocks /\ \A b \in mine : b.of = t /\ b = Host("answer", t)
  BY BlockFacts
<1>3. Of(t, heap') = mine /\ heap' \subseteq Blocks
      /\ \A b \in Blocks : b.of # t => (b \in heap' <=> b \in heap)
  BY <1>1, <1>2 DEF Of
<1>4. Resting \in Calls /\ Resting.pc = "rest"
  BY DEF Resting, Calls, Statuses
<1>5. /\ call' \in [Thread -> Calls] /\ call'[t] = Resting
      /\ \A u \in Thread \ {t} : call'[u] = call[u]
  BY <1>1, <1>4 DEF Return
<1>6. /\ answer' \in [Thread -> Answers] /\ answer'[t] = said
      /\ \A u \in Thread \ {t} : answer'[u] = answer[u]
  BY <1>1 DEF Return
<1>7. CallOk(t, Resting, mine, mine)
  BY <1>2, <1>4 DEF CallOk, Calling, Within, Decoding
<1>8. PlaceOk(t, "rest", handle, inside')
  BY DEF PlaceOk, Calling, Within, Decoding
<1> HIDE DEF said
<1>9. /\ CallOk(t, call'[t], Of(t, heap'), given'[t])
      /\ PlaceOk(t, call'[t].pc, handle, inside') /\ call'[t].pc \in Calling \cup {"rest"}
  BY <1>3, <1>4, <1>5, <1>7, <1>8
<1>10. AnswerOk(answer'[t])
  BY <1>6 DEF said
<1>11. \A u \in Thread \ {t} :
         call'[u] = call[u] /\ given'[u] = given[u] /\ answer'[u] = answer[u]
  BY <1>5, <1>6
<1> QED
  BY <1>3, <1>5, <1>6, <1>9, <1>10, <1>11, MovesInCall

(* A step that takes a block, or fails and takes none, inside the mutex.    *)
LEMMA TakesKeeps ==
  ASSUME EmbedInv, NEW t \in Thread, NEW pc \in Within, NEW next \in Within,
         NEW block \in Blocks, block.of = t, Takes(t, pc, block, next),
         \/ /\ <<pc, next>> \in {<<"decode", "dispatch">>, <<"dispatch", "encode">>, <<"encode", "copy">>}
            /\ block.heap = "libc"
         \/ /\ <<pc, next>> \in {<<"copy", "cleanup">>, <<"copyValue", "cleanup">>}
            /\ block = Host("answer", t)
  PROVE  EmbedInv'
<1> DEFINE c == [call[t] EXCEPT !.pc = next]
           mine == Of(t, heap) \cup {block}
<1>1. /\ heap \subseteq Blocks /\ CallOk(t, call[t], Of(t, heap), given[t])
      /\ PlaceOk(t, call[t].pc, handle, inside) /\ call[t] \in Calls
      /\ answer \in [Thread -> Answers] /\ AnswerOk(answer[t])
      /\ call[t].pc = pc /\ heap' = heap \cup {block} /\ call' = [call EXCEPT ![t] = c]
      /\ UNCHANGED <<handle, storage, inside, given, answer>>
  BY EmbedFacts DEF Takes
<1>2. next \in Calling /\ pc \in Calling
  BY DEF Calling
<1>3. /\ c \in Calls /\ c.pc = next /\ c.kind = call[t].kind
      /\ c.status = call[t].status /\ c.found = call[t].found
  <2>1. call[t] \in Calls /\ next \in Calling
    BY <1>1, <1>2
  <2> QED
    BY <2>1 DEF Calls
<1>4. mine \in SUBSET Blocks /\ (\A b \in mine : b.of = t) /\ heap' = (heap \ Of(t, heap)) \cup mine
  BY <1>1 DEF Of
<1>5. Host("answer", t).heap = "host"
  BY BlockFacts
<1> HIDE DEF c
<1>6. CallOk(t, c, mine, given[t])
  <2>1. CASE block.heap = "libc"
    <3>1. <<pc, next>> \in {<<"decode", "dispatch">>, <<"dispatch", "encode">>, <<"encode", "copy">>}
      BY <1>5, <2>1
    <3>2. Host("answer", t) # block
      BY <1>5, <2>1
    <3>3. pc \in {"decode", "dispatch", "encode"} /\ next \in {"dispatch", "encode", "copy"}
      BY <3>1
    <3> QED
      BY <1>1, <1>3, <2>1, <3>2, <3>3 DEF CallOk, Calling, Within, Decoding
  <2>2. CASE block = Host("answer", t)
    <3>1. <<pc, next>> \in {<<"copy", "cleanup">>, <<"copyValue", "cleanup">>}
      BY <1>5, <2>2
    <3>2. pc \in {"copy", "copyValue"} /\ next = "cleanup"
      BY <3>1
    <3>3. /\ c.pc = "cleanup" /\ c.status = "ok" /\ given[t] = {} /\ c.kind \in Kinds
          /\ c.kind = "call" \/ (c.kind = "query" /\ c.found)
      BY <1>1, <1>3, <3>2 DEF CallOk, Calling, Within, Decoding
    <3>4. \A b \in mine : b.heap = "libc" \/ b = Targets(t) \/ b = Host("answer", t)
      BY <1>1, <2>2 DEF CallOk
    <3> QED
      BY <1>3, <2>2, <3>3, <3>4 DEF CallOk, Calling, Within, Decoding
  <2> QED
    BY <2>1, <2>2
<1>7. PlaceOk(t, c.pc, handle, inside)
  BY <1>1, <1>2, <1>3 DEF PlaceOk, Calling, Within, Decoding
<1> QED
  BY <1>1, <1>2, <1>3, <1>4, <1>6, <1>7, Proceeding

LEMMA FailsKeeps ==
  ASSUME EmbedInv, NEW t \in Thread, NEW pc \in Within \ {"cleanup"},
         NEW statuses \in SUBSET Failures, Fails(t, pc, statuses)
  PROVE  EmbedInv'
<1>0. PICK status \in statuses : call' = [call EXCEPT ![t].pc = "cleanup", ![t].status = status]
  BY DEF Fails
<1> DEFINE c == [call[t] EXCEPT !.pc = "cleanup", !.status = status]
           mine == Of(t, heap)
<1>1. /\ heap \subseteq Blocks /\ CallOk(t, call[t], Of(t, heap), given[t])
      /\ PlaceOk(t, call[t].pc, handle, inside) /\ call[t] \in Calls
      /\ answer \in [Thread -> Answers] /\ AnswerOk(answer[t]) /\ call \in [Thread -> Calls]
      /\ call[t].pc = pc /\ heap' = heap
      /\ UNCHANGED <<handle, storage, inside, given, answer>>
  BY EmbedFacts DEF Fails
<1>2. call' = [call EXCEPT ![t] = c]
  BY <1>0, <1>1
<1>3. "cleanup" \in Calling /\ pc \in Calling /\ status \in Statuses /\ status # "ok"
  BY DEF Calling, Within, Statuses, Failures
<1>4. /\ c \in Calls /\ c.pc = "cleanup" /\ c.kind = call[t].kind
      /\ c.status = status /\ c.found = call[t].found
  <2>1. call[t] \in Calls /\ "cleanup" \in Calling /\ status \in Statuses
    BY <1>1, <1>3
  <2> QED
    BY <2>1 DEF Calls
<1>5. mine \in SUBSET Blocks /\ (\A b \in mine : b.of = t) /\ heap' = (heap \ Of(t, heap)) \cup mine
  BY <1>1 DEF Of
<1> HIDE DEF c
<1>6. CallOk(t, c, mine, given[t])
  BY <1>1, <1>3, <1>4 DEF CallOk, Calling, Within, Decoding
<1>7. PlaceOk(t, c.pc, handle, inside)
  BY <1>1, <1>3, <1>4 DEF PlaceOk, Calling, Within, Decoding
<1> QED
  BY <1>1, <1>2, <1>3, <1>4, <1>5, <1>6, <1>7, Proceeding

(* What the steps below start from.                                         *)
LEMMA CallFacts ==
  ASSUME EmbedInv, NEW t \in Thread, call[t].pc \in Calling
  PROVE  /\ call \in [Thread -> Calls] /\ answer \in [Thread -> Answers]
         /\ given \in [Thread -> SUBSET Blocks]
         /\ Of(t, heap) \in SUBSET Blocks /\ (\A b \in Of(t, heap) : b.of = t /\ b \in heap)
         /\ heap = (heap \ Of(t, heap)) \cup Of(t, heap)
         /\ CallOk(t, call[t], Of(t, heap), given[t]) /\ given[t] = {}
         /\ call[t] \in Calls /\ call[t].kind \in Kinds /\ call[t].status \in Statuses
         /\ call[t].found \in BOOLEAN
         /\ PlaceOk(t, call[t].pc, handle, inside) /\ AnswerOk(answer[t]) /\ handle = "open"
<1>1. /\ heap \subseteq Blocks /\ CallOk(t, call[t], Of(t, heap), given[t])
      /\ PlaceOk(t, call[t].pc, handle, inside) /\ call[t] \in Calls
      /\ answer \in [Thread -> Answers] /\ AnswerOk(answer[t]) /\ call \in [Thread -> Calls]
      /\ given \in [Thread -> SUBSET Blocks]
  BY EmbedFacts
<1>2. given[t] = {} /\ call[t].kind \in Kinds /\ handle = "open"
  BY <1>1 DEF CallOk, PlaceOk
<1>3. call[t].status \in Statuses /\ call[t].found \in BOOLEAN
  BY <1>1 DEF Calls
<1> QED
  BY <1>1, <1>2, <1>3 DEF Of

LEMMA BeginCallKeeps == ASSUME EmbedInv, NEW t \in Thread, BeginCall(t) PROVE EmbedInv'
<1>1. PICK kind \in Kinds :
        call' = [call EXCEPT ![t] = [Resting EXCEPT !.pc = "prepare", !.kind = kind]]
  BY DEF BeginCall
<1> DEFINE c == [Resting EXCEPT !.pc = "prepare", !.kind = kind]
<1>2. /\ answer \in [Thread -> Answers] /\ heap \subseteq Blocks
      /\ CallOk(t, call[t], Of(t, heap), given[t]) /\ PlaceOk(t, "rest", handle, inside)
      /\ handle = "open" /\ call[t].pc = "rest" /\ given[t] = {}
      /\ answer' = [answer EXCEPT ![t] = NoAnswer]
      /\ UNCHANGED <<handle, heap, storage, inside, given>>
  BY EmbedFacts DEF BeginCall
<1>3. Of(t, heap) = {}
  BY <1>2 DEF CallOk, Calling, Within, Decoding
<1>4. /\ c \in Calls /\ c.pc = "prepare" /\ c.kind = kind /\ c.status = "ok" /\ c.found = FALSE
  BY DEF Resting, Calls, Calling, Statuses
<1>5. NoAnswer \in Answers /\ AnswerOk(NoAnswer)
  BY DEF NoAnswer, Answers, AnswerOk
<1> HIDE DEF c
<1>6. CallOk(t, c, {}, given[t])
  BY <1>2, <1>4 DEF CallOk, Calling, Within, Decoding
<1>7. PlaceOk(t, c.pc, handle, inside)
  BY <1>2, <1>4 DEF PlaceOk, Calling, Within, Decoding
<1>8. heap' = (heap \ Of(t, heap)) \cup {} /\ c.pc \in Calling /\ call' = [call EXCEPT ![t] = c]
  BY <1>1, <1>2, <1>3, <1>4 DEF Calling, c
<1>9. answer' \in [Thread -> Answers] /\ AnswerOk(answer'[t])
      /\ \A u \in Thread \ {t} : answer'[u] = answer[u]
  BY <1>2, <1>5
<1> QED
  BY <1>2, <1>4, <1>6, <1>7, <1>8, <1>9, Proceeding

(* A call that ends before it has taken anything of the store's.            *)
LEMMA RefuseKeeps ==
  ASSUME EmbedInv, NEW t \in Thread, Refuse(t) \/ NoTargets(t) \/ CannotEnter(t)
  PROVE  EmbedInv'
<1>1. /\ call[t].pc \in {"prepare", "enter"} /\ UNCHANGED <<handle, storage, inside, given>>
      /\ \E status \in {"argument", "memory", "engine"} : Return(t, status, FALSE, FALSE)
      /\ heap' = heap \/ heap' = heap \ {Targets(t)}
      /\ call[t].pc = "enter" => heap' = heap \ {Targets(t)}
  BY DEF Refuse, NoTargets, CannotEnter
<1>2. call[t].pc \in Calling
  BY <1>1 DEF Calling
<1>3. /\ CallOk(t, call[t], Of(t, heap), given[t]) /\ given[t] = {} /\ call[t].kind \in Kinds
      /\ given \in [Thread -> SUBSET Blocks] /\ PlaceOk(t, call[t].pc, handle, inside)
      /\ \A b \in Of(t, heap) : b \in heap
  BY <1>2, CallFacts
<1>4. Of(t, heap) \subseteq {Targets(t)} /\ (call[t].pc = "prepare" => Of(t, heap) = {})
  BY <1>1, <1>3 DEF CallOk, Calling, Within, Decoding
<1>5. heap' = (heap \ Of(t, heap)) \cup {}
  <2>1. Targets(t) \in heap => Targets(t) \in Of(t, heap)
    BY BlockFacts DEF Of
  <2> QED
    BY <1>1, <1>4, <2>1
<1>6. t \notin inside
  BY <1>1, <1>3 DEF PlaceOk, Within, Decoding
<1>7. PICK status \in {"argument", "memory", "engine"} : Return(t, status, FALSE, FALSE)
  BY <1>1
<1>8. /\ [status |-> status, kind |-> call[t].kind, got |-> FALSE, found |-> FALSE] \in Answers
      /\ AnswerOk([status |-> status, kind |-> call[t].kind, got |-> FALSE, found |-> FALSE])
  BY <1>3 DEF Answers, Statuses, Failures, AnswerOk
<1> QED
  BY <1>1, <1>2, <1>3, <1>5, <1>6, <1>7, <1>8, Returning

LEMMA PrepareKeeps == ASSUME EmbedInv, NEW t \in Thread, Prepare(t) PROVE EmbedInv'
<1> DEFINE c == [call[t] EXCEPT !.pc = "enter"]
<1>1. /\ call[t].pc = "prepare" /\ UNCHANGED <<handle, storage, inside, given, answer>>
      /\ heap' = heap \/ (call[t].kind # "call" /\ heap' = heap \cup {Targets(t)})
      /\ call' = [call EXCEPT ![t].pc = "enter"]
  BY DEF Prepare
<1>2. call[t].pc \in Calling /\ "enter" \in Calling
  BY <1>1 DEF Calling
<1>3. /\ CallOk(t, call[t], Of(t, heap), given[t]) /\ given[t] = {} /\ call[t].kind \in Kinds
      /\ PlaceOk(t, call[t].pc, handle, inside) /\ call[t] \in Calls /\ call \in [Thread -> Calls]
      /\ heap = (heap \ Of(t, heap)) \cup Of(t, heap) /\ handle = "open"
      /\ answer \in [Thread -> Answers] /\ AnswerOk(answer[t])
  BY <1>2, CallFacts
<1>4. /\ c \in Calls /\ c.pc = "enter" /\ c.kind = call[t].kind
      /\ c.status = call[t].status /\ c.found = call[t].found
  BY <1>2, <1>3 DEF Calls
<1>5. call' = [call EXCEPT ![t] = c]
  BY <1>1, <1>3
<1>6. Of(t, heap) = {}
  BY <1>1, <1>3 DEF CallOk
<1> HIDE DEF c
<1>7. ASSUME NEW mine \in SUBSET {Targets(t)} PROVE CallOk(t, c, mine, given[t])
  <2>1. \A b \in mine : b = Targets(t) /\ b.heap = "host" /\ b # Host("answer", t)
    BY BlockFacts
  <2> QED
    BY <1>1, <1>3, <1>4, <2>1 DEF CallOk, Calling, Within, Decoding
<1>8. PlaceOk(t, c.pc, handle, inside)
  BY <1>1, <1>3, <1>4 DEF PlaceOk, Calling, Within, Decoding
<1>9. c.pc \in Calling
  BY <1>2, <1>4
<1>10. CASE heap' = heap
  <2>1. heap' = (heap \ Of(t, heap)) \cup {}
    BY <1>6, <1>10
  <2> QED
    BY <1>1, <1>2, <1>3, <1>4, <1>5, <1>7, <1>8, <1>9, <2>1, Proceeding
<1>11. CASE heap' = heap \cup {Targets(t)}
  <2>1. heap' = (heap \ Of(t, heap)) \cup {Targets(t)}
    BY <1>6, <1>11
  <2>2. {Targets(t)} \in SUBSET Blocks /\ \A b \in {Targets(t)} : b.of = t
    BY BlockFacts
  <2>3. CallOk(t, c, {Targets(t)}, given[t])
    BY <1>7
  <2> QED
    BY <1>1, <1>2, <1>3, <1>4, <1>5, <1>8, <1>9, <2>1, <2>2, <2>3, Proceeding
<1> QED
  BY <1>1, <1>10, <1>11

LEMMA EnterKeeps == ASSUME EmbedInv, NEW t \in Thread, EnterCall(t) PROVE EmbedInv'
<1> DEFINE next == IF call[t].kind = "call" THEN "decode" ELSE "compile"
           c == [call[t] EXCEPT !.pc = next]
           mine == Of(t, heap)
<1>1. /\ call[t].pc = "enter" /\ inside = {} /\ inside' = {t}
      /\ UNCHANGED <<handle, heap, storage, given, answer>>
      /\ call' = [call EXCEPT ![t].pc = IF @ = "enter" /\ call[t].kind = "call"
                                         THEN "decode" ELSE "compile"]
  BY DEF EnterCall
<1>2. call[t].pc \in Calling /\ next \in Calling
  BY <1>1 DEF Calling, Within, Decoding
<1>3. /\ CallOk(t, call[t], mine, given[t]) /\ given[t] = {} /\ call[t].kind \in Kinds
      /\ PlaceOk(t, call[t].pc, handle, inside) /\ call[t] \in Calls /\ call \in [Thread -> Calls]
      /\ heap = (heap \ mine) \cup mine /\ handle = "open"
      /\ mine \in SUBSET Blocks /\ (\A b \in mine : b.of = t)
      /\ answer \in [Thread -> Answers] /\ AnswerOk(answer[t])
  BY <1>2, CallFacts
<1>4. /\ c \in Calls /\ c.pc = next /\ c.kind = call[t].kind
      /\ c.status = call[t].status /\ c.found = call[t].found
  BY <1>2, <1>3 DEF Calls
<1>5. call' = [call EXCEPT ![t] = c]
  BY <1>1, <1>3
<1>6. next \in {"decode", "compile"} /\ (next = "decode" <=> call[t].kind = "call")
  OBVIOUS
<1> HIDE DEF c, next
<1>7. CallOk(t, c, mine, given[t])
  BY <1>1, <1>3, <1>4, <1>6 DEF CallOk, Calling, Within, Decoding
<1>8. PlaceOk(t, c.pc, handle, inside')
  BY <1>1, <1>3, <1>4, <1>6 DEF PlaceOk, Calling, Within, Decoding
<1>9. c.pc \in Calling /\ heap' = (heap \ mine) \cup mine
      /\ answer' \in [Thread -> Answers] /\ AnswerOk(answer'[t])
      /\ \A u \in Thread \ {t} : answer'[u] = answer[u]
  BY <1>1, <1>2, <1>3, <1>4
<1> QED
  BY <1>1, <1>2, <1>3, <1>4, <1>5, <1>7, <1>8, <1>9, Proceeding

(* The compiler finds a value, or ends without one to copy.                 *)
LEMMA CompileKeeps ==
  ASSUME EmbedInv, NEW t \in Thread, CompileFinds(t) \/ CompileEnds(t)
  PROVE  EmbedInv'
<1> DEFINE next == IF CompileFinds(t) THEN "copyValue" ELSE "cleanup"
           found == IF CompileFinds(t) THEN TRUE ELSE call[t].kind = "append"
           taken == IF CompileFinds(t) THEN {Libc("value", t)} ELSE {}
           c == [call[t] EXCEPT !.pc = next, !.found = found]
           mine == Of(t, heap) \cup taken
<1>1. /\ call[t].pc = "compile" /\ UNCHANGED <<handle, storage, inside, given, answer>>
      /\ heap' = heap \cup taken
      /\ next = "copyValue" => call[t].kind = "query"
  BY DEF CompileFinds, CompileEnds
<1>2. call[t].pc \in Calling /\ next \in Calling /\ found \in BOOLEAN
  BY <1>1 DEF Calling, Within, Decoding
<1>3. /\ CallOk(t, call[t], Of(t, heap), given[t]) /\ given[t] = {} /\ call[t].kind \in Kinds
      /\ PlaceOk(t, call[t].pc, handle, inside) /\ call[t] \in Calls /\ call \in [Thread -> Calls]
      /\ heap = (heap \ Of(t, heap)) \cup Of(t, heap) /\ handle = "open"
      /\ Of(t, heap) \in SUBSET Blocks /\ (\A b \in Of(t, heap) : b.of = t)
      /\ answer \in [Thread -> Answers] /\ AnswerOk(answer[t])
  BY <1>2, CallFacts
<1>4. /\ c \in Calls /\ c.pc = next /\ c.kind = call[t].kind
      /\ c.status = call[t].status /\ c.found = found
  BY <1>2, <1>3 DEF Calls
<1>5. call' = [call EXCEPT ![t] = c]
  BY <1>1, <1>3 DEF CompileFinds, CompileEnds
<1>6. mine \in SUBSET Blocks /\ (\A b \in mine : b.of = t)
      /\ Host("answer", t) \notin taken /\ \A b \in taken : b.heap = "libc"
  BY <1>3, BlockFacts
<1>7. heap' = (heap \ Of(t, heap)) \cup mine
  BY <1>1, <1>3
<1>8. next \in {"copyValue", "cleanup"} /\ (next = "copyValue" => found)
      /\ (next = "cleanup" => (found <=> call[t].kind = "append"))
  OBVIOUS
<1> HIDE DEF c, next, found, taken
<1>9. CallOk(t, c, mine, given[t])
  <2>1. /\ c.kind # "call" /\ c.status = "ok" /\ Host("answer", t) \notin mine
        /\ \A b \in mine : b.heap = "libc" \/ b = Targets(t) \/ b = Host("answer", t)
    BY <1>1, <1>3, <1>4, <1>6 DEF CallOk, Calling, Within, Decoding
  <2> QED
    BY <1>1, <1>3, <1>4, <1>8, <2>1 DEF CallOk, Calling, Within, Decoding
<1>10. PlaceOk(t, c.pc, handle, inside)
  BY <1>1, <1>3, <1>4, <1>8 DEF PlaceOk, Calling, Within, Decoding
<1> QED
  BY <1>1, <1>2, <1>3, <1>4, <1>5, <1>6, <1>7, <1>9, <1>10, Proceeding

LEMMA CleanupKeeps == ASSUME EmbedInv, NEW t \in Thread, Cleanup(t) PROVE EmbedInv'
<1> DEFINE c == [call[t] EXCEPT !.pc = "finish"]
           mine == Of(t, heap) \ ReleaseInside(t)
<1>1. /\ call[t].pc = "cleanup" /\ UNCHANGED <<handle, storage, given, answer>>
      /\ inside' = inside \ {t} /\ heap' = heap \ ReleaseInside(t)
      /\ call' = [call EXCEPT ![t].pc = "finish"]
  BY DEF Cleanup
<1>2. call[t].pc \in Calling /\ "finish" \in Calling
  BY <1>1 DEF Calling, Within
<1>3. /\ CallOk(t, call[t], Of(t, heap), given[t]) /\ given[t] = {} /\ call[t].kind \in Kinds
      /\ PlaceOk(t, call[t].pc, handle, inside) /\ call[t] \in Calls /\ call \in [Thread -> Calls]
      /\ heap = (heap \ Of(t, heap)) \cup Of(t, heap) /\ handle = "open"
      /\ Of(t, heap) \in SUBSET Blocks /\ (\A b \in Of(t, heap) : b.of = t /\ b \in heap)
      /\ answer \in [Thread -> Answers] /\ AnswerOk(answer[t])
  BY <1>2, CallFacts
<1>4. /\ c \in Calls /\ c.pc = "finish" /\ c.kind = call[t].kind
      /\ c.status = call[t].status /\ c.found = call[t].found
  BY <1>2, <1>3 DEF Calls
<1>5. call' = [call EXCEPT ![t] = c]
  BY <1>1, <1>3
<1>6. \A b \in heap : b \in ReleaseInside(t) <=> b \in Of(t, heap) /\ b.heap = "libc"
  BY DEF ReleaseInside, Of
<1>7. heap' = (heap \ Of(t, heap)) \cup mine
  BY <1>1, <1>3, <1>6
<1>8. \A b \in Of(t, heap) : b \in mine <=> b.heap # "libc"
  BY <1>3, <1>6
<1>9. Host("answer", t) \in mine <=> Host("answer", t) \in Of(t, heap)
  BY <1>8, BlockFacts
<1>10. mine \in SUBSET Blocks /\ (\A b \in mine : b.of = t /\ b \in Of(t, heap) /\ b.heap # "libc")
  BY <1>3, <1>8
<1> HIDE DEF c, mine
<1>11. CallOk(t, c, mine, given[t])
  BY <1>1, <1>3, <1>4, <1>9, <1>10 DEF CallOk, Calling, Within, Decoding
<1>12. PlaceOk(t, c.pc, handle, inside')
  BY <1>1, <1>3, <1>4 DEF PlaceOk, Calling, Within, Decoding
<1>13. answer' \in [Thread -> Answers] /\ AnswerOk(answer'[t])
      /\ (\A u \in Thread \ {t} : answer'[u] = answer[u]) /\ c.pc \in Calling
  BY <1>1, <1>2, <1>3, <1>4
<1>14. mine \in SUBSET Blocks /\ (\A b \in mine : b.of = t)
      /\ call[t].pc \in Calling \cup {"rest"} /\ UNCHANGED <<handle, storage, given>>
  BY <1>1, <1>2, <1>10
<1> QED
  BY <1>1, <1>4, <1>5, <1>7, <1>11, <1>12, <1>13, <1>14, Proceeding

LEMMA FinishKeeps == ASSUME EmbedInv, NEW t \in Thread, Finish(t) PROVE EmbedInv'
<1> DEFINE copy == {Host("answer", t)} \cap heap
           ok == call[t].status = "ok"
           mine == IF ok THEN copy ELSE {}
           status == PublicStatus(call[t].status)
           got == ok /\ copy # {}
           found == ok /\ call[t].found
           said == [status |-> status, kind |-> call[t].kind, got |-> got, found |-> found]
<1>1. /\ call[t].pc = "finish" /\ UNCHANGED <<handle, storage, inside>>
      /\ heap' = (heap \ {Targets(t)}) \ (IF ok THEN {} ELSE copy)
      /\ given' = [given EXCEPT ![t] = IF ok THEN copy ELSE {}]
      /\ Return(t, status, got, found)
  BY DEF Finish
<1>2. call[t].pc \in Calling
  BY <1>1 DEF Calling
<1>3. /\ CallOk(t, call[t], Of(t, heap), given[t]) /\ call[t].kind \in Kinds
      /\ PlaceOk(t, call[t].pc, handle, inside) /\ call[t].status \in Statuses
      /\ call[t].found \in BOOLEAN /\ given \in [Thread -> SUBSET Blocks]
      /\ (\A b \in Of(t, heap) : b.of = t /\ b \in heap)
  BY <1>2, CallFacts
<1>4. \A b \in Of(t, heap) : b = Targets(t) \/ b = Host("answer", t)
  BY <1>1, <1>3 DEF CallOk, Calling, Within, Decoding
<1>5. Targets(t) # Host("answer", t) /\ Targets(t).of = t /\ Host("answer", t).of = t
      /\ Host("answer", t) \in Blocks
  BY BlockFacts
<1>6. Host("answer", t) \in heap <=> Host("answer", t) \in Of(t, heap)
  BY <1>5 DEF Of
<1>7. Targets(t) \in heap => Targets(t) \in Of(t, heap)
  BY <1>5 DEF Of
<1>8. heap' = (heap \ Of(t, heap)) \cup mine
  BY <1>1, <1>3, <1>4, <1>5, <1>6, <1>7
<1>9. mine \in SUBSET {Host("answer", t)} /\ mine \in SUBSET Blocks
  BY <1>5
<1>10. given' \in [Thread -> SUBSET Blocks] /\ given'[t] = mine
      /\ \A u \in Thread \ {t} : given'[u] = given[u]
  BY <1>1, <1>3, <1>9
<1>11. t \notin inside
  BY <1>1, <1>3 DEF PlaceOk, Within, Decoding
<1>12. status \in Statuses \cup {"none", "argument"} /\ (status = "ok" <=> ok)
  BY <1>3 DEF PublicStatus, Statuses, Failures
<1>13. got \in BOOLEAN /\ found \in BOOLEAN /\ (~ok => ~got /\ ~found)
  BY <1>3
<1>14. ok => /\ got <=> (call[t].kind = "call" \/ (call[t].kind = "query" /\ found))
             /\ call[t].kind = "append" => found
  BY <1>1, <1>3, <1>6 DEF CallOk
<1> HIDE DEF status, got, found
<1>15. said \in Answers
  BY <1>3, <1>12, <1>13 DEF Answers
<1>16. said.status = status /\ said.kind = call[t].kind /\ said.got = got /\ said.found = found
  OBVIOUS
<1>17. "call" # "query" /\ "call" # "append" /\ "query" # "append" /\ call[t].kind \in Kinds
  BY <1>3
<1>18. AnswerOk(said)
  BY <1>12, <1>13, <1>14, <1>15, <1>16, <1>17 DEF AnswerOk
<1> HIDE DEF mine
<1> QED
  BY <1>1, <1>2, <1>8, <1>9, <1>10, <1>11, <1>15, <1>18, Returning

LEMMA FinishInvalidKeeps == ASSUME EmbedInv, NEW t \in Thread, FinishInvalid(t) PROVE EmbedInv'
<1>1. /\ call[t].pc = "finish" /\ UNCHANGED <<handle, storage, inside, given>>
      /\ heap' = heap \ {Targets(t), Host("answer", t)}
      /\ Return(t, "engine", FALSE, FALSE)
  BY DEF FinishInvalid
<1>2. call[t].pc \in Calling
  BY <1>1 DEF Calling
<1>3. /\ CallOk(t, call[t], Of(t, heap), given[t]) /\ given[t] = {} /\ call[t].kind \in Kinds
      /\ PlaceOk(t, call[t].pc, handle, inside) /\ given \in [Thread -> SUBSET Blocks]
      /\ (\A b \in Of(t, heap) : b.of = t /\ b \in heap)
  BY <1>2, CallFacts
<1>4. \A b \in Of(t, heap) : b = Targets(t) \/ b = Host("answer", t)
  BY <1>1, <1>3 DEF CallOk, Calling, Within, Decoding
<1>5. /\ Targets(t) \in heap => Targets(t) \in Of(t, heap)
      /\ Host("answer", t) \in heap => Host("answer", t) \in Of(t, heap)
  BY BlockFacts DEF Of
<1>6. heap' = (heap \ Of(t, heap)) \cup {}
  BY <1>1, <1>3, <1>4, <1>5
<1>7. t \notin inside
  BY <1>1, <1>3 DEF PlaceOk, Within, Decoding
<1>8. /\ [status |-> "engine", kind |-> call[t].kind, got |-> FALSE, found |-> FALSE] \in Answers
      /\ AnswerOk([status |-> "engine", kind |-> call[t].kind, got |-> FALSE, found |-> FALSE])
  BY <1>3 DEF Answers, Statuses, AnswerOk
<1> QED
  BY <1>1, <1>2, <1>3, <1>6, <1>7, <1>8, Returning

LEMMA ReleaseKeeps == ASSUME EmbedInv, NEW t \in Thread, ReleaseGiven(t) PROVE EmbedInv'
<1>1. /\ call[t].pc = "rest" /\ heap' = heap \ given[t] /\ given' = [given EXCEPT ![t] = {}]
      /\ UNCHANGED <<handle, storage, inside, call, answer>>
  BY DEF ReleaseGiven
<1>2. /\ heap \subseteq Blocks /\ CallOk(t, call[t], Of(t, heap), given[t])
      /\ PlaceOk(t, call[t].pc, handle, inside) /\ call[t] \in Calls
      /\ answer \in [Thread -> Answers] /\ AnswerOk(answer[t]) /\ call \in [Thread -> Calls]
      /\ given \in [Thread -> SUBSET Blocks]
  BY EmbedFacts
<1>3. call[t].pc \notin Calling /\ given[t] = Of(t, heap)
  BY <1>1, <1>2 DEF CallOk, Calling, Within, Decoding
<1>4. Of(t, heap') = {} /\ given'[t] = {} /\ heap' \subseteq Blocks
      /\ \A b \in Blocks : b.of # t => (b \in heap' <=> b \in heap)
  BY <1>1, <1>2, <1>3 DEF Of
<1>5. CallOk(t, call'[t], {}, {})
  BY <1>1, <1>2, <1>3 DEF CallOk, Calling, Within, Decoding
<1>6. given' \in [Thread -> SUBSET Blocks] /\ \A u \in Thread \ {t} : given'[u] = given[u]
  BY <1>1, <1>2
<1>7. /\ CallOk(t, call'[t], Of(t, heap'), given'[t]) /\ AnswerOk(answer'[t])
      /\ PlaceOk(t, call'[t].pc, handle, inside') /\ call'[t].pc \in Calling \cup {"rest"}
  BY <1>1, <1>2, <1>4, <1>5
<1>8. \A u \in Thread \ {t} :
        call'[u] = call[u] /\ given'[u] = given[u] /\ answer'[u] = answer[u]
  BY <1>1, <1>6
<1>9. call' \in [Thread -> Calls] /\ answer' \in [Thread -> Answers]
  BY <1>1, <1>2
<1> QED
  BY <1>1, <1>4, <1>6, <1>7, <1>8, <1>9, MovesInCall

(* The steps of a call, one after another.                                  *)
LEMMA CallsKeep ==
  ASSUME EmbedInv, NEW t \in Thread,
         \/ DecodeCall(t) \/ DecodeCallFails(t) \/ DispatchCall(t) \/ DispatchCallFails(t)
         \/ EncodeCall(t) \/ EncodeCallFails(t) \/ CopyAnswer(t) \/ CopyFails(t)
         \/ CompileFails(t) \/ CopyValue(t) \/ CopyValueFails(t)
  PROVE  EmbedInv'
<1>1. /\ Host("answer", t) \in Blocks /\ Host("answer", t).of = t
      /\ \A what \in {"request", "response", "encoded", "value"} :
           /\ Libc(what, t) \in Blocks /\ Libc(what, t).of = t /\ Libc(what, t).heap = "libc"
  BY BlockFacts
<1>2. {"decode", "dispatch", "encode", "copy", "compile", "copyValue"} \subseteq Within \ {"cleanup"}
      /\ "cleanup" \in Within
  BY DEF Within, Decoding
<1>3. CASE DecodeCall(t)
  BY <1>1, <1>2, <1>3, TakesKeeps DEF DecodeCall
<1>4. CASE DispatchCall(t)
  BY <1>1, <1>2, <1>4, TakesKeeps DEF DispatchCall
<1>5. CASE EncodeCall(t)
  BY <1>1, <1>2, <1>5, TakesKeeps DEF EncodeCall
<1>6. CASE CopyAnswer(t)
  BY <1>1, <1>2, <1>6, TakesKeeps DEF CopyAnswer
<1>7. CASE CopyValue(t)
  BY <1>1, <1>2, <1>7, TakesKeeps DEF CopyValue
<1>8. ASSUME NEW pc \in {"decode", "dispatch", "encode", "copy", "compile", "copyValue"},
             NEW statuses \in SUBSET Failures, Fails(t, pc, statuses)
      PROVE  EmbedInv'
  BY <1>2, <1>8, FailsKeeps
<1>9. CASE DecodeCallFails(t)
  BY <1>8, <1>9 DEF DecodeCallFails, Failures
<1>10. CASE DispatchCallFails(t)
  BY <1>8, <1>10 DEF DispatchCallFails, Failures
<1>11. CASE EncodeCallFails(t) \/ CopyFails(t)
  BY <1>8, <1>11 DEF EncodeCallFails, CopyFails, Failures
<1>12. CASE CompileFails(t)
  BY <1>8, <1>12 DEF CompileFails, Failures
<1>13. CASE CopyValueFails(t)
  BY <1>8, <1>13 DEF CopyValueFails, Failures
<1> QED
  BY <1>3, <1>4, <1>5, <1>6, <1>7, <1>9, <1>10, <1>11, <1>12, <1>13

(* The database opens or closes under one thread, while the others rest.    *)
LEMMA DatabaseMoves ==
  ASSUME EmbedInv, NEW t \in Thread, call[t].pc \notin Calling,
         \A u \in Thread \ {t} : call[u].pc = "rest",
         call' \in [Thread -> Calls], answer' \in [Thread -> Answers], UNCHANGED given,
         \A u \in Thread \ {t} : call'[u] = call[u] /\ answer'[u] = answer[u],
         heap' \subseteq Blocks, storage' \in BOOLEAN, inside' \subseteq {t},
         \A b \in Blocks : b.of # "all" => (b \in heap' <=> b \in heap),
         call'[t].pc \notin Calling, AnswerOk(answer'[t]),
         call'[t].pc = "boot" => call'[t].kind = "open",
         call'[t].pc = "shutdown" => call'[t].kind = "close",
         PlaceOk(t, call'[t].pc, handle', inside'),
         SharedOk(handle', Of("all", heap'), storage')
  PROVE  EmbedInv'
<1>1. /\ heap \subseteq Blocks /\ given \in [Thread -> SUBSET Blocks]
      /\ \A u \in Thread : CallOk(u, call[u], Of(u, heap), given[u]) /\ AnswerOk(answer[u])
  BY DEF EmbedInv
<1>2. \A u \in Thread : Of(u, heap') = Of(u, heap)
  BY <1>1, EmbedAssumption DEF Of
<1>3. "rest" \notin Calling
  BY DEF Calling, Within, Decoding
<1>4. ASSUME NEW u \in Thread
      PROVE  /\ CallOk(u, call'[u], Of(u, heap'), given'[u])
             /\ PlaceOk(u, call'[u].pc, handle', inside')
             /\ AnswerOk(answer'[u])
  <2>1. CASE u = t
    <3>1. /\ Of(t, heap) = given[t] /\ given[t] \subseteq {Host("answer", t)}
          /\ \A b \in Of(t, heap) : b.heap = "libc" \/ b = Targets(t) \/ b = Host("answer", t)
      BY <1>1 DEF CallOk
    <3>2. call'[t] \in Calls
      OBVIOUS
    <3>3. CallOk(t, call'[t], Of(t, heap), given[t])
      BY <3>1, <3>2 DEF CallOk, Calling, Within
    <3> QED
      BY <1>2, <2>1, <3>3
  <2>2. CASE u # t
    <3>1. CallOk(u, call'[u], Of(u, heap'), given'[u]) /\ AnswerOk(answer'[u])
      BY <1>1, <1>2, <2>2
    <3>2. call'[u].pc = "rest" /\ u \notin inside'
      BY <2>2
    <3>3. PlaceOk(u, call'[u].pc, handle', inside')
      BY <1>3, <3>2 DEF PlaceOk, Calling
    <3> QED
      BY <3>1, <3>3
  <2> QED
    BY <2>1, <2>2
<1>5. \A u, v \in Thread : u # v /\ call'[u].pc \in {"boot", "shutdown"} => call'[v].pc = "rest"
  <2> SUFFICES ASSUME NEW u \in Thread, NEW v \in Thread, u # v,
                      call'[u].pc \in {"boot", "shutdown"}
               PROVE  call'[v].pc = "rest"
    OBVIOUS
  <2>1. u = t
    OBVIOUS
  <2> QED
    BY <2>1
<1>6. inside' \subseteq Thread /\ \A u, v \in inside' : u = v
  OBVIOUS
<1>7. given' \in [Thread -> SUBSET Blocks]
  BY <1>1
<1> QED
  BY <1>4, <1>5, <1>6, <1>7 DEF EmbedInv

(* What the steps of opening and closing start from.                        *)
LEMMA DatabaseFacts ==
  ASSUME EmbedInv, NEW t \in Thread,
         \/ handle = "closed"
         \/ call[t].pc \in {"boot", "shutdown"}
         \/ \A u \in Thread : call[u].pc = "rest"
  PROVE  /\ call[t].pc \notin Calling /\ \A u \in Thread \ {t} : call[u].pc = "rest"
         /\ call \in [Thread -> Calls] /\ answer \in [Thread -> Answers] /\ call[t] \in Calls
         /\ heap \subseteq Blocks /\ storage \in BOOLEAN /\ inside \subseteq Thread
         /\ SharedOk(handle, Of("all", heap), storage)
         /\ PlaceOk(t, call[t].pc, handle, inside)
         /\ call[t].pc # "shutdown" => inside = {}
         /\ \A b \in heap : b.of = "all" <=> b \in Of("all", heap)
<1>1. /\ call \in [Thread -> Calls] /\ answer \in [Thread -> Answers] /\ heap \subseteq Blocks
      /\ storage \in BOOLEAN /\ inside \subseteq Thread /\ SharedOk(handle, Of("all", heap), storage)
      /\ \A u \in Thread : PlaceOk(u, call[u].pc, handle, inside)
      /\ \A u, v \in Thread : u # v /\ call[u].pc \in {"boot", "shutdown"} => call[v].pc = "rest"
  BY DEF EmbedInv
<1>2. \A u \in Thread : call[u].pc \in Calling \cup {"rest", "boot", "shutdown"}
  BY <1>1 DEF Calls
<1>3. \A pc \in {"rest", "boot", "shutdown"} : pc \notin Calling /\ pc \notin Within
  BY DEF Calling, Within, Decoding
<1>4. CASE handle = "closed"
  <2>1. \A u \in Thread : call[u].pc = "rest"
    BY <1>1, <1>2, <1>4 DEF PlaceOk
  <2>2. \A u \in Thread : u \notin inside
    BY <1>1, <1>3, <2>1 DEF PlaceOk
  <2> QED
    BY <1>1, <1>3, <2>1, <2>2 DEF Of
<1>5. CASE call[t].pc \in {"boot", "shutdown"}
  <2>1. \A u \in Thread \ {t} : call[u].pc = "rest"
    BY <1>1, <1>5
  <2>2. \A u \in Thread \ {t} : u \notin inside
    BY <1>1, <1>3, <2>1 DEF PlaceOk
  <2>3. call[t].pc = "boot" => t \notin inside
    BY <1>1, <1>3 DEF PlaceOk
  <2> QED
    BY <1>1, <1>3, <1>5, <2>1, <2>2, <2>3 DEF Of
<1>6. CASE \A u \in Thread : call[u].pc = "rest"
  <2>1. \A u \in Thread : u \notin inside
    BY <1>1, <1>3, <1>6 DEF PlaceOk
  <2> QED
    BY <1>1, <1>3, <1>6, <2>1 DEF Of
<1> QED
  BY <1>4, <1>5, <1>6

(* A call that opens or closes, and ends.                                   *)
LEMMA DatabaseReturns ==
  ASSUME EmbedInv, NEW t \in Thread, call[t].pc \in {"boot", "shutdown"},
         NEW status \in {"ok", "client", "host", "memory", "engine"}, NEW got \in BOOLEAN,
         Return(t, status, got, FALSE), status # "ok" => ~got,
         UNCHANGED given, heap' \subseteq Blocks, storage' \in BOOLEAN, inside' = {},
         \A b \in Blocks : b.of # "all" => (b \in heap' <=> b \in heap),
         SharedOk(handle', Of("all", heap'), storage')
  PROVE  EmbedInv'
<1> DEFINE said == [status |-> status, kind |-> call[t].kind, got |-> got, found |-> FALSE]
<1>1. /\ call[t].pc \notin Calling /\ \A u \in Thread \ {t} : call[u].pc = "rest"
      /\ call \in [Thread -> Calls] /\ answer \in [Thread -> Answers]
  BY DatabaseFacts
<1>2. Resting \in Calls /\ Resting.pc = "rest" /\ "rest" \notin Calling
  BY DEF Resting, Calls, Statuses, Calling, Within, Decoding
<1>3. call[t].kind \in {"open", "close"}
  BY EmbedFacts DEF CallOk
<1>4. said \in Answers /\ AnswerOk(said)
  BY <1>3 DEF Answers, Statuses, Failures, AnswerOk
<1>5. /\ call' \in [Thread -> Calls] /\ call'[t] = Resting
      /\ \A u \in Thread \ {t} : call'[u] = call[u]
  BY <1>1, <1>2 DEF Return
<1>6. /\ answer' \in [Thread -> Answers] /\ answer'[t] = said
      /\ \A u \in Thread \ {t} : answer'[u] = answer[u]
  BY <1>1, <1>4 DEF Return
<1>7. PlaceOk(t, "rest", handle', inside')
  BY <1>2 DEF PlaceOk, Calling
<1> QED
  BY <1>1, <1>2, <1>4, <1>5, <1>6, <1>7, DatabaseMoves

LEMMA OpenRefusedKeeps == ASSUME EmbedInv, NEW t \in Thread, OpenRefused(t) PROVE EmbedInv'
<1>1. PICK status \in {"argument", "engine", "memory"} :
        answer' = [answer EXCEPT ![t] = [NoAnswer EXCEPT !.status = status, !.kind = "open"]]
  BY DEF OpenRefused
<1> DEFINE said == [NoAnswer EXCEPT !.status = status, !.kind = "open"]
<1>2. handle = "closed" /\ UNCHANGED <<handle, heap, storage, inside, call, given>>
  BY DEF OpenRefused
<1>3. /\ call[t].pc \notin Calling /\ \A u \in Thread \ {t} : call[u].pc = "rest"
      /\ call \in [Thread -> Calls] /\ answer \in [Thread -> Answers]
      /\ heap \subseteq Blocks /\ storage \in BOOLEAN
      /\ SharedOk(handle, Of("all", heap), storage) /\ PlaceOk(t, call[t].pc, handle, inside)
      /\ call[t].pc # "shutdown" => inside = {}
  BY <1>2, DatabaseFacts
<1>4. call[t].pc \notin {"boot", "shutdown"}
  BY <1>2, <1>3 DEF PlaceOk
<1>5. said \in Answers /\ AnswerOk(said)
  <2>1. NoAnswer \in Answers /\ NoAnswer.got = FALSE /\ NoAnswer.found = FALSE
    BY DEF NoAnswer, Answers, Statuses
  <2>2. status \in Statuses \cup {"none", "argument"} /\ status # "ok"
    BY DEF Statuses, Failures
  <2>3. said \in Answers /\ said.status = status /\ said.got = FALSE /\ said.found = FALSE
    BY <2>1, <2>2 DEF Answers
  <2> QED
    BY <2>2, <2>3 DEF AnswerOk
<1>6. answer' \in [Thread -> Answers] /\ AnswerOk(answer'[t])
      /\ \A u \in Thread \ {t} : answer'[u] = answer[u]
  BY <1>1, <1>3, <1>5
<1> QED
  BY <1>2, <1>3, <1>4, <1>6, DatabaseMoves

LEMMA OpenBeginsKeeps == ASSUME EmbedInv, NEW t \in Thread, OpenBegins(t) PROVE EmbedInv'
<1> DEFINE c == [Resting EXCEPT !.pc = "boot", !.kind = "open"]
<1>1. /\ handle = "closed" /\ handle' = "opening" /\ heap' = heap \cup {Handle}
      /\ call' = [call EXCEPT ![t] = c] /\ UNCHANGED <<storage, inside, given, answer>>
      /\ call[t].pc = "rest"
  BY DEF OpenBegins
<1>2. /\ call[t].pc \notin Calling /\ \A u \in Thread \ {t} : call[u].pc = "rest"
      /\ call \in [Thread -> Calls] /\ answer \in [Thread -> Answers]
      /\ heap \subseteq Blocks /\ storage \in BOOLEAN
      /\ SharedOk(handle, Of("all", heap), storage) /\ inside = {}
  BY <1>1, DatabaseFacts
<1>3. c \in Calls /\ c.pc = "boot" /\ c.kind = "open"
  BY DEF Resting, Calls, Statuses
<1>4. "boot" \notin Calling /\ "boot" \notin Within
  BY DEF Calling, Within, Decoding
<1>5. AnswerOk(answer[t])
  BY EmbedFacts
<1>6. Handle \in Blocks /\ Handle.of = "all"
  BY BlockFacts
<1>7. Of("all", heap') = Of("all", heap) \cup {Handle}
  BY <1>1, <1>6 DEF Of
<1>8. SharedOk(handle', Of("all", heap'), storage')
  BY <1>1, <1>2, <1>7 DEF SharedOk
<1> HIDE DEF c
<1>9. /\ call' \in [Thread -> Calls] /\ call'[t] = c
      /\ \A u \in Thread \ {t} : call'[u] = call[u] /\ answer'[u] = answer[u]
  BY <1>1, <1>2, <1>3
<1>10. PlaceOk(t, "boot", handle', inside')
  BY <1>1, <1>2, <1>4 DEF PlaceOk
<1>11. heap' \subseteq Blocks /\ \A b \in Blocks : b.of # "all" => (b \in heap' <=> b \in heap)
  BY <1>1, <1>2, <1>6
<1>12. answer' \in [Thread -> Answers] /\ AnswerOk(answer'[t]) /\ storage' \in BOOLEAN
       /\ inside' \subseteq {t} /\ UNCHANGED given
  BY <1>1, <1>2, <1>5
<1> QED
  BY <1>2, <1>3, <1>4, <1>8, <1>9, <1>10, <1>11, <1>12, DatabaseMoves

LEMMA BootKeeps ==
  ASSUME EmbedInv, NEW t \in Thread, OpenWithoutMutex(t) \/ Boot(t) \/ BootFails(t)
  PROVE  EmbedInv'
<1>1. call[t].pc = "boot" /\ UNCHANGED <<given, inside>>
  BY DEF OpenWithoutMutex, Boot, BootFails
<1>2. /\ heap \subseteq Blocks /\ storage \in BOOLEAN /\ inside = {} /\ handle = "opening"
      /\ Of("all", heap) = {Handle} /\ ~storage
      /\ \A b \in heap : b.of = "all" <=> b \in Of("all", heap)
  <2>1. /\ heap \subseteq Blocks /\ storage \in BOOLEAN /\ inside = {}
        /\ SharedOk(handle, Of("all", heap), storage) /\ PlaceOk(t, call[t].pc, handle, inside)
        /\ \A b \in heap : b.of = "all" <=> b \in Of("all", heap)
    BY <1>1, DatabaseFacts
  <2>2. handle = "opening"
    BY <1>1, <2>1 DEF PlaceOk
  <2> QED
    BY <2>1, <2>2 DEF SharedOk
<1>3. /\ Handle \in Blocks /\ Handle.of = "all" /\ Engine \in Blocks /\ Engine.of = "all"
  BY BlockFacts
<1>4. CASE Boot(t)
  <2>1. handle' = "open" /\ heap' = heap \cup {Engine} /\ storage' = (regime = "posix")
        /\ Return(t, "ok", TRUE, FALSE)
    BY <1>4 DEF Boot
  <2>2. Of("all", heap') = {Handle, Engine}
    BY <1>2, <1>3, <2>1 DEF Of
  <2>3. SharedOk(handle', Of("all", heap'), storage')
    BY <2>1, <2>2 DEF SharedOk
  <2>4. heap' \subseteq Blocks /\ (\A b \in Blocks : b.of # "all" => (b \in heap' <=> b \in heap))
        /\ storage' \in BOOLEAN
    BY <1>2, <1>3, <2>1
  <2> QED
    BY <1>1, <1>2, <2>1, <2>3, <2>4, DatabaseReturns
<1>5. CASE OpenWithoutMutex(t) \/ BootFails(t)
  <2>1. /\ handle' = "closed" /\ heap' = heap \ {Handle} /\ UNCHANGED storage
        /\ \E status \in {"client", "host", "memory", "engine"} : Return(t, status, FALSE, FALSE)
    BY <1>5 DEF OpenWithoutMutex, BootFails, Failures, PublicStatus
  <2>2. Of("all", heap') = {}
    BY <1>2, <1>3, <2>1 DEF Of
  <2>3. SharedOk(handle', Of("all", heap'), storage')
    BY <1>2, <2>1, <2>2 DEF SharedOk
  <2>4. heap' \subseteq Blocks /\ (\A b \in Blocks : b.of # "all" => (b \in heap' <=> b \in heap))
        /\ storage' \in BOOLEAN
    BY <1>2, <1>3, <2>1
  <2> QED
    BY <1>1, <1>2, <2>1, <2>3, <2>4, DatabaseReturns
<1> QED
  BY <1>4, <1>5

LEMMA CloseBeginsKeeps == ASSUME EmbedInv, NEW t \in Thread, CloseBegins(t) PROVE EmbedInv'
<1>1. PICK locked \in BOOLEAN :
        /\ inside' = IF locked THEN {t} ELSE {}
        /\ call' = [call EXCEPT ![t] = [Resting EXCEPT !.pc = "shutdown", !.kind = "close",
                                           !.status = IF locked THEN "ok" ELSE "engine"]]
  BY DEF CloseBegins
<1> DEFINE c == [Resting EXCEPT !.pc = "shutdown", !.kind = "close",
                    !.status = IF locked THEN "ok" ELSE "engine"]
<1>2. /\ handle = "open" /\ (\A u \in Thread : call[u].pc = "rest") /\ handle' = "closing"
      /\ UNCHANGED <<heap, storage, given, answer>>
  BY DEF CloseBegins
<1>3. /\ call[t].pc \notin Calling /\ call \in [Thread -> Calls] /\ answer \in [Thread -> Answers]
      /\ heap \subseteq Blocks /\ storage \in BOOLEAN
      /\ SharedOk(handle, Of("all", heap), storage)
  BY <1>2, DatabaseFacts
<1>4. c \in Calls /\ c.pc = "shutdown" /\ c.kind = "close"
  BY DEF Resting, Calls, Statuses
<1>5. "shutdown" \notin Calling /\ "shutdown" \notin Within
  BY DEF Calling, Within, Decoding
<1>6. AnswerOk(answer[t])
  BY EmbedFacts
<1>7. SharedOk(handle', Of("all", heap'), storage')
  BY <1>2, <1>3 DEF SharedOk
<1> HIDE DEF c
<1>8. /\ call' \in [Thread -> Calls] /\ call'[t] = c
      /\ \A u \in Thread \ {t} : call'[u] = call[u] /\ answer'[u] = answer[u]
  BY <1>1, <1>2, <1>3, <1>4 DEF c
<1>9. PlaceOk(t, "shutdown", handle', inside')
  BY <1>2, <1>5 DEF PlaceOk
<1>10. inside' \subseteq {t}
  BY <1>1
<1> QED
  BY <1>2, <1>3, <1>4, <1>5, <1>6, <1>7, <1>8, <1>9, <1>10, DatabaseMoves

LEMMA CloseKeeps == ASSUME EmbedInv, NEW t \in Thread, Close(t) PROVE EmbedInv'
<1>1. /\ call[t].pc = "shutdown" /\ storage' = FALSE /\ heap' = heap \ CloseFrees
      /\ inside' = {} /\ handle' = "closed" /\ UNCHANGED given
      /\ \E status \in {"ok", "host", "engine"} : Return(t, status, FALSE, FALSE)
  BY DEF Close, PublicStatus
<1>2. /\ heap \subseteq Blocks /\ Of("all", heap) = {Handle, Engine}
      /\ \A b \in heap : b.of = "all" <=> b \in Of("all", heap)
  <2>1. /\ heap \subseteq Blocks
        /\ SharedOk(handle, Of("all", heap), storage) /\ PlaceOk(t, call[t].pc, handle, inside)
        /\ \A b \in heap : b.of = "all" <=> b \in Of("all", heap)
    BY <1>1, DatabaseFacts
  <2>2. handle = "closing"
    BY <1>1, <2>1 DEF PlaceOk
  <2> QED
    BY <2>1, <2>2 DEF SharedOk
<1>3. /\ Handle \in Blocks /\ Handle.of = "all" /\ Engine \in Blocks /\ Engine.of = "all"
  BY BlockFacts
<1>4. Of("all", heap') = {}
  BY <1>1, <1>2 DEF Of, CloseFrees
<1>5. SharedOk(handle', Of("all", heap'), storage')
  BY <1>1, <1>4 DEF SharedOk
<1>6. heap' \subseteq Blocks /\ (\A b \in Blocks : b.of # "all" => (b \in heap' <=> b \in heap))
  BY <1>1, <1>2, <1>3 DEF CloseFrees
<1> QED
  BY <1>1, <1>5, <1>6, DatabaseReturns

(* Every thread is where the database lets it be and owns exactly what its  *)
(* step of a call entitles it to, whatever fails on the way.                *)
THEOREM EmbedIsSound == EmbedSpec => []EmbedInv
<1>1. ASSUME EmbedInit PROVE EmbedInv
  <2>1. /\ heap = {} /\ storage = FALSE /\ inside = {} /\ handle = "closed"
        /\ call = [t \in Thread |-> Resting] /\ given = [t \in Thread |-> {}]
        /\ answer = [t \in Thread |-> NoAnswer]
    BY <1>1 DEF EmbedInit
  <2>2. Resting \in Calls /\ Resting.pc = "rest"
    BY DEF Resting, Calls, Statuses
  <2>3. NoAnswer \in Answers /\ AnswerOk(NoAnswer)
    BY DEF NoAnswer, Answers, AnswerOk
  <2>4. \A t \in Thread : CallOk(t, Resting, {}, {})
    BY <2>2 DEF CallOk, Calling, Within, Decoding
  <2>5. \A t \in Thread : PlaceOk(t, "rest", handle, inside)
    BY <2>1 DEF PlaceOk, Calling, Within, Decoding
  <2>6. SharedOk(handle, {}, storage)
    BY <2>1 DEF SharedOk
  <2>7. \A t \in Thread \cup {"all"} : Of(t, heap) = {}
    BY <2>1 DEF Of
  <2>8. \A t \in Thread : call[t] = Resting /\ given[t] = {} /\ answer[t] = NoAnswer
    BY <2>1
  <2>9. \A t \in Thread : CallOk(t, call[t], Of(t, heap), given[t])
    BY <2>4, <2>7, <2>8
  <2>10. call \in [Thread -> Calls] /\ given \in [Thread -> SUBSET Blocks]
         /\ answer \in [Thread -> Answers]
    BY <2>1, <2>2, <2>3
  <2> QED
    BY <2>1, <2>2, <2>3, <2>5, <2>6, <2>7, <2>8, <2>9, <2>10 DEF EmbedInv
<1>2. ASSUME EmbedInv, [EmbedNext]_embedVars PROVE EmbedInv'
  <2>1. ASSUME NEW t \in Thread,
               \/ OpenRefused(t) \/ OpenBegins(t) \/ OpenWithoutMutex(t) \/ Boot(t) \/ BootFails(t)
               \/ CloseBegins(t) \/ Close(t)
        PROVE  EmbedInv'
    BY <1>2, <2>1, OpenRefusedKeeps, OpenBeginsKeeps, BootKeeps, CloseBeginsKeeps, CloseKeeps
  <2>2. ASSUME NEW t \in Thread,
               \/ BeginCall(t) \/ Refuse(t) \/ Prepare(t) \/ NoTargets(t) \/ EnterCall(t)
               \/ CannotEnter(t) \/ CompileFinds(t) \/ CompileEnds(t) \/ Cleanup(t) \/ Finish(t)
               \/ FinishInvalid(t) \/ ReleaseGiven(t)
        PROVE  EmbedInv'
    BY <1>2, <2>2, BeginCallKeeps, RefuseKeeps, PrepareKeeps, EnterKeeps, CompileKeeps,
       CleanupKeeps, FinishKeeps, FinishInvalidKeeps, ReleaseKeeps
  <2>3. ASSUME NEW t \in Thread,
               \/ DecodeCall(t) \/ DecodeCallFails(t) \/ DispatchCall(t) \/ DispatchCallFails(t)
               \/ EncodeCall(t) \/ EncodeCallFails(t) \/ CopyAnswer(t) \/ CopyFails(t)
               \/ CompileFails(t) \/ CopyValue(t) \/ CopyValueFails(t)
        PROVE  EmbedInv'
    BY <1>2, <2>3, CallsKeep
  <2>4. CASE UNCHANGED embedVars
    <3>1. UNCHANGED <<heap, storage, call, given, answer, inside, handle>>
      BY <2>4 DEF embedVars
    <3> QED
      BY <1>2, <3>1 DEF EmbedInv
  <2> QED
    BY <1>2, <2>1, <2>2, <2>3, <2>4 DEF EmbedNext
<1> QED
  BY <1>1, <1>2, PTL DEF EmbedSpec

(* Nothing of the store's outlives a call on any path out of it, one thread *)
(* at a time is inside the store and only while it exists, and an answer    *)
(* gives a block exactly when it has something to give: for any number of   *)
(* threads, sessions and calls.                                             *)
THEOREM EmbeddedCallsAreClean == EmbedSpec => []CallsAreClean
<1>1. EmbedInv => CallsAreClean
  <2> SUFFICES ASSUME EmbedInv PROVE CallsAreClean
    OBVIOUS
  <2>1. /\ heap \subseteq Blocks /\ inside \subseteq Thread
        /\ SharedOk(handle, Of("all", heap), storage)
        /\ \A t \in Thread : /\ CallOk(t, call[t], Of(t, heap), given[t])
                             /\ PlaceOk(t, call[t].pc, handle, inside)
                             /\ AnswerOk(answer[t])
        /\ \A t, u \in inside : t = u
    BY DEF EmbedInv
  <2>2. ASSUME NEW t \in Thread
        PROVE  /\ call[t].pc = "rest" => Owned(t) = {}
               /\ given[t] \subseteq {b \in heap : b.heap = "host"}
               /\ call[t].pc = "rest" => \A b \in heap : b.of = t => b \in given[t]
    <3>1. CallOk(t, call[t], Of(t, heap), given[t]) /\ Host("answer", t).heap = "host"
      BY <2>1, BlockFacts
    <3>2. call[t].pc = "rest" => Of(t, heap) = given[t]
      BY <3>1 DEF CallOk, Calling, Within, Decoding
    <3>3. given[t] \subseteq {b \in Of(t, heap) : b.heap = "host"}
      BY <3>1 DEF CallOk
    <3> QED
      BY <3>2, <3>3 DEF Owned, Of
  <2>3. handle = "closed" => ~storage /\ \A b \in heap : b \in UNION {given[t] : t \in Thread}
    <3> SUFFICES ASSUME handle = "closed"
                 PROVE  ~storage /\ \A b \in heap : b \in UNION {given[t] : t \in Thread}
      OBVIOUS
    <3>1. ~storage /\ Of("all", heap) = {}
      BY <2>1 DEF SharedOk
    <3>2. \A t \in Thread : call[t].pc = "rest"
      <4> SUFFICES ASSUME NEW t \in Thread PROVE call[t].pc = "rest"
        OBVIOUS
      <4>1. call[t].pc \in Calling \cup {"rest", "boot", "shutdown"}
        BY EmbedFacts DEF Calls
      <4>2. PlaceOk(t, call[t].pc, handle, inside)
        BY <2>1
      <4> QED
        BY <4>1, <4>2 DEF PlaceOk
    <3>3. \A b \in heap : b.of \in Thread
      BY <2>1, <3>1 DEF Blocks, Of
    <3> QED
      BY <2>2, <3>1, <3>2, <3>3
  <2>4. handle \in {"open", "closing"} => {Handle, Engine} \subseteq heap
    <3>1. handle \in {"open", "closing"} => Of("all", heap) = {Handle, Engine}
      BY <2>1 DEF SharedOk
    <3> QED
      BY <3>1 DEF Of
  <2>5. NothingStays
    BY <2>2, <2>3, <2>4 DEF NothingStays
  <2>6. Cardinality(inside) <= 1
    <3>1. CASE inside = {}
      BY <3>1, FS_EmptySet
    <3>2. CASE inside # {}
      <4>1. PICK t \in inside : TRUE
        BY <3>2
      <4>2. inside = {t}
        BY <2>1, <4>1
      <4> QED
        BY <4>2, FS_Singleton, SMTT(30)
    <3> QED
      BY <3>1, <3>2
  <2>7. OneInside
    <3> SUFFICES ASSUME NEW t \in Thread, call[t].pc \in Within
                 PROVE  inside = {t} /\ Engine \in heap
      BY <2>6 DEF OneInside, Within, Decoding
    <3>1. t \in inside /\ handle = "open"
      BY <2>1 DEF PlaceOk, Calling
    <3> QED
      BY <2>1, <2>4, <3>1
  <2>8. AnswersAreWhole
    BY <2>1 DEF AnswersAreWhole, AnswerOk
  <2> QED
    BY <2>5, <2>7, <2>8 DEF CallsAreClean
<1> QED
  BY <1>1, EmbedIsSound, PTL

-----------------------------------------------------------------------------
(* Who owns the memory.  A thread that walks a chain stands where it goes on    *)
(* afterwards; whoever is inside the dispatch mutex works alone with the        *)
(* generations, but arenas are let go outside it too.  A generation is counted  *)
(* once for the store, for a call that has made it, for a release under way and *)
(* for its child; an arena once for its generation and once for its request.    *)
GenerationPcs ==
  {"idle", "calling", "entered", "ready", "appending", "answering", "leaving", "left",
   "walk", "walkOwner"}
GenerationThread ==
  [pc : GenerationPcs, call : {"none", "request", "query", "append", "compact"},
   request : Nat, from : Nat, next : Nat, walk : Nat,
   after : {"idle", "ready", "answering", "leaving"}]
GenerationRecord == [refs : Nat, owner : Nat, parent : Nat, chain : Nat, gone : BOOLEAN]

Walks(t) == t.pc \in {"walk", "walkOwner"}
Place(t) == IF Walks(t) THEN t.after ELSE t.pc
InsidePlaces == {"entered", "ready", "appending", "answering", "leaving"}
Alive(gens, g) == g \in 1..Len(gens) /\ ~gens[g].gone

(* One thread, with the mutex m, the published generation c and the chain.      *)
GenerationCallOk(t, within, c, gens) ==
  /\ within <=> Place(t) \in InsidePlaces
  /\ t.next # 0 <=> t.pc = "appending"
  /\ t.walk # 0 <=> Walks(t)
  /\ t.next <= Len(gens) /\ t.walk <= Len(gens)
  /\ Place(t) = "idle" => t.request = 0
  /\ t.from # 0 => Place(t) \in {"appending", "answering", "leaving"}
                   /\ (t.from = c \/ t.from = gens[c].parent)
  /\ c = 0 => Place(t) = "idle"
  /\ Place(t) = "idle" /\ Walks(t) => c = 0
  /\ t.pc = "appending" => /\ t.next = Len(gens) /\ gens[t.next].parent = c
                           /\ gens[t.next].chain = gens[c].chain + 1 /\ t.from = c
  /\ t.pc = "walkOwner" => Alive(gens, t.walk) /\ gens[t.walk].refs = 0

GenerationsMutex ==
  /\ mutex \in Worker \cup {Free} /\ (current = 0 => mutex = Free)
  /\ \A w \in Worker : GenerationCallOk(thread[w], mutex = w, current, generation)
  /\ \A v, w \in Worker : Walks(thread[v]) /\ Walks(thread[w]) => v = w

(* The generations that have not gone are lines: parents are older, nobody has  *)
(* two children.                                                                *)
GenerationTree(gens) ==
  /\ \A g \in 1..Len(gens) : gens[g].parent < g
  /\ \A g, h \in 1..Len(gens) :
       ~gens[g].gone /\ ~gens[h].gone /\ gens[g].parent = gens[h].parent
         /\ gens[g].parent # 0 => g = h

Once(b) == IF b THEN 1 ELSE 0
Parenting(gens, g) == \E h \in 1..Len(gens) : ~gens[h].gone /\ gens[h].parent = g

(* A child of the published generation is not yet published or being released.  *)
PublishedIsNewest(gens, c, th) ==
  c # 0 => \A g \in 1..Len(gens) :
    ~gens[g].gone /\ gens[g].parent = c =>
      g = Len(gens) /\ \E w \in Worker : th[w].next = g \/ th[w].walk = g

GenerationsCounted(gens, c, th) ==
  \A g \in 1..Len(gens) :
    /\ gens[g].refs = Once(c = g) + Once(\E w \in Worker : th[w].next = g)
                      + Once(\E w \in Worker : th[w].pc = "walk" /\ th[w].walk = g)
                      + Once(Parenting(gens, g))
    /\ gens[g].gone => gens[g].refs = 0
    /\ ~gens[g].gone /\ gens[g].refs = 0 =>
         \E w \in Worker : th[w].pc = "walkOwner" /\ th[w].walk = g

Owning(gens, o) == \E g \in 1..Len(gens) : ~gens[g].gone /\ gens[g].owner = o

ArenasCounted(owners, gens, th) ==
  /\ \A o \in 1..Len(owners) :
       owners[o] = Once(Owning(gens, o)) + Once(\E w \in Worker : th[w].request = o)
  /\ \A g \in 1..Len(gens) : gens[g].owner \in 1..Len(owners)
  /\ \A g, h \in 1..Len(gens) :
       ~gens[g].gone /\ ~gens[h].gone /\ gens[g].owner = gens[h].owner => g = h
  /\ \A v, w \in Worker : th[v].request = th[w].request /\ th[v].request # 0 => v = w
  /\ \A w \in Worker :
       /\ th[w].request <= Len(owners)
       /\ Place(th[w]) \in {"calling", "entered", "ready"} => ~Owning(gens, th[w].request)

GenerationsTyped ==
  /\ limit \in Nat \ {0} /\ base \in Nat
  /\ owner \in Seq(Nat) /\ generation \in Seq(GenerationRecord)
  /\ current \in 0..Len(generation) /\ thread \in [Worker -> GenerationThread]

GenerationsBounded ==
  current # 0 =>
    /\ generation[current].chain - base <= limit
    /\ \A w \in Worker : Place(thread[w]) \in {"ready", "appending"} =>
                           generation[current].chain - base < limit

GenerationsInv ==
  /\ GenerationsTyped /\ GenerationsMutex /\ GenerationsBounded
  /\ GenerationTree(generation) /\ PublishedIsNewest(generation, current, thread)
  /\ GenerationsCounted(generation, current, thread) /\ ArenasCounted(owner, generation, thread)

LEMMA OnceIs == Once(TRUE) = 1 /\ Once(FALSE) = 0
  BY DEF Once

(* Only thread w makes or releases a generation.                                *)
AloneIn(th, w) == \A v \in Worker \ {w} : th[v].next = 0 /\ th[v].walk = 0 /\ ~Walks(th[v])

(* What of the counts is thread w's.                                            *)
CountedFor(gens, c, t) ==
  \A g \in 1..Len(gens) :
    /\ gens[g].refs = Once(c = g) + Once(t.next = g) + Once(t.pc = "walk" /\ t.walk = g)
                      + Once(Parenting(gens, g))
    /\ gens[g].gone => gens[g].refs = 0
    /\ ~gens[g].gone /\ gens[g].refs = 0 => t.pc = "walkOwner" /\ t.walk = g

LEMMA CountsAgree ==
  ASSUME NEW gens, NEW c, NEW th, NEW w \in Worker, AloneIn(th, w)
  PROVE  GenerationsCounted(gens, c, th) <=> CountedFor(gens, c, th[w])
<1>1. ASSUME NEW g \in 1..Len(gens)
      PROVE  /\ (\E v \in Worker : th[v].next = g) <=> th[w].next = g
             /\ (\E v \in Worker : th[v].pc = "walk" /\ th[v].walk = g)
                  <=> (th[w].pc = "walk" /\ th[w].walk = g)
             /\ (\E v \in Worker : th[v].pc = "walkOwner" /\ th[v].walk = g)
                  <=> (th[w].pc = "walkOwner" /\ th[w].walk = g)
  <2>1. g # 0
    OBVIOUS
  <2> QED
    BY <2>1 DEF AloneIn
<1>2. ASSUME NEW g \in 1..Len(gens)
      PROVE  /\ Once(\E v \in Worker : th[v].next = g) = Once(th[w].next = g)
             /\ Once(\E v \in Worker : th[v].pc = "walk" /\ th[v].walk = g)
                  = Once(th[w].pc = "walk" /\ th[w].walk = g)
  BY <1>1 DEF Once
<1>3. ASSUME GenerationsCounted(gens, c, th) PROVE CountedFor(gens, c, th[w])
  <2> SUFFICES ASSUME NEW g \in 1..Len(gens)
               PROVE  /\ gens[g].refs = Once(c = g) + Once(th[w].next = g)
                                        + Once(th[w].pc = "walk" /\ th[w].walk = g)
                                        + Once(Parenting(gens, g))
                      /\ gens[g].gone => gens[g].refs = 0
                      /\ ~gens[g].gone /\ gens[g].refs = 0 => th[w].pc = "walkOwner" /\ th[w].walk = g
    BY DEF CountedFor
  <2>1. /\ gens[g].refs = Once(c = g) + Once(\E v \in Worker : th[v].next = g)
                          + Once(\E v \in Worker : th[v].pc = "walk" /\ th[v].walk = g)
                          + Once(Parenting(gens, g))
        /\ gens[g].gone => gens[g].refs = 0
        /\ ~gens[g].gone /\ gens[g].refs = 0
             => \E v \in Worker : th[v].pc = "walkOwner" /\ th[v].walk = g
    BY <1>3 DEF GenerationsCounted
  <2> QED
    BY <1>1, <1>2, <2>1
<1>4. ASSUME CountedFor(gens, c, th[w]) PROVE GenerationsCounted(gens, c, th)
  <2> SUFFICES ASSUME NEW g \in 1..Len(gens)
               PROVE  /\ gens[g].refs = Once(c = g) + Once(\E v \in Worker : th[v].next = g)
                                        + Once(\E v \in Worker : th[v].pc = "walk" /\ th[v].walk = g)
                                        + Once(Parenting(gens, g))
                      /\ gens[g].gone => gens[g].refs = 0
                      /\ ~gens[g].gone /\ gens[g].refs = 0
                           => \E v \in Worker : th[v].pc = "walkOwner" /\ th[v].walk = g
    BY DEF GenerationsCounted
  <2>1. /\ gens[g].refs = Once(c = g) + Once(th[w].next = g)
                          + Once(th[w].pc = "walk" /\ th[w].walk = g)
                          + Once(Parenting(gens, g))
        /\ gens[g].gone => gens[g].refs = 0
        /\ ~gens[g].gone /\ gens[g].refs = 0 => th[w].pc = "walkOwner" /\ th[w].walk = g
    BY <1>4 DEF CountedFor
  <2> QED
    BY <1>1, <1>2, <2>1
<1> QED
  BY <1>3, <1>4

NewestFor(gens, c, t) ==
  c # 0 => \A g \in 1..Len(gens) :
    ~gens[g].gone /\ gens[g].parent = c => g = Len(gens) /\ (t.next = g \/ t.walk = g)

LEMMA NewestAgrees ==
  ASSUME NEW gens, NEW c, NEW th, NEW w \in Worker, AloneIn(th, w)
  PROVE  PublishedIsNewest(gens, c, th) <=> NewestFor(gens, c, th[w])
<1>1. ASSUME NEW g \in 1..Len(gens)
      PROVE  (\E v \in Worker : th[v].next = g \/ th[v].walk = g)
               <=> (th[w].next = g \/ th[w].walk = g)
  <2>1. g # 0
    OBVIOUS
  <2> QED
    BY <2>1 DEF AloneIn
<1> QED
  BY <1>1 DEF PublishedIsNewest, NewestFor

LEMMA GenerationFacts ==
  ASSUME NEW gens \in Seq(GenerationRecord), NEW g \in 1..Len(gens)
  PROVE  /\ gens[g] \in GenerationRecord /\ gens[g].refs \in Nat /\ gens[g].owner \in Nat
         /\ gens[g].parent \in Nat /\ gens[g].chain \in Nat /\ gens[g].gone \in BOOLEAN
         /\ g \in Nat /\ g # 0 /\ Len(gens) \in Nat
<1>1. gens[g] \in GenerationRecord /\ Len(gens) \in Nat
  BY ElementOfSeq, LenProperties
<1>2. /\ gens[g].refs \in Nat /\ gens[g].owner \in Nat /\ gens[g].parent \in Nat
      /\ gens[g].chain \in Nat /\ gens[g].gone \in BOOLEAN
  BY <1>1 DEF GenerationRecord
<1>3. g \in Nat /\ g # 0
  BY <1>1
<1> QED
  BY <1>1, <1>2, <1>3

LEMMA InvFacts ==
  ASSUME GenerationsInv
  PROVE  /\ limit \in Nat \ {0} /\ base \in Nat
         /\ owner \in Seq(Nat) /\ generation \in Seq(GenerationRecord)
         /\ current \in 0..Len(generation) /\ thread \in [Worker -> GenerationThread]
         /\ Len(owner) \in Nat /\ Len(generation) \in Nat
         /\ mutex \in Worker \cup {Free} /\ (current = 0 => mutex = Free)
         /\ \A w \in Worker : GenerationCallOk(thread[w], mutex = w, current, generation)
         /\ GenerationTree(generation) /\ PublishedIsNewest(generation, current, thread)
         /\ GenerationsCounted(generation, current, thread)
         /\ ArenasCounted(owner, generation, thread)
         /\ \A w \in Worker : thread[w] \in GenerationThread
  BY LenProperties DEF GenerationsInv, GenerationsTyped, GenerationsMutex

LEMMA AreAlone ==
  ASSUME GenerationsInv, NEW w \in Worker,
         mutex = w \/ Walks(thread[w]) \/ (\A v \in Worker : thread[v].pc = "idle")
  PROVE  AloneIn(thread, w)
<1> SUFFICES ASSUME NEW v \in Worker, v # w
             PROVE  thread[v].next = 0 /\ thread[v].walk = 0 /\ ~Walks(thread[v])
  BY DEF AloneIn
<1>1. /\ GenerationCallOk(thread[w], mutex = w, current, generation)
      /\ GenerationCallOk(thread[v], mutex = v, current, generation)
      /\ thread[v] \in GenerationThread /\ thread[w] \in GenerationThread
      /\ Walks(thread[v]) /\ Walks(thread[w]) => v = w
      /\ (current = 0 => mutex = Free)
  BY InvFacts DEF GenerationsInv, GenerationsMutex
<1>2. CASE Walks(thread[w])
  <2>1. ~Walks(thread[v])
    BY <1>1, <1>2
  <2>2. thread[v].pc # "appending"
    <3>1. SUFFICES ASSUME thread[v].pc = "appending" PROVE FALSE
      OBVIOUS
    <3>2. Place(thread[v]) = "appending" /\ mutex = v
      BY <1>1, <3>1 DEF Place, Walks, GenerationCallOk, InsidePlaces
    <3>3. mutex # w
      BY <3>2
    <3>4. Place(thread[w]) \notin InsidePlaces
      BY <1>1, <3>3 DEF GenerationCallOk
    <3>5. Place(thread[w]) = "idle"
      BY <1>1, <1>2, <3>4 DEF Place, Walks, GenerationThread, InsidePlaces
    <3>6. current = 0
      BY <1>1, <1>2, <3>5 DEF GenerationCallOk
    <3> QED
      BY <1>1, <3>2, <3>6, GenerationsAssumption
  <2> QED
    BY <1>1, <2>1, <2>2 DEF GenerationCallOk
<1>3. CASE mutex = w
  <2>1. mutex # v /\ current # 0
    BY <1>1, <1>3, GenerationsAssumption
  <2>2. Place(thread[v]) \notin InsidePlaces
    BY <1>1, <2>1 DEF GenerationCallOk
  <2>3. ~Walks(thread[v])
    <3>1. SUFFICES ASSUME Walks(thread[v]) PROVE FALSE
      OBVIOUS
    <3>2. Place(thread[v]) = "idle"
      BY <1>1, <2>2, <3>1 DEF Place, Walks, GenerationThread, InsidePlaces
    <3> QED
      BY <1>1, <2>1, <3>1, <3>2 DEF GenerationCallOk
  <2>4. thread[v].pc # "appending"
    BY <2>2, <2>3 DEF Place, InsidePlaces
  <2> QED
    BY <1>1, <2>3, <2>4 DEF GenerationCallOk
<1>4. CASE \A u \in Worker : thread[u].pc = "idle"
  <2>1. ~Walks(thread[v]) /\ thread[v].pc # "appending"
    BY <1>4 DEF Walks
  <2> QED
    BY <1>1, <2>1 DEF GenerationCallOk
<1> QED
  BY <1>2, <1>3, <1>4

(* Thread w takes a step.                                                       *)
Turns(w) ==
  /\ thread' \in [Worker -> GenerationThread]
  /\ \A v \in Worker \ {w} : thread'[v] = thread[v]

(* A thread that is not inside stays what it is, whatever happens inside.       *)
LEMMA OutsiderStays ==
  ASSUME NEW t \in GenerationThread, NEW c, NEW gens, NEW d, NEW more,
         GenerationCallOk(t, FALSE, c, gens), ~Walks(t), Len(more) \in Nat,
         d = 0 => Place(t) = "idle"
  PROVE  GenerationCallOk(t, FALSE, d, more)
<1>1. /\ Place(t) \notin InsidePlaces /\ Place(t) = t.pc
      /\ t.pc # "appending" /\ t.pc # "walkOwner" /\ t.next = 0 /\ t.walk = 0 /\ t.from = 0
  BY DEF GenerationCallOk, Place, Walks, InsidePlaces
<1>2. Place(t) = "idle" => t.request = 0
  BY DEF GenerationCallOk
<1>3. t.next <= Len(more) /\ t.walk <= Len(more)
  BY <1>1
<1> QED
  BY <1>1, <1>2, <1>3 DEF GenerationCallOk

LEMMA GenerationsStart == ASSUME GenerationsInit PROVE GenerationsInv
<1>1. /\ owner = <<1>> /\ current = 1 /\ base = 1 /\ mutex = Free
      /\ generation = <<[refs |-> 1, owner |-> 1, parent |-> 0, chain |-> 1, gone |-> FALSE]>>
      /\ thread = [w \in Worker |-> Idle]
  BY DEF GenerationsInit, None
<1>2. limit \in Nat \ {0}
  <2>1. PICK budget \in Budgets : limit = DeriveLimits(budget)
    BY DEF GenerationsInit
  <2>2. budget \in Nat
    BY <2>1, GenerationsAssumption
  <2>3. /\ GenerationBytes \in Nat \ {0} /\ MinGenerations \in Nat \ {0}
        /\ DefaultGenerations \in Nat \ {0}
    BY GenerationsAssumption
  <2>4. budget \div GenerationBytes \in Int
    BY <2>2, <2>3
  <2> DEFINE n == budget \div GenerationBytes
  <2> HIDE DEF n
  <2>5. Clamped(n, MinGenerations, DefaultGenerations) \in Nat \ {0}
    BY <2>3, <2>4 DEF Clamped, n
  <2> QED
    BY <2>1, <2>3, <2>5 DEF DeriveLimits, n
<1> DEFINE first == [refs |-> 1, owner |-> 1, parent |-> 0, chain |-> 1, gone |-> FALSE]
<1>3. first \in GenerationRecord
  BY DEF GenerationRecord
<1>4. /\ generation \in Seq(GenerationRecord) /\ Len(generation) = 1 /\ generation[1] = first
      /\ owner \in Seq(Nat) /\ Len(owner) = 1 /\ owner[1] = 1
  BY <1>1, <1>3
<1>5. /\ generation[1].refs = 1 /\ generation[1].owner = 1 /\ generation[1].parent = 0
      /\ generation[1].chain = 1 /\ ~generation[1].gone
  BY <1>4
<1>6. \A g \in 1..Len(generation) : g = 1
  BY <1>4
<1>7. /\ Idle \in GenerationThread /\ Idle.pc = "idle" /\ Idle.request = 0 /\ Idle.from = 0
      /\ Idle.next = 0 /\ Idle.walk = 0
  BY DEF Idle, GenerationThread, GenerationPcs, None
<1>8. /\ thread \in [Worker -> GenerationThread] /\ \A w \in Worker : thread[w] = Idle
  BY <1>1, <1>7
<1>9. GenerationsTyped
  BY <1>1, <1>2, <1>4, <1>8 DEF GenerationsTyped
<1>10. GenerationsMutex
  <2>1. Place(Idle) = "idle" /\ ~Walks(Idle) /\ Place(Idle) \notin InsidePlaces
    BY <1>7 DEF Place, Walks, InsidePlaces
  <2>2. ASSUME NEW w \in Worker
        PROVE  GenerationCallOk(thread[w], mutex = w, current, generation)
    <3>1. thread[w] = Idle /\ mutex # w
      BY <1>1, <1>8, GenerationsAssumption
    <3>2. 0 <= Len(generation)
      BY <1>4
    <3> QED
      BY <1>1, <1>7, <2>1, <3>1, <3>2 DEF GenerationCallOk
  <2> QED
    BY <1>1, <1>8, <2>1, <2>2 DEF GenerationsMutex
<1>11. GenerationsBounded
  <2>1. \A w \in Worker : Place(thread[w]) \notin {"ready", "appending"}
    BY <1>7, <1>8 DEF Place, Walks
  <2> QED
    BY <1>1, <1>2, <1>5, <2>1 DEF GenerationsBounded
<1>12. GenerationTree(generation)
  BY <1>5, <1>6 DEF GenerationTree
<1>13. PublishedIsNewest(generation, current, thread)
  BY <1>1, <1>5, <1>6 DEF PublishedIsNewest
<1>14. GenerationsCounted(generation, current, thread)
  <2>1. ASSUME NEW g \in 1..Len(generation)
        PROVE  /\ ~\E w \in Worker : thread[w].next = g
               /\ ~\E w \in Worker : thread[w].pc = "walk" /\ thread[w].walk = g
               /\ ~Parenting(generation, g) /\ current = g
               /\ generation[g].refs = 1 /\ ~generation[g].gone
    BY <1>1, <1>5, <1>6, <1>7, <1>8 DEF Parenting
  <2>2. ASSUME NEW g \in 1..Len(generation)
        PROVE  generation[g].refs = Once(current = g) + Once(\E w \in Worker : thread[w].next = g)
                      + Once(\E w \in Worker : thread[w].pc = "walk" /\ thread[w].walk = g)
                      + Once(Parenting(generation, g))
    BY <2>1 DEF Once
  <2> QED
    BY <2>1 DEF GenerationsCounted, Once
<1>15. ArenasCounted(owner, generation, thread)
  <2>1. \A w \in Worker : thread[w].request = 0 /\ Place(thread[w]) = "idle"
    BY <1>7, <1>8 DEF Place, Walks
  <2>2. Owning(generation, 1) /\ ~\E w \in Worker : thread[w].request = 1
    BY <1>4, <1>5, <2>1 DEF Owning
  <2>3. owner[1] = Once(Owning(generation, 1)) + Once(\E w \in Worker : thread[w].request = 1)
    BY <1>4, <2>2 DEF Once
  <2>4. \A o \in 1..Len(owner) : o = 1
    BY <1>4
  <2>5. \A w \in Worker : thread[w].request <= Len(owner)
    BY <1>4, <2>1
  <2> QED
    BY <1>4, <1>5, <1>6, <2>1, <2>3, <2>4, <2>5 DEF ArenasCounted
<1> QED
  BY <1>9, <1>10, <1>11, <1>12, <1>13, <1>14, <1>15 DEF GenerationsInv

SameWalks(t, u) ==
  /\ u.next = t.next /\ u.walk = t.walk
  /\ u.pc = "walk" <=> t.pc = "walk"
  /\ u.pc = "walkOwner" <=> t.pc = "walkOwner"

LEMMA CountsStay ==
  ASSUME NEW gens, NEW c, NEW th, NEW more, \A v \in Worker : SameWalks(th[v], more[v]),
         GenerationsCounted(gens, c, th), PublishedIsNewest(gens, c, th)
  PROVE  GenerationsCounted(gens, c, more) /\ PublishedIsNewest(gens, c, more)
<1>1. ASSUME NEW g
      PROVE  /\ (\E v \in Worker : more[v].next = g) <=> (\E v \in Worker : th[v].next = g)
             /\ (\E v \in Worker : more[v].pc = "walk" /\ more[v].walk = g)
                  <=> (\E v \in Worker : th[v].pc = "walk" /\ th[v].walk = g)
             /\ (\E v \in Worker : more[v].pc = "walkOwner" /\ more[v].walk = g)
                  <=> (\E v \in Worker : th[v].pc = "walkOwner" /\ th[v].walk = g)
             /\ (\E v \in Worker : more[v].next = g \/ more[v].walk = g)
                  <=> (\E v \in Worker : th[v].next = g \/ th[v].walk = g)
  BY DEF SameWalks
<1>2. PublishedIsNewest(gens, c, more)
  BY <1>1 DEF PublishedIsNewest
<1>3. GenerationsCounted(gens, c, more)
  <2>1. ASSUME NEW g
        PROVE  /\ Once(\E v \in Worker : more[v].next = g) = Once(\E v \in Worker : th[v].next = g)
               /\ Once(\E v \in Worker : more[v].pc = "walk" /\ more[v].walk = g)
                    = Once(\E v \in Worker : th[v].pc = "walk" /\ th[v].walk = g)
    <3>1. (\E v \in Worker : more[v].next = g) <=> (\E v \in Worker : th[v].next = g)
      BY <1>1
    <3>2. (\E v \in Worker : more[v].pc = "walk" /\ more[v].walk = g)
            <=> (\E v \in Worker : th[v].pc = "walk" /\ th[v].walk = g)
      BY <1>1
    <3>3. Once(\E v \in Worker : more[v].next = g) = Once(\E v \in Worker : th[v].next = g)
      BY <3>1 DEF Once
    <3>4. Once(\E v \in Worker : more[v].pc = "walk" /\ more[v].walk = g)
            = Once(\E v \in Worker : th[v].pc = "walk" /\ th[v].walk = g)
      BY <3>2 DEF Once
    <3> QED
      BY <3>3, <3>4
  <2>2. ASSUME NEW g \in 1..Len(gens)
        PROVE  gens[g].refs = Once(c = g) + Once(\E w \in Worker : more[w].next = g)
                      + Once(\E w \in Worker : more[w].pc = "walk" /\ more[w].walk = g)
                      + Once(Parenting(gens, g))
    <3>1. gens[g].refs = Once(c = g) + Once(\E w \in Worker : th[w].next = g)
                      + Once(\E w \in Worker : th[w].pc = "walk" /\ th[w].walk = g)
                      + Once(Parenting(gens, g))
      BY DEF GenerationsCounted
    <3> QED
      BY <2>1, <3>1
  <2>3. ASSUME NEW g \in 1..Len(gens)
        PROVE  /\ gens[g].gone => gens[g].refs = 0
               /\ ~gens[g].gone /\ gens[g].refs = 0 =>
                    \E w \in Worker : more[w].pc = "walkOwner" /\ more[w].walk = g
    <3>1. /\ gens[g].gone => gens[g].refs = 0
          /\ ~gens[g].gone /\ gens[g].refs = 0 =>
               \E w \in Worker : th[w].pc = "walkOwner" /\ th[w].walk = g
      BY DEF GenerationsCounted
    <3> QED
      BY <1>1, <3>1
  <2> QED
    BY <2>2, <2>3 DEF GenerationsCounted
<1> QED
  BY <1>2, <1>3

(* A step that leaves the chain alone.                                          *)
LEMMA QuietKeeps ==
  ASSUME GenerationsInv, NEW w \in Worker, Turns(w),
         UNCHANGED <<generation, current, base, limit>>, owner' \in Seq(Nat),
         SameWalks(thread[w], thread'[w]),
         current # 0 /\ Place(thread'[w]) \in {"ready", "appending"} =>
           generation[current].chain - base < limit,
         mutex' \in Worker \cup {Free}, current = 0 => mutex' = Free,
         \A v \in Worker \ {w} : mutex' = v <=> mutex = v,
         GenerationCallOk(thread'[w], mutex' = w, current, generation),
         ArenasCounted(owner', generation, thread')
  PROVE  GenerationsInv'
<1>1. \A v \in Worker : SameWalks(thread[v], thread'[v])
  BY DEF Turns, SameWalks
<1>2. GenerationsCounted(generation, current, thread') /\ PublishedIsNewest(generation, current, thread')
  BY <1>1, InvFacts, CountsStay
<1>3. ASSUME NEW v \in Worker
      PROVE  GenerationCallOk(thread'[v], mutex' = v, current, generation)
  <2>1. CASE v = w
    BY <2>1
  <2>2. CASE v # w
    <3>1. thread'[v] = thread[v] /\ (mutex' = v) = (mutex = v)
      BY <2>2 DEF Turns
    <3>2. GenerationCallOk(thread[v], mutex = v, current, generation)
      BY InvFacts
    <3> QED
      BY <3>1, <3>2
  <2> QED
    BY <2>1, <2>2
<1>4. \A u, v \in Worker : Walks(thread'[u]) /\ Walks(thread'[v]) => u = v
  <2>1. \A v \in Worker : Walks(thread'[v]) <=> Walks(thread[v])
    BY <1>1 DEF Walks, SameWalks
  <2> QED
    BY <2>1 DEF GenerationsInv, GenerationsMutex
<1>5. GenerationsMutex'
  BY <1>3, <1>4 DEF GenerationsMutex
<1>6. GenerationsBounded'
  <2>1. ASSUME current # 0
        PROVE  /\ generation[current].chain - base <= limit
               /\ \A v \in Worker : Place(thread'[v]) \in {"ready", "appending"} =>
                                      generation[current].chain - base < limit
    <3>1. /\ generation[current].chain - base <= limit
          /\ \A v \in Worker : Place(thread[v]) \in {"ready", "appending"} =>
                                      generation[current].chain - base < limit
      BY <2>1 DEF GenerationsInv, GenerationsBounded
    <3>2. \A v \in Worker \ {w} : thread'[v] = thread[v]
      BY DEF Turns
    <3> QED
      BY <2>1, <3>1, <3>2
  <2> QED
    BY <2>1 DEF GenerationsBounded
<1>7. GenerationsTyped'
  BY InvFacts DEF GenerationsTyped, Turns
<1> QED
  BY <1>2, <1>5, <1>6, <1>7, InvFacts DEF GenerationsInv

LEMMA NobodyOwnsNone == ASSUME GenerationsInv PROVE ~Owning(generation, 0)
<1>1. \A g \in 1..Len(generation) : generation[g].owner \in 1..Len(owner)
  BY InvFacts DEF ArenasCounted
<1> QED
  BY <1>1 DEF Owning

(* The arenas, when a step touches none.                                        *)
LEMMA ArenasStay ==
  ASSUME GenerationsInv, NEW w \in Worker, Turns(w),
         thread'[w].request = thread[w].request,
         \/ Place(thread'[w]) \notin {"calling", "entered", "ready"}
         \/ Place(thread[w]) \in {"calling", "entered", "ready"}
         \/ thread[w].request = 0
  PROVE  ArenasCounted(owner, generation, thread')
<1>1. \A v \in Worker : thread'[v].request = thread[v].request
  BY DEF Turns
<1>2. /\ \A o \in 1..Len(owner) :
           owner[o] = Once(Owning(generation, o)) + Once(\E v \in Worker : thread[v].request = o)
      /\ \A g \in 1..Len(generation) : generation[g].owner \in 1..Len(owner)
      /\ \A g, h \in 1..Len(generation) :
           ~generation[g].gone /\ ~generation[h].gone
             /\ generation[g].owner = generation[h].owner => g = h
      /\ \A u, v \in Worker :
           thread[u].request = thread[v].request /\ thread[u].request # 0 => u = v
      /\ \A v \in Worker :
           /\ thread[v].request <= Len(owner)
           /\ Place(thread[v]) \in {"calling", "entered", "ready"} =>
                ~Owning(generation, thread[v].request)
  BY InvFacts DEF ArenasCounted
<1>3. \A o : (\E v \in Worker : thread'[v].request = o) <=> (\E v \in Worker : thread[v].request = o)
  BY <1>1
<1>4. \A o \in 1..Len(owner) :
        owner[o] = Once(Owning(generation, o)) + Once(\E v \in Worker : thread'[v].request = o)
  <2> TAKE o \in 1..Len(owner)
  <2>1. Once(\E v \in Worker : thread'[v].request = o) = Once(\E v \in Worker : thread[v].request = o)
    BY <1>3 DEF Once
  <2>2. owner[o] = Once(Owning(generation, o)) + Once(\E v \in Worker : thread[v].request = o)
    BY <1>2
  <2> QED
    BY <2>1, <2>2
<1>5. ASSUME NEW v \in Worker
      PROVE  /\ thread'[v].request <= Len(owner)
             /\ Place(thread'[v]) \in {"calling", "entered", "ready"} =>
                  ~Owning(generation, thread'[v].request)
  <2>1. CASE v = w
    BY <1>1, <1>2, <2>1, NobodyOwnsNone
  <2>2. CASE v # w
    BY <1>2, <2>2 DEF Turns
  <2> QED
    BY <2>1, <2>2
<1>6. \A u, v \in Worker :
           thread'[u].request = thread'[v].request /\ thread'[u].request # 0 => u = v
  BY <1>1, <1>2
<1> QED
  BY <1>2, <1>4, <1>5, <1>6 DEF ArenasCounted

LEMMA PlainCall ==
  ASSUME NEW t \in GenerationThread, NEW within \in BOOLEAN, NEW c, NEW gens,
         t.pc \notin {"walk", "walkOwner", "appending"}, t.next = 0, t.walk = 0,
         within <=> t.pc \in InsidePlaces, t.pc = "idle" => t.request = 0,
         t.from # 0 => t.pc \in {"answering", "leaving"} /\ (t.from = c \/ t.from = gens[c].parent),
         c = 0 => t.pc = "idle", Len(gens) \in Nat
  PROVE  GenerationCallOk(t, within, c, gens)
<1>1. Place(t) = t.pc /\ ~Walks(t)
  BY DEF Place, Walks
<1>2. t.next <= Len(gens) /\ t.walk <= Len(gens)
  OBVIOUS
<1> QED
  BY <1>1, <1>2 DEF GenerationCallOk

LEMMA CallFacts1 ==
  ASSUME GenerationsInv, NEW w \in Worker, thread[w].pc \notin {"walk", "walkOwner"}
  PROVE  /\ thread[w] \in GenerationThread /\ Place(thread[w]) = thread[w].pc /\ ~Walks(thread[w])
         /\ thread[w].walk = 0 /\ (thread[w].pc # "appending" => thread[w].next = 0)
         /\ mutex = w <=> thread[w].pc \in InsidePlaces
         /\ thread[w].pc = "idle" => thread[w].request = 0
         /\ thread[w].from # 0 =>
              /\ thread[w].pc \in {"appending", "answering", "leaving"}
              /\ thread[w].from = current \/ thread[w].from = generation[current].parent
         /\ current = 0 => thread[w].pc = "idle"
         /\ thread[w].request \in Nat /\ thread[w].from \in Nat /\ thread[w].call \in
              {"none", "request", "query", "append", "compact"}
<1>1. GenerationCallOk(thread[w], mutex = w, current, generation) /\ thread[w] \in GenerationThread
  BY InvFacts
<1>2. Place(thread[w]) = thread[w].pc /\ ~Walks(thread[w])
  BY DEF Place, Walks
<1> QED
  BY <1>1, <1>2 DEF GenerationCallOk, GenerationThread

(* Without a call that walks or makes a generation, before and after.           *)
LEMMA PlainKeeps ==
  ASSUME GenerationsInv, NEW w \in Worker, Turns(w),
         UNCHANGED <<owner, generation, current, base, limit>>,
         thread[w].pc \notin {"walk", "walkOwner", "appending"},
         thread'[w].pc \notin {"walk", "walkOwner", "appending"},
         thread'[w].next = 0, thread'[w].walk = 0,
         thread'[w].request = thread[w].request,
         thread'[w].pc = "idle" => thread'[w].request = 0,
         \/ thread'[w].pc \notin {"calling", "entered", "ready"}
         \/ thread[w].pc \in {"calling", "entered", "ready"}
         \/ thread[w].request = 0,
         thread'[w].pc = "ready" => generation[current].chain - base < limit,
         thread'[w].from # 0 =>
           thread'[w].pc \in {"answering", "leaving"}
             /\ (thread'[w].from = current \/ thread'[w].from = generation[current].parent),
         current = 0 => thread'[w].pc = "idle",
         mutex' \in Worker \cup {Free}, current = 0 => mutex' = Free,
         \A v \in Worker \ {w} : mutex' = v <=> mutex = v,
         mutex' = w <=> thread'[w].pc \in InsidePlaces
  PROVE  GenerationsInv'
<1>1. thread'[w] \in GenerationThread /\ Place(thread'[w]) = thread'[w].pc
  BY DEF Turns, Place, Walks
<1>2. GenerationCallOk(thread'[w], mutex' = w, current, generation)
  <2>1. Len(generation) \in Nat
    BY InvFacts
  <2> QED
    BY <1>1, <2>1, PlainCall
<1>3. /\ thread[w].walk = 0 /\ thread[w].next = 0 /\ Place(thread[w]) = thread[w].pc
  BY CallFacts1
<1>4. SameWalks(thread[w], thread'[w])
  BY <1>3 DEF SameWalks
<1>5. ArenasCounted(owner, generation, thread')
  BY <1>1, <1>3, ArenasStay
<1>6. owner' \in Seq(Nat) /\ owner' = owner
  BY InvFacts
<1> QED
  BY <1>1, <1>2, <1>4, <1>5, <1>6, QuietKeeps

LEMMA Turning ==
  ASSUME GenerationsInv, NEW w \in Worker, NEW t \in GenerationThread,
         thread' = [thread EXCEPT ![w] = t]
  PROVE  Turns(w) /\ thread'[w] = t
  BY InvFacts DEF Turns

LEMMA CompileKeeps1 ==
  ASSUME GenerationsInv, NEW w \in Worker, NEW kind \in {"query", "append", "compact"},
         thread[w].pc = "idle", current # None,
         thread' = [thread EXCEPT ![w] = [Idle EXCEPT !.pc = "calling", !.call = kind]],
         UNCHANGED <<host, limit, owner, generation, current, base, spoiled, mutex>>
  PROVE  GenerationsInv'
<1> DEFINE t == [Idle EXCEPT !.pc = "calling", !.call = kind]
<1>1. /\ t \in GenerationThread /\ t.pc = "calling" /\ t.next = 0 /\ t.walk = 0 /\ t.from = 0
      /\ t.request = 0
  BY DEF Idle, GenerationThread, GenerationPcs, None
<1> HIDE DEF t
<1>2. Turns(w) /\ thread'[w] = t
  BY <1>1, Turning DEF t
<1>3. /\ thread[w].request = 0 /\ mutex # w /\ mutex \in Worker \cup {Free} /\ current # 0
  BY CallFacts1, InvFacts DEF InsidePlaces, None
<1> QED
  BY <1>1, <1>2, <1>3, PlainKeeps DEF InsidePlaces

LEMMA EnterKeeps1 == ASSUME GenerationsInv, NEW w \in Worker, Enter(w) PROVE GenerationsInv'
<1>1. /\ thread[w].pc = "calling" /\ mutex = Free /\ mutex' = w
      /\ UNCHANGED <<host, limit, owner, generation, current, base, spoiled>>
      /\ thread' = [thread EXCEPT ![w].pc = IF spoiled THEN "leaving" ELSE "entered"]
  BY DEF Enter, To
<1> DEFINE pc == IF spoiled THEN "leaving" ELSE "entered"
           t == [thread[w] EXCEPT !.pc = pc]
<1>2. thread[w] \in GenerationThread /\ thread' = [thread EXCEPT ![w] = t]
  BY <1>1, InvFacts
<1>3. pc \in {"leaving", "entered"}
  OBVIOUS
<1> HIDE DEF pc
<1>4. /\ t \in GenerationThread /\ t.pc = pc /\ t.next = thread[w].next /\ t.walk = thread[w].walk
      /\ t.from = thread[w].from /\ t.request = thread[w].request
  BY <1>2, <1>3 DEF GenerationThread, GenerationPcs
<1> HIDE DEF t
<1>5. Turns(w) /\ thread'[w] = t
  BY <1>2, <1>4, Turning
<1>6. /\ thread[w].next = 0 /\ thread[w].walk = 0 /\ thread[w].from = 0 /\ current # 0
  BY <1>1, CallFacts1
<1>7. /\ \A v \in Worker \ {w} : mutex' = v <=> mutex = v
      /\ mutex' = w <=> pc \in InsidePlaces
  BY <1>1, <1>3, GenerationsAssumption DEF InsidePlaces
<1> QED
  BY <1>1, <1>3, <1>4, <1>5, <1>6, <1>7, PlainKeeps

LEMMA ReadyKeeps == ASSUME GenerationsInv, NEW w \in Worker, Ready(w) PROVE GenerationsInv'
<1>1. /\ thread[w].pc = "entered" /\ ~NeedsCompaction(w)
      /\ UNCHANGED <<host, limit, owner, generation, current, base, spoiled, mutex>>
      /\ thread' = [thread EXCEPT ![w].pc = "ready"]
  BY DEF Ready, To
<1> DEFINE t == [thread[w] EXCEPT !.pc = "ready"]
<1>2. thread[w] \in GenerationThread /\ thread' = [thread EXCEPT ![w] = t]
  BY <1>1, InvFacts
<1>3. /\ t \in GenerationThread /\ t.pc = "ready" /\ t.next = thread[w].next
      /\ t.walk = thread[w].walk /\ t.from = thread[w].from /\ t.request = thread[w].request
  BY <1>2 DEF GenerationThread, GenerationPcs
<1> HIDE DEF t
<1>4. Turns(w) /\ thread'[w] = t
  BY <1>2, <1>3, Turning
<1>5. /\ thread[w].next = 0 /\ thread[w].walk = 0 /\ thread[w].from = 0 /\ current # 0 /\ mutex = w
  BY <1>1, CallFacts1 DEF InsidePlaces
<1>6. generation[current].chain - base < limit
  <2>1. current \in 1..Len(generation) /\ limit \in Nat /\ base \in Nat
    BY <1>5, InvFacts
  <2>2. generation[current].chain \in Nat
    BY <2>1, InvFacts, GenerationFacts
  <2>3. ~(generation[current].chain - base >= limit)
    BY <1>1 DEF NeedsCompaction
  <2> QED
    BY <2>1, <2>2, <2>3
<1> QED
  BY <1>1, <1>3, <1>4, <1>5, <1>6, InvFacts, PlainKeeps DEF InsidePlaces

LEMMA CompactFailsKeeps ==
  ASSUME GenerationsInv, NEW w \in Worker, CompactFails(w) PROVE GenerationsInv'
<1>1. /\ thread[w].pc = "entered"
      /\ UNCHANGED <<host, limit, owner, generation, current, base, spoiled, mutex>>
      /\ thread' = [thread EXCEPT ![w].pc = "leaving"]
  BY DEF CompactFails, To
<1> DEFINE t == [thread[w] EXCEPT !.pc = "leaving"]
<1>2. thread[w] \in GenerationThread /\ thread' = [thread EXCEPT ![w] = t]
  BY <1>1, InvFacts
<1>3. /\ t \in GenerationThread /\ t.pc = "leaving" /\ t.next = thread[w].next
      /\ t.walk = thread[w].walk /\ t.from = thread[w].from /\ t.request = thread[w].request
  BY <1>2 DEF GenerationThread, GenerationPcs
<1> HIDE DEF t
<1>4. Turns(w) /\ thread'[w] = t
  BY <1>2, <1>3, Turning
<1>5. /\ thread[w].next = 0 /\ thread[w].walk = 0 /\ thread[w].from = 0 /\ current # 0 /\ mutex = w
  BY <1>1, CallFacts1 DEF InsidePlaces
<1> QED
  BY <1>1, <1>3, <1>4, <1>5, InvFacts, PlainKeeps DEF InsidePlaces

(* Dispatch without a next generation: a query, or a failure.                   *)
LEMMA QueryKeeps ==
  ASSUME GenerationsInv, NEW w \in Worker, thread[w].pc = "ready",
         NEW pc \in {"answering", "leaving"},
         thread' = [thread EXCEPT ![w].from = current, ![w].pc = pc],
         UNCHANGED <<host, limit, owner, generation, current, base, spoiled, mutex>>
  PROVE  GenerationsInv'
<1> DEFINE t == [thread[w] EXCEPT !.from = current, !.pc = pc]
<1>1. current \in Nat
  <2>1. current \in 0..Len(generation) /\ Len(generation) \in Nat
    BY InvFacts
  <2> QED
    BY <2>1
<1>2. thread[w] \in GenerationThread /\ thread' = [thread EXCEPT ![w] = t]
  BY InvFacts
<1>3. /\ t \in GenerationThread /\ t.pc = pc /\ t.next = thread[w].next
      /\ t.walk = thread[w].walk /\ t.from = current /\ t.request = thread[w].request
  BY <1>1, <1>2 DEF GenerationThread, GenerationPcs
<1> HIDE DEF t
<1>4. Turns(w) /\ thread'[w] = t
  BY <1>2, <1>3, Turning
<1>5. /\ thread[w].next = 0 /\ thread[w].walk = 0 /\ current # 0 /\ mutex = w
  BY CallFacts1 DEF InsidePlaces
<1> QED
  BY <1>3, <1>4, <1>5, InvFacts, PlainKeeps DEF InsidePlaces

LEMMA AnswerKeeps == ASSUME GenerationsInv, NEW w \in Worker, Answer(w) PROVE GenerationsInv'
<1>1. /\ thread[w].pc = "answering"
      /\ UNCHANGED <<host, limit, owner, generation, current, base, spoiled, mutex>>
      /\ thread' = [thread EXCEPT ![w].pc = "leaving", ![w].from = 0]
  BY DEF Answer, None
<1> DEFINE t == [thread[w] EXCEPT !.pc = "leaving", !.from = 0]
<1>2. thread[w] \in GenerationThread /\ thread' = [thread EXCEPT ![w] = t]
  BY <1>1, InvFacts
<1>3. /\ t \in GenerationThread /\ t.pc = "leaving" /\ t.next = thread[w].next
      /\ t.walk = thread[w].walk /\ t.from = 0 /\ t.request = thread[w].request
  BY <1>2 DEF GenerationThread, GenerationPcs
<1> HIDE DEF t
<1>4. Turns(w) /\ thread'[w] = t
  BY <1>2, <1>3, Turning
<1>5. /\ thread[w].next = 0 /\ thread[w].walk = 0 /\ current # 0 /\ mutex = w
  BY <1>1, CallFacts1 DEF InsidePlaces
<1> QED
  BY <1>1, <1>3, <1>4, <1>5, InvFacts, PlainKeeps DEF InsidePlaces

LEMMA LeaveMutexKeeps ==
  ASSUME GenerationsInv, NEW w \in Worker, LeaveMutex(w) PROVE GenerationsInv'
<1>1. /\ thread[w].pc = "leaving" /\ mutex = w /\ mutex' = Free
      /\ UNCHANGED <<host, limit, owner, generation, current, base, spoiled>>
      /\ thread' = [thread EXCEPT ![w].pc = "left", ![w].from = 0]
  BY DEF LeaveMutex, None
<1> DEFINE t == [thread[w] EXCEPT !.pc = "left", !.from = 0]
<1>2. thread[w] \in GenerationThread /\ thread' = [thread EXCEPT ![w] = t]
  BY <1>1, InvFacts
<1>3. /\ t \in GenerationThread /\ t.pc = "left" /\ t.next = thread[w].next
      /\ t.walk = thread[w].walk /\ t.from = 0 /\ t.request = thread[w].request
  BY <1>2 DEF GenerationThread, GenerationPcs
<1> HIDE DEF t
<1>4. Turns(w) /\ thread'[w] = t
  BY <1>2, <1>3, Turning
<1>5. /\ thread[w].next = 0 /\ thread[w].walk = 0 /\ current # 0
  BY <1>1, CallFacts1
<1>6. /\ mutex' \in Worker \cup {Free} /\ mutex' # w
      /\ \A v \in Worker \ {w} : mutex' = v <=> mutex = v
  BY <1>1, GenerationsAssumption
<1> QED
  BY <1>1, <1>3, <1>4, <1>5, <1>6, PlainKeeps DEF InsidePlaces

LEMMA DoneKeeps1 == ASSUME GenerationsInv, NEW w \in Worker, Done(w) PROVE GenerationsInv'
<1>1. /\ thread[w].pc = "left" /\ thread[w].request = 0 /\ thread' = [thread EXCEPT ![w] = Idle]
      /\ UNCHANGED <<host, limit, owner, generation, current, base, spoiled, mutex>>
  BY DEF Done, None
<1>2. /\ Idle \in GenerationThread /\ Idle.pc = "idle" /\ Idle.next = 0 /\ Idle.walk = 0
      /\ Idle.from = 0 /\ Idle.request = 0
  BY DEF Idle, GenerationThread, GenerationPcs, None
<1>3. Turns(w) /\ thread'[w] = Idle
  BY <1>1, <1>2, Turning
<1>4. mutex # w /\ current # 0 /\ mutex \in Worker \cup {Free}
  BY <1>1, CallFacts1, InvFacts DEF InsidePlaces
<1> QED
  BY <1>1, <1>2, <1>3, <1>4, PlainKeeps DEF InsidePlaces

(* A new arena: thread w, which had none, takes it as its request's.            *)
LEMMA TakesArena ==
  ASSUME GenerationsInv, NEW w \in Worker, Turns(w), owner' = Append(owner, 1),
         thread[w].request = 0, thread'[w].request = Len(owner) + 1
  PROVE  owner' \in Seq(Nat) /\ ArenasCounted(owner', generation, thread')
<1> DEFINE o1 == Len(owner) + 1
<1>1. /\ \A o \in 1..Len(owner) :
           owner[o] = Once(Owning(generation, o)) + Once(\E v \in Worker : thread[v].request = o)
      /\ \A g \in 1..Len(generation) : generation[g].owner \in 1..Len(owner)
      /\ \A g, h \in 1..Len(generation) :
           ~generation[g].gone /\ ~generation[h].gone
             /\ generation[g].owner = generation[h].owner => g = h
      /\ \A u, v \in Worker :
           thread[u].request = thread[v].request /\ thread[u].request # 0 => u = v
      /\ \A v \in Worker :
           /\ thread[v].request <= Len(owner)
           /\ Place(thread[v]) \in {"calling", "entered", "ready"} =>
                ~Owning(generation, thread[v].request)
  BY InvFacts DEF ArenasCounted
<1>2. /\ owner' \in Seq(Nat) /\ Len(owner') = o1 /\ owner'[o1] = 1 /\ Len(owner) \in Nat /\ o1 \in Nat
      /\ \A o \in 1..Len(owner) : owner'[o] = owner[o]
  BY InvFacts, AppendProperties
<1>3. \A v \in Worker : thread[v].request \in Nat /\ thread'[v].request \in Nat
  BY InvFacts DEF Turns, GenerationThread
<1>4. \A v \in Worker \ {w} : thread'[v] = thread[v]
  BY DEF Turns
<1>5. ~Owning(generation, o1)
  <2>1. \A g \in 1..Len(generation) : generation[g].owner # o1
    BY <1>1, <1>2
  <2> QED
    BY <2>1 DEF Owning
<1>6. ASSUME NEW o \in 1..o1
      PROVE  owner'[o] = Once(Owning(generation, o)) + Once(\E v \in Worker : thread'[v].request = o)
  <2>1. CASE o = o1
    <3>1. \E v \in Worker : thread'[v].request = o
      BY <2>1
    <3> QED
      BY <1>2, <1>5, <2>1, <3>1 DEF Once
  <2>2. CASE o # o1
    <3>1. o \in 1..Len(owner) /\ o # 0
      BY <1>2, <2>2
    <3>2. (\E v \in Worker : thread'[v].request = o) <=> (\E v \in Worker : thread[v].request = o)
      BY <1>4, <2>2, <3>1
    <3>3. Once(\E v \in Worker : thread'[v].request = o) = Once(\E v \in Worker : thread[v].request = o)
      BY <3>2 DEF Once
    <3>4. owner[o] = Once(Owning(generation, o)) + Once(\E v \in Worker : thread[v].request = o)
      BY <1>1, <3>1
    <3>5. owner'[o] = owner[o]
      BY <1>2, <3>1
    <3> QED
      BY <3>3, <3>4, <3>5
  <2> QED
    BY <2>1, <2>2
<1>7. \A g \in 1..Len(generation) : generation[g].owner \in 1..o1
  BY <1>1, <1>2
<1>8. ASSUME NEW u \in Worker, NEW v \in Worker, thread'[u].request = thread'[v].request,
             thread'[u].request # 0
      PROVE  u = v
  <2>1. \A x \in Worker \ {w} : thread'[x].request # o1
    <3>1. ASSUME NEW x \in Worker \ {w} PROVE thread'[x].request # o1
      <4>1. thread[x].request \in Nat /\ thread[x].request <= Len(owner) /\ thread'[x] = thread[x]
        BY <1>1, <1>3, <1>4
      <4> QED
        BY <1>2, <4>1
    <3> QED
      BY <3>1
  <2> QED
    BY <1>1, <1>4, <1>8, <2>1
<1>9. ASSUME NEW v \in Worker
      PROVE  /\ thread'[v].request <= o1
             /\ Place(thread'[v]) \in {"calling", "entered", "ready"} =>
                  ~Owning(generation, thread'[v].request)
  <2>1. CASE v = w
    BY <1>2, <1>5, <2>1
  <2>2. CASE v # w
    <3>1. thread'[v] = thread[v] /\ thread[v].request \in Nat /\ thread[v].request <= Len(owner)
      BY <1>1, <1>3, <1>4, <2>2
    <3>2. thread[v].request <= o1
      BY <1>2, <3>1
    <3> QED
      BY <1>1, <3>1, <3>2
  <2> QED
    BY <2>1, <2>2
<1> HIDE DEF o1
<1>10. /\ \A o \in 1..Len(owner') :
           owner'[o] = Once(Owning(generation, o)) + Once(\E v \in Worker : thread'[v].request = o)
       /\ \A g \in 1..Len(generation) : generation[g].owner \in 1..Len(owner')
       /\ \A v \in Worker :
            /\ thread'[v].request <= Len(owner')
            /\ Place(thread'[v]) \in {"calling", "entered", "ready"} =>
                 ~Owning(generation, thread'[v].request)
  BY <1>2, <1>6, <1>7, <1>9
<1> QED
  BY <1>1, <1>2, <1>8, <1>10 DEF ArenasCounted

LEMMA DecodeKeeps == ASSUME GenerationsInv, NEW w \in Worker, Decode(w) PROVE GenerationsInv'
<1>1. /\ thread[w].pc = "idle" /\ current # 0 /\ owner' = Append(owner, 1)
      /\ thread' = [thread EXCEPT ![w] = [Idle EXCEPT !.pc = "calling", !.call = "request",
                                                      !.request = Len(owner) + 1]]
      /\ UNCHANGED <<host, limit, generation, current, base, spoiled, mutex>>
  BY DEF Decode, None
<1> DEFINE t == [Idle EXCEPT !.pc = "calling", !.call = "request", !.request = Len(owner) + 1]
<1>2. Len(owner) \in Nat /\ Len(generation) \in Nat
  BY InvFacts
<1>4. thread' = [thread EXCEPT ![w] = t]
  BY <1>1
<1>3. /\ t \in GenerationThread /\ t.pc = "calling" /\ t.next = 0 /\ t.walk = 0 /\ t.from = 0
      /\ t.request = Len(owner) + 1
  <2> DEFINE o1 == Len(owner) + 1
  <2>1. o1 \in Nat
    BY <1>2
  <2>2. t = [Idle EXCEPT !.pc = "calling", !.call = "request", !.request = o1]
    OBVIOUS
  <2> HIDE DEF o1, t
  <2>3. /\ t \in GenerationThread /\ t.pc = "calling" /\ t.next = 0 /\ t.walk = 0 /\ t.from = 0
        /\ t.request = o1
    BY <2>1, <2>2 DEF Idle, None, GenerationThread, GenerationPcs
  <2> QED
    BY <2>3 DEF o1
<1> HIDE DEF t
<1>5. Turns(w) /\ thread'[w] = t
  BY <1>3, <1>4, Turning
<1>6. /\ thread[w].request = 0 /\ thread[w].next = 0 /\ thread[w].walk = 0
      /\ mutex # w /\ mutex \in Worker \cup {Free}
  BY <1>1, CallFacts1, InvFacts DEF InsidePlaces
<1>7. owner' \in Seq(Nat) /\ ArenasCounted(owner', generation, thread')
  BY <1>1, <1>3, <1>5, <1>6, TakesArena
<1>8. SameWalks(thread[w], thread'[w])
  BY <1>1, <1>3, <1>5, <1>6 DEF SameWalks
<1>9. Place(thread'[w]) = "calling"
  BY <1>3, <1>5 DEF Place, Walks
<1>10. GenerationCallOk(thread'[w], mutex' = w, current, generation)
  BY <1>1, <1>2, <1>3, <1>5, <1>6, PlainCall DEF InsidePlaces
<1> QED
  BY <1>1, <1>5, <1>6, <1>7, <1>8, <1>9, <1>10, InvFacts, QuietKeeps

LEMMA CreateOwnerKeeps ==
  ASSUME GenerationsInv, NEW w \in Worker, CreateOwner(w) PROVE GenerationsInv'
<1>1. PICK pc \in {"ready", "leaving"} :
        thread' = [thread EXCEPT ![w].request = Len(owner) + 1, ![w].pc = pc]
  BY DEF CreateOwner
<1>2. /\ thread[w].pc = "ready" /\ thread[w].request = 0 /\ owner' = Append(owner, 1)
      /\ UNCHANGED <<host, limit, generation, current, base, spoiled, mutex>>
  BY DEF CreateOwner, None
<1> DEFINE t == [thread[w] EXCEPT !.request = Len(owner) + 1, !.pc = pc]
<1>3. thread[w] \in GenerationThread /\ Len(owner) \in Nat /\ Len(generation) \in Nat
  BY InvFacts
<1>4. thread' = [thread EXCEPT ![w] = t]
  BY <1>1, InvFacts
<1>5. /\ t \in GenerationThread /\ t.pc = pc /\ t.next = thread[w].next /\ t.walk = thread[w].walk
      /\ t.from = thread[w].from /\ t.request = Len(owner) + 1
  <2> DEFINE o1 == Len(owner) + 1
  <2>1. o1 \in Nat /\ t = [thread[w] EXCEPT !.request = o1, !.pc = pc]
    BY <1>3
  <2> HIDE DEF o1, t
  <2> QED
    BY <1>3, <2>1 DEF GenerationThread, GenerationPcs, o1
<1> HIDE DEF t
<1>6. Turns(w) /\ thread'[w] = t
  BY <1>4, <1>5, Turning
<1>7. /\ thread[w].next = 0 /\ thread[w].walk = 0 /\ thread[w].from = 0 /\ current # 0
      /\ mutex = w /\ mutex \in Worker \cup {Free}
  BY <1>2, CallFacts1, InvFacts DEF InsidePlaces
<1>8. owner' \in Seq(Nat) /\ ArenasCounted(owner', generation, thread')
  BY <1>2, <1>5, <1>6, TakesArena
<1>9. SameWalks(thread[w], thread'[w])
  BY <1>2, <1>5, <1>6 DEF SameWalks
<1>10. GenerationCallOk(thread'[w], mutex' = w, current, generation)
  BY <1>2, <1>3, <1>5, <1>6, <1>7, PlainCall DEF InsidePlaces
<1>11. generation[current].chain - base < limit
  <2>1. Place(thread[w]) = "ready"
    BY <1>2 DEF Place, Walks
  <2> QED
    BY <1>7, <2>1 DEF GenerationsInv, GenerationsBounded
<1> QED
  BY <1>2, <1>6, <1>7, <1>8, <1>9, <1>10, <1>11, InvFacts, QuietKeeps

(* A packet that does not decode: its arena is made and released.               *)
LEMMA DecodeFailsKeeps ==
  ASSUME GenerationsInv, NEW w \in Worker, DecodeFails(w) PROVE GenerationsInv'
<1> DEFINE more == Append(owner, 1)
           o1 == Len(owner) + 1
<1>1. /\ owner' = [more EXCEPT ![o1] = @ - 1] /\ thread' = thread /\ thread[w].pc = "idle"
      /\ UNCHANGED <<host, limit, generation, current, base, spoiled, mutex>>
  BY DEF DecodeFails, OwnerRelease
<1>2. /\ more \in Seq(Nat) /\ Len(more) = o1 /\ more[o1] = 1 /\ Len(owner) \in Nat /\ o1 \in Nat
      /\ \A o \in 1..Len(owner) : more[o] = owner[o]
  BY InvFacts, AppendProperties
<1> HIDE DEF more
<1>3. /\ owner' \in Seq(Nat) /\ Len(owner') = o1
      /\ \A o \in 1..o1 : owner'[o] = IF o = o1 THEN 0 ELSE owner[o]
  <2>1. o1 \in 1..Len(more)
    BY <1>2
  <2>2. more[o1] - 1 = 0
    BY <1>2
  <2>3. owner' = [more EXCEPT ![o1] = 0]
    BY <1>1, <2>2
  <2>4. /\ owner' \in Seq(Nat) /\ Len(owner') = Len(more)
        /\ \A o \in 1..Len(more) : owner'[o] = IF o = o1 THEN 0 ELSE more[o]
    BY <1>2, <2>1, <2>3, ExceptSeq
  <2> QED
    BY <1>2, <2>4
<1>4. /\ \A o \in 1..Len(owner) :
           owner[o] = Once(Owning(generation, o)) + Once(\E v \in Worker : thread[v].request = o)
      /\ \A g \in 1..Len(generation) : generation[g].owner \in 1..Len(owner)
      /\ \A v \in Worker : thread[v].request <= Len(owner)
  BY InvFacts DEF ArenasCounted
<1>5. ~Owning(generation, o1) /\ ~\E v \in Worker : thread[v].request = o1
  <2>1. \A g \in 1..Len(generation) : generation[g].owner # o1
    BY <1>2, <1>4
  <2>2. ASSUME NEW v \in Worker PROVE thread[v].request # o1
    <3>1. thread[v].request \in Nat /\ thread[v].request <= Len(owner)
      BY <1>4, InvFacts DEF GenerationThread
    <3> QED
      BY <1>2, <3>1
  <2> QED
    BY <2>1, <2>2 DEF Owning
<1>6. \A o \in 1..Len(owner') :
        owner'[o] = Once(Owning(generation, o)) + Once(\E v \in Worker : thread[v].request = o)
  <2>1. ASSUME NEW o \in 1..Len(owner')
        PROVE  owner'[o] = Once(Owning(generation, o)) + Once(\E v \in Worker : thread[v].request = o)
    <3>1. CASE o = o1
      BY <1>3, <1>5, <3>1 DEF Once
    <3>2. CASE o # o1
      <4>1. o \in 1..Len(owner)
        BY <1>2, <1>3, <3>2
      <4>2. owner[o] = Once(Owning(generation, o)) + Once(\E v \in Worker : thread[v].request = o)
        BY <1>4, <4>1
      <4>3. owner'[o] = owner[o]
        BY <1>3, <3>2
      <4> QED
        BY <4>2, <4>3
    <3> QED
      BY <3>1, <3>2
  <2> QED
    BY <2>1
<1>7. /\ \A g \in 1..Len(generation) : generation[g].owner \in 1..Len(owner')
      /\ \A v \in Worker : thread[v].request <= Len(owner')
  <2>1. \A v \in Worker : thread[v].request \in Nat
    BY InvFacts DEF GenerationThread
  <2>2. Len(owner') = Len(owner) + 1
    BY <1>3
  <2> QED
    BY <1>2, <1>4, <2>1, <2>2
<1>8. ArenasCounted(owner', generation, thread)
  <2>1. ArenasCounted(owner, generation, thread)
    BY InvFacts
  <2> QED
    BY <1>6, <1>7, <2>1 DEF ArenasCounted
<1>9. Turns(w) /\ SameWalks(thread[w], thread'[w])
  BY <1>1, InvFacts DEF Turns, SameWalks
<1>10. /\ mutex \in Worker \cup {Free} /\ (current = 0 => mutex = Free)
       /\ GenerationCallOk(thread'[w], mutex' = w, current, generation)
       /\ Place(thread'[w]) = "idle"
  BY <1>1, InvFacts DEF Place, Walks
<1> QED
  BY <1>1, <1>3, <1>8, <1>9, <1>10, QuietKeeps

(* A request's arena is let go.                                                 *)
LEMMA ReleaseRequestKeeps ==
  ASSUME GenerationsInv, NEW w \in Worker, ReleaseRequest(w) PROVE GenerationsInv'
<1> DEFINE o1 == thread[w].request
           t == [thread[w] EXCEPT !.request = 0]
<1>1. /\ thread[w].pc \in {"leaving", "left"} /\ o1 # 0
      /\ owner' = [owner EXCEPT ![o1] = @ - 1]
      /\ thread' = [thread EXCEPT ![w].request = 0]
      /\ UNCHANGED <<host, limit, generation, current, base, spoiled, mutex>>
  BY DEF ReleaseRequest, OwnerRelease, None
<1>2. /\ thread[w] \in GenerationThread /\ Len(owner) \in Nat /\ Len(generation) \in Nat
      /\ owner \in Seq(Nat) /\ o1 \in Nat
  BY InvFacts DEF GenerationThread
<1>3. thread' = [thread EXCEPT ![w] = t]
  BY <1>1, InvFacts
<1>4. /\ t \in GenerationThread /\ t.pc = thread[w].pc /\ t.next = thread[w].next
      /\ t.walk = thread[w].walk /\ t.from = thread[w].from /\ t.request = 0
  BY <1>2 DEF GenerationThread, GenerationPcs
<1> HIDE DEF t
<1>5. Turns(w) /\ thread'[w] = t
  BY <1>3, <1>4, Turning
<1>6. /\ \A o \in 1..Len(owner) :
           owner[o] = Once(Owning(generation, o)) + Once(\E v \in Worker : thread[v].request = o)
      /\ \A g \in 1..Len(generation) : generation[g].owner \in 1..Len(owner)
      /\ \A g, h \in 1..Len(generation) :
           ~generation[g].gone /\ ~generation[h].gone
             /\ generation[g].owner = generation[h].owner => g = h
      /\ \A u, v \in Worker :
           thread[u].request = thread[v].request /\ thread[u].request # 0 => u = v
      /\ \A v \in Worker :
           /\ thread[v].request <= Len(owner)
           /\ Place(thread[v]) \in {"calling", "entered", "ready"} =>
                ~Owning(generation, thread[v].request)
  BY InvFacts DEF ArenasCounted
<1>7. o1 \in 1..Len(owner) /\ owner[o1] \in Nat
  <2>1. o1 <= Len(owner)
    BY <1>6
  <2>2. o1 \in 1..Len(owner)
    BY <1>1, <1>2, <2>1
  <2> QED
    BY <1>2, <2>2, ElementOfSeq
<1>8. owner[o1] = Once(Owning(generation, o1)) + 1
  <2>1. \E v \in Worker : thread[v].request = o1
    OBVIOUS
  <2>2. Once(\E v \in Worker : thread[v].request = o1) = 1
    BY <2>1 DEF Once
  <2>3. owner[o1] = Once(Owning(generation, o1)) + Once(\E v \in Worker : thread[v].request = o1)
    BY <1>6, <1>7
  <2> QED
    BY <2>2, <2>3
<1>9. Once(Owning(generation, o1)) \in Nat
  BY DEF Once
<1>10. owner[o1] - 1 = Once(Owning(generation, o1))
  BY <1>8, <1>9
<1>11. /\ owner' \in Seq(Nat) /\ Len(owner') = Len(owner)
       /\ \A o \in 1..Len(owner) :
            owner'[o] = IF o = o1 THEN Once(Owning(generation, o1)) ELSE owner[o]
  <2>1. owner' = [owner EXCEPT ![o1] = Once(Owning(generation, o1))]
    BY <1>1, <1>10
  <2> QED
    BY <1>2, <1>7, <1>9, <2>1, ExceptSeq
<1>12. ASSUME NEW o \in 1..Len(owner)
       PROVE  owner'[o] = Once(Owning(generation, o)) + Once(\E v \in Worker : thread'[v].request = o)
  <2>1. CASE o = o1
    <3>1. ~\E v \in Worker : thread'[v].request = o
      BY <1>1, <1>4, <1>5, <1>6, <2>1 DEF Turns
    <3>2. Once(\E v \in Worker : thread'[v].request = o) = 0
      BY <3>1 DEF Once
    <3>3. owner'[o] = Once(Owning(generation, o)) /\ Once(Owning(generation, o)) \in Nat
      BY <1>9, <1>11, <2>1
    <3>4. owner'[o] = Once(Owning(generation, o)) + 0
      BY <3>3
    <3> QED
      BY <3>2, <3>4
  <2>2. CASE o # o1
    <3>1. (\E v \in Worker : thread'[v].request = o) <=> (\E v \in Worker : thread[v].request = o)
      <4>1. o # 0
        OBVIOUS
      <4> QED
        BY <1>4, <1>5, <2>2, <4>1 DEF Turns
    <3>2. Once(\E v \in Worker : thread'[v].request = o) = Once(\E v \in Worker : thread[v].request = o)
      BY <3>1 DEF Once
    <3>3. owner[o] = Once(Owning(generation, o)) + Once(\E v \in Worker : thread[v].request = o)
      BY <1>6
    <3>4. owner'[o] = owner[o]
      BY <1>11, <2>2
    <3> QED
      BY <3>2, <3>3, <3>4
  <2> QED
    BY <2>1, <2>2
<1>13. \A v \in Worker \ {w} : thread'[v] = thread[v]
  BY <1>5 DEF Turns
<1>14. Place(thread'[w]) = thread[w].pc
  BY <1>1, <1>4, <1>5 DEF Place, Walks
<1>15. ArenasCounted(owner', generation, thread')
  <2>1. \A u, v \in Worker :
           thread'[u].request = thread'[v].request /\ thread'[u].request # 0 => u = v
    BY <1>4, <1>5, <1>6, <1>13
  <2>2. ASSUME NEW v \in Worker
        PROVE  /\ thread'[v].request <= Len(owner)
               /\ Place(thread'[v]) \in {"calling", "entered", "ready"} =>
                    ~Owning(generation, thread'[v].request)
    <3>1. CASE v = w
      BY <1>1, <1>2, <1>4, <1>5, <1>14, <3>1
    <3>2. CASE v # w
      BY <1>6, <1>13, <3>2
    <3> QED
      BY <3>1, <3>2
  <2>3. /\ \A o \in 1..Len(owner') :
             owner'[o] = Once(Owning(generation, o)) + Once(\E v \in Worker : thread'[v].request = o)
        /\ \A g \in 1..Len(generation) : generation[g].owner \in 1..Len(owner')
        /\ \A v \in Worker :
             /\ thread'[v].request <= Len(owner')
             /\ Place(thread'[v]) \in {"calling", "entered", "ready"} =>
                  ~Owning(generation, thread'[v].request)
    BY <1>6, <1>11, <1>12, <2>2
  <2> QED
    BY <1>6, <2>1, <2>3 DEF ArenasCounted
<1>16. SameWalks(thread[w], thread'[w])
  BY <1>4, <1>5 DEF SameWalks
<1>17. GenerationCallOk(thread'[w], mutex' = w, current, generation)
  <2>1. /\ thread[w].walk = 0 /\ thread[w].next = 0
        /\ (mutex = w) <=> thread[w].pc \in InsidePlaces
        /\ thread[w].from # 0 =>
             /\ thread[w].pc \in {"appending", "answering", "leaving"}
             /\ thread[w].from = current \/ thread[w].from = generation[current].parent
        /\ current = 0 => thread[w].pc = "idle"
    BY <1>1, CallFacts1
  <2>2. /\ t \in GenerationThread /\ t.next = 0 /\ t.walk = 0 /\ t.pc = thread[w].pc
        /\ t.from = thread[w].from /\ t.request = 0 /\ Len(generation) \in Nat
    BY <1>1, <1>2, <1>4, <2>1
  <2>3. /\ t.pc \notin {"walk", "walkOwner", "appending"} /\ (mutex = w) \in BOOLEAN
        /\ t.from # 0 => t.pc \in {"answering", "leaving"}
                           /\ (t.from = current \/ t.from = generation[current].parent)
        /\ (mutex = w) <=> t.pc \in InsidePlaces
        /\ current = 0 => t.pc = "idle"
    BY <1>1, <2>1, <2>2
  <2>4. GenerationCallOk(t, mutex = w, current, generation)
    BY <2>2, <2>3, PlainCall
  <2> QED
    BY <1>1, <1>5, <2>4
<1>18. /\ mutex \in Worker \cup {Free} /\ (current = 0 => mutex = Free)
  BY InvFacts
<1> QED
  BY <1>1, <1>5, <1>11, <1>14, <1>15, <1>16, <1>17, <1>18, QuietKeeps

(* Whoever works alone is alone inside the mutex as well.                       *)
LEMMA OthersAreOutside ==
  ASSUME GenerationsInv, NEW w \in Worker,
         mutex = w \/ Walks(thread[w]) \/ (\A v \in Worker : thread[v].pc = "idle"),
         NEW v \in Worker, v # w
  PROVE  /\ mutex # v /\ Place(thread[v]) \notin InsidePlaces /\ ~Walks(thread[v])
         /\ GenerationCallOk(thread[v], FALSE, current, generation)
<1>1. /\ GenerationCallOk(thread[w], mutex = w, current, generation)
      /\ GenerationCallOk(thread[v], mutex = v, current, generation)
      /\ thread[w] \in GenerationThread
      /\ (current = 0 => mutex = Free)
  BY InvFacts
<1>2. ~Walks(thread[v])
  BY AreAlone DEF AloneIn
<1>3. mutex # v
  <2>1. CASE mutex = w
    BY <2>1
  <2>2. CASE mutex # w /\ Walks(thread[w])
    <3>1. Place(thread[w]) = "idle"
      BY <1>1, <2>2 DEF GenerationCallOk, Place, Walks, GenerationThread, InsidePlaces
    <3>2. current = 0
      BY <1>1, <2>2, <3>1 DEF GenerationCallOk
    <3> QED
      BY <1>1, <3>2, GenerationsAssumption
  <2>3. CASE \A u \in Worker : thread[u].pc = "idle"
    <3>1. Place(thread[v]) = "idle"
      BY <2>3 DEF Place, Walks
    <3> QED
      BY <1>1, <3>1 DEF GenerationCallOk, InsidePlaces
  <2> QED
    BY <2>1, <2>2, <2>3
<1>4. (mutex = v) = FALSE
  BY <1>3
<1>5. GenerationCallOk(thread[v], FALSE, current, generation)
  BY <1>1, <1>4
<1> QED
  BY <1>2, <1>3, <1>5 DEF GenerationCallOk

(* A step of a thread that alone makes and releases generations.                *)
LEMMA AloneKeeps ==
  ASSUME GenerationsInv, NEW w \in Worker, Turns(w), UNCHANGED <<limit, mutex>>,
         mutex = w \/ Walks(thread[w]) \/ (\A v \in Worker : thread[v].pc = "idle"),
         owner' \in Seq(Nat), generation' \in Seq(GenerationRecord),
         current' \in 0..Len(generation'), base' \in Nat,
         current' = 0 => current = 0 \/ \A v \in Worker : thread[v].pc = "idle",

         GenerationCallOk(thread'[w], mutex = w, current', generation'),
         GenerationTree(generation'), NewestFor(generation', current', thread'[w]),
         CountedFor(generation', current', thread'[w]),
         ArenasCounted(owner', generation', thread'),
         current' # 0 => generation'[current'].chain - base' <= limit,
         current' # 0 /\ Place(thread'[w]) \in {"ready", "appending"} =>
           generation'[current'].chain - base' < limit
  PROVE  GenerationsInv'
<1>1. \A v \in Worker \ {w} :
        /\ thread'[v] = thread[v] /\ thread[v] \in GenerationThread /\ mutex # v
        /\ Place(thread[v]) \notin InsidePlaces /\ ~Walks(thread[v])
        /\ GenerationCallOk(thread[v], FALSE, current, generation)
  BY InvFacts, OthersAreOutside DEF Turns
<1>2. AloneIn(thread', w)
  BY <1>1, AreAlone DEF AloneIn
<1>3. /\ GenerationsCounted(generation', current', thread')
      /\ PublishedIsNewest(generation', current', thread')
  BY <1>2, CountsAgree, NewestAgrees
<1>4. Len(generation') \in Nat
  BY LenProperties
<1>5. ASSUME NEW v \in Worker
      PROVE  GenerationCallOk(thread'[v], mutex' = v, current', generation')
  <2>1. CASE v = w
    BY <2>1
  <2>2. CASE v # w
    <3>1. thread'[v] = thread[v] /\ (mutex' = v) = FALSE
      BY <1>1, <2>2
    <3>2. current' = 0 => Place(thread[v]) = "idle"
      BY <1>1, <2>2 DEF GenerationCallOk, Place
    <3>3. GenerationCallOk(thread[v], FALSE, current', generation')
      BY <1>1, <1>4, <2>2, <3>2, OutsiderStays
    <3> QED
      BY <3>1, <3>3
  <2> QED
    BY <2>1, <2>2
<1>6. \A u, v \in Worker : Walks(thread'[u]) /\ Walks(thread'[v]) => u = v
  BY <1>1
<1>7. current' = 0 => mutex = Free
  <2>1. CASE current = 0
    BY <2>1, InvFacts
  <2>2. CASE \A v \in Worker : thread[v].pc = "idle"
    <3>1. ASSUME NEW v \in Worker PROVE mutex # v
      <4>1. Place(thread[v]) = "idle"
        BY <2>2 DEF Place, Walks
      <4> QED
        BY <4>1, InvFacts DEF GenerationCallOk, InsidePlaces
    <3> QED
      BY <3>1, InvFacts
  <2> QED
    BY <2>1, <2>2
<1>8. GenerationsMutex'
  BY <1>5, <1>6, <1>7, InvFacts DEF GenerationsMutex
<1>9. GenerationsBounded'
  <2>1. \A v \in Worker \ {w} : Place(thread'[v]) \notin {"ready", "appending"}
    BY <1>1 DEF InsidePlaces
  <2> QED
    BY <2>1 DEF GenerationsBounded
<1>10. GenerationsTyped'
  BY InvFacts DEF GenerationsTyped, Turns
<1> QED
  BY <1>3, <1>8, <1>9, <1>10 DEF GenerationsInv

(* Generations whose counts alone differ.                                       *)
SameLine(gens, more) ==
  /\ Len(more) = Len(gens)
  /\ \A g \in 1..Len(gens) :
       /\ more[g].owner = gens[g].owner /\ more[g].parent = gens[g].parent
       /\ more[g].chain = gens[g].chain /\ more[g].gone = gens[g].gone

LEMMA LineStays ==
  ASSUME NEW gens, NEW more, SameLine(gens, more)
  PROVE  /\ GenerationTree(gens) => GenerationTree(more)
         /\ \A g : Parenting(more, g) <=> Parenting(gens, g)
         /\ \A o : Owning(more, o) <=> Owning(gens, o)
         /\ \A g : Once(Parenting(more, g)) = Once(Parenting(gens, g))
         /\ \A o : Once(Owning(more, o)) = Once(Owning(gens, o))
<1>1. GenerationTree(gens) => GenerationTree(more)
  BY DEF SameLine, GenerationTree
<1>2. \A g : Parenting(more, g) <=> Parenting(gens, g)
  BY DEF SameLine, Parenting
<1>3. \A o : Owning(more, o) <=> Owning(gens, o)
  BY DEF SameLine, Owning
<1> QED
  BY <1>1, <1>2, <1>3 DEF Once

LEMMA LineArenas ==
  ASSUME NEW gens, NEW more, SameLine(gens, more), NEW owners, NEW th,
         ArenasCounted(owners, gens, th)
  PROVE  ArenasCounted(owners, more, th)
<1>1. \A o : Once(Owning(more, o)) = Once(Owning(gens, o))
  BY LineStays
<1>2. \A o \in 1..Len(owners) :
        owners[o] = Once(Owning(more, o)) + Once(\E w \in Worker : th[w].request = o)
  <2>1. ASSUME NEW o \in 1..Len(owners)
        PROVE  owners[o] = Once(Owning(more, o)) + Once(\E w \in Worker : th[w].request = o)
    <3>1. owners[o] = Once(Owning(gens, o)) + Once(\E w \in Worker : th[w].request = o)
      BY DEF ArenasCounted
    <3> QED
      BY <1>1, <3>1
  <2> QED
    BY <2>1
<1>3. /\ \A g \in 1..Len(more) : more[g].owner \in 1..Len(owners)
      /\ \A g, h \in 1..Len(more) :
           ~more[g].gone /\ ~more[h].gone /\ more[g].owner = more[h].owner => g = h
  BY DEF ArenasCounted, SameLine
<1>4. \A o : Owning(more, o) <=> Owning(gens, o)
  BY LineStays
<1>5. /\ \A v, w \in Worker : th[v].request = th[w].request /\ th[v].request # 0 => v = w
      /\ \A w \in Worker :
           /\ th[w].request <= Len(owners)
           /\ Place(th[w]) \in {"calling", "entered", "ready"} => ~Owning(more, th[w].request)
  BY <1>4 DEF ArenasCounted
<1> QED
  BY <1>2, <1>3, <1>5 DEF ArenasCounted

(* One generation more, which is nobody's parent.                               *)
Grown(gens, more, parent, o) ==
  /\ Len(more) = Len(gens) + 1
  /\ \A g \in 1..Len(gens) :
       /\ more[g].owner = gens[g].owner /\ more[g].parent = gens[g].parent
       /\ more[g].chain = gens[g].chain /\ more[g].gone = gens[g].gone
  /\ ~more[Len(gens) + 1].gone /\ more[Len(gens) + 1].parent = parent
  /\ more[Len(gens) + 1].owner = o

LEMMA LineGrows ==
  ASSUME NEW gens, Len(gens) \in Nat, NEW more, NEW parent \in 0..Len(gens), NEW o,
         Grown(gens, more, parent, o), GenerationTree(gens),
         parent # 0 => ~Parenting(gens, parent)
  PROVE  /\ GenerationTree(more)
         /\ \A g : Parenting(more, g) <=> Parenting(gens, g) \/ g = parent
         /\ \A p : Owning(more, p) <=> Owning(gens, p) \/ p = o
         /\ ~Parenting(more, Len(gens) + 1)
<1> DEFINE n == Len(gens) + 1
<1>1. /\ n \in Nat /\ Len(more) = n /\ n \in 1..Len(more)
      /\ \A g \in 1..Len(more) : g = n \/ g \in 1..Len(gens)
      /\ \A g \in 1..Len(gens) : g \in 1..Len(more) /\ g # n
      /\ more[n].parent = parent /\ ~more[n].gone /\ more[n].owner = o
      /\ parent < n
  BY DEF Grown
<1>2. \A g \in 1..Len(gens) :
       /\ more[g].owner = gens[g].owner /\ more[g].parent = gens[g].parent
       /\ more[g].chain = gens[g].chain /\ more[g].gone = gens[g].gone
  BY DEF Grown
<1>3. /\ \A g \in 1..Len(gens) : gens[g].parent < g
      /\ \A g, h \in 1..Len(gens) :
           ~gens[g].gone /\ ~gens[h].gone /\ gens[g].parent = gens[h].parent
             /\ gens[g].parent # 0 => g = h
  BY DEF GenerationTree
<1> HIDE DEF n
<1>4. \A g : Parenting(more, g) <=> Parenting(gens, g) \/ g = parent
  BY <1>1, <1>2 DEF Parenting
<1>5. \A p : Owning(more, p) <=> Owning(gens, p) \/ p = o
  BY <1>1, <1>2 DEF Owning
<1>6. \A g \in 1..Len(more) : more[g].parent < g
  BY <1>1, <1>2, <1>3
<1>7. ~Parenting(gens, n)
  <2>1. SUFFICES ASSUME NEW h \in 1..Len(gens), gens[h].parent = n PROVE FALSE
    BY DEF Parenting
  <2>2. n < h /\ h \in Nat /\ h <= Len(gens)
    BY <1>3, <2>1
  <2> QED
    BY <1>1, <2>2 DEF n
<1>8. ASSUME NEW g \in 1..Len(more), NEW h \in 1..Len(more),
             ~more[g].gone, ~more[h].gone, more[g].parent = more[h].parent, more[g].parent # 0
      PROVE  g = h
  <2>1. CASE g \in 1..Len(gens) /\ h \in 1..Len(gens)
    BY <1>2, <1>3, <1>8, <2>1
  <2>2. CASE g = n /\ h \in 1..Len(gens)
    BY <1>1, <1>2, <1>8, <2>2 DEF Parenting
  <2>3. CASE h = n /\ g \in 1..Len(gens)
    BY <1>1, <1>2, <1>8, <2>3 DEF Parenting
  <2> QED
    BY <1>1, <2>1, <2>2, <2>3
<1>9. GenerationTree(more)
  BY <1>6, <1>8 DEF GenerationTree
<1>10. ~Parenting(more, n)
  <2>1. n # parent
    BY <1>1
  <2> QED
    BY <1>4, <1>7, <2>1
<1> QED
  BY <1>4, <1>5, <1>9, <1>10 DEF n

LEMMA AloneFacts ==
  ASSUME GenerationsInv, NEW w \in Worker,
         mutex = w \/ Walks(thread[w]) \/ (\A v \in Worker : thread[v].pc = "idle")
  PROVE  /\ AloneIn(thread, w) /\ CountedFor(generation, current, thread[w])
         /\ NewestFor(generation, current, thread[w]) /\ GenerationTree(generation)
         /\ current # 0 => generation[current].chain - base <= limit
         /\ current # 0 /\ Place(thread[w]) \in {"ready", "appending"} =>
              generation[current].chain - base < limit
<1>1. AloneIn(thread, w)
  BY AreAlone
<1>2. CountedFor(generation, current, thread[w]) /\ NewestFor(generation, current, thread[w])
  BY <1>1, InvFacts, CountsAgree, NewestAgrees
<1> QED
  BY <1>1, <1>2, InvFacts DEF GenerationsInv, GenerationsBounded

(* The next generation of the published one: it holds its parent, and its       *)
(* arena together with the request.                                             *)
LEMMA MakesKeeps ==
  ASSUME GenerationsInv, NEW w \in Worker, thread[w].pc = "ready", thread[w].request # None,
         owner' = Create(owner, generation, thread[w].request, current).owners,
         generation' = Create(owner, generation, thread[w].request, current).gens,
         thread' = [thread EXCEPT ![w].from = current, ![w].pc = "appending",
                                  ![w].next = Len(generation) + 1],
         UNCHANGED <<host, limit, current, base, spoiled, mutex>>
  PROVE  GenerationsInv'
<1> DEFINE n == Len(generation) + 1
           o1 == thread[w].request
           c == current
           t == [thread[w] EXCEPT !.from = c, !.pc = "appending", !.next = n]
           refs == generation[c].refs
           mid == [generation EXCEPT ![c].refs = @ + 1]
           r == [refs |-> 1, owner |-> o1, parent |-> c, gone |-> FALSE,
                 chain |-> 1 + generation[c].chain]
<1>0. o1 = thread[w].request /\ o1 # 0
  BY DEF None
<1>1. /\ c # 0 /\ mutex = w /\ thread[w].next = 0 /\ thread[w].walk = 0 /\ thread[w].from = 0
      /\ Place(thread[w]) = "ready" /\ ~Walks(thread[w])
  BY CallFacts1 DEF InsidePlaces
<1>2. /\ generation \in Seq(GenerationRecord) /\ Len(generation) \in Nat /\ n \in Nat
      /\ c \in 1..Len(generation) /\ c \in Nat /\ n \notin 1..Len(generation)
      /\ owner \in Seq(Nat) /\ Len(owner) \in Nat /\ limit \in Nat /\ base \in Nat
      /\ thread[w] \in GenerationThread /\ o1 \in Nat
  BY <1>1, InvFacts DEF GenerationThread
<1>3. /\ refs \in Nat /\ generation[c].chain \in Nat /\ generation[c] \in GenerationRecord
      /\ generation[c].parent \in Nat
  BY <1>2, GenerationFacts
<1>4. /\ owner' = [owner EXCEPT ![o1] = @ + 1]
      /\ generation' = Append(mid, r)
  BY <1>1 DEF Create, Created, None
<1>5. /\ mid \in Seq(GenerationRecord) /\ Len(mid) = Len(generation)
      /\ \A g \in 1..Len(generation) :
           mid[g] = IF g = c THEN [generation[c] EXCEPT !.refs = refs + 1] ELSE generation[g]
  <2> DEFINE s == [generation[c] EXCEPT !.refs = refs + 1]
  <2>1. s \in GenerationRecord
    BY <1>3 DEF GenerationRecord
  <2>2. mid = [generation EXCEPT ![c] = s]
    OBVIOUS
  <2> HIDE DEF s, mid
  <2>3. mid \in Seq(GenerationRecord) /\ Len(mid) = Len(generation)
        /\ \A g \in 1..Len(generation) : mid[g] = IF g = c THEN s ELSE generation[g]
    BY <1>2, <2>1, <2>2, ExceptSeq
  <2> QED
    BY <2>3 DEF s
<1>6. /\ r \in GenerationRecord /\ r.refs = 1 /\ r.owner = o1 /\ r.parent = c /\ ~r.gone
      /\ r.chain = 1 + generation[c].chain
  <2> DEFINE k == 1 + generation[c].chain
  <2>1. k \in Nat
    BY <1>3
  <2> HIDE DEF k
  <2> QED
    BY <1>2, <2>1 DEF GenerationRecord, k
<1> HIDE DEF r, mid
<1>7. /\ generation' \in Seq(GenerationRecord) /\ Len(generation') = n /\ generation'[n] = r
      /\ \A g \in 1..Len(generation) : generation'[g] = mid[g]
  BY <1>4, <1>5, <1>6, AppendProperties
<1>8. \A g \in 1..Len(generation) :
        /\ generation'[g].owner = generation[g].owner /\ generation'[g].parent = generation[g].parent
        /\ generation'[g].chain = generation[g].chain /\ generation'[g].gone = generation[g].gone
        /\ generation'[g].refs = IF g = c THEN refs + 1 ELSE generation[g].refs
  <2>1. ASSUME NEW g \in 1..Len(generation)
        PROVE /\ generation'[g].owner = generation[g].owner
              /\ generation'[g].parent = generation[g].parent
              /\ generation'[g].chain = generation[g].chain
              /\ generation'[g].gone = generation[g].gone
              /\ generation'[g].refs = IF g = c THEN refs + 1 ELSE generation[g].refs
    <3>1. CASE g = c
      <4>1. generation'[g] = [generation[c] EXCEPT !.refs = refs + 1]
        BY <1>5, <1>7, <3>1
      <4> HIDE DEF refs, c
      <4> QED
        BY <1>3, <3>1, <4>1 DEF GenerationRecord
    <3>2. CASE g # c
      BY <1>5, <1>7, <3>2
    <3> QED
      BY <3>1, <3>2
  <2> QED
    BY <2>1
<1>9. t \in GenerationThread /\ t.pc = "appending" /\ t.next = n /\ t.walk = 0 /\ t.from = c
      /\ t.request = o1
  <2> HIDE DEF n, c
  <2> QED
    BY <1>1, <1>2 DEF GenerationThread, GenerationPcs
<1>10. thread' = [thread EXCEPT ![w] = t]
  BY InvFacts
<1> HIDE DEF t
<1>11. Turns(w) /\ thread'[w] = t
  BY <1>9, <1>10, Turning
<1>12. /\ CountedFor(generation, c, thread[w]) /\ NewestFor(generation, c, thread[w])
       /\ GenerationTree(generation) /\ generation[c].chain - base < limit
  BY <1>1, AloneFacts
<1>13. ~Parenting(generation, c)
  <2>1. SUFFICES ASSUME NEW g \in 1..Len(generation), ~generation[g].gone, generation[g].parent = c
                 PROVE  FALSE
    BY DEF Parenting
  <2>2. thread[w].next = g \/ thread[w].walk = g
    BY <1>1, <1>12, <2>1 DEF NewestFor
  <2> QED
    BY <1>1, <2>2
<1>14. Grown(generation, generation', c, o1)
  BY <1>6, <1>7, <1>8 DEF Grown
<1>15. /\ GenerationTree(generation') /\ ~Parenting(generation', n)
       /\ \A g : Parenting(generation', g) <=> Parenting(generation, g) \/ g = c
       /\ \A p : Owning(generation', p) <=> Owning(generation, p) \/ p = o1
  <2>1. c \in 0..Len(generation)
    BY <1>2
  <2> QED
    BY <1>2, <1>12, <1>13, <1>14, <2>1, LineGrows
<1>16. CountedFor(generation', c, t)
  <2>1. ASSUME NEW g \in 1..n
        PROVE  /\ generation'[g].refs = Once(c = g) + Once(t.next = g)
                      + Once(t.pc = "walk" /\ t.walk = g) + Once(Parenting(generation', g))
               /\ generation'[g].gone => generation'[g].refs = 0
               /\ ~generation'[g].gone /\ generation'[g].refs = 0 => t.pc = "walkOwner" /\ t.walk = g
    <3>1. CASE g = n
      <4>1. /\ Once(c = g) = 0 /\ Once(t.next = g) = 1 /\ Once(t.pc = "walk" /\ t.walk = g) = 0
            /\ Once(Parenting(generation', g)) = 0
        BY <1>2, <1>9, <1>15, <3>1 DEF Once
      <4>2. generation'[g].refs = 1 /\ ~generation'[g].gone
        BY <1>6, <1>7, <3>1
      <4> QED
        BY <4>1, <4>2
    <3>2. CASE g # n
      <4>1. g \in 1..Len(generation)
        BY <1>2, <3>2
      <4>2. /\ generation[g].refs = Once(c = g) + Once(thread[w].next = g)
                      + Once(thread[w].pc = "walk" /\ thread[w].walk = g)
                      + Once(Parenting(generation, g))
            /\ generation[g].gone => generation[g].refs = 0
            /\ ~generation[g].gone /\ generation[g].refs = 0 =>
                 thread[w].pc = "walkOwner" /\ thread[w].walk = g
        BY <1>12, <4>1 DEF CountedFor
      <4>3. /\ Once(thread[w].next = g) = 0 /\ Once(thread[w].pc = "walk" /\ thread[w].walk = g) = 0
            /\ Once(t.next = g) = 0 /\ Once(t.pc = "walk" /\ t.walk = g) = 0
        BY <1>1, <1>9, <3>2, <4>1 DEF Once
      <4>4. thread[w].pc # "walkOwner"
        OBVIOUS
      <4>5. CASE g = c
        <5>1. Once(c = g) = 1 /\ Once(Parenting(generation, g)) = 0 /\ Once(Parenting(generation', g)) = 1
          BY <1>13, <1>15, <4>5 DEF Once
        <5>2. generation[g].refs = 1
          BY <4>2, <4>3, <5>1
        <5>3. generation'[g].refs = 2 /\ generation'[g].gone = generation[g].gone
          BY <1>8, <4>1, <4>5, <5>2
        <5>4. ~generation[g].gone
          BY <4>2, <5>2
        <5> QED
          BY <4>3, <5>1, <5>3, <5>4
      <4>6. CASE g # c
        <5>1. Once(Parenting(generation', g)) = Once(Parenting(generation, g))
          BY <1>15, <4>6 DEF Once
        <5>2. generation'[g].refs = generation[g].refs /\ generation'[g].gone = generation[g].gone
          BY <1>8, <4>1, <4>6
        <5> QED
          BY <4>2, <4>3, <4>4, <5>1, <5>2
      <4> QED
        BY <4>5, <4>6
    <3> QED
      BY <3>1, <3>2
  <2> QED
    BY <1>7, <2>1 DEF CountedFor
<1>17. NewestFor(generation', c, t)
  <2>1. ASSUME NEW g \in 1..n, ~generation'[g].gone, generation'[g].parent = c
        PROVE  g = n
    <3>1. SUFFICES ASSUME g # n PROVE FALSE
      OBVIOUS
    <3>2. g \in 1..Len(generation)
      BY <1>2, <3>1
    <3> QED
      BY <1>8, <1>13, <2>1, <3>2 DEF Parenting
  <2> QED
    BY <1>7, <1>9, <2>1 DEF NewestFor
<1>18. GenerationCallOk(t, TRUE, c, generation')
  <2>1. Place(t) = "appending" /\ ~Walks(t)
    BY <1>9 DEF Place, Walks
  <2>2. generation'[t.next].parent = c /\ generation'[t.next].chain = generation'[c].chain + 1
    BY <1>2, <1>3, <1>6, <1>7, <1>8, <1>9, SMTT(30)
  <2>3. t.next <= Len(generation') /\ t.walk <= Len(generation') /\ t.next # 0
    BY <1>2, <1>7, <1>9
  <2> QED
    BY <1>1, <1>7, <1>9, <2>1, <2>2, <2>3 DEF GenerationCallOk, InsidePlaces
<1> HIDE DEF o1
<1>19. /\ \A o \in 1..Len(owner) :
            owner[o] = Once(Owning(generation, o)) + Once(\E v \in Worker : thread[v].request = o)
       /\ \A g \in 1..Len(generation) : generation[g].owner \in 1..Len(owner)
       /\ \A g, h \in 1..Len(generation) :
            ~generation[g].gone /\ ~generation[h].gone
              /\ generation[g].owner = generation[h].owner => g = h
       /\ \A u, v \in Worker :
            thread[u].request = thread[v].request /\ thread[u].request # 0 => u = v
       /\ \A v \in Worker :
            /\ thread[v].request <= Len(owner)
            /\ Place(thread[v]) \in {"calling", "entered", "ready"} =>
                 ~Owning(generation, thread[v].request)
  BY InvFacts DEF ArenasCounted
<1>20. o1 \in 1..Len(owner) /\ ~Owning(generation, o1) /\ o1 # 0
  <2>1. o1 <= Len(owner) /\ ~Owning(generation, o1) /\ o1 # 0
    BY <1>0, <1>1, <1>19
  <2> QED
    BY <1>2, <2>1
<1>21. owner[o1] = 1
  <2>1. \E v \in Worker : thread[v].request = o1
    BY <1>0
  <2>2. owner[o1] = Once(Owning(generation, o1)) + Once(\E v \in Worker : thread[v].request = o1)
    BY <1>19, <1>20
  <2> QED
    BY <1>20, <2>1, <2>2 DEF Once
<1>22. /\ owner' \in Seq(Nat) /\ Len(owner') = Len(owner)
       /\ \A o \in 1..Len(owner) : owner'[o] = IF o = o1 THEN 2 ELSE owner[o]
  <2>1. owner' = [owner EXCEPT ![o1] = 2]
    BY <1>4, <1>21
  <2> QED
    BY <1>2, <1>20, <2>1, ExceptSeq
<1>23. \A v \in Worker : thread'[v].request = thread[v].request
  BY <1>9, <1>11 DEF Turns
<1>24. ASSUME NEW o \in 1..Len(owner)
       PROVE  owner'[o] = Once(Owning(generation', o)) + Once(\E v \in Worker : thread'[v].request = o)
  <2>1. (\E v \in Worker : thread'[v].request = o) <=> (\E v \in Worker : thread[v].request = o)
    BY <1>23
  <2>2. CASE o = o1
    <3>1. \E v \in Worker : thread[v].request = o
      BY <1>0, <2>2
    <3>4. owner'[o] = 2
      BY <1>22, <2>2
    <3>5. \E v \in Worker : thread'[v].request = o
      BY <2>1, <3>1
    <3>6. Owning(generation', o)
      BY <1>15, <2>2
    <3> QED
      BY <3>4, <3>5, <3>6 DEF Once
  <2>3. CASE o # o1
    <3>1. Once(\E v \in Worker : thread'[v].request = o) = Once(\E v \in Worker : thread[v].request = o)
      BY <2>1 DEF Once
    <3>2. Once(Owning(generation', o)) = Once(Owning(generation, o))
      BY <1>15, <2>3 DEF Once
    <3>3. owner[o] = Once(Owning(generation, o)) + Once(\E v \in Worker : thread[v].request = o)
      BY <1>19
    <3>4. owner'[o] = owner[o]
      BY <1>22, <2>3
    <3> QED
      BY <3>1, <3>2, <3>3, <3>4
  <2> QED
    BY <2>2, <2>3
<1>25. ArenasCounted(owner', generation', thread')
  <2>1. \A g \in 1..n : g = n \/ g \in 1..Len(generation)
    BY <1>2
  <2>2. \A g \in 1..n : generation'[g].owner \in 1..Len(owner)
    BY <1>6, <1>7, <1>8, <1>19, <1>20, <2>1, SMTT(30)
  <2>3. ASSUME NEW g \in 1..n, NEW h \in 1..n, ~generation'[g].gone, ~generation'[h].gone,
               generation'[g].owner = generation'[h].owner
        PROVE  g = h
    <3>0. generation'[n].owner = o1
      BY <1>6, <1>7
    <3>1. ASSUME NEW i \in 1..Len(generation), ~generation'[i].gone, generation'[i].owner = o1
          PROVE  FALSE
      <4>1. ~generation[i].gone /\ generation[i].owner = o1
        BY <1>8, <3>1
      <4>2. ~Owning(generation, o1)
        BY <1>20
      <4> QED
        BY <4>1, <4>2 DEF Owning
    <3>2. CASE g = n /\ h \in 1..Len(generation)
      BY <2>3, <3>0, <3>1, <3>2
    <3>3. CASE h = n /\ g \in 1..Len(generation)
      BY <2>3, <3>0, <3>1, <3>3
    <3>4. CASE g \in 1..Len(generation) /\ h \in 1..Len(generation)
      <4>1. /\ generation'[g].owner = generation[g].owner /\ generation'[g].gone = generation[g].gone
            /\ generation'[h].owner = generation[h].owner /\ generation'[h].gone = generation[h].gone
        BY <1>8, <3>4
      <4>2. ~generation[g].gone /\ ~generation[h].gone
              /\ generation[g].owner = generation[h].owner => g = h
        BY <1>19, <3>4
      <4> QED
        BY <2>3, <4>1, <4>2
    <3>5. CASE g = n /\ h = n
      BY <3>5
    <3> QED
      BY <2>1, <3>2, <3>3, <3>4, <3>5
  <2>4. ASSUME NEW v \in Worker, Place(thread'[v]) \in {"calling", "entered", "ready"}
        PROVE  ~Owning(generation', thread'[v].request)
    <3>1. v # w
      BY <1>9, <1>11, <2>4 DEF Place, Walks
    <3>2. thread'[v] = thread[v] /\ ~Owning(generation, thread[v].request)
      BY <1>11, <1>19, <2>4, <3>1 DEF Turns
    <3>3. thread[v].request # o1
      BY <1>0, <1>19, <1>20, <3>1
    <3> QED
      BY <1>15, <3>2, <3>3
  <2>5. \A v \in Worker : thread'[v].request <= Len(owner)
    BY <1>19, <1>23
  <2>6. ASSUME NEW u \in Worker, NEW v \in Worker,
               thread'[u].request = thread'[v].request, thread'[u].request # 0
        PROVE  u = v
    <3>1. thread[u].request = thread[v].request /\ thread[u].request # 0
      BY <1>23, <2>6
    <3> QED
      BY <1>19, <3>1
  <2> HIDE DEF n
  <2> QED
    BY <1>7, <1>22, <1>24, <2>2, <2>3, <2>4, <2>5, <2>6 DEF ArenasCounted
<1>26. /\ c \in 0..Len(generation')
       /\ generation'[c].chain = generation[c].chain
  BY <1>2, <1>7, <1>8
<1>27. generation'[c].chain - base < limit /\ generation'[c].chain - base <= limit
  BY <1>2, <1>3, <1>12, <1>26
<1> QED
  BY <1>1, <1>2, <1>7, <1>11, <1>15, <1>16, <1>17, <1>18, <1>22, <1>25, <1>26, <1>27, AloneKeeps

(* A generation is read back from the log, and a chain is released: the old one *)
(* when the new one is published, the new one when it is refused.               *)
LEMMA BootedKeeps ==
  ASSUME GenerationsInv, NEW w \in Worker, thread[w].pc = "entered",
         owner' = Booted.owners, generation' = Booted.gens,
         NEW old, NEW after \in {"leaving", "ready"},
         thread' = [thread EXCEPT ![w] = Walking(@, old, after)],
         \/ current' = Len(generation) + 1 /\ base' = 1 /\ old = current
         \/ current' = current /\ base' = base /\ old = Len(generation) + 1 /\ after = "leaving",
         UNCHANGED <<limit, mutex>>
  PROVE  GenerationsInv'
<1> DEFINE n == Len(generation) + 1
           o1 == Len(owner) + 1
           c == current
           t == Walking(thread[w], old, after)
           r == [refs |-> 1, owner |-> o1, parent |-> 0, gone |-> FALSE, chain |-> 1]
<1>1. /\ c # 0 /\ mutex = w /\ thread[w].next = 0 /\ thread[w].walk = 0 /\ thread[w].from = 0
      /\ Place(thread[w]) = "entered" /\ ~Walks(thread[w])
  BY CallFacts1 DEF InsidePlaces
<1>2. /\ generation \in Seq(GenerationRecord) /\ Len(generation) \in Nat /\ n \in Nat
      /\ c \in 1..Len(generation) /\ c \in Nat /\ n \notin 1..Len(generation)
      /\ owner \in Seq(Nat) /\ Len(owner) \in Nat /\ o1 \in Nat /\ o1 # 0
      /\ limit \in Nat \ {0} /\ base \in Nat /\ thread[w] \in GenerationThread
  BY <1>1, InvFacts
<1>3. owner' = Append(owner, 1) /\ generation' = Append(generation, r)
  <2> DEFINE more == Append(owner, 1)
             held == [more EXCEPT ![o1] = @ + 1]
  <2>1. Booted.owners = [held EXCEPT ![o1] = @ - 1] /\ Booted.gens = Append(generation, r)
    BY DEF Booted, Create, Created, OwnerRelease, None
  <2>2. more \in Seq(Nat) /\ Len(more) = o1 /\ more[o1] = 1
    BY <1>2, AppendProperties
  <2> HIDE DEF more
  <2>3. o1 \in 1..Len(more)
    BY <1>2, <2>2
  <2>4. held = [more EXCEPT ![o1] = 2]
    BY <2>2
  <2> HIDE DEF held
  <2>5. /\ held \in Seq(Nat) /\ Len(held) = o1
        /\ \A i \in 1..o1 : held[i] = IF i = o1 THEN 2 ELSE more[i]
    BY <2>2, <2>3, <2>4, ExceptSeq
  <2>6. held[o1] = 2
    BY <2>2, <2>3, <2>5
  <2> DEFINE last == [held EXCEPT ![o1] = 1]
  <2>7. Booted.owners = last
    BY <2>1, <2>6
  <2>8. /\ last \in Seq(Nat) /\ Len(last) = o1
        /\ \A i \in 1..o1 : last[i] = IF i = o1 THEN 1 ELSE held[i]
    BY <2>2, <2>3, <2>5, ExceptSeq
  <2> HIDE DEF last
  <2>9. last = more
    <3>1. \A i \in 1..Len(last) : last[i] = more[i]
      BY <2>2, <2>5, <2>8
    <3> QED
      BY <2>2, <2>8, <3>1, SeqEqual
  <2> QED
    BY <2>1, <2>7, <2>9 DEF more
<1>4. r \in GenerationRecord /\ r.refs = 1 /\ r.owner = o1 /\ r.parent = 0 /\ ~r.gone /\ r.chain = 1
  BY <1>2 DEF GenerationRecord
<1> HIDE DEF r, o1
<1>5. /\ generation' \in Seq(GenerationRecord) /\ Len(generation') = n /\ generation'[n] = r
      /\ \A g \in 1..Len(generation) : generation'[g] = generation[g]
  BY <1>2, <1>3, <1>4, AppendProperties
<1>6. /\ owner' \in Seq(Nat) /\ Len(owner') = o1 /\ owner'[o1] = 1
      /\ \A o \in 1..Len(owner) : owner'[o] = owner[o]
  BY <1>2, <1>3, AppendProperties DEF o1
<1>7. /\ CountedFor(generation, c, thread[w]) /\ NewestFor(generation, c, thread[w])
      /\ GenerationTree(generation) /\ generation[c].chain - base <= limit
  BY <1>1, AloneFacts
<1>8. Grown(generation, generation', 0, o1)
  BY <1>4, <1>5 DEF Grown
<1>9. /\ GenerationTree(generation') /\ ~Parenting(generation', n)
      /\ \A g : Parenting(generation', g) <=> Parenting(generation, g) \/ g = 0
      /\ \A p : Owning(generation', p) <=> Owning(generation, p) \/ p = o1
  BY <1>2, <1>7, <1>8, LineGrows
<1>10. ~Parenting(generation, c)
  <2>1. SUFFICES ASSUME NEW g \in 1..Len(generation), ~generation[g].gone, generation[g].parent = c
                 PROVE  FALSE
    BY DEF Parenting
  <2>2. thread[w].next = g \/ thread[w].walk = g
    BY <1>1, <1>7, <2>1 DEF NewestFor
  <2> QED
    BY <1>1, <2>2
<1>11. old \in 1..n /\ old \in Nat /\ current' \in 1..n
  BY <1>2
<1>12. /\ t \in GenerationThread /\ t.pc = "walk" /\ t.next = 0 /\ t.walk = old /\ t.from = 0
       /\ t.request = thread[w].request /\ t.after = after
  BY <1>1, <1>2, <1>11 DEF GenerationThread, GenerationPcs, Walking
<1>13. thread' = [thread EXCEPT ![w] = t]
  BY InvFacts
<1> HIDE DEF t
<1>14. Turns(w) /\ thread'[w] = t
  BY <1>12, <1>13, Turning
<1>15. Place(t) = after /\ Walks(t)
  BY <1>12 DEF Place, Walks
<1>16. CountedFor(generation', current', t)
  <2>1. ASSUME NEW g \in 1..n
        PROVE  /\ generation'[g].refs = Once(current' = g) + Once(t.next = g)
                      + Once(t.pc = "walk" /\ t.walk = g) + Once(Parenting(generation', g))
               /\ generation'[g].gone => generation'[g].refs = 0
               /\ ~generation'[g].gone /\ generation'[g].refs = 0 => t.pc = "walkOwner" /\ t.walk = g
    <3>1. Once(t.next = g) = 0 /\ (t.pc = "walk" /\ t.walk = g <=> old = g)
      BY <1>12 DEF Once
    <3>2. Once(t.pc = "walk" /\ t.walk = g) = Once(old = g)
      BY <3>1 DEF Once
    <3>3. CASE g = n
      <4>1. Once(current' = g) + Once(old = g) = 1
        BY <1>2, <3>3 DEF Once
      <4>2. Once(Parenting(generation', g)) = 0
        BY <1>9, <3>3 DEF Once
      <4>3. generation'[g].refs = 1 /\ ~generation'[g].gone
        BY <1>4, <1>5, <3>3
      <4>4. Once(current' = g) \in Nat /\ Once(old = g) \in Nat
        BY DEF Once
      <4> QED
        BY <3>1, <3>2, <4>1, <4>2, <4>3, <4>4
    <3>4. CASE g # n
      <4>0. Len(generation) \in Nat
        BY <1>2
      <4>1. g \in 1..Len(generation) /\ g # 0
        BY <3>4, <4>0
      <4>2. /\ generation[g].refs = Once(c = g) + Once(thread[w].next = g)
                      + Once(thread[w].pc = "walk" /\ thread[w].walk = g)
                      + Once(Parenting(generation, g))
            /\ generation[g].gone => generation[g].refs = 0
            /\ ~generation[g].gone /\ generation[g].refs = 0 =>
                 thread[w].pc = "walkOwner" /\ thread[w].walk = g
        BY <1>7, <4>1 DEF CountedFor
      <4>3. /\ Once(thread[w].next = g) = 0 /\ Once(thread[w].pc = "walk" /\ thread[w].walk = g) = 0
        BY <1>1, <4>1 DEF Once
      <4>4. Once(current' = g) + Once(old = g) = Once(c = g)
        BY <1>2, <3>4 DEF Once
      <4>5. Once(Parenting(generation', g)) = Once(Parenting(generation, g))
        BY <1>9, <4>1 DEF Once
      <4>6. /\ Once(current' = g) \in Nat /\ Once(old = g) \in Nat /\ Once(c = g) \in Nat
            /\ Once(Parenting(generation, g)) \in Nat
        BY DEF Once
      <4>7. generation'[g] = generation[g]
        BY <1>5, <4>1
      <4>8. generation[g].refs = Once(c = g) + Once(Parenting(generation, g))
        BY <4>2, <4>3, <4>6
      <4>9. generation[g].refs = Once(current' = g) + 0 + Once(old = g) + Once(Parenting(generation, g))
        BY <4>4, <4>6, <4>8
      <4> QED
        BY <3>1, <3>2, <4>2, <4>5, <4>7, <4>9
    <3> QED
      BY <3>3, <3>4
  <2> QED
    BY <1>5, <2>1 DEF CountedFor
<1>17. NewestFor(generation', current', t)
  <2>1. ~Parenting(generation', current')
    <3>1. current' = c \/ current' = n
      OBVIOUS
    <3> QED
      BY <1>1, <1>9, <1>10, <3>1
  <2> QED
    BY <2>1 DEF NewestFor, Parenting
<1>18. GenerationCallOk(t, TRUE, current', generation')
  BY <1>5, <1>11, <1>12, <1>15, <1>2 DEF GenerationCallOk, InsidePlaces
<1>19. /\ \A o \in 1..Len(owner) :
            owner[o] = Once(Owning(generation, o)) + Once(\E v \in Worker : thread[v].request = o)
       /\ \A g \in 1..Len(generation) : generation[g].owner \in 1..Len(owner)
       /\ \A g, h \in 1..Len(generation) :
            ~generation[g].gone /\ ~generation[h].gone
              /\ generation[g].owner = generation[h].owner => g = h
       /\ \A u, v \in Worker :
            thread[u].request = thread[v].request /\ thread[u].request # 0 => u = v
       /\ \A v \in Worker :
            /\ thread[v].request <= Len(owner)
            /\ Place(thread[v]) \in {"calling", "entered", "ready"} =>
                 ~Owning(generation, thread[v].request)
  BY InvFacts DEF ArenasCounted
<1>20. \A v \in Worker : thread'[v].request = thread[v].request
  BY <1>12, <1>14 DEF Turns
<1>21. \A v \in Worker : thread[v].request \in Nat /\ thread[v].request # o1
  <2>1. ASSUME NEW v \in Worker PROVE thread[v].request \in Nat /\ thread[v].request # o1
    <3>1. thread[v].request \in Nat /\ thread[v].request <= Len(owner)
      BY <1>19, InvFacts DEF GenerationThread
    <3> QED
      BY <1>2, <3>1 DEF o1
  <2> QED
    BY <2>1
<1>22. ASSUME NEW o \in 1..o1
       PROVE  owner'[o] = Once(Owning(generation', o)) + Once(\E v \in Worker : thread'[v].request = o)
  <2>1. (\E v \in Worker : thread'[v].request = o) <=> (\E v \in Worker : thread[v].request = o)
    BY <1>20
  <2>2. CASE o = o1
    <3>1. ~\E v \in Worker : thread'[v].request = o
      BY <1>20, <1>21, <2>2
    <3>2. owner'[o] = 1 /\ Owning(generation', o)
      BY <1>6, <1>9, <2>2
    <3> QED
      BY <3>1, <3>2 DEF Once
  <2>3. CASE o # o1
    <3>1. Once(\E v \in Worker : thread'[v].request = o) = Once(\E v \in Worker : thread[v].request = o)
      BY <2>1 DEF Once
    <3>2. Once(Owning(generation', o)) = Once(Owning(generation, o))
      BY <1>9, <2>3 DEF Once
    <3>3. o \in 1..Len(owner)
      BY <1>2, <2>3 DEF o1
    <3>4. owner[o] = Once(Owning(generation, o)) + Once(\E v \in Worker : thread[v].request = o)
      BY <1>19, <3>3
    <3>5. owner'[o] = owner[o]
      BY <1>6, <3>3
    <3> QED
      BY <3>1, <3>2, <3>4, <3>5
  <2> QED
    BY <2>2, <2>3
<1>23. /\ Len(owner) <= o1 /\ o1 \in 1..o1
       /\ \A g \in 1..Len(generation) : generation[g].owner # o1
  BY <1>2, <1>19 DEF o1
<1>24. ArenasCounted(owner', generation', thread')
  <2>1. \A g \in 1..n : g = n \/ g \in 1..Len(generation)
    <3>1. Len(generation) \in Nat
      BY <1>2
    <3> QED
      BY <3>1
  <2>2. ASSUME NEW g \in 1..n PROVE generation'[g].owner \in 1..o1
    <3>1. CASE g = n
      BY <1>4, <1>5, <1>23, <3>1
    <3>2. CASE g \in 1..Len(generation)
      <4>1. generation'[g] = generation[g]
        BY <1>5, <3>2
      <4>2. generation[g].owner \in 1..Len(owner)
        BY <1>19, <3>2
      <4>3. Len(owner) <= o1 /\ Len(owner) \in Nat /\ o1 \in Nat
        BY <1>2, <1>23
      <4> QED
        BY <4>1, <4>2, <4>3
    <3> QED
      BY <2>1, <3>1, <3>2
  <2>3. ASSUME NEW g \in 1..n, NEW h \in 1..n, ~generation'[g].gone, ~generation'[h].gone,
               generation'[g].owner = generation'[h].owner
        PROVE  g = h
    <3>1. CASE g = n /\ h \in 1..Len(generation)
      BY <1>4, <1>5, <1>23, <2>3, <3>1
    <3>2. CASE h = n /\ g \in 1..Len(generation)
      BY <1>4, <1>5, <1>23, <2>3, <3>2
    <3>3. CASE g \in 1..Len(generation) /\ h \in 1..Len(generation)
      BY <1>5, <1>19, <2>3, <3>3
    <3> QED
      BY <2>1, <3>1, <3>2, <3>3
  <2>4. ASSUME NEW v \in Worker, Place(thread'[v]) \in {"calling", "entered", "ready"}
        PROVE  ~Owning(generation', thread'[v].request)
    <3>1. Place(thread[v]) \in {"calling", "entered", "ready"}
      BY <1>1, <1>14, <2>4 DEF Turns
    <3> QED
      BY <1>9, <1>19, <1>20, <1>21, <3>1
  <2>5. ASSUME NEW v \in Worker PROVE thread'[v].request <= o1
    <3>1. thread[v].request \in Nat /\ thread[v].request <= Len(owner)
      BY <1>19, <1>21
    <3> QED
      BY <1>2, <1>20, <1>23, <3>1
  <2>6. ASSUME NEW u \in Worker, NEW v \in Worker,
               thread'[u].request = thread'[v].request, thread'[u].request # 0
        PROVE  u = v
    <3>1. thread[u].request = thread[v].request /\ thread[u].request # 0
      BY <1>20, <2>6
    <3> QED
      BY <1>19, <3>1
  <2>7. Len(generation') = n /\ Len(owner') = o1
    BY <1>5, <1>6
  <2>8. \A o \in 1..o1 : owner'[o] = Once(Owning(generation', o))
                                     + Once(\E v \in Worker : thread'[v].request = o)
    BY <1>22
  <2> HIDE DEF n, o1
  <2>9. \A o \in 1..Len(owner') :
          owner'[o] = Once(Owning(generation', o)) + Once(\E y \in Worker : thread'[y].request = o)
    BY <2>7, <2>8
  <2>10. \A g \in 1..Len(generation') : generation'[g].owner \in 1..Len(owner')
    BY <2>2, <2>7
  <2>11. \A g, h \in 1..Len(generation') :
           ~generation'[g].gone /\ ~generation'[h].gone
             /\ generation'[g].owner = generation'[h].owner => g = h
    BY <2>3, <2>7
  <2>12. \A v, y \in Worker :
           thread'[v].request = thread'[y].request /\ thread'[v].request # 0 => v = y
    BY <2>6
  <2>13. \A y \in Worker :
           /\ thread'[y].request <= Len(owner')
           /\ Place(thread'[y]) \in {"calling", "entered", "ready"} =>
                ~Owning(generation', thread'[y].request)
    BY <2>4, <2>5, <2>7
  <2> QED
    BY <2>9, <2>10, <2>11, <2>12, <2>13, Zenon DEF ArenasCounted
<1>25. /\ generation'[current'].chain - base' <= limit
       /\ after = "ready" => generation'[current'].chain - base' < limit
  <2>1. CASE current' = n /\ base' = 1
    <3>1. generation'[current'].chain = 1
      BY <1>4, <1>5, <2>1
    <3> QED
      BY <1>2, <2>1, <3>1
  <2>2. CASE current' = c /\ base' = base /\ after = "leaving"
    BY <1>2, <1>5, <1>7, <2>2
  <2> QED
    BY <2>1, <2>2
<1>26. current' \in 0..Len(generation') /\ base' \in Nat /\ current' # 0
  BY <1>2, <1>5, <1>11
<1>27. mutex = w /\ (mutex = w) = TRUE
  BY <1>1
<1>28. GenerationCallOk(t, mutex = w, current', generation')
  BY <1>18, <1>27
<1>29. Place(t) = "ready" => after = "ready"
  BY <1>15
<1>30. Place(t) # "appending"
  BY <1>15
<1> QED
  BY <1>5, <1>6, <1>9, <1>14, <1>16, <1>17, <1>24, <1>25, <1>26, <1>27, <1>28, <1>29, <1>30, AloneKeeps

LEMMA CompactKeeps ==
  ASSUME GenerationsInv, NEW w \in Worker, Compact(w) \/ CompactRefused(w) PROVE GenerationsInv'
<1>1. CASE Compact(w)
  <2>1. AfterCompaction(w) \in {"leaving", "ready"}
    BY DEF AfterCompaction
  <2> QED
    BY <1>1, <2>1, BootedKeeps DEF Compact
<1>2. CASE CompactRefused(w)
  BY <1>2, BootedKeeps DEF CompactRefused
<1> QED
  BY <1>1, <1>2

(* What the store or the call had, the release under way has now: the counts    *)
(* stay.                                                                        *)
LEMMA HandsOver ==
  ASSUME GenerationsInv, NEW w \in Worker, Turns(w),
         UNCHANGED <<owner, generation, base, limit, mutex>>,
         mutex = w \/ (\A v \in Worker : thread[v].pc = "idle"),
         thread[w].pc \notin {"walk", "walkOwner"},
         current' \in 0..Len(generation),
         current' = 0 => \A v \in Worker : thread[v].pc = "idle",
         thread'[w].pc = "walk", thread'[w].walk \in 1..Len(generation), thread'[w].next = 0,
         thread'[w].request = thread[w].request,
         Place(thread'[w]) \in {"idle", "answering", "leaving"},
         \A g \in 1..Len(generation) :
           Once(current' = g) + Once(thread'[w].walk = g) = Once(current = g) + Once(thread[w].next = g),
         NewestFor(generation, current', thread'[w]),
         GenerationCallOk(thread'[w], mutex = w, current', generation),
         current' # 0 => generation[current'].chain - base <= limit
  PROVE  GenerationsInv'
<1>1. CountedFor(generation, current, thread[w]) /\ GenerationTree(generation)
  BY AloneFacts
<1>2. CountedFor(generation, current', thread'[w])
  <2>1. ASSUME NEW g \in 1..Len(generation)
        PROVE  /\ generation[g].refs = Once(current' = g) + Once(thread'[w].next = g)
                      + Once(thread'[w].pc = "walk" /\ thread'[w].walk = g)
                      + Once(Parenting(generation, g))
               /\ generation[g].gone => generation[g].refs = 0
               /\ ~generation[g].gone /\ generation[g].refs = 0 =>
                    thread'[w].pc = "walkOwner" /\ thread'[w].walk = g
    <3>1. /\ generation[g].refs = Once(current = g) + Once(thread[w].next = g)
                      + Once(thread[w].pc = "walk" /\ thread[w].walk = g)
                      + Once(Parenting(generation, g))
          /\ generation[g].gone => generation[g].refs = 0
          /\ ~generation[g].gone /\ generation[g].refs = 0 =>
                 thread[w].pc = "walkOwner" /\ thread[w].walk = g
      BY <1>1 DEF CountedFor
    <3>2. /\ Once(thread[w].pc = "walk" /\ thread[w].walk = g) = 0 /\ Once(thread'[w].next = g) = 0
          /\ Once(thread'[w].pc = "walk" /\ thread'[w].walk = g) = Once(thread'[w].walk = g)
      BY DEF Once
    <3>3. Once(current' = g) + Once(thread'[w].walk = g) = Once(current = g) + Once(thread[w].next = g)
      OBVIOUS
    <3>4. /\ Once(current' = g) \in Nat /\ Once(thread'[w].walk = g) \in Nat
          /\ Once(current = g) \in Nat /\ Once(thread[w].next = g) \in Nat
          /\ Once(Parenting(generation, g)) \in Nat
      BY DEF Once
    <3> HIDE DEF Once
    <3>5. generation[g].refs = Once(current = g) + Once(thread[w].next = g) + Once(Parenting(generation, g))
      BY <3>1, <3>2, <3>4
    <3>6. generation[g].refs
            = Once(current' = g) + 0 + Once(thread'[w].walk = g) + Once(Parenting(generation, g))
      BY <3>3, <3>4, <3>5
    <3> QED
      BY <3>1, <3>2, <3>6
  <2> QED
    BY <2>1 DEF CountedFor
<1>3. ArenasCounted(owner, generation, thread')
  BY ArenasStay
<1>4. Place(thread'[w]) \notin {"ready", "appending"}
  OBVIOUS
<1> QED
  BY <1>1, <1>2, <1>3, <1>4, InvFacts, AloneKeeps

LEMMA AppendingFacts ==
  ASSUME GenerationsInv, NEW w \in Worker, thread[w].pc = "appending"
  PROVE  /\ mutex = w /\ current # 0 /\ current \in 1..Len(generation) /\ current \in Nat
         /\ thread[w] \in GenerationThread /\ Place(thread[w]) = "appending" /\ ~Walks(thread[w])
         /\ thread[w].walk = 0 /\ thread[w].next = Len(generation)
         /\ thread[w].next \in 1..Len(generation) /\ thread[w].next # current
         /\ generation[thread[w].next].parent = current
         /\ generation[thread[w].next].chain = generation[current].chain + 1
         /\ thread[w].from = current
         /\ generation[current].chain - base < limit /\ GenerationTree(generation)
         /\ NewestFor(generation, current, thread[w]) /\ Len(generation) \in Nat
         /\ generation[current].chain \in Nat /\ base \in Nat /\ limit \in Nat
<1>1. /\ GenerationCallOk(thread[w], mutex = w, current, generation)
      /\ thread[w] \in GenerationThread /\ Place(thread[w]) = "appending" /\ ~Walks(thread[w])
      /\ current \in 0..Len(generation) /\ Len(generation) \in Nat
      /\ generation \in Seq(GenerationRecord) /\ base \in Nat /\ limit \in Nat
  BY InvFacts DEF Place, Walks
<1>2. /\ mutex = w /\ current # 0 /\ thread[w].walk = 0 /\ thread[w].next # 0
      /\ thread[w].next = Len(generation) /\ generation[thread[w].next].parent = current
      /\ generation[thread[w].next].chain = generation[current].chain + 1
      /\ thread[w].from = current
  BY <1>1 DEF GenerationCallOk, InsidePlaces
<1>3. current \in 1..Len(generation) /\ current \in Nat /\ thread[w].next \in 1..Len(generation)
  BY <1>1, <1>2
<1>4. /\ generation[current].chain - base < limit /\ GenerationTree(generation)
      /\ NewestFor(generation, current, thread[w])
  BY <1>1, <1>2, AloneFacts
<1>5. generation[thread[w].next].parent < thread[w].next
  BY <1>3, <1>4 DEF GenerationTree
<1>6. generation[current].chain \in Nat
  BY <1>1, <1>3, GenerationFacts
<1> QED
  BY <1>1, <1>2, <1>3, <1>4, <1>5, <1>6

LEMMA PublishKeeps == ASSUME GenerationsInv, NEW w \in Worker, Publish(w) PROVE GenerationsInv'
<1> DEFINE t == Walking([thread[w] EXCEPT !.next = None], current, "answering")
           n == thread[w].next
<1>1. /\ thread[w].pc = "appending" /\ current' = n
      /\ thread' = [thread EXCEPT ![w] = Walking([@ EXCEPT !.next = None], current, "answering")]
      /\ UNCHANGED <<host, limit, owner, generation, base, spoiled, mutex>>
  BY DEF Publish
<1>2. /\ mutex = w /\ current \in 1..Len(generation) /\ current \in Nat /\ thread[w] \in GenerationThread
      /\ thread[w].walk = 0 /\ n = Len(generation) /\ n \in 1..Len(generation) /\ n # current
      /\ generation[n].parent = current /\ generation[n].chain = generation[current].chain + 1
      /\ thread[w].from = current
      /\ generation[current].chain - base < limit /\ GenerationTree(generation)
      /\ NewestFor(generation, current, thread[w]) /\ Len(generation) \in Nat
      /\ generation[current].chain \in Nat /\ base \in Nat /\ limit \in Nat
  BY <1>1, AppendingFacts
<1>3. thread' = [thread EXCEPT ![w] = t]
  BY <1>1, InvFacts
<1>4. /\ t \in GenerationThread /\ t.pc = "walk" /\ t.next = 0 /\ t.walk = current
      /\ t.after = "answering" /\ t.from = thread[w].from /\ t.request = thread[w].request
  BY <1>2 DEF GenerationThread, GenerationPcs, Walking, None
<1> HIDE DEF t
<1>5. Turns(w) /\ thread'[w] = t
  BY <1>3, <1>4, Turning
<1>6. Place(t) = "answering" /\ Walks(t)
  BY <1>4 DEF Place, Walks
<1>7. \A g \in 1..Len(generation) :
        Once(current' = g) + Once(t.walk = g) = Once(current = g) + Once(thread[w].next = g)
  BY <1>1, <1>4 DEF Once
<1>8. NewestFor(generation, current', t)
  <2>1. SUFFICES ASSUME NEW g \in 1..Len(generation), generation[g].parent = n PROVE FALSE
    BY <1>1 DEF NewestFor
  <2>2. n < g /\ g \in Nat /\ g <= Len(generation)
    BY <1>2, <2>1 DEF GenerationTree
  <2> QED
    BY <1>2, <2>2
<1>9. GenerationCallOk(t, mutex = w, current', generation)
  <2>1. t.from = generation[n].parent
    BY <1>2, <1>4
  <2> QED
    BY <1>1, <1>2, <1>4, <1>6, <2>1 DEF GenerationCallOk, InsidePlaces
<1>10. generation[current'].chain - base <= limit
  <2>1. generation[current'].chain = generation[current].chain + 1
    BY <1>1, <1>2
  <2> QED
    BY <1>2, <2>1
<1>11. current' \in 0..Len(generation) /\ current' # 0 /\ t.walk \in 1..Len(generation)
  BY <1>1, <1>2, <1>4
<1> QED
  BY <1>1, <1>2, <1>4, <1>5, <1>6, <1>7, <1>8, <1>9, <1>10, <1>11, HandsOver

LEMMA AppendFailsKeeps ==
  ASSUME GenerationsInv, NEW w \in Worker, AppendFails(w) PROVE GenerationsInv'
<1> DEFINE n == thread[w].next
           t == Walking([thread[w] EXCEPT !.next = None], n, "leaving")
<1>1. /\ thread[w].pc = "appending"
      /\ thread' = [thread EXCEPT ![w] = Walking([@ EXCEPT !.next = None], n, "leaving")]
      /\ UNCHANGED <<host, limit, owner, generation, current, base, mutex>>
  BY DEF AppendFails
<1>2. /\ mutex = w /\ current \in 1..Len(generation) /\ current \in Nat /\ thread[w] \in GenerationThread
      /\ thread[w].walk = 0 /\ n = Len(generation) /\ n \in 1..Len(generation) /\ n \in Nat
      /\ thread[w].from = current /\ generation[current].chain - base < limit
      /\ NewestFor(generation, current, thread[w]) /\ Len(generation) \in Nat
      /\ generation[current].chain \in Nat /\ base \in Nat /\ limit \in Nat
  BY <1>1, AppendingFacts
<1>3. thread' = [thread EXCEPT ![w] = t]
  BY <1>1, InvFacts
<1>4. /\ t \in GenerationThread /\ t.pc = "walk" /\ t.next = 0 /\ t.walk = n
      /\ t.after = "leaving" /\ t.from = thread[w].from /\ t.request = thread[w].request
  <2> HIDE DEF n
  <2> QED
    BY <1>2 DEF GenerationThread, GenerationPcs, Walking, None
<1> HIDE DEF t
<1>5. Turns(w) /\ thread'[w] = t
  BY <1>3, <1>4, Turning
<1>6. Place(t) = "leaving" /\ Walks(t)
  BY <1>4 DEF Place, Walks
<1>7. \A g \in 1..Len(generation) :
        Once(current' = g) + Once(t.walk = g) = Once(current = g) + Once(thread[w].next = g)
  BY <1>1, <1>4 DEF Once
<1>8. NewestFor(generation, current', t)
  BY <1>1, <1>2, <1>4 DEF NewestFor
<1>9. GenerationCallOk(t, mutex = w, current', generation)
  BY <1>1, <1>2, <1>4, <1>6 DEF GenerationCallOk, InsidePlaces
<1>10. generation[current'].chain - base <= limit
  BY <1>1, <1>2
<1>11. current' \in 0..Len(generation) /\ current' # 0 /\ t.walk \in 1..Len(generation)
  BY <1>1, <1>2, <1>4
<1> QED
  BY <1>1, <1>2, <1>4, <1>5, <1>6, <1>7, <1>8, <1>9, <1>10, <1>11, HandsOver

LEMMA ShutdownKeeps1 == ASSUME GenerationsInv, NEW w \in Worker, Shutdown(w) PROVE GenerationsInv'
<1> DEFINE t == Walking(Idle, current, "idle")
<1>1. /\ \A v \in Worker : thread[v].pc = "idle"
      /\ current # 0 /\ current' = 0
      /\ thread' = [thread EXCEPT ![w] = t]
      /\ UNCHANGED <<host, limit, owner, generation, base, spoiled, mutex>>
  BY DEF Shutdown, None
<1>2. /\ current \in 1..Len(generation) /\ current \in Nat /\ Len(generation) \in Nat
      /\ thread[w].request = 0 /\ thread[w].next = 0 /\ thread[w].pc = "idle" /\ mutex # w
  BY <1>1, InvFacts, CallFacts1 DEF InsidePlaces
<1>3. /\ t \in GenerationThread /\ t.pc = "walk" /\ t.next = 0 /\ t.walk = current
      /\ t.after = "idle" /\ t.from = 0 /\ t.request = 0
  BY <1>2 DEF GenerationThread, GenerationPcs, Walking, Idle, None
<1> HIDE DEF t
<1>4. Turns(w) /\ thread'[w] = t
  BY <1>1, <1>3, Turning
<1>5. Place(t) = "idle" /\ Walks(t)
  BY <1>3 DEF Place, Walks
<1>6. \A g \in 1..Len(generation) :
        Once(current' = g) + Once(t.walk = g) = Once(current = g) + Once(thread[w].next = g)
  BY <1>1, <1>2, <1>3 DEF Once
<1>7. NewestFor(generation, current', t)
  BY <1>1 DEF NewestFor
<1>8. GenerationCallOk(t, mutex = w, current', generation)
  BY <1>1, <1>2, <1>3, <1>5 DEF GenerationCallOk, InsidePlaces
<1>9. current' \in 0..Len(generation) /\ t.walk \in 1..Len(generation)
  BY <1>1, <1>2, <1>3
<1> QED
  BY <1>1, <1>2, <1>3, <1>4, <1>5, <1>6, <1>7, <1>8, <1>9, HandsOver

(* What a thread that releases a chain is at.                                   *)
LEMMA WalkingFacts ==
  ASSUME GenerationsInv, NEW w \in Worker, Walks(thread[w])
  PROVE  /\ thread[w] \in GenerationThread /\ thread[w].walk \in 1..Len(generation)
         /\ thread[w].walk \in Nat /\ thread[w].walk # 0 /\ thread[w].next = 0
         /\ Place(thread[w]) = thread[w].after
         /\ thread[w].after \in {"idle", "ready", "answering", "leaving"}
         /\ (mutex = w <=> thread[w].after \in InsidePlaces)
         /\ thread[w].after = "idle" => thread[w].request = 0 /\ current = 0
         /\ current = 0 => thread[w].after = "idle"
         /\ thread[w].from # 0 =>
              /\ thread[w].after \in {"answering", "leaving"}
              /\ thread[w].from = current \/ thread[w].from = generation[current].parent
         /\ thread[w].pc = "walkOwner" =>
              ~generation[thread[w].walk].gone /\ generation[thread[w].walk].refs = 0
         /\ CountedFor(generation, current, thread[w])
         /\ NewestFor(generation, current, thread[w]) /\ GenerationTree(generation)
         /\ generation \in Seq(GenerationRecord) /\ Len(generation) \in Nat
         /\ current \in 0..Len(generation)
<1>1. /\ GenerationCallOk(thread[w], mutex = w, current, generation)
      /\ thread[w] \in GenerationThread /\ Len(generation) \in Nat
      /\ generation \in Seq(GenerationRecord) /\ current \in 0..Len(generation)
  BY InvFacts
<1>2. /\ thread[w].walk \in Nat /\ thread[w].after \in {"idle", "ready", "answering", "leaving"}
      /\ Place(thread[w]) = thread[w].after /\ thread[w].pc # "appending"
  BY <1>1 DEF GenerationThread, Place, Walks
<1>3. thread[w].walk # 0 /\ thread[w].walk <= Len(generation) /\ thread[w].next = 0
  BY <1>1, <1>2 DEF GenerationCallOk
<1>4. thread[w].walk \in 1..Len(generation)
  BY <1>1, <1>2, <1>3
<1>5. /\ (mutex = w <=> thread[w].after \in InsidePlaces)
      /\ thread[w].after = "idle" => thread[w].request = 0 /\ current = 0
      /\ current = 0 => thread[w].after = "idle"
      /\ thread[w].from # 0 =>
           /\ thread[w].after \in {"answering", "leaving"}
           /\ thread[w].from = current \/ thread[w].from = generation[current].parent
      /\ thread[w].pc = "walkOwner" =>
           ~generation[thread[w].walk].gone /\ generation[thread[w].walk].refs = 0
  BY <1>1, <1>2 DEF GenerationCallOk, Alive
<1>6. /\ CountedFor(generation, current, thread[w])
      /\ NewestFor(generation, current, thread[w]) /\ GenerationTree(generation)
  BY AloneFacts
<1> QED
  BY <1>1, <1>2, <1>3, <1>4, <1>5, <1>6

(* A thread goes on with a release, or after it.                                *)
LEMMA GoesOnWalking ==
  ASSUME GenerationsInv, NEW w \in Worker, Walks(thread[w]), NEW t \in GenerationThread,
         NEW gens, Len(gens) = Len(generation),
         \A g \in 1..Len(generation) : gens[g].parent = generation[g].parent,
         t.next = 0, t.from = thread[w].from, t.request = thread[w].request,
         t.after = thread[w].after,
         \/ t.pc = thread[w].after /\ t.walk = 0
         \/ t.pc \in {"walk", "walkOwner"} /\ t.walk \in 1..Len(generation),
         t.pc = "walkOwner" => ~gens[t.walk].gone /\ gens[t.walk].refs = 0
  PROVE  GenerationCallOk(t, mutex = w, current, gens) /\ Place(t) = thread[w].after
<1>1. /\ thread[w].after \in {"idle", "ready", "answering", "leaving"}
      /\ (mutex = w <=> thread[w].after \in InsidePlaces)
      /\ thread[w].after = "idle" => thread[w].request = 0 /\ current = 0
      /\ current = 0 => thread[w].after = "idle"
      /\ thread[w].from # 0 =>
           /\ thread[w].after \in {"answering", "leaving"}
           /\ thread[w].from = current \/ thread[w].from = generation[current].parent
      /\ Len(generation) \in Nat /\ current \in 0..Len(generation)
  BY WalkingFacts
<1>2. /\ Place(t) = thread[w].after /\ t.pc # "appending"
      /\ (Walks(t) <=> t.pc \in {"walk", "walkOwner"})
  BY <1>1 DEF Place, Walks
<1>3. t.walk # 0 <=> Walks(t)
  BY <1>1, <1>2
<1>4. t.walk <= Len(gens) /\ t.next <= Len(gens) /\ t.walk \in Nat
  BY <1>1
<1>5. current # 0 => gens[current].parent = generation[current].parent
  <2>1. current # 0 => current \in 1..Len(generation)
    BY <1>1
  <2> QED
    BY <2>1
<1>6. t.pc = "walkOwner" => Alive(gens, t.walk)
  BY <1>1, <1>4, <1>2 DEF Alive
<1> QED
  BY <1>1, <1>2, <1>3, <1>4, <1>5, <1>6 DEF GenerationCallOk

LEMMA DecrementKeeps == ASSUME GenerationsInv, NEW w \in Worker, Decrement(w) PROVE GenerationsInv'
<1> DEFINE g == thread[w].walk
           last == generation[g].refs = 1
           pc == IF last THEN "walkOwner" ELSE thread[w].after
           walk == IF last THEN g ELSE 0
           t == [thread[w] EXCEPT !.pc = pc, !.walk = walk]
           r == [generation[g] EXCEPT !.refs = @ - 1]
<1>1. /\ thread[w].pc = "walk" /\ generation' = [generation EXCEPT ![g].refs = @ - 1]
      /\ thread' = [thread EXCEPT ![w].pc = pc, ![w].walk = walk]
      /\ UNCHANGED <<host, limit, owner, current, base, spoiled, mutex>>
  BY DEF Decrement, None
<1>2. Walks(thread[w])
  BY <1>1 DEF Walks
<1>3. /\ thread[w] \in GenerationThread /\ g \in 1..Len(generation) /\ g \in Nat /\ g # 0
      /\ thread[w].next = 0 /\ Place(thread[w]) = thread[w].after
      /\ thread[w].after \in {"idle", "ready", "answering", "leaving"}
      /\ CountedFor(generation, current, thread[w])
      /\ NewestFor(generation, current, thread[w]) /\ GenerationTree(generation)
      /\ generation \in Seq(GenerationRecord) /\ Len(generation) \in Nat
      /\ current \in 0..Len(generation)
  BY <1>2, WalkingFacts
<1>4. generation[g] \in GenerationRecord /\ generation[g].refs \in Nat
  BY <1>3, GenerationFacts
<1> HIDE DEF g
<1>5. generation[g].refs = Once(current = g) + 1 + Once(Parenting(generation, g)) /\ ~generation[g].gone
  <2>1. /\ generation[g].refs = Once(current = g) + Once(thread[w].next = g)
                      + Once(thread[w].pc = "walk" /\ thread[w].walk = g)
                      + Once(Parenting(generation, g))
        /\ generation[g].gone => generation[g].refs = 0
    BY <1>3 DEF CountedFor
  <2>2. Once(thread[w].next = g) = 0 /\ Once(thread[w].pc = "walk" /\ thread[w].walk = g) = 1
    BY <1>1, <1>3 DEF Once, g
  <2>3. Once(current = g) \in Nat /\ Once(Parenting(generation, g)) \in Nat
    BY DEF Once
  <2>4. generation[g].refs = Once(current = g) + 1 + Once(Parenting(generation, g))
    BY <2>1, <2>2, <2>3
  <2>5. generation[g].refs # 0
    BY <2>3, <2>4
  <2> QED
    BY <2>1, <2>4, <2>5
<1>6. Once(current = g) \in Nat /\ Once(Parenting(generation, g)) \in Nat
  BY DEF Once
<1>7. generation[g].refs - 1 = Once(current = g) + Once(Parenting(generation, g))
  BY <1>5, <1>6
<1>8. /\ r \in GenerationRecord /\ r.refs = generation[g].refs - 1 /\ r.owner = generation[g].owner
      /\ r.parent = generation[g].parent /\ r.chain = generation[g].chain
      /\ r.gone = generation[g].gone
  <2> DEFINE less == generation[g].refs - 1
  <2>1. less \in Nat /\ r = [generation[g] EXCEPT !.refs = less]
    BY <1>6, <1>7
  <2> HIDE DEF less, r
  <2> QED
    BY <1>4, <2>1 DEF GenerationRecord, less
<1> HIDE DEF r
<1>9. /\ generation' \in Seq(GenerationRecord) /\ Len(generation') = Len(generation)
      /\ \A h \in 1..Len(generation) : generation'[h] = IF h = g THEN r ELSE generation[h]
  <2>1. generation' = [generation EXCEPT ![g] = r]
    BY <1>1 DEF r
  <2> QED
    BY <1>3, <1>8, <2>1, ExceptSeq
<1>10. SameLine(generation, generation')
  BY <1>8, <1>9 DEF SameLine
<1>11. pc \in {"walkOwner", "idle", "ready", "answering", "leaving"} /\ walk \in Nat
  BY <1>3
<1>12. /\ t \in GenerationThread /\ t.pc = pc /\ t.next = 0 /\ t.walk = walk
       /\ t.from = thread[w].from /\ t.request = thread[w].request /\ t.after = thread[w].after
  <2> HIDE DEF pc, walk
  <2> QED
    BY <1>3, <1>11 DEF GenerationThread, GenerationPcs
<1>13. thread' = [thread EXCEPT ![w] = t]
  BY <1>1, InvFacts
<1> HIDE DEF t
<1>14. Turns(w) /\ thread'[w] = t
  BY <1>12, <1>13, Turning
<1>15. GenerationCallOk(t, mutex = w, current, generation') /\ Place(t) = thread[w].after
  <2>1. \A h \in 1..Len(generation) : generation'[h].parent = generation[h].parent
    BY <1>10 DEF SameLine
  <2>2. \/ t.pc = thread[w].after /\ t.walk = 0
        \/ t.pc \in {"walk", "walkOwner"} /\ t.walk \in 1..Len(generation)
    BY <1>3, <1>12
  <2>3. t.pc = "walkOwner" => ~generation'[t.walk].gone /\ generation'[t.walk].refs = 0
    <3>1. SUFFICES ASSUME t.pc = "walkOwner" PROVE ~generation'[t.walk].gone /\ generation'[t.walk].refs = 0
      OBVIOUS
    <3>2. last
      BY <1>3, <1>12, <3>1
    <3>3. t.walk = g /\ generation'[g] = r
      BY <1>3, <1>9, <1>12, <3>2
    <3>4. r.refs = 0
      BY <1>8, <3>2
    <3> QED
      BY <1>5, <1>8, <3>3, <3>4
  <2> QED
    BY <1>2, <1>9, <1>12, <2>1, <2>2, <2>3, GoesOnWalking
<1>16. /\ GenerationTree(generation')
       /\ \A h : Parenting(generation', h) <=> Parenting(generation, h)
       /\ \A h : Once(Parenting(generation', h)) = Once(Parenting(generation, h))
  BY <1>3, <1>10, LineStays
<1>17. CountedFor(generation', current, t)
  <2>1. ASSUME NEW h \in 1..Len(generation)
        PROVE  /\ generation'[h].refs = Once(current = h) + Once(t.next = h)
                      + Once(t.pc = "walk" /\ t.walk = h) + Once(Parenting(generation', h))
               /\ generation'[h].gone => generation'[h].refs = 0
               /\ ~generation'[h].gone /\ generation'[h].refs = 0 => t.pc = "walkOwner" /\ t.walk = h
    <3>1. /\ generation[h].refs = Once(current = h) + Once(thread[w].next = h)
                      + Once(thread[w].pc = "walk" /\ thread[w].walk = h)
                      + Once(Parenting(generation, h))
          /\ generation[h].gone => generation[h].refs = 0
          /\ ~generation[h].gone /\ generation[h].refs = 0 =>
                 thread[w].pc = "walkOwner" /\ thread[w].walk = h
      BY <1>3 DEF CountedFor
    <3>2. /\ Once(t.next = h) = 0 /\ Once(t.pc = "walk" /\ t.walk = h) = 0
          /\ Once(thread[w].next = h) = 0
      BY <1>3, <1>11, <1>12 DEF Once
    <3>3. Once(Parenting(generation', h)) = Once(Parenting(generation, h))
      BY <1>16
    <3>4. CASE h = g
      <4>1. generation'[h].refs = Once(current = h) + Once(Parenting(generation, h))
        BY <1>7, <1>8, <1>9, <3>4
      <4>2. generation'[h].refs = Once(current = h) + 0 + 0 + Once(Parenting(generation, h))
        BY <1>6, <3>4, <4>1
      <4>3. ~generation'[h].gone
        BY <1>5, <1>8, <1>9, <3>4
      <4>4. generation'[h].refs = 0 => t.pc = "walkOwner" /\ t.walk = h
        <5>1. SUFFICES ASSUME generation'[h].refs = 0 PROVE t.pc = "walkOwner" /\ t.walk = h
          OBVIOUS
        <5>2. generation[g].refs - 1 = 0
          BY <1>8, <1>9, <3>4, <5>1
        <5>3. last
          BY <1>4, <5>2
        <5> QED
          BY <1>12, <3>4, <5>3
      <4> QED
        BY <3>2, <3>3, <4>2, <4>3, <4>4
    <3>5. CASE h # g
      <4>1. Once(thread[w].pc = "walk" /\ thread[w].walk = h) = 0
        BY <3>5 DEF Once, g
      <4>2. generation'[h] = generation[h]
        BY <1>9, <3>5
      <4>3. ~(~generation[h].gone /\ generation[h].refs = 0)
        BY <1>1, <3>1
      <4> QED
        BY <3>1, <3>2, <3>3, <4>1, <4>2, <4>3
    <3> QED
      BY <3>4, <3>5
  <2> QED
    BY <1>9, <2>1 DEF CountedFor
<1>18. NewestFor(generation', current, t)
  <2>1. SUFFICES ASSUME current # 0, NEW h \in 1..Len(generation), ~generation[h].gone,
                        generation[h].parent = current
                 PROVE  h = Len(generation) /\ (t.next = h \/ t.walk = h)
    BY <1>9, <1>10 DEF NewestFor, SameLine
  <2>2. h = Len(generation) /\ thread[w].walk = h
    BY <1>3, <2>1 DEF NewestFor
  <2>3. g = h
    BY <2>2 DEF g
  <2>4. current < h
    BY <1>3, <2>1 DEF GenerationTree
  <2>5. ~Parenting(generation, h)
    <3>1. SUFFICES ASSUME NEW i \in 1..Len(generation), generation[i].parent = h PROVE FALSE
      BY DEF Parenting
    <3>2. h < i
      BY <1>3, <3>1 DEF GenerationTree
    <3> QED
      BY <2>2, <3>2
  <2>6. Once(current = g) = 0 /\ Once(Parenting(generation, g)) = 0
    BY <1>3, <2>3, <2>4, <2>5 DEF Once
  <2>7. last
    BY <1>5, <2>6
  <2> QED
    BY <1>12, <2>2, <2>3, <2>7
<1>19. ArenasCounted(owner, generation', thread')
  <2>1. ArenasCounted(owner, generation, thread')
    BY <1>3, <1>12, <1>14, <1>15, ArenasStay
  <2> QED
    BY <1>10, <2>1, LineArenas
<1>20. /\ current # 0 => generation'[current].chain - base <= limit
       /\ current # 0 /\ Place(t) \in {"ready", "appending"} =>
            generation'[current].chain - base < limit
  <2>1. current # 0 => current \in 1..Len(generation)
    BY <1>3
  <2>2. current # 0 => generation'[current].chain = generation[current].chain
    BY <1>10, <2>1 DEF SameLine
  <2> QED
    BY <1>2, <1>3, <1>15, <2>2, AloneFacts
<1> QED
  BY <1>1, <1>2, <1>3, <1>9, <1>14, <1>15, <1>16, <1>17, <1>18, <1>19, <1>20, InvFacts, AloneKeeps

LEMMA ZeroSum ==
  ASSUME NEW n, NEW a \in Nat, NEW b \in Nat, NEW c \in Nat, NEW d \in Nat, n = a + b + c + d, n = 0
  PROVE  a = 0 /\ b = 0 /\ c = 0 /\ d = 0
OBVIOUS

(* The last reference is gone: the arena is let go, and then the parent.        *)
LEMMA FreeGenerationKeeps ==
  ASSUME GenerationsInv, NEW w \in Worker, FreeGeneration(w) PROVE GenerationsInv'
<1> DEFINE g == thread[w].walk
           p == generation[g].parent
           o1 == generation[g].owner
           pc == IF p = 0 THEN thread[w].after ELSE "walk"
           t == [thread[w] EXCEPT !.walk = p, !.pc = pc]
           r == [generation[g] EXCEPT !.gone = TRUE]
<1>1. /\ thread[w].pc = "walkOwner" /\ owner' = [owner EXCEPT ![o1] = @ - 1]
      /\ generation' = [generation EXCEPT ![g].gone = TRUE]
      /\ thread' = [thread EXCEPT ![w].walk = p, ![w].pc = pc]
      /\ UNCHANGED <<host, limit, current, base, spoiled, mutex>>
  BY DEF FreeGeneration, OwnerRelease, None
<1>2. Walks(thread[w])
  BY <1>1 DEF Walks
<1>3. /\ thread[w] \in GenerationThread /\ g \in 1..Len(generation) /\ g \in Nat /\ g # 0
      /\ thread[w].next = 0 /\ Place(thread[w]) = thread[w].after
      /\ thread[w].after \in {"idle", "ready", "answering", "leaving"}
      /\ CountedFor(generation, current, thread[w])
      /\ NewestFor(generation, current, thread[w]) /\ GenerationTree(generation)
      /\ generation \in Seq(GenerationRecord) /\ Len(generation) \in Nat
      /\ current \in 0..Len(generation) /\ ~generation[g].gone /\ generation[g].refs = 0
  BY <1>1, <1>2, WalkingFacts
<1>4. /\ generation[g] \in GenerationRecord /\ p \in Nat /\ o1 \in Nat
      /\ p < g /\ (p # 0 => p \in 1..Len(generation))
  <2>1. generation[g] \in GenerationRecord /\ p \in Nat /\ o1 \in Nat
    BY <1>3, GenerationFacts
  <2>2. p < g
    BY <1>3 DEF GenerationTree
  <2> QED
    BY <1>3, <2>1, <2>2
<1> HIDE DEF g, p, o1
<1>5. current # g /\ ~Parenting(generation, g)
  <2>1. generation[g].refs = Once(current = g) + Once(thread[w].next = g)
                      + Once(thread[w].pc = "walk" /\ thread[w].walk = g)
                      + Once(Parenting(generation, g))
    BY <1>3 DEF CountedFor
  <2>2. /\ Once(current = g) \in Nat /\ Once(thread[w].next = g) \in Nat
        /\ Once(thread[w].pc = "walk" /\ thread[w].walk = g) \in Nat
        /\ Once(Parenting(generation, g)) \in Nat
    BY DEF Once
  <2>3. Once(current = g) = 0 /\ Once(Parenting(generation, g)) = 0
    BY <1>3, <2>1, <2>2, ZeroSum
  <2> QED
    BY <2>3 DEF Once
<1>6. /\ r \in GenerationRecord /\ r.refs = 0 /\ r.owner = o1 /\ r.parent = p
      /\ r.chain = generation[g].chain /\ r.gone
  BY <1>3, <1>4 DEF GenerationRecord, p, o1
<1> HIDE DEF r
<1>7. /\ generation' \in Seq(GenerationRecord) /\ Len(generation') = Len(generation)
      /\ \A h \in 1..Len(generation) : generation'[h] = IF h = g THEN r ELSE generation[h]
  <2>1. generation' = [generation EXCEPT ![g] = r]
    BY <1>1 DEF r
  <2> QED
    BY <1>3, <1>6, <2>1, ExceptSeq
<1>8. \A h \in 1..Len(generation) :
        /\ generation'[h].parent = generation[h].parent /\ generation'[h].owner = generation[h].owner
        /\ generation'[h].chain = generation[h].chain /\ generation'[h].refs = generation[h].refs
        /\ generation'[h].gone <=> generation[h].gone \/ h = g
  BY <1>3, <1>6, <1>7 DEF p, o1
<1>9. GenerationTree(generation')
  BY <1>3, <1>7, <1>8 DEF GenerationTree
<1>10. ASSUME NEW q \in 1..Len(generation)
       PROVE  Parenting(generation', q) <=> Parenting(generation, q) /\ q # p
  <2>1. Parenting(generation', q) => Parenting(generation, q)
    BY <1>7, <1>8 DEF Parenting
  <2>2. ASSUME Parenting(generation', q), q = p PROVE FALSE
    <3>1. PICK h \in 1..Len(generation) : ~generation'[h].gone /\ generation'[h].parent = q
      BY <1>7, <2>2 DEF Parenting
    <3>2. ~generation[h].gone /\ h # g /\ generation[h].parent = generation[g].parent
          /\ generation[h].parent # 0
      BY <1>8, <2>2, <3>1 DEF p
    <3> QED
      BY <1>3, <3>2 DEF GenerationTree
  <2>3. ASSUME Parenting(generation, q), q # p PROVE Parenting(generation', q)
    <3>1. PICK h \in 1..Len(generation) : ~generation[h].gone /\ generation[h].parent = q
      BY <2>3 DEF Parenting
    <3>2. h # g
      BY <2>3, <3>1 DEF p
    <3> QED
      BY <1>7, <1>8, <3>1, <3>2 DEF Parenting
  <2> QED
    BY <2>1, <2>2, <2>3
<1>11. p # 0 => Parenting(generation, p)
  BY <1>3 DEF Parenting, p
<1>12. pc \in {"idle", "ready", "answering", "leaving", "walk"} /\ (p = 0 => pc = thread[w].after)
       /\ (p # 0 => pc = "walk")
  BY <1>3
<1>13. /\ t \in GenerationThread /\ t.pc = pc /\ t.next = 0 /\ t.walk = p
       /\ t.from = thread[w].from /\ t.request = thread[w].request /\ t.after = thread[w].after
  <2> HIDE DEF pc
  <2> QED
    BY <1>3, <1>4, <1>12 DEF GenerationThread, GenerationPcs
<1>14. thread' = [thread EXCEPT ![w] = t]
  BY <1>1, InvFacts
<1> HIDE DEF t, pc
<1>15. Turns(w) /\ thread'[w] = t
  BY <1>13, <1>14, Turning
<1>16. GenerationCallOk(t, mutex = w, current, generation') /\ Place(t) = thread[w].after
  <2>1. \/ t.pc = thread[w].after /\ t.walk = 0
        \/ t.pc \in {"walk", "walkOwner"} /\ t.walk \in 1..Len(generation)
    BY <1>4, <1>12, <1>13
  <2>2. t.pc # "walkOwner"
    BY <1>12, <1>13
  <2> QED
    BY <1>2, <1>7, <1>8, <1>13, <2>1, <2>2, GoesOnWalking
<1>17. CountedFor(generation', current, t)
  <2>1. ASSUME NEW h \in 1..Len(generation)
        PROVE  /\ generation'[h].refs = Once(current = h) + Once(t.next = h)
                      + Once(t.pc = "walk" /\ t.walk = h) + Once(Parenting(generation', h))
               /\ generation'[h].gone => generation'[h].refs = 0
               /\ ~generation'[h].gone /\ generation'[h].refs = 0 => t.pc = "walkOwner" /\ t.walk = h
    <3>1. /\ generation[h].refs = Once(current = h) + Once(thread[w].next = h)
                      + Once(thread[w].pc = "walk" /\ thread[w].walk = h)
                      + Once(Parenting(generation, h))
          /\ generation[h].gone => generation[h].refs = 0
          /\ ~generation[h].gone /\ generation[h].refs = 0 =>
                 thread[w].pc = "walkOwner" /\ thread[w].walk = h
      BY <1>3 DEF CountedFor
    <3>2. /\ Once(t.next = h) = 0 /\ Once(thread[w].next = h) = 0
          /\ Once(thread[w].pc = "walk" /\ thread[w].walk = h) = 0
      BY <1>1, <1>3, <1>13 DEF Once
    <3>3. /\ Once(current = h) \in Nat /\ Once(Parenting(generation, h)) \in Nat
          /\ Once(Parenting(generation', h)) \in Nat /\ Once(t.pc = "walk" /\ t.walk = h) \in Nat
      BY DEF Once
    <3>4. Once(t.pc = "walk" /\ t.walk = h) + Once(Parenting(generation', h))
            = Once(Parenting(generation, h))
      <4>1. CASE h = p
        <5>1. Parenting(generation, h) /\ ~Parenting(generation', h) /\ t.pc = "walk" /\ t.walk = h
          BY <1>10, <1>11, <1>12, <1>13, <4>1
        <5> QED
          BY <5>1 DEF Once
      <4>2. CASE h # p
        <5>1. /\ Parenting(generation', h) <=> Parenting(generation, h)
              /\ ~(t.pc = "walk" /\ t.walk = h)
          BY <1>10, <1>13, <4>2
        <5> QED
          BY <5>1 DEF Once
      <4> QED
        BY <4>1, <4>2
    <3>5. generation[h].refs = Once(current = h) + Once(Parenting(generation, h))
      BY <3>1, <3>2, <3>3
    <3>6. generation[h].refs = Once(current = h) + 0 + Once(t.pc = "walk" /\ t.walk = h)
                                 + Once(Parenting(generation', h))
      BY <3>3, <3>4, <3>5
    <3>7. generation'[h].refs = generation[h].refs /\ (generation'[h].gone <=> generation[h].gone \/ h = g)
      BY <1>8
    <3>8. generation'[h].gone => generation'[h].refs = 0
      BY <1>3, <3>1, <3>7
    <3>9. ~(~generation'[h].gone /\ generation'[h].refs = 0)
      BY <3>1, <3>7 DEF g
    <3> QED
      BY <3>2, <3>6, <3>7, <3>8, <3>9
  <2> QED
    BY <1>7, <2>1 DEF CountedFor
<1>18. NewestFor(generation', current, t)
  <2>1. SUFFICES ASSUME current # 0, NEW h \in 1..Len(generation), ~generation'[h].gone,
                        generation[h].parent = current
                 PROVE  FALSE
    BY <1>7, <1>8 DEF NewestFor
  <2>2. ~generation[h].gone /\ h # g
    BY <1>8, <2>1
  <2>3. thread[w].walk = h
    BY <1>3, <2>1, <2>2 DEF NewestFor
  <2> QED
    BY <2>2, <2>3 DEF g
<1>19. /\ \A o \in 1..Len(owner) :
            owner[o] = Once(Owning(generation, o)) + Once(\E v \in Worker : thread[v].request = o)
       /\ \A h \in 1..Len(generation) : generation[h].owner \in 1..Len(owner)
       /\ \A h, i \in 1..Len(generation) :
            ~generation[h].gone /\ ~generation[i].gone
              /\ generation[h].owner = generation[i].owner => h = i
       /\ \A u, v \in Worker :
            thread[u].request = thread[v].request /\ thread[u].request # 0 => u = v
       /\ \A v \in Worker :
            /\ thread[v].request <= Len(owner)
            /\ Place(thread[v]) \in {"calling", "entered", "ready"} =>
                 ~Owning(generation, thread[v].request)
       /\ owner \in Seq(Nat) /\ Len(owner) \in Nat
  BY InvFacts DEF ArenasCounted
<1>20. o1 \in 1..Len(owner) /\ owner[o1] \in Nat /\ Owning(generation, o1)
  <2>1. o1 \in 1..Len(owner) /\ Owning(generation, o1)
    BY <1>3, <1>19 DEF o1, Owning
  <2> QED
    BY <1>19, <2>1, ElementOfSeq
<1>21. /\ ~Owning(generation', o1)
       /\ \A o : o # o1 => (Owning(generation', o) <=> Owning(generation, o))
       /\ \A o : Owning(generation', o) => Owning(generation, o)
  <2>1. ASSUME Owning(generation', o1) PROVE FALSE
    <3>1. PICK h \in 1..Len(generation) : ~generation'[h].gone /\ generation'[h].owner = o1
      BY <1>7, <2>1 DEF Owning
    <3>2. ~generation[h].gone /\ h # g /\ generation[h].owner = generation[g].owner
      BY <1>8, <3>1 DEF o1
    <3> QED
      BY <1>3, <1>19, <3>2
  <2>2. ASSUME NEW o, Owning(generation', o) PROVE Owning(generation, o)
    BY <1>7, <1>8, <2>2 DEF Owning
  <2>3. ASSUME NEW o, o # o1, Owning(generation, o) PROVE Owning(generation', o)
    <3>1. PICK h \in 1..Len(generation) : ~generation[h].gone /\ generation[h].owner = o
      BY <2>3 DEF Owning
    <3>2. h # g
      BY <2>3, <3>1 DEF o1
    <3> QED
      BY <1>7, <1>8, <3>1, <3>2 DEF Owning
  <2> QED
    BY <2>1, <2>2, <2>3
<1>22. \A v \in Worker : thread'[v].request = thread[v].request
  BY <1>13, <1>15 DEF Turns
<1> DEFINE rest == owner[o1] - 1
<1>23. rest = Once(\E v \in Worker : thread[v].request = o1) /\ rest \in Nat
  <2>1. owner[o1] = Once(Owning(generation, o1)) + Once(\E v \in Worker : thread[v].request = o1)
    BY <1>19, <1>20
  <2> QED
    BY <1>20, <2>1 DEF Once
<1>24. /\ owner' \in Seq(Nat) /\ Len(owner') = Len(owner)
       /\ \A o \in 1..Len(owner) : owner'[o] = IF o = o1 THEN rest ELSE owner[o]
  <2>1. owner' = [owner EXCEPT ![o1] = rest]
    BY <1>1
  <2>2. owner \in Seq(Nat) /\ o1 \in 1..Len(owner) /\ rest \in Nat
    BY <1>19, <1>20, <1>23
  <2> HIDE DEF rest
  <2> QED
    BY <2>1, <2>2, ExceptSeq
<1> HIDE DEF rest
<1>25. ASSUME NEW o \in 1..Len(owner)
       PROVE  owner'[o] = Once(Owning(generation', o)) + Once(\E v \in Worker : thread'[v].request = o)
  <2>1. (\E v \in Worker : thread'[v].request = o) <=> (\E v \in Worker : thread[v].request = o)
    BY <1>22
  <2>2. Once(\E v \in Worker : thread'[v].request = o) = Once(\E v \in Worker : thread[v].request = o)
    BY <2>1 DEF Once
  <2>3. CASE o = o1
    <3>1. ~Owning(generation', o) /\ owner'[o] = Once(\E v \in Worker : thread[v].request = o)
      BY <1>21, <1>23, <1>24, <2>3
    <3> QED
      BY <2>1, <3>1 DEF Once
  <2>4. CASE o # o1
    <3>1. Once(Owning(generation', o)) = Once(Owning(generation, o))
      BY <1>21, <2>4 DEF Once
    <3>2. owner[o] = Once(Owning(generation, o)) + Once(\E v \in Worker : thread[v].request = o)
      BY <1>19
    <3>3. owner'[o] = owner[o]
      BY <1>24, <2>4
    <3> QED
      BY <2>2, <3>1, <3>2, <3>3
  <2> QED
    BY <2>3, <2>4
<1>26. ArenasCounted(owner', generation', thread')
  <2>1. ASSUME NEW v \in Worker, Place(thread'[v]) \in {"calling", "entered", "ready"}
        PROVE  ~Owning(generation', thread'[v].request)
    <3>1. Place(thread[v]) = Place(thread'[v])
      BY <1>3, <1>15, <1>16 DEF Turns
    <3>2. ~Owning(generation, thread[v].request)
      BY <1>19, <2>1, <3>1
    <3> QED
      BY <1>21, <1>22, <3>2
  <2>2. ASSUME NEW u \in Worker, NEW v \in Worker,
               thread'[u].request = thread'[v].request, thread'[u].request # 0
        PROVE  u = v
    <3>1. thread[u].request = thread[v].request /\ thread[u].request # 0
      BY <1>22, <2>2
    <3> QED
      BY <1>19, <3>1
  <2>3. \A v \in Worker : thread'[v].request <= Len(owner)
    BY <1>19, <1>22
  <2>4. ASSUME NEW h \in 1..Len(generation) PROVE generation'[h].owner \in 1..Len(owner)
    <3>1. generation'[h].owner = generation[h].owner
      BY <1>8
    <3>2. generation[h].owner \in 1..Len(owner)
      BY <1>19
    <3> QED
      BY <3>1, <3>2
  <2>5. ASSUME NEW h \in 1..Len(generation), NEW i \in 1..Len(generation),
               ~generation'[h].gone, ~generation'[i].gone,
               generation'[h].owner = generation'[i].owner
        PROVE  h = i
    <3>1. generation'[h].owner = generation[h].owner /\ generation'[i].owner = generation[i].owner
      BY <1>8
    <3>2. ~generation[h].gone /\ ~generation[i].gone
      BY <1>8, <2>5
    <3>3. ~generation[h].gone /\ ~generation[i].gone
            /\ generation[h].owner = generation[i].owner => h = i
      BY <1>19
    <3> QED
      BY <2>5, <3>1, <3>2, <3>3
  <2> QED
    BY <1>7, <1>24, <1>25, <2>1, <2>2, <2>3, <2>4, <2>5 DEF ArenasCounted
<1>27. /\ current # 0 => generation'[current].chain - base <= limit
       /\ current # 0 /\ Place(t) \in {"ready", "appending"} =>
            generation'[current].chain - base < limit
  <2>1. current # 0 => current \in 1..Len(generation)
    BY <1>3
  <2>2. current # 0 => generation'[current].chain = generation[current].chain
    BY <1>8, <2>1
  <2> QED
    BY <1>2, <1>3, <1>16, <2>2, AloneFacts
<1> QED
  BY <1>1, <1>2, <1>3, <1>7, <1>9, <1>15, <1>16, <1>17, <1>18, <1>24, <1>26, <1>27, InvFacts, AloneKeeps

LEMMA GenerationsStay ==
  ASSUME GenerationsInv, UNCHANGED generationsVars PROVE GenerationsInv'
<1>1. UNCHANGED <<limit, owner, generation, current, base, mutex, thread>>
  BY DEF generationsVars
<1> QED
  BY <1>1 DEF GenerationsInv, GenerationsTyped, GenerationsMutex, GenerationsBounded

LEMMA DispatchKeeps1 ==
  ASSUME GenerationsInv, NEW w \in Worker, Dispatch(w) PROVE GenerationsInv'
<1>1. /\ thread[w].pc = "ready" /\ thread[w].request # None
      /\ UNCHANGED <<host, limit, current, base, spoiled, mutex>>
  BY DEF Dispatch
<1>2. CASE /\ \E pc \in {"answering", "leaving"} :
                thread' = [thread EXCEPT ![w].from = current, ![w].pc = pc]
           /\ UNCHANGED <<owner, generation>>
  BY <1>1, <1>2, QueryKeeps
<1>3. CASE /\ owner' = Create(owner, generation, thread[w].request, current).owners
           /\ generation' = Create(owner, generation, thread[w].request, current).gens
           /\ thread' = [thread EXCEPT ![w].from = current, ![w].pc = "appending",
                                       ![w].next = Len(generation) + 1]
  BY <1>1, <1>3, MakesKeeps
<1> QED
  BY <1>2, <1>3 DEF Dispatch

LEMMA GenerationsStep ==
  ASSUME GenerationsInv, [GenerationsNext]_generationsVars PROVE GenerationsInv'
<1>1. CASE UNCHANGED generationsVars
  BY <1>1, GenerationsStay
<1>2. CASE GenerationsNext
  <2>1. PICK w \in Worker :
          \/ Decode(w) \/ DecodeFails(w) \/ Compile(w) \/ CompactIdle(w)
          \/ Enter(w) \/ Ready(w) \/ Compact(w) \/ CompactFails(w) \/ CompactRefused(w)
          \/ CreateOwner(w) \/ Dispatch(w) \/ Publish(w) \/ AppendFails(w) \/ Answer(w)
          \/ Decrement(w) \/ FreeGeneration(w)
          \/ ReleaseRequest(w) \/ LeaveMutex(w) \/ Done(w) \/ Shutdown(w)
    BY <1>2 DEF GenerationsNext
  <2>2. CASE Compile(w)
    BY <2>2, CompileKeeps1 DEF Compile
  <2>3. CASE CompactIdle(w)
    <3>1. thread[w].pc = "idle"
      BY <2>3 DEF CompactIdle
    <3> QED
      BY <2>3, <3>1, CompileKeeps1 DEF CompactIdle
  <2> QED
    BY <2>1, <2>2, <2>3, DecodeKeeps, DecodeFailsKeeps, EnterKeeps1, ReadyKeeps, CompactKeeps,
       CompactFailsKeeps, CreateOwnerKeeps, DispatchKeeps1, PublishKeeps, AppendFailsKeeps,
       AnswerKeeps, DecrementKeeps, FreeGenerationKeeps, ReleaseRequestKeeps, LeaveMutexKeeps,
       DoneKeeps1, ShutdownKeeps1
<1> QED
  BY <1>1, <1>2

LEMMA LessIsWellFounded == IsWellFoundedOn({p \in Nat \X Nat : p[1] < p[2]}, Nat)
BY NatLessThanWellFounded DEF OpToRel

(* A set of numbers up to n has a greatest element.                             *)
LEMMA GreatestOf ==
  ASSUME NEW n \in Nat, NEW S \in SUBSET (1..n), S # {}
  PROVE  \E g \in S : \A h \in S : h <= g
<1> DEFINE R == {p \in Nat \X Nat : p[1] < p[2]}
           T == {k \in Nat : n - k \in S}
<1>1. IsWellFoundedOn(R, Nat)
  BY LessIsWellFounded
<1>2. \A g \in S : g \in 1..n /\ g \in Nat
  OBVIOUS
<1>3. \A g \in S : n - g \in T
  <2>1. ASSUME NEW g \in S PROVE n - g \in T
    <3>1. g \in 1..n /\ n - g \in Nat /\ n - (n - g) = g
      BY <1>2
    <3> QED
      BY <3>1
  <2> QED
    BY <2>1
<1>4. T \in SUBSET Nat /\ T # {}
  BY <1>3
<1>5. PICK k \in T : \A l \in T : <<l, k>> \notin R
  <2> HIDE DEF R, T
  <2> QED
    BY <1>1, <1>4, WFMin
<1>6. k \in Nat /\ n - k \in S
  BY <1>5
<1>7. ASSUME NEW h \in S PROVE h <= n - k
  <2>1. n - h \in T /\ n - h \in Nat /\ h \in Nat
    BY <1>2, <1>3
  <2>2. ~(n - h < k)
    BY <1>5, <1>6, <2>1
  <2> QED
    BY <1>6, <2>1, <2>2
<1> QED
  BY <1>6, <1>7

(* What has not gone is what can be reached.                                    *)
LEMMA CountedIs ==
  ASSUME GenerationsInv, NEW g \in 1..Len(generation)
  PROVE  /\ generation[g].gone => generation[g].refs = 0
         /\ generation[g].refs = 0 =>
              /\ current # g /\ ~Parenting(generation, g)
              /\ \A w \in Worker : thread[w].next # g
              /\ \A w \in Worker : thread[w].pc = "walk" => thread[w].walk # g
         /\ generation[g].refs # 0 =>
              \/ current = g \/ Parenting(generation, g)
              \/ \E w \in Worker : thread[w].next = g \/ thread[w].walk = g
         /\ ~generation[g].gone /\ generation[g].refs = 0 =>
              \E w \in Worker : thread[w].walk = g
<1>1. /\ generation[g].refs = Once(current = g) + Once(\E w \in Worker : thread[w].next = g)
                      + Once(\E w \in Worker : thread[w].pc = "walk" /\ thread[w].walk = g)
                      + Once(Parenting(generation, g))
      /\ generation[g].gone => generation[g].refs = 0
      /\ ~generation[g].gone /\ generation[g].refs = 0 =>
           \E w \in Worker : thread[w].pc = "walkOwner" /\ thread[w].walk = g
  BY InvFacts DEF GenerationsCounted
<1>2. generation[g].refs = 0 =>
              /\ current # g /\ ~Parenting(generation, g)
              /\ ~\E w \in Worker : thread[w].next = g
              /\ ~\E w \in Worker : thread[w].pc = "walk" /\ thread[w].walk = g
  BY <1>1 DEF Once
<1>3. generation[g].refs # 0 =>
              \/ current = g \/ Parenting(generation, g)
              \/ \E w \in Worker : thread[w].next = g
              \/ \E w \in Worker : thread[w].pc = "walk" /\ thread[w].walk = g
  BY <1>1 DEF Once
<1> QED
  BY <1>1, <1>2, <1>3

Living == {g \in 1..Len(generation) : ~generation[g].gone}

LEMMA ReachedIsLiving == ASSUME GenerationsInv PROVE Reached = Living
<1>1. /\ DOMAIN generation = 1..Len(generation) /\ Len(generation) \in Nat
      /\ generation \in Seq(GenerationRecord) /\ current \in 0..Len(generation)
      /\ GenerationTree(generation)
  BY InvFacts, LenProperties
<1>2. \A g \in 1..Len(generation) : generation[g].parent \in Nat /\ generation[g].parent < g
                                    /\ g \in Nat /\ g # 0
  BY <1>1, GenerationFacts DEF GenerationTree
<1>3. ASSUME NEW g \in Living PROVE generation[g].parent \in Living \cup {0}
  <2>1. SUFFICES ASSUME generation[g].parent # 0 PROVE generation[g].parent \in Living
    OBVIOUS
  <2>2. generation[g].parent \in 1..Len(generation)
    BY <1>1, <1>2, <2>1 DEF Living
  <2>3. Parenting(generation, generation[g].parent)
    BY DEF Living, Parenting
  <2> QED
    BY <2>2, <2>3, CountedIs DEF Living
<1>4. current # 0 => current \in Living
  <2>1. SUFFICES ASSUME current # 0 PROVE current \in Living
    OBVIOUS
  <2>2. current \in 1..Len(generation)
    BY <1>1, <2>1
  <2> QED
    BY <2>2, CountedIs DEF Living
<1>5. ASSUME NEW w \in Worker
      PROVE  /\ thread[w].from # 0 => thread[w].from \in Living
             /\ thread[w].next # 0 => thread[w].next \in Living
             /\ thread[w].walk # 0 => thread[w].walk \in Living
  <2>1. /\ GenerationCallOk(thread[w], mutex = w, current, generation)
        /\ thread[w].next \in Nat /\ thread[w].walk \in Nat /\ thread[w] \in GenerationThread
    BY InvFacts DEF GenerationThread
  <2>2. ASSUME thread[w].next # 0 PROVE thread[w].next \in Living
    <3>1. thread[w].next \in 1..Len(generation)
      BY <1>1, <2>1, <2>2 DEF GenerationCallOk
    <3> QED
      BY <3>1, CountedIs DEF Living
  <2>3. ASSUME thread[w].walk # 0 PROVE thread[w].walk \in Living
    <3>1. thread[w].walk \in 1..Len(generation) /\ thread[w].pc \in {"walk", "walkOwner"}
      BY <1>1, <2>1, <2>3 DEF GenerationCallOk, Walks
    <3>2. CASE thread[w].pc = "walk"
      BY <3>1, <3>2, CountedIs DEF Living
    <3>3. CASE thread[w].pc = "walkOwner"
      BY <2>1, <3>1, <3>3 DEF GenerationCallOk, Alive, Living
    <3> QED
      BY <3>1, <3>2, <3>3
  <2>4. ASSUME thread[w].from # 0 PROVE thread[w].from \in Living
    <3>1. /\ Place(thread[w]) \in {"appending", "answering", "leaving"}
          /\ thread[w].from = current \/ thread[w].from = generation[current].parent
          /\ current = 0 => Place(thread[w]) = "idle"
      BY <2>1, <2>4 DEF GenerationCallOk
    <3>2. current # 0
      BY <3>1
    <3>3. current \in Living
      BY <1>4, <3>2
    <3> QED
      BY <1>3, <2>4, <3>1, <3>3
  <2> QED
    BY <2>2, <2>3, <2>4
<1>6. HoldsReach(Living)
  BY <1>3, <1>4, <1>5 DEF HoldsReach, Entries, None
<1>7. Living \in SUBSET DOMAIN generation
  BY <1>1 DEF Living
<1>8. Reached \subseteq Living
  BY <1>6, <1>7 DEF Reached
<1>9. ASSUME NEW S \in SUBSET DOMAIN generation, HoldsReach(S) PROVE Living \subseteq S
  <2> DEFINE missing == Living \ S
  <2>1. SUFFICES ASSUME missing # {} PROVE FALSE
    OBVIOUS
  <2>2. missing \in SUBSET (1..Len(generation))
    BY DEF Living
  <2>3. PICK g \in missing : \A h \in missing : h <= g
    <3> HIDE DEF missing
    <3> QED
      BY <1>1, <2>1, <2>2, GreatestOf
  <2>4. g \in 1..Len(generation) /\ ~generation[g].gone /\ g \notin S /\ g # 0
    BY <1>2, <2>3 DEF Living
  <2>5. g \notin Entries
    BY <1>9, <2>4 DEF HoldsReach
  <2>6. current # g /\ \A w \in Worker : thread[w].next # g /\ thread[w].walk # g
    BY <2>4, <2>5 DEF Entries, None
  <2>7. Parenting(generation, g)
    BY <2>4, <2>6, CountedIs
  <2>8. PICK h \in 1..Len(generation) : ~generation[h].gone /\ generation[h].parent = g
    BY <2>7 DEF Parenting
  <2>9. g < h /\ h \in Nat /\ g \in Nat
    BY <1>2, <2>4, <2>8
  <2>10. h \in S
    <3>1. h \notin missing
      BY <2>3, <2>9
    <3> QED
      BY <2>8, <3>1 DEF Living
  <2>11. g \in S \cup {0}
    BY <1>9, <2>8, <2>10 DEF HoldsReach, None
  <2> QED
    BY <2>4, <2>11
<1>10. Living \subseteq Reached
  BY <1>7, <1>9 DEF Reached
<1> QED
  BY <1>8, <1>10

LEMMA MemoryFollows == ASSUME GenerationsInv PROVE MemoryIsOwned
<1>1. /\ DOMAIN generation = 1..Len(generation) /\ DOMAIN owner = 1..Len(owner)
      /\ Reached = Living /\ Len(owner) \in Nat
  BY InvFacts, LenProperties, ReachedIsLiving
<1>2. /\ \A o \in 1..Len(owner) :
            owner[o] = Once(Owning(generation, o)) + Once(\E v \in Worker : thread[v].request = o)
      /\ \A h \in 1..Len(generation) : generation[h].owner \in 1..Len(owner)
      /\ \A v \in Worker : thread[v].request <= Len(owner) /\ thread[v].request \in Nat
  BY InvFacts DEF ArenasCounted, GenerationThread
<1>3. \A o : o \in Held <=> Owning(generation, o) \/ \E v \in Worker : thread[v].request = o /\ o # 0
  BY <1>1 DEF Held, Living, Owning, None
<1>4. \A o \in Held : o \in 1..Len(owner)
  <2>1. ASSUME NEW o \in Held PROVE o \in 1..Len(owner)
    <3>1. CASE Owning(generation, o)
      BY <1>2, <3>1 DEF Owning
    <3>2. CASE \E v \in Worker : thread[v].request = o /\ o # 0
      <4>1. o \in Nat /\ o <= Len(owner) /\ o # 0
        BY <1>2, <3>2
      <4> QED
        BY <1>1, <4>1
    <3> QED
      BY <1>3, <3>1, <3>2
  <2> QED
    BY <2>1
<1>5. ASSUME NEW o \in Held PROVE owner[o] > 0
  <2>1. owner[o] = Once(Owning(generation, o)) + Once(\E v \in Worker : thread[v].request = o)
    BY <1>2, <1>4
  <2>2. Owning(generation, o) \/ \E v \in Worker : thread[v].request = o
    BY <1>3
  <2> QED
    BY <2>1, <2>2 DEF Once
<1>6. NothingDangles
  BY <1>1, <1>5 DEF NothingDangles, Living
<1>7. ASSUME NEW o \in 1..Len(owner), o \notin Held PROVE owner[o] = 0
  <2>1. owner[o] = Once(Owning(generation, o)) + Once(\E v \in Worker : thread[v].request = o)
    BY <1>2
  <2>2. ~Owning(generation, o) /\ ~\E v \in Worker : thread[v].request = o
    BY <1>3, <1>7
  <2> QED
    BY <2>1, <2>2 DEF Once
<1>8. \A g \in 1..Len(generation) \ Living : generation[g].gone /\ generation[g].refs = 0
  BY CountedIs DEF Living
<1>9. NothingLeft
  BY <1>1, <1>7, <1>8 DEF NothingLeft
<1>10. ChainIsBounded
  BY DEF ChainIsBounded, GenerationsInv, GenerationsBounded, None
<1> QED
  BY <1>6, <1>9, <1>10 DEF MemoryIsOwned

(***************************************************************************)
(* An arena is owned as long as something can reach it, and let go when     *)
(* nothing can: the reference counts of native/server_generated.c and the   *)
(* request arenas of native/server_host.c, for any number of worker threads, *)
(* any number of calls, and every limit of the chain.                        *)
(***************************************************************************)
THEOREM MemoryStaysOwned == GenerationsSpec => []MemoryIsOwned
  <1>1. GenerationsInit => GenerationsInv
    BY GenerationsStart
  <1>2. GenerationsInv /\ [GenerationsNext]_generationsVars => GenerationsInv'
    BY GenerationsStep
  <1>3. GenerationsInv => MemoryIsOwned
    BY MemoryFollows
  <1> QED
    BY <1>1, <1>2, <1>3, PTL DEF GenerationsSpec
=============================================================================
