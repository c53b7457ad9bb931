------------------------------ MODULE Acceptor ------------------------------
(***************************************************************************)
(* The threads of native/server_host.c: the acceptor (accept_loop), one     *)
(* worker per admitted connection, the clients mutex and its condition      *)
(* variable, and the dispatch mutex.  What a dispatch does to the store is  *)
(* DurableServer; here it only makes the generation chain longer or fails.  *)
(***************************************************************************)
EXTENDS Integers, FiniteSets

CONSTANTS
  Conn,        \* the connections clients open, each used once
  MaxActive,   \* max_active_clients
  QuietPolls,  \* IDLE_COMPACT_QUIET_POLLS
  IoTimeouts,  \* whether client_io_timeout_ms may be set: a set of Booleans
  Nobody       \* holds a free mutex

Acceptor == "acceptor"

ASSUME AcceptorAssumption ==
  /\ IsFiniteSet(Conn) /\ Acceptor \notin Conn
  /\ Nobody \notin Conn /\ Nobody # Acceptor
  /\ MaxActive \in Nat \ {0} /\ QuietPolls \in Nat \ {0}
  /\ IoTimeouts \subseteq BOOLEAN

VARIABLES
  peer,      \* the client's end: "none", "silent", "sent" or "gone"
  backlog,   \* connections the kernel has queued on the listener
  loop,      \* where the acceptor is
  candidate, \* the connection it has accepted and not yet admitted
  armed,     \* idle_compaction_armed
  quiet,     \* quiet_polls
  jobs,      \* server.clients
  worker,    \* where the worker of a connection is
  named,     \* connections whose job->fd still names their socket
  open,      \* connections whose socket is open
  shut,      \* connections whose socket was shut down
  failing,   \* workers whose connection ended with a fatal failure
  lock,      \* who holds clients_mutex
  dispatch,  \* who holds dispatch_mutex
  woken,     \* clients_idle was broadcast since the acceptor began to wait
  dirty,     \* generations were published since the last compaction
  poisoned,  \* a dispatch failed in the log
  fatal,     \* server.fatal
  timed,     \* this server's client_io_timeout_ms is not 0
  stop       \* stop_requested

acceptorVars == <<loop, candidate, armed, quiet>>
workerVars   == <<worker, failing>>
socketVars   == <<named, open, shut>>
storeVars    == <<dirty, poisoned>>
vars == <<peer, backlog, acceptorVars, jobs, workerVars, socketVars, lock,
          dispatch, woken, storeVars, fatal, timed, stop>>

Init ==
  /\ peer = [c \in Conn |-> "none"] /\ backlog = {}
  /\ loop = "check" /\ candidate = Nobody /\ armed = FALSE /\ quiet = 0
  /\ jobs = {} /\ worker = [c \in Conn |-> "none"] /\ failing = {}
  /\ named = {} /\ open = {} /\ shut = {}
  /\ lock = Nobody /\ dispatch = Nobody /\ woken = FALSE
  /\ dirty = FALSE /\ poisoned = FALSE /\ fatal = FALSE /\ stop = FALSE
  /\ timed \in IoTimeouts

-----------------------------------------------------------------------------
(* Clients and signals.                                                     *)

Environment == <<acceptorVars, jobs, workerVars, socketVars, lock, dispatch,
                 woken, storeVars, fatal, timed>>

Connect(c) ==
  /\ peer[c] = "none" /\ loop # "done"
  /\ peer' = [peer EXCEPT ![c] = "silent"]
  /\ backlog' = backlog \cup {c}
  /\ UNCHANGED <<Environment, stop>>

SendRequest(c) ==
  /\ peer[c] = "silent"
  /\ peer' = [peer EXCEPT ![c] = "sent"]
  /\ UNCHANGED <<backlog, Environment, stop>>

Vanish(c) ==
  /\ peer[c] = "silent"
  /\ peer' = [peer EXCEPT ![c] = "gone"]
  /\ UNCHANGED <<backlog, Environment, stop>>

(* handle_stop_signal                                                       *)
Signal ==
  /\ ~stop
  /\ stop' = TRUE
  /\ UNCHANGED <<peer, backlog, Environment>>

-----------------------------------------------------------------------------
(* The acceptor.                                                            *)

Unlocked == lock = Nobody

Ending == stop \/ fatal

(* The condition of the loop; the fatal flag is read under clients_mutex.   *)
CheckStop ==
  /\ loop = "check" /\ Unlocked
  /\ loop' = IF Ending THEN "drain" ELSE "poll"
  /\ UNCHANGED <<peer, backlog, candidate, armed, quiet, jobs, workerVars, socketVars,
                 lock, dispatch, woken, storeVars, fatal, timed, stop>>

(* poll has timed out: QuietPolls timeouts in a row without a client spend  *)
(* the armed compaction.                                                    *)
PollQuiet ==
  /\ loop = "poll" /\ backlog = {} /\ Unlocked
  /\ IF ~armed \/ jobs # {}
     THEN quiet' = 0 /\ loop' = "check" /\ UNCHANGED armed
     ELSE IF quiet + 1 >= QuietPolls
          THEN quiet' = 0 /\ loop' = "compact" /\ armed' = FALSE
          ELSE quiet' = quiet + 1 /\ loop' = "check" /\ UNCHANGED armed
  /\ UNCHANGED <<peer, backlog, candidate, jobs, workerVars, socketVars,
                 lock, dispatch, woken, storeVars, fatal, timed, stop>>

(* compact_while_quiet: a poisoned store refuses, and the loop ends.        *)
CompactQuiet ==
  /\ loop = "compact" /\ dispatch = Nobody
  /\ IF poisoned THEN loop' = "drain" /\ UNCHANGED dirty
                 ELSE loop' = "check" /\ dirty' = FALSE
  /\ UNCHANGED <<peer, backlog, candidate, armed, quiet, jobs, workerVars, socketVars,
                 lock, dispatch, woken, poisoned, fatal, timed, stop>>

(* accept, the second look at the stop conditions, and peer_never_asked.    *)
Accept(c) ==
  /\ loop = "poll" /\ c \in backlog /\ Unlocked
  /\ backlog' = backlog \ {c}
  /\ IF Ending \/ peer[c] = "gone"
     THEN loop' = (IF Ending THEN "drain" ELSE "check") /\ UNCHANGED <<candidate, open>>
     ELSE loop' = "admit" /\ candidate' = c /\ open' = open \cup {c}
  /\ UNCHANGED <<peer, armed, quiet, jobs, workerVars, named, shut, lock, dispatch,
                 woken, storeVars, fatal, timed, stop>>

(* poll or accept fails, or the listener is gone: the loop ends.            *)
ListenerFails ==
  /\ loop = "poll"
  /\ loop' = "drain"
  /\ UNCHANGED <<peer, backlog, candidate, armed, quiet, jobs, workerVars, socketVars,
                 lock, dispatch, woken, storeVars, fatal, timed, stop>>

MayAdmit == Cardinality(jobs) < MaxActive

(* The job is linked and its worker created, under clients_mutex.           *)
Admit ==
  /\ loop = "admit" /\ Unlocked
  /\ MayAdmit
  /\ jobs' = jobs \cup {candidate}
  /\ worker' = [worker EXCEPT ![candidate] = "read"]
  /\ named' = named \cup {candidate}
  /\ loop' = "arm"
  /\ UNCHANGED <<peer, backlog, candidate, armed, quiet, failing, open, shut, lock,
                 dispatch, woken, storeVars, fatal, timed, stop>>

(* The cap is reached, a job cannot be allocated, or a thread cannot be     *)
(* created: the connection is closed, and only a thread failure other than  *)
(* EAGAIN ends the loop.                                                    *)
RefuseConnection ==
  /\ loop = "admit" /\ Unlocked
  /\ loop' \in IF MayAdmit THEN {"check", "drain"} ELSE {"check"}
  /\ open' = open \ {candidate}
  /\ candidate' = Nobody
  /\ UNCHANGED <<peer, backlog, armed, quiet, jobs, workerVars, named, shut, lock,
                 dispatch, woken, storeVars, fatal, timed, stop>>

(* Faulty: activity does not arm the compaction.                            *)
ForgetToArm ==
  /\ loop = "arm"
  /\ quiet' = 0 /\ candidate' = Nobody /\ loop' = "check"
  /\ UNCHANGED <<peer, backlog, armed, jobs, workerVars, socketVars, lock, dispatch,
                 woken, storeVars, fatal, timed, stop>>

(* Only after the worker runs: it may be finished by now.                   *)
Arm ==
  /\ loop = "arm"
  /\ armed' = TRUE /\ quiet' = 0 /\ candidate' = Nobody /\ loop' = "check"
  /\ UNCHANGED <<peer, backlog, jobs, workerVars, socketVars, lock, dispatch,
                 woken, storeVars, fatal, timed, stop>>

(* stop_clients_and_wait takes clients_mutex, ...                           *)
BeginDrain ==
  /\ loop = "drain" /\ Unlocked
  /\ lock' = Acceptor /\ loop' = "shut"
  /\ UNCHANGED <<peer, backlog, candidate, armed, quiet, jobs, workerVars, socketVars,
                 dispatch, woken, storeVars, fatal, timed, stop>>

(* ... shuts down every socket a job still names, ...                       *)
ShutSockets ==
  /\ loop = "shut"
  /\ shut' = shut \cup (jobs \cap named)
  /\ loop' = "wait"
  /\ UNCHANGED <<peer, backlog, candidate, armed, quiet, jobs, workerVars, named, open,
                 lock, dispatch, woken, storeVars, fatal, timed, stop>>

(* ... and waits on clients_idle, which releases the mutex, until no client *)
(* is left.                                                                 *)
Wait ==
  /\ loop = "wait"
  /\ lock' = Nobody
  /\ IF jobs = {} THEN loop' = "done" /\ UNCHANGED woken
                  ELSE loop' = "waiting" /\ woken' = FALSE
  /\ UNCHANGED <<peer, backlog, candidate, armed, quiet, jobs, workerVars, socketVars,
                 dispatch, storeVars, fatal, timed, stop>>

Wake ==
  /\ loop = "waiting" /\ woken /\ Unlocked
  /\ lock' = Acceptor /\ loop' = "wait"
  /\ UNCHANGED <<peer, backlog, candidate, armed, quiet, jobs, workerVars, socketVars,
                 dispatch, woken, storeVars, fatal, timed, stop>>

AcceptorStep ==
  \/ CheckStop \/ PollQuiet \/ CompactQuiet \/ ListenerFails
  \/ \E c \in backlog : Accept(c)
  \/ Admit \/ RefuseConnection \/ Arm
  \/ BeginDrain \/ ShutSockets \/ Wait \/ Wake

-----------------------------------------------------------------------------
(* The worker of connection c: serve_client_worker.                         *)

Goes(c, to) == worker' = [worker EXCEPT ![c] = to]

WorkerElse == <<peer, backlog, acceptorVars, timed, stop>>

(* A complete request has arrived; a shut socket may still have one.        *)
ReadRequest(c) ==
  /\ worker[c] = "read" /\ peer[c] = "sent"
  /\ Goes(c, "dispatch")
  /\ UNCHANGED <<WorkerElse, jobs, failing, socketVars, lock, dispatch, woken,
                 storeVars, fatal>>

(* Faulty: SO_RCVTIMEO is not set on the accepted socket.                   *)
ReadNothingUntimed(c) ==
  /\ worker[c] = "read"
  /\ peer[c] \in {"gone", "sent"} \/ c \in shut
  /\ Goes(c, "exit")
  /\ UNCHANGED <<WorkerElse, jobs, failing, socketVars, lock, dispatch, woken,
                 storeVars, fatal>>

(* End of file, the I/O timeout, or a packet the codec refuses.             *)
ReadNothing(c) ==
  /\ worker[c] = "read"
  /\ peer[c] \in {"gone", "sent"} \/ c \in shut \/ timed
  /\ Goes(c, "exit")
  /\ UNCHANGED <<WorkerElse, jobs, failing, socketVars, lock, dispatch, woken,
                 storeVars, fatal>>

(* serialized_dispatch: lock, ...                                           *)
TakeDispatch(c) ==
  /\ worker[c] = "dispatch" /\ dispatch = Nobody
  /\ dispatch' = c
  /\ Goes(c, "dispatching")
  /\ UNCHANGED <<WorkerElse, jobs, failing, socketVars, lock, woken, storeVars, fatal>>

(* ... dispatch, which may publish a generation, or fail and may poison the *)
(* store by it, and unlock.                                                 *)
EndDispatch(c) ==
  /\ worker[c] = "dispatching"
  /\ dispatch' = Nobody
  /\ \/ ~poisoned /\ Goes(c, "write") /\ dirty' \in {dirty, TRUE}
        /\ UNCHANGED <<failing, poisoned>>
     \/ Goes(c, "exit") /\ failing' = failing \cup {c}
        /\ poisoned' \in {poisoned, TRUE} /\ UNCHANGED dirty
  /\ UNCHANGED <<WorkerElse, jobs, socketVars, lock, woken, fatal>>

(* The response is written, or the peer is gone, shut down or too slow.     *)
WriteResponse(c) ==
  /\ worker[c] = "write"
  /\ Goes(c, "release")
  /\ UNCHANGED <<WorkerElse, jobs, failing, socketVars, lock, dispatch, woken,
                 storeVars, fatal>>

(* serialized_release_response                                              *)
ReleaseResponse(c) ==
  /\ worker[c] = "release" /\ dispatch = Nobody
  /\ Goes(c, "exit")
  /\ UNCHANGED <<WorkerElse, jobs, failing, socketVars, lock, dispatch, woken,
                 storeVars, fatal>>

(* Faulty: the socket is closed before clients_mutex is taken.              *)
CloseEarly(c) ==
  /\ worker[c] = "exit"
  /\ open' = open \ {c}
  /\ Goes(c, "closing")
  /\ UNCHANGED <<WorkerElse, jobs, failing, named, shut, lock, dispatch, woken,
                 storeVars, fatal>>

(* The worker takes clients_mutex, ...                                      *)
TakeClients(c) ==
  /\ worker[c] = "exit" /\ Unlocked
  /\ lock' = c
  /\ Goes(c, "closing")
  /\ UNCHANGED <<WorkerElse, jobs, failing, socketVars, dispatch, woken,
                 storeVars, fatal>>

(* ... closes its socket, whose number the next open may get, ...           *)
CloseSocket(c) ==
  /\ worker[c] = "closing"
  /\ open' = open \ {c}
  /\ Goes(c, "leaving")
  /\ UNCHANGED <<WorkerElse, jobs, failing, named, shut, lock, dispatch, woken,
                 storeVars, fatal>>

(* Faulty: nobody is told.                                                  *)
LeaveSilently(c) ==
  /\ worker[c] = "leaving"
  /\ named' = named \ {c} /\ jobs' = jobs \ {c}
  /\ fatal' = (fatal \/ c \in failing)
  /\ lock' = Nobody
  /\ Goes(c, "gone")
  /\ UNCHANGED <<WorkerElse, failing, open, shut, dispatch, woken, storeVars>>

(* ... forgets it, reports a fatal failure, unlinks the job, broadcasts     *)
(* clients_idle and unlocks.                                                *)
Leave(c) ==
  /\ worker[c] = "leaving"
  /\ named' = named \ {c} /\ jobs' = jobs \ {c}
  /\ fatal' = (fatal \/ c \in failing)
  /\ woken' = TRUE
  /\ lock' = Nobody
  /\ Goes(c, "gone")
  /\ UNCHANGED <<WorkerElse, failing, open, shut, dispatch, storeVars>>

WorkerStep(c) ==
  \/ ReadRequest(c) \/ ReadNothing(c)
  \/ TakeDispatch(c) \/ EndDispatch(c)
  \/ WriteResponse(c) \/ ReleaseResponse(c)
  \/ TakeClients(c) \/ CloseSocket(c) \/ Leave(c)

Next ==
  \/ \E c \in Conn : Connect(c) \/ SendRequest(c) \/ Vanish(c)
  \/ Signal
  \/ AcceptorStep
  \/ \E c \in Conn : WorkerStep(c)

Spec == Init /\ [][Next]_vars

(* Every thread is scheduled.  A write to a peer that does not read ends    *)
(* only by the I/O timeout or because the socket was shut down.             *)
Fairness ==
  /\ WF_vars(AcceptorStep)
  /\ \A c \in Conn :
       WF_vars(WorkerStep(c) /\ (worker[c] = "write" => timed \/ c \in shut))

FairSpec == Spec /\ Fairness
-----------------------------------------------------------------------------
(* The drain never shuts down a descriptor that its worker has closed: the  *)
(* number may be another file's by then, the log's or the image's included. *)
ShutsOwnSockets == loop = "shut" => (jobs \cap named) \subseteq open

(* compact_while_quiet "runs on the acceptor with no client admitted": no   *)
(* worker holds, waits for or will still use a generation it frees.         *)
CompactsAlone ==
  loop = "compact" => \A c \in Conn : worker[c] \in {"none", "gone"}

(* When the drain is over no worker is left that could use the store, the   *)
(* mutexes or a socket, and every admitted socket is closed.                *)
NoWorkerOutlivesServer ==
  loop = "done" => /\ \A c \in Conn : worker[c] \in {"none", "gone"}
                   /\ open = {} /\ lock = Nobody /\ dispatch = Nobody

(* The sockets and workers of the server's clients, together, while it runs, *)
(* compacts and ends; and there are never more of them than                 *)
(* max_active_clients.                                                      *)
ClientsAreAccounted ==
  /\ ShutsOwnSockets /\ CompactsAlone /\ NoWorkerOutlivesServer
  /\ Cardinality(jobs) <= MaxActive

(* A signal or a fatal failure ends the server, whatever its clients do.    *)
StopEnds == Ending ~> loop = "done"

(* With the I/O timeout every admitted client gives its slot back: a client *)
(* that never sends does not hold it (set_client_io_timeouts).              *)
SlotsAreFreed == \A c \in Conn : (timed /\ c \in jobs) ~> c \notin jobs

(* "A store that stays quiet pays for exactly one replay": quiet long       *)
(* enough, the generation chain is compacted, or the server has ended.      *)
QuietIsCompacted ==
  <>[](jobs = {} /\ backlog = {}) => <>[](~dirty \/ loop = "done")
=============================================================================
