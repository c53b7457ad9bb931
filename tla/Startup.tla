------------------------------ MODULE Startup ------------------------------
(* Programs that open the store on one log: servers, which first take the     *)
(* writer authority on a file beside the log, and embedders, which do not.    *)
(* Both lock the log and its snapshot while they have them open, read the     *)
(* whole log, cut off a torn tail, and append.  Any step may fail and end the *)
(* opening; a program may be killed, which releases its locks.                *)
EXTENDS Integers, Sequences, FiniteSets

CONSTANTS
  Opener,      \* the programs
  Settings,    \* the settings a server may be started with
  MaxStarts,   \* bound: openings over all programs
  MaxRecords   \* bound: records ever written

VARIABLES
  program,     \* program[p]: [pc, kind, settings, listener, seen]
  sidecar,     \* who has the fcntl lock on <log>.writer-authority.lock
  logLock, snapshotLock,  \* who has the flock on the log, and on the snapshot
  log,         \* [records, torn]: whole records, and whether a part follows
  answered,    \* the records whose writing was answered
  starts, written

startupVars == <<program, sidecar, logLock, snapshotLock, log, answered, starts, written>>

NoProgram == "nobody"
ASSUME OpenerAssumption == NoProgram \notin Opener
NoListener == [stream |-> FALSE, listening |-> FALSE, family |-> "none",
               address |-> "none", port |-> 0]
Ended == [pc |-> "ended", kind |-> "none", settings |-> NoListener,
          listener |-> NoListener, seen |-> 0]

StartupInit ==
  /\ program = [p \in Opener |-> Ended]
  /\ sidecar = NoProgram /\ logLock = NoProgram /\ snapshotLock = NoProgram
  /\ log = [records |-> <<>>, torn |-> FALSE]
  /\ answered = {} /\ starts = 0 /\ written = 0

Proceeds(p, pc) == program' = [program EXCEPT ![p].pc = pc]
Locks == <<sidecar, logLock, snapshotLock>>
LogState == <<log, answered, written>>

-----------------------------------------------------------------------------
(* What a server is told: an argument wins over the environment, and the name *)
(* of the admission limit over its older name; what is overridden is not      *)
(* looked at.  A value that cannot be used ends the start.                    *)

Wins(first, second) == IF first # "unset" THEN first ELSE second
Usable(s) ==
  /\ Wins(s.portArgument, s.portVariable) # "bad"
  /\ Wins(s.maxActive, s.workers) # "bad"
  /\ "bad" \notin {s.timeout, s.budget, s.bind, s.role}
  /\ s.tls = "unset"

(* The address and port the server must listen on.                            *)
Address(s) == IF s.bind = "any" THEN "any" ELSE "loopback"
Wanted(s) == [stream |-> TRUE, listening |-> TRUE, family |-> "inet",
               address |-> Address(s), port |-> s.port]

(* A listener the server inherits must be what it would have created; a       *)
(* loopback of the other address family does for the default binding only.    *)
AddressFits(s, socket) ==
  \/ socket.family = "inet" /\ socket.address = Address(s)
  \/ socket.family = "inet6" /\ s.bind = "unset" /\ socket.address = "loopback"
Fits(s, socket) ==
  socket.stream /\ socket.listening /\ AddressFits(s, socket) /\ socket.port = s.port

-----------------------------------------------------------------------------
(* Starting a server: main and acquire_writer_authority.                      *)

Start(p) ==
  /\ program[p].pc = "ended" /\ starts < MaxStarts
  /\ starts' = starts + 1
  /\ \/ program' = [program EXCEPT ![p] = [Ended EXCEPT !.pc = "openLog", !.kind = "library"]]
     \/ \E s \in Settings :
          program' = IF Usable(s)
                     THEN [program EXCEPT ![p] = [Ended EXCEPT !.pc = "authority",
                                                    !.kind = "server", !.settings = s]]
                     ELSE program
  /\ UNCHANGED <<Locks, LogState>>

(* The log is made if there is none; the lock file is opened, never through a *)
(* symbolic link, and locked by fcntl.                                        *)
TakeAuthority(p) ==
  /\ program[p].pc = "authority" /\ sidecar = NoProgram
  /\ sidecar' = p
  /\ Proceeds(p, "openLog")
  /\ UNCHANGED <<logLock, snapshotLock, LogState, starts>>
(* Another server has it, or a file is not what it should be.                 *)
NoAuthority(p) ==
  /\ program[p].pc = "authority"
  /\ program' = [program EXCEPT ![p] = Ended]
  /\ UNCHANGED <<Locks, LogState, starts>>

-----------------------------------------------------------------------------
(* store_boot: the log and the snapshot are opened and locked without waiting.*)
(* An opening that fails closes what it opened before; closing unlocks.       *)

OpensAnyway(p, lock) == TRUE  \* mutant
MayLock(p, lock) == lock = NoProgram
OpenLog(p) ==
  /\ program[p].pc = "openLog" /\ MayLock(p, logLock)
  /\ logLock' = p
  /\ Proceeds(p, "openSnapshot")
  /\ UNCHANGED <<sidecar, snapshotLock, LogState, starts>>
OpenSnapshot(p) ==
  /\ program[p].pc = "openSnapshot" /\ MayLock(p, snapshotLock)
  /\ snapshotLock' = p
  /\ Proceeds(p, "read")
  /\ UNCHANGED <<sidecar, logLock, LogState, starts>>

(* boot_with_host: the whole log and image are read and give a generation;    *)
(* the log is cut back to the part that was read as valid; a new log gets its *)
(* first record; everything is synced.  A log with only a part of its first   *)
(* record is refused, by this and every later boot.                           *)
ReadLog(p) ==
  /\ program[p].pc = "read"
  /\ log.torn => log.records # <<>>
  /\ program' = [program EXCEPT ![p].pc = "repair", ![p].seen = Len(log.records)]
  /\ UNCHANGED <<Locks, LogState, starts>>
RepairTail(p) ==
  /\ program[p].pc = "repair"
  /\ log' = [records |-> SubSeq(log.records, 1, program[p].seen), torn |-> FALSE]
  /\ Proceeds(p, IF program[p].seen = 0 THEN "first" ELSE "sync")
  /\ UNCHANGED <<Locks, answered, written, starts>>
WriteFirst(p) ==
  /\ program[p].pc = "first"
  /\ \/ log' = [log EXCEPT !.records = Append(@, 0)] /\ Proceeds(p, "sync")
     \/ log' = [log EXCEPT !.torn = TRUE] /\ Proceeds(p, "undo")
  /\ UNCHANGED <<Locks, answered, written, starts>>
SyncBoot(p) ==
  /\ program[p].pc = "sync"
  /\ Proceeds(p, IF program[p].kind = "server" THEN "listen" ELSE "serving")
  /\ UNCHANGED <<Locks, LogState, starts>>

(* What a failure on the way undoes: the storages, and a server's authority.  *)
Without(p, holder) == IF holder = p THEN NoProgram ELSE holder
ReleaseAll(p) ==
  /\ sidecar' = Without(p, sidecar)
  /\ snapshotLock' = Without(p, snapshotLock)
  /\ logLock' = Without(p, logLock)
OpeningFails(p) ==
  /\ program[p].pc \in {"openLog", "openSnapshot", "read", "repair", "first", "sync", "undo"}
  /\ ReleaseAll(p)
  /\ program' = [program EXCEPT ![p] = Ended]
  /\ UNCHANGED <<LogState, starts>>

-----------------------------------------------------------------------------
(* A server listens, or shuts the store down again; READY is said only then.  *)

Listen(p) ==
  LET s == program[p].settings
  IN  /\ program[p].pc = "listen"
      /\ \/ /\ s.inherited = NoListener
            /\ program' = [program EXCEPT ![p].pc = "serving", ![p].listener = Wanted(s)]
         \/ /\ s.inherited # NoListener /\ Fits(s, s.inherited)
            /\ program' = [program EXCEPT ![p].pc = "serving", ![p].listener = s.inherited]
         \/ Proceeds(p, "closing")
      /\ UNCHANGED <<Locks, LogState, starts>>

(* A record is appended, synced and answered; one that is appended only in    *)
(* part poisons the store, which then writes no more.                         *)
Write(p) ==
  /\ program[p].pc = "serving" /\ written < MaxRecords
  /\ written' = written + 1
  /\ \/ /\ log' = [log EXCEPT !.records = Append(@, written')]
        /\ answered' = answered \cup {written'}
        /\ UNCHANGED program
     \/ /\ log' = [log EXCEPT !.torn = TRUE]
        /\ Proceeds(p, "poisoned")
        /\ UNCHANGED answered
  /\ UNCHANGED <<Locks, starts>>
Stop(p) ==
  /\ program[p].pc \in {"serving", "poisoned"}
  /\ Proceeds(p, "closing")
  /\ UNCHANGED <<Locks, LogState, starts>>

(* The listener is closed; the shutdown syncs and closes log and snapshot,    *)
(* whatever fails; the authority is the last to go.                           *)
CloseStore(p) ==
  /\ program[p].pc = "closing"
  /\ logLock' = Without(p, logLock) /\ snapshotLock' = Without(p, snapshotLock)
  /\ program' = [program EXCEPT ![p].pc = "closed", ![p].listener = NoListener]
  /\ UNCHANGED <<sidecar, LogState, starts>>
ReleaseAuthority(p) ==
  /\ program[p].pc = "closed"
  /\ ReleaseAll(p)
  /\ program' = [program EXCEPT ![p] = Ended]
  /\ UNCHANGED <<LogState, starts>>

(* The system releases the locks of a program that is killed; a record it was *)
(* writing may be left in part.                                               *)
Kill(p) ==
  /\ program[p].pc # "ended"
  /\ sidecar' = Without(p, sidecar) /\ snapshotLock' = Without(p, snapshotLock)
  /\ logLock' = Without(p, logLock)
  /\ log' \in IF program[p].pc \in {"first", "serving"} THEN {log, [log EXCEPT !.torn = TRUE]} ELSE {log}
  /\ program' = [program EXCEPT ![p] = Ended]
  /\ UNCHANGED <<answered, written, starts>>

StartupNext ==
  \E p \in Opener :
    \/ Start(p) \/ TakeAuthority(p) \/ NoAuthority(p)
    \/ OpenLog(p) \/ OpenSnapshot(p) \/ ReadLog(p) \/ RepairTail(p) \/ WriteFirst(p)
    \/ SyncBoot(p) \/ OpeningFails(p) \/ Listen(p) \/ Write(p) \/ Stop(p)
    \/ CloseStore(p) \/ ReleaseAuthority(p) \/ Kill(p)

StartupSpec == StartupInit /\ [][StartupNext]_startupVars

-----------------------------------------------------------------------------
(* From the reading of the log to its closing, no other program changes it:   *)
(* neither its records nor the tail a repair is about to cut.                 *)
Changing == {"read", "repair", "first", "undo", "sync", "listen", "serving", "poisoned", "closing"}
OneWriter ==
  Cardinality({p \in Opener : program[p].pc \in Changing}) <= 1

(* No repair cuts off a record that was answered, and none is appended after  *)
(* the part of a record.                                                      *)
AnsweredStay ==
  /\ \A n \in answered : \E i \in DOMAIN log.records : log.records[i] = n
  /\ \A p \in Opener : program[p].pc \in {"sync", "listen", "serving"} => ~log.torn

(* An opening that failed or a program that ended holds no lock: the next one *)
(* can open.  A program that holds the log as a server has the authority too. *)
LocksAreReturned ==
  \A p \in Opener :
    /\ program[p].pc = "ended" => p \notin {sidecar, logLock, snapshotLock}
    /\ program[p].kind = "server" /\ p \in {logLock, snapshotLock} => sidecar = p

(* A server that serves listens at the address and port it was told.          *)
ServesWhereTold ==
  \A p \in Opener :
    (program[p].pc = "serving" /\ program[p].kind = "server") =>
      LET s == program[p].settings
          socket == program[p].listener
      IN  /\ Usable(s)
          /\ socket.listening /\ socket.port = s.port /\ socket.address = Address(s)

OpeningIsExclusive == OneWriter /\ AnsweredStay /\ LocksAreReturned /\ ServesWhereTold
=============================================================================
