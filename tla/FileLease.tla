------------------------------ MODULE FileLease ------------------------------
(* The lease of native-core/shim/native_shim.c on a file: an exclusive flock on *)
(* the open file, not on the process, taken and given back by number of a       *)
(* descriptor.  A process may have started with standard descriptors closed,    *)
(* may fork a child that shares its open files until it executes a program, and *)
(* may die.  The kernel is external: descriptors, open files and their lock.    *)
EXTENDS Integers, Sequences

CONSTANTS
  Owner,     \* the processes that want the lease
  LastFd,    \* bound: the largest descriptor number
  MaxOpens   \* bound: times the file is opened

ASSUME FileLeaseAssumption == LastFd \in Nat

VARIABLES
  descriptor,  \* of each process: the open file behind each descriptor
  child,       \* of each process: the open files its child shares, if it has one
  flocked,     \* the open file that has the lock, 0 for none
  opener,      \* the process each open file was opened by
  owner        \* what each process is doing, and the descriptor it was granted

leaseVars == <<descriptor, child, flocked, opener, owner>>

Closed == 0
Standard == -1      \* an open file that is not of interest
LastStandardFd == 2 \* STDERR_FILENO
Fds == 0..LastFd
NoChild == {Standard}
Ungranted == -1
Lowest(fds) == CHOOSE n \in fds : \A m \in fds : n <= m
Free(o, from) == {n \in Fds : n >= from /\ descriptor[o][n] = Closed}
Outside == [at |-> "idle", fd |-> 0, granted |-> Ungranted]

FileLeaseInit ==
  /\ descriptor \in [Owner -> {[n \in Fds |-> IF n \in open THEN Standard ELSE Closed] :
                                 open \in {{}, {1, 2}, 0..LastStandardFd}}]
  /\ child = [o \in Owner |-> NoChild]
  /\ flocked = Closed /\ opener = <<>>
  /\ owner = [o \in Owner |-> Outside]

(* The lock goes with the last descriptor of the open file.                    *)
StillOpen(files, kids) ==
  UNION {{files[o][n] : n \in Fds} : o \in Owner} \cup UNION {kids[o] : o \in Owner}
Kept(lock, files, kids) == IF lock \in StillOpen(files, kids) THEN lock ELSE Closed

CloseFd(o, fd) == descriptor' = [descriptor EXCEPT ![o][fd] = Closed]

-----------------------------------------------------------------------------
(* native_host_filesystem_lock_exclusive_v0.                                   *)
OpenFile(o) ==
  /\ owner[o].at = "idle" /\ Len(opener) < MaxOpens /\ Free(o, 0) # {}
  /\ LET fd == Lowest(Free(o, 0))
     IN  /\ descriptor' = [descriptor EXCEPT ![o][fd] = Len(opener) + 1]
         /\ owner' = [owner EXCEPT ![o].fd = fd,
                        ![o].at = IF fd <= LastStandardFd THEN "low" ELSE "open"]
  /\ opener' = Append(opener, o)
  /\ UNCHANGED <<child, flocked>>

(* Unlock refuses a standard descriptor: the lease gets another.               *)
MoveUp(o) ==
  LET fd == owner[o].fd
  IN  /\ owner[o].at = "low"
      /\ IF Free(o, LastStandardFd + 1) = {}
           THEN CloseFd(o, fd) /\ owner' = [owner EXCEPT ![o].at = "idle"]
           ELSE LET higher == Lowest(Free(o, LastStandardFd + 1))
                IN  /\ descriptor' = [descriptor EXCEPT ![o][higher] = descriptor[o][fd],
                                                        ![o][fd] = Closed]
                    /\ owner' = [owner EXCEPT ![o].fd = higher, ![o].at = "open"]
      /\ UNCHANGED <<child, flocked, opener>>

(* flock without waiting: granted, or closed again and EAGAIN.                 *)
Lock(o) ==
  LET fd == owner[o].fd
  IN  /\ owner[o].at = "open"
      /\ IF flocked = Closed
           THEN /\ flocked' = descriptor[o][fd]
                /\ owner' = [owner EXCEPT ![o].at = "idle", ![o].granted = fd]
                /\ UNCHANGED descriptor
           ELSE /\ CloseFd(o, fd)
                /\ owner' = [owner EXCEPT ![o].at = "idle"]
                /\ UNCHANGED flocked
      /\ UNCHANGED <<child, opener>>

-----------------------------------------------------------------------------
(* native_host_filesystem_unlock_v0: the lock first, then the descriptor.      *)
(* Faulty: closing the descriptor is thought to be enough.                     *)
LockLeft(file) == flocked
LockGiven(file) == IF flocked = file THEN Closed ELSE flocked
Unlock(o) ==
  LET fd == owner[o].granted
  IN  /\ owner[o].at = "idle" /\ fd > LastStandardFd
      /\ flocked' = LockGiven(descriptor[o][fd])
      /\ owner' = [owner EXCEPT ![o] = [at |-> "closing", fd |-> fd, granted |-> Ungranted]]
      /\ UNCHANGED <<descriptor, child, opener>>
CloseLease(o) ==
  /\ owner[o].at = "closing"
  /\ CloseFd(o, owner[o].fd)
  /\ flocked' = Kept(flocked, descriptor', child)
  /\ owner' = [owner EXCEPT ![o].at = "idle"]
  /\ UNCHANGED <<child, opener>>

-----------------------------------------------------------------------------
(* The world of processes.                                                     *)
Fork(o) ==
  /\ child[o] = NoChild /\ owner[o].at # "dead"
  /\ child' = [child EXCEPT ![o] = {descriptor[o][n] : n \in Fds} \ {Standard, Closed}]
  /\ UNCHANGED <<descriptor, flocked, opener, owner>>
(* The child executes a program, which closes the lease's descriptor (it was   *)
(* opened O_CLOEXEC), or dies.                                                 *)
EndChild(o) ==
  /\ child[o] # NoChild
  /\ child' = [child EXCEPT ![o] = NoChild]
  /\ flocked' = Kept(flocked, descriptor, child')
  /\ UNCHANGED <<descriptor, opener, owner>>
Perish(o) ==
  /\ owner[o].at # "dead"
  /\ descriptor' = [descriptor EXCEPT ![o] = [n \in Fds |-> Closed]]
  /\ flocked' = Kept(flocked, descriptor', child)
  /\ owner' = [owner EXCEPT ![o] = [Outside EXCEPT !.at = "dead"]]
  /\ UNCHANGED <<child, opener>>

FileLeaseNext ==
  \E o \in Owner :
    \/ OpenFile(o) \/ MoveUp(o) \/ Lock(o) \/ Unlock(o) \/ CloseLease(o)
    \/ Fork(o) \/ EndChild(o) \/ Perish(o)
FileLeaseSpec == FileLeaseInit /\ [][FileLeaseNext]_leaseVars

-----------------------------------------------------------------------------
(* Nobody is granted the lease while somebody else has it; a lease that has     *)
(* been granted is held and can be given back; and once it has been given back  *)
(* it is free, even while a child that shares the open file lives: only a dead  *)
(* owner's child can still keep it from the others.                            *)
LeaseIsExclusive ==
  /\ \A o \in Owner :
       owner[o].granted # Ungranted =>
         /\ flocked # Closed /\ flocked = descriptor[o][owner[o].granted]
         /\ owner[o].granted > LastStandardFd
  /\ \A o, q \in Owner :
       owner[o].granted # Ungranted /\ owner[q].granted # Ungranted => o = q
  /\ flocked # Closed =>
       LET o == opener[flocked]
       IN  owner[o].granted # Ungranted \/ owner[o].at = "dead"
=============================================================================
