-------------------------------- MODULE Watch --------------------------------
(* native_host_filesystem_wait_for_change_v0 of native-core/shim/native_shim.c: *)
(* one call adds a watch for each path and waits until one of them is changed.  *)
(* Files and inotify's queue of events are external: two paths may name one     *)
(* file, which has one watch; the queue is bounded and says when it lost some.  *)
EXTENDS Integers, Sequences

CONSTANTS
  Watched,      \* the paths, as a sequence
  QueueRoom,    \* events the kernel queues
  MaxChanges,   \* bound: changes
  MaxWaits      \* bound: calls

VARIABLES
  target,   \* the file of each path, 0 for none
  changed,  \* times each file was changed
  watch,    \* the call: where it is, its watches, the paths changed when added
  events,   \* the queue: files, or Lost
  waits     \* calls so far

watchVars == <<target, changed, watch, events, waits>>

Lost == 0
Places == DOMAIN Watched
NoWatch == [at |-> "idle", watches |-> <<>>, since |-> <<>>, found |-> 0, result |-> 0]

WatchInit ==
  /\ target \in [Places -> {1, 2}]
  /\ changed = <<0, 0>> /\ watch = NoWatch /\ events = <<>> /\ waits = 0

WaitForChange ==
  /\ watch.at = "idle" /\ waits < MaxWaits
  /\ watch' = [NoWatch EXCEPT !.at = "add"]
  /\ events' = <<>> /\ waits' = waits + 1
  /\ UNCHANGED <<target, changed>>

(* A path that names nothing ends the call.                                     *)
AddWatch ==
  LET i == Len(watch.watches) + 1
  IN  /\ watch.at = "add" /\ i \in Places
      /\ watch' = IF target[i] = 0 THEN [watch EXCEPT !.at = "idle", !.result = -1]
                  ELSE [watch EXCEPT !.watches = Append(@, target[i]),
                                     !.since = Append(@, changed[target[i]])]
      /\ UNCHANGED <<target, changed, events, waits>>
PollWatch ==
  /\ watch.at = "add" /\ Len(watch.watches) = Len(Watched)
  /\ events # <<>>
  /\ watch' = [watch EXCEPT !.at = "read"]
  /\ UNCHANGED <<target, changed, events, waits>>

(* The first path with the watch of the event; the first of all when lost.      *)
Place(event) ==
  IF event = Lost THEN 1
  ELSE CHOOSE i \in Places : /\ watch.watches[i] = event
                             /\ \A j \in 1..i - 1 : watch.watches[j] # event
ReadEvents ==
  /\ watch.at = "read" /\ events # <<>>
  /\ \E n \in DOMAIN events :
       /\ events' = SubSeq(events, n + 1, Len(events))
       /\ watch' = [watch EXCEPT !.found = IF @ = 0 THEN Place(events[1]) ELSE @]
  /\ UNCHANGED <<target, changed, waits>>
EndWait ==
  /\ watch.at = "read" /\ events = <<>>
  /\ watch' = [watch EXCEPT !.at = "idle", !.result = watch.found]
  /\ UNCHANGED <<target, changed, events, waits>>

(* A change of a watched file is queued, or the loss of it is.                  *)
Queued(file) ==
  IF ~\E i \in DOMAIN watch.watches : watch.watches[i] = file THEN events
  ELSE IF Len(events) < QueueRoom THEN Append(events, file)
  ELSE IF events[Len(events)] = Lost THEN events
  ELSE Append(events, Lost)
ChangeFile(file) ==
  /\ changed[1] + changed[2] < MaxChanges
  /\ changed' = [changed EXCEPT ![file] = @ + 1]
  /\ events' = IF watch.at = "idle" THEN events ELSE Queued(file)
  /\ UNCHANGED <<target, watch, waits>>
(* A path is removed: its file is changed.                                      *)
RemovePath(i) ==
  /\ target[i] # 0 /\ changed[1] + changed[2] < MaxChanges
  /\ target' = [target EXCEPT ![i] = 0]
  /\ changed' = [changed EXCEPT ![target[i]] = @ + 1]
  /\ events' = IF watch.at = "idle" THEN events ELSE Queued(target[i])
  /\ UNCHANGED <<watch, waits>>

WatchSteps == AddWatch \/ PollWatch \/ ReadEvents \/ EndWait
WatchNext ==
  \/ WaitForChange \/ WatchSteps
  \/ \E file \in {1, 2} : ChangeFile(file)
  \/ \E i \in Places : RemovePath(i)
WatchSpec == WatchInit /\ [][WatchNext]_watchVars

-----------------------------------------------------------------------------
(* The path a call names was changed after its watch was added, or the kernel   *)
(* lost events of some path that was.                                           *)
ChangesAreReal ==
  watch.result > 0 =>
    \/ changed[watch.watches[watch.result]] > watch.since[watch.result]
    \/ \E i \in Places : changed[watch.watches[i]] > watch.since[i] + 1

(* A change after the watch of its path was added ends the call.                *)
ChangesEndTheWait ==
  \A i \in Places :
    (i \in DOMAIN watch.watches /\ changed[watch.watches[i]] > watch.since[i])
      ~> (watch.at = "idle")
=============================================================================
