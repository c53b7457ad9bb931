-------------------------------- MODULE MCHost --------------------------------
(* The host operations of the native runtime: files, the lease on a file, FIFOs *)
(* and sockets, children and watches.  They share no state, so a behaviour      *)
(* works with one of them, chosen at the start, and leaves the others alone.    *)
EXTENDS Files, FileLease, Streams, Sockets, Capture, Watch

VARIABLE concern  \* what this behaviour works with

hostVars ==
  <<concern, filesVars, leaseVars, streamsVars, socketsVars, captureVars, watchVars>>

Concern == {"files", "lease", "streams", "sockets", "capture", "watch"}
Settled ==
  /\ concern # "files" => entry = [p \in Path |-> NoFile] /\ inode[1].data = Whole(1)
  /\ concern # "lease" => \A o \in Owner : descriptor[o][0] = Closed
                                            /\ descriptor[o][1] = Closed
  /\ concern # "watch" => \A i \in Places : target[i] = 1

Init ==
  /\ concern \in Concern
  /\ FilesInit /\ FileLeaseInit /\ StreamsInit /\ SocketsInit /\ CaptureInit /\ WatchInit
  /\ Settled

FileSystem ==
  /\ concern = "files" /\ FilesNext
  /\ UNCHANGED <<concern, leaseVars, streamsVars, socketsVars, captureVars, watchVars>>
LeaseOnFile ==
  /\ concern = "lease" /\ FileLeaseNext
  /\ UNCHANGED <<concern, filesVars, streamsVars, socketsVars, captureVars, watchVars>>
MessageStreams ==
  /\ concern = "streams" /\ StreamsNext
  /\ UNCHANGED <<concern, filesVars, leaseVars, socketsVars, captureVars, watchVars>>
SocketOctets ==
  /\ concern = "sockets" /\ SocketsNext
  /\ UNCHANGED <<concern, filesVars, leaseVars, streamsVars, captureVars, watchVars>>

NotCapture ==
  UNCHANGED <<concern, filesVars, leaseVars, streamsVars, socketsVars, watchVars>>
NotWatch ==
  UNCHANGED <<concern, filesVars, leaseVars, streamsVars, socketsVars, captureVars>>
CaptureOfChild == concern = "capture" /\ CaptureNext /\ NotCapture
WaitOnFiles == concern = "watch" /\ WatchNext /\ NotWatch

Next ==
  FileSystem \/ LeaseOnFile \/ MessageStreams \/ SocketOctets \/ CaptureOfChild \/ WaitOnFiles

(* The process that makes a call takes its steps; a child that can write or    *)
(* end does.                                                                   *)
FairSpec ==
  /\ Init /\ [][Next]_hostVars
  /\ WF_hostVars(concern = "capture" /\ CaptureSteps /\ NotCapture)
  /\ WF_hostVars(concern = "capture" /\ KidSteps /\ NotCapture)
  /\ WF_hostVars(concern = "watch" /\ WatchSteps /\ NotWatch)

-----------------------------------------------------------------------------
(* Every message and octet that arrives is part of a whole, in order, once.    *)
MessagesAreWhole == LinesAreMessages /\ WritersKnow /\ OctetsArrive

(* Calls that wait, for a child or for a change, end, with the whole outcome.   *)
HostCallsEnd ==
  []CaptureIsExact /\ []ChangesAreReal /\ CaptureEnds /\ ChangesEndTheWait

(* Two texts of different lengths; lines around the bounds and around PIPE_BUF. *)
MCSize == <<1, 2>>
MCMessage ==
  {[length |-> 0, cr |-> FALSE], [length |-> 1, cr |-> FALSE],
   [length |-> 2, cr |-> TRUE], [length |-> 3, cr |-> FALSE]}
MCOutputs ==
  {[out |-> 3, err |-> 2, text |-> TRUE], [out |-> 0, err |-> 4, text |-> TRUE],
   [out |-> 2, err |-> 2, text |-> FALSE]}
MCWatched == <<"a", "b">>
=============================================================================
