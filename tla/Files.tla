-------------------------------- MODULE Files --------------------------------
(* Files as native-core/shim/native_shim.c writes and reads them: a text is    *)
(* replaced through a temporary sibling, read up to a bound, appended to and,   *)
(* as octets, appended durably.  Processes run at the same time, die anywhere,  *)
(* and the power may fail.  A call of the system moves one unit of a text, or   *)
(* fails.  The file system itself is external: inodes, of which a prefix is on  *)
(* the disk, and a directory whose changes reach the disk later, in order.      *)
EXTENDS Integers, Sequences, FiniteSets

CONSTANTS
  Program,    \* the processes
  Path,       \* the paths they replace and read
  Size,       \* the texts, each with its length
  FirstRoom,  \* the capacity a read starts with, 4096
  Bounds,     \* the bounds of the reads
  MaxCalls,   \* bound: calls made
  MaxLosses   \* bound: power failures

ASSUME FilesAssumption == Size \in Seq(Nat) /\ FirstRoom \in Nat /\ Bounds \subseteq Nat

VARIABLES
  inode,      \* every inode: its data, and how much of it is on the disk
  entry,      \* the directory: the inode of each path, 0 for none
  past,       \* the directories the disk may hold
  temporary,  \* the temporary sibling of each process, 0 for none
  journal,    \* the file that is appended to
  program,    \* what each process is doing, and what its last call returned
  calls,      \* calls made so far
  losses      \* power failures so far

filesVars == <<inode, entry, past, temporary, journal, program, calls, losses>>

Texts == DOMAIN Size
Whole(t) == [i \in 1..Size[t] |-> t]
NoFile == 0
Smaller2(a, b) == IF a < b THEN a ELSE b

(* at: where the call is; id: the call; text: what it writes; inode: the file  *)
(* it has open; the buffer of a read with its bound and capacity; result.      *)
Quiet ==
  [at |-> "idle", id |-> 0, path |-> NoFile, text |-> NoFile, inode |-> NoFile,
   done |-> 0, buffer |-> <<>>, capacity |-> 0, bound |-> 0, result |-> "none"]

(* A text may have been there, on the disk, before the processes start.        *)
FilesInit ==
  /\ \E t \in Texts : inode = <<[data |-> Whole(t), synced |-> Size[t]]>>
  /\ entry \in [Path -> {NoFile, 1}] /\ past = {entry}
  /\ temporary = [g \in Program |-> NoFile]
  /\ journal = [data |-> <<>>, synced |-> 0]
  /\ program = [g \in Program |-> Quiet]
  /\ calls = 0 /\ losses = 0

disk == <<inode, entry, past, temporary, journal>>
Returns(g, result) ==
  program' = [program EXCEPT ![g].at = "idle", ![g].result = result]
Goes(g, at) == program' = [program EXCEPT ![g].at = at]
Relink(directory) == entry' = directory /\ past' = past \cup {directory}

Call(g, call) ==
  /\ program[g].at = "idle" /\ calls < MaxCalls
  /\ calls' = calls + 1
  /\ program' = [program EXCEPT ![g] = [call EXCEPT !.id = calls + 1]]
  /\ UNCHANGED <<disk, losses>>

-----------------------------------------------------------------------------
(* native_host_filesystem_write_text_atomic_v0.  Every failure closes and      *)
(* unlinks the sibling.                                                        *)
WriteText(g, p, t) == Call(g, [Quiet EXCEPT !.at = "make", !.path = p, !.text = t])

Make(g) ==
  /\ program[g].at = "make"
  /\ \/ /\ inode' = Append(inode, [data |-> <<>>, synced |-> 0])
        /\ temporary' = [temporary EXCEPT ![g] = Len(inode) + 1]
        /\ Goes(g, "write")
     \/ Returns(g, "error") /\ UNCHANGED <<inode, temporary>>
  /\ UNCHANGED <<entry, past, journal, calls, losses>>

(* The sibling is unlinked; if that fails too it stays behind, as it does when *)
(* the process dies, under a name nobody uses again.                           *)
WriteFails(g) ==
  /\ program[g].at \in {"write", "sync", "rename"}
  /\ temporary' = [temporary EXCEPT ![g] = NoFile]
  /\ Returns(g, "error")
  /\ UNCHANGED <<inode, entry, past, journal, calls, losses>>

Write(g) ==
  LET call == program[g]
      file == temporary[g]
  IN  /\ call.at = "write"
      /\ IF call.done < Size[call.text]
           THEN /\ inode' = [inode EXCEPT ![file].data = Append(@, call.text)]
                /\ program' = [program EXCEPT ![g].done = @ + 1]
           ELSE Goes(g, "sync") /\ UNCHANGED inode
      /\ UNCHANGED <<entry, past, temporary, journal, calls, losses>>

(* Faulty: the file is not forced to the disk.                                 *)
NotSynced(file) == file
Synced(file) == [file EXCEPT !.synced = Len(file.data)]
Sync(g) ==
  /\ program[g].at = "sync"
  /\ inode' = [inode EXCEPT ![temporary[g]] = Synced(@)]
  /\ Goes(g, "rename")
  /\ UNCHANGED <<entry, past, temporary, journal, calls, losses>>

Replace(g) ==
  /\ program[g].at = "rename"
  /\ Relink([entry EXCEPT ![program[g].path] = temporary[g]])
  /\ temporary' = [temporary EXCEPT ![g] = NoFile]
  /\ Returns(g, "ok")
  /\ UNCHANGED <<inode, journal, calls, losses>>

(* native_host_filesystem_rename_file_v0 and ..._remove_file_v0.               *)
RenameFile(from, to) ==
  /\ entry[from] # NoFile /\ calls < MaxCalls
  /\ Relink([entry EXCEPT ![to] = entry[from], ![from] = NoFile])
  /\ calls' = calls + 1
  /\ UNCHANGED <<inode, temporary, journal, program, losses>>
RemoveFile(p) ==
  /\ entry[p] # NoFile /\ calls < MaxCalls
  /\ Relink([entry EXCEPT ![p] = NoFile])
  /\ calls' = calls + 1
  /\ UNCHANGED <<inode, temporary, journal, program, losses>>

-----------------------------------------------------------------------------
(* native_host_filesystem_read_text_bounded_v0, ..._read_byte_source_bounded_  *)
(* or_die_v0, and native_host_stdin_read_text_bounded_v0, which starts without  *)
(* any room.  Each pass reads what there is room for, makes more room, or, when *)
(* the room is the bound, asks for one unit more.                              *)
ReadText(g, p, bound, room) ==
  Call(g, [Quiet EXCEPT !.at = "open", !.path = p, !.bound = bound,
                        !.capacity = Smaller2(bound, room)])

OpenToRead(g) ==
  LET file == entry[program[g].path]
  IN  /\ program[g].at = "open"
      /\ IF file = NoFile THEN Returns(g, "error")
         ELSE program' = [program EXCEPT ![g].at = "read", ![g].inode = file]
      /\ UNCHANGED <<disk, calls, losses>>

GoesOn(data, length) == length < Len(data)

MoreRoom(call) ==
  [call EXCEPT !.capacity = IF @ = 0 THEN Smaller2(1, call.bound)
                            ELSE Smaller2(2 * @, call.bound)]
ReadOn(g) ==
  LET call == program[g]
      data == inode[call.inode].data
      length == Len(call.buffer)
  IN  /\ call.at = "read"
      /\ IF length = call.capacity /\ call.capacity # call.bound
           THEN program' = [program EXCEPT ![g] = MoreRoom(call)]
         ELSE IF length = call.capacity
           THEN Returns(g, IF GoesOn(data, length) THEN "toobig" ELSE "ok")
         ELSE IF length = Len(data) THEN Returns(g, "ok")
         ELSE \E n \in length + 1 .. Smaller2(call.capacity, Len(data)) :
                program' = [program EXCEPT ![g].buffer = SubSeq(data, 1, n)]
      /\ UNCHANGED <<disk, calls, losses>>

-----------------------------------------------------------------------------
(* native_host_filesystem_append_text_v0, and ..._append_bytes_v0, which syncs.*)
AppendTo(g, t, durably) ==
  Call(g, [Quiet EXCEPT !.at = "append", !.text = t,
                        !.bound = IF durably THEN 1 ELSE 0])
AppendUnit(g) ==
  LET call == program[g]
  IN  /\ call.at = "append" /\ call.done < Size[call.text]
      /\ journal' = [journal EXCEPT !.data = Append(@, call.id)]
      /\ program' = [program EXCEPT ![g].done = @ + 1]
      /\ UNCHANGED <<inode, entry, past, temporary, calls, losses>>
EndAppend(g) ==
  LET call == program[g]
  IN  /\ call.at = "append" /\ call.done = Size[call.text]
      /\ journal' = IF call.bound = 1 THEN Synced(journal) ELSE journal
      /\ Returns(g, IF call.bound = 1 THEN "durable" ELSE "ok")
      /\ UNCHANGED <<inode, entry, past, temporary, calls, losses>>

CallFails(g) ==
  /\ program[g].at \in {"read", "append"}
  /\ Returns(g, "error")
  /\ UNCHANGED <<disk, calls, losses>>

-----------------------------------------------------------------------------
(* A process dies: its files are closed, its sibling stays behind.             *)
Die(g) ==
  /\ program[g].at # "idle"
  /\ program' = [program EXCEPT ![g] = Quiet]
  /\ temporary' = [temporary EXCEPT ![g] = NoFile]
  /\ UNCHANGED <<inode, entry, past, journal, calls, losses>>

(* The power fails: what is left of every file begins with what was synced,    *)
(* and the directory is one the disk may hold.                                 *)
Left(file) == {SubSeq(file.data, 1, n) : n \in file.synced .. Len(file.data)}
LosePower ==
  /\ losses < MaxLosses
  /\ losses' = losses + 1
  /\ \E directory \in past : entry' = directory /\ past' = {directory}
  /\ \E keep \in BOOLEAN :
       inode' = [i \in DOMAIN inode |->
                   [inode[i] EXCEPT
                      !.data = IF keep THEN @ ELSE SubSeq(@, 1, inode[i].synced)]]
  /\ \E rest \in Left(journal) : journal' = [data |-> rest, synced |-> Len(rest)]
  /\ program' = [g \in Program |->
                   IF program[g].result = "durable" THEN program[g] ELSE Quiet]
  /\ temporary' = [g \in Program |-> NoFile]
  /\ UNCHANGED calls

FilesNext ==
  \/ \E g \in Program :
       \/ \E p \in Path :
            \/ \E t \in Texts : WriteText(g, p, t)
            \/ \E bound \in Bounds, room \in {0, FirstRoom} : ReadText(g, p, bound, room)
       \/ \E t \in Texts, durably \in BOOLEAN : AppendTo(g, t, durably)
       \/ Make(g) \/ Write(g) \/ Sync(g) \/ Replace(g) \/ WriteFails(g)
       \/ OpenToRead(g) \/ ReadOn(g) \/ AppendUnit(g) \/ EndAppend(g)
       \/ CallFails(g) \/ Die(g)
  \/ \E from, to \in Path : from # to /\ RenameFile(from, to)
  \/ \E p \in Path : RemoveFile(p)
  \/ LosePower

FilesSpec == FilesInit /\ [][FilesNext]_filesVars

-----------------------------------------------------------------------------
(* A path holds nothing or one whole text, whoever writes it at the same time,  *)
(* whoever dies and whenever the power fails.                                   *)
PathsHoldWholeTexts ==
  \A p \in Path : entry[p] # NoFile => \E t \in Texts : inode[entry[p]].data = Whole(t)

(* A read returns the whole text of one moment, or refuses it, and it refuses   *)
(* exactly the texts that are longer than its bound: never a truncated one.     *)
(* (native_shim.h: the readers never return a truncated Text.)                  *)
ReadsAreWhole ==
  \A g \in Program :
    program[g].inode # NoFile /\ program[g].result # "none" =>
      LET data == inode[program[g].inode].data
      IN  /\ program[g].result = "ok" => program[g].buffer = data
          /\ program[g].result = "toobig" => Len(data) > program[g].bound
          /\ program[g].result = "ok" => Len(data) <= program[g].bound

(* Octets whose append was confirmed are on the disk, all of them and once,     *)
(* whoever appends at the same time and whenever the power fails.               *)
ConfirmedIsOnDisk ==
  \A g \in Program :
    program[g].result = "durable" =>
      Cardinality({i \in 1..journal.synced : journal.data[i] = program[g].id})
        = Size[program[g].text]

(* The three together.                                                          *)
FilesAreWhole == PathsHoldWholeTexts /\ ReadsAreWhole /\ ConfirmedIsOnDisk
=============================================================================
