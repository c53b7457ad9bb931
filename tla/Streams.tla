------------------------------- MODULE Streams -------------------------------
(* Messages through a FIFO as native-core/shim/native_shim.c sends and reads   *)
(* them.  Any number of processes write lines without blocking, under a        *)
(* deadline; one reads them unit by unit, with or without a deadline.  The     *)
(* kernel's pipe is external: a write of at most PIPE_BUF is all or nothing, a *)
(* longer one may be cut.  Deadlines may expire whenever they are looked at.   *)
EXTENDS Integers, Sequences

CONSTANTS
  Writer,      \* the processes that write
  Message,     \* the texts: [length, cr], the length without the line feed
  PipeBuf,     \* PIPE_BUF
  PipeRoom,    \* the capacity of the pipe, at least PIPE_BUF
  LineBounds,  \* the bounds of the reads
  MaxSends,    \* bound: calls of write
  MaxReads     \* bound: calls of read and openings

ASSUME StreamsAssumption ==
  /\ Message \subseteq [length : Nat, cr : BOOLEAN] /\ LineBounds \subseteq Nat
  /\ PipeBuf \in Nat /\ PipeRoom \in Nat

VARIABLES
  pipe,      \* the units in the pipe
  writer,    \* what each writer is doing
  reader,    \* what the reader is doing, and what its last call returned
  numbered,  \* the message of every number given to a write
  sent,      \* history: the numbers in the order they reached the pipe
  taken,     \* history: how many of them have left it
  met,       \* whether the pipe had a writer since the reader opened it
  reads      \* calls of the reader so far

streamsVars == <<pipe, writer, reader, numbered, sent, taken, met, reads>>

(* A text of a message, then the line feed that ends it.                       *)
Units(n) ==
  LET m == numbered[n]
  IN  [i \in 1..m.length + 1 |->
         [of |-> n, unit |-> IF i = m.length + 1 THEN "lf"
                             ELSE IF m.cr /\ i = m.length THEN "cr" ELSE "x"]]

NoWrite == [at |-> "idle", number |-> 0, result |-> "none"]
NoRead == [at |-> "closed", line |-> <<>>, overflow |-> FALSE, bound |-> 0,
           timed |-> FALSE, result |-> "none"]

StreamsInit ==
  /\ pipe = <<>> /\ sent = <<>> /\ taken = 0 /\ reads = 0 /\ numbered = <<>>
  /\ met = FALSE
  /\ writer = [w \in Writer |-> NoWrite]
  /\ reader = NoRead

Writing(w) == writer[w].at \in {"write", "close"}
NoWriter == \A w \in Writer : ~Writing(w)
ReaderOpen == reader.at # "closed"

-----------------------------------------------------------------------------
(* native_host_process_fifo_write_deadline_v0.                                 *)
Send(w, m) ==
  /\ writer[w].at = "idle" /\ Len(numbered) < MaxSends
  /\ numbered' = Append(numbered, m)
  /\ writer' = [writer EXCEPT ![w] = [at |-> "open", number |-> Len(numbered) + 1,
                                      result |-> "none"]]
  /\ UNCHANGED <<pipe, reader, sent, taken, met, reads>>

Steps(w, at, result) ==
  writer' = [writer EXCEPT ![w].at = at, ![w].result = result]

(* The open is retried while nobody reads, until the deadline.                 *)
OpenWrite(w) ==
  /\ writer[w].at = "open"
  /\ \/ ReaderOpen /\ Steps(w, "write", "none") /\ met' = TRUE
     \/ ~ReaderOpen /\ Steps(w, "idle", "timeout") /\ UNCHANGED met
  /\ UNCHANGED <<pipe, reader, numbered, sent, taken, reads>>

(* What the kernel may take of a write that does not block.                    *)
Amounts(length) ==
  LET room == PipeRoom - Len(pipe)
  IN  IF length <= PipeBuf THEN {length} \cap 0..room
      ELSE {n \in 1..length : n <= room}

(* Faulty: the writer trusts the kernel with a message of any length.          *)
AnyLength(length) == FALSE
TooLong(length) == length > PipeBuf

(* Too long a message is refused; while the pipe is full or a signal comes, the *)
(* write is made again until the deadline; without a reader the call ends.     *)
WriteOnce(w) ==
  LET n == writer[w].number
      length == numbered[n].length + 1
  IN  /\ writer[w].at = "write"
      /\ \/ TooLong(length) /\ Steps(w, "close", "toolong") /\ UNCHANGED <<pipe, sent>>
         \/ /\ ~TooLong(length) /\ ~ReaderOpen
            /\ Steps(w, "close", "broken") /\ UNCHANGED <<pipe, sent>>
         \/ /\ ~TooLong(length) /\ ReaderOpen
            /\ Steps(w, "close", "timeout") /\ UNCHANGED <<pipe, sent>>
         \/ /\ ~TooLong(length) /\ ReaderOpen
            /\ \E amount \in Amounts(length) :
                 /\ pipe' = pipe \o SubSeq(Units(n), 1, amount)
                 /\ sent' = Append(sent, n)
                 /\ Steps(w, "close", IF amount = length THEN "ok" ELSE "cut")
      /\ UNCHANGED <<reader, numbered, taken, met, reads>>

(* The pipe is gone, with what is in it, when nobody has it open.              *)
Emptied(gone) == IF gone THEN <<>> ELSE pipe
Dropped(gone) == IF gone THEN Len(sent) ELSE taken

(* A close that fails turns a success into an error.                           *)
CloseWrite(w) ==
  LET gone == ~ReaderOpen /\ \A v \in Writer \ {w} : ~Writing(v)
  IN  /\ writer[w].at = "close"
      /\ \/ Steps(w, "idle", writer[w].result)
         \/ writer[w].result = "ok" /\ Steps(w, "idle", "unclosed")
      /\ pipe' = Emptied(gone) /\ taken' = Dropped(gone)
      /\ UNCHANGED <<reader, numbered, sent, met, reads>>

WriterDies(w) ==
  LET gone == ~ReaderOpen /\ \A v \in Writer \ {w} : ~Writing(v)
  IN  /\ writer[w].at # "idle"
      /\ writer' = [writer EXCEPT ![w] = NoWrite]
      /\ pipe' = Emptied(gone) /\ taken' = Dropped(gone)
      /\ UNCHANGED <<reader, numbered, sent, met, reads>>

-----------------------------------------------------------------------------
(* native_host_process_fifo_open_read_v0 and native_host_process_close_v0.     *)
OpenRead ==
  /\ ~ReaderOpen /\ reads < MaxReads
  /\ reader' = [NoRead EXCEPT !.at = "idle"] /\ met' = ~NoWriter
  /\ reads' = reads + 1
  /\ UNCHANGED <<pipe, writer, numbered, sent, taken>>
CloseRead ==
  /\ reader.at = "idle"
  /\ reader' = NoRead /\ met' = FALSE
  /\ pipe' = Emptied(NoWriter) /\ taken' = Dropped(NoWriter)
  /\ UNCHANGED <<writer, numbered, sent, reads>>

(* native_host_process_read_line_deadline_v0 and ..._read_line_bounded_v0.     *)
ReadLine(bound, timed) ==
  /\ reader.at = "idle" /\ reads < MaxReads
  /\ reader' = [NoRead EXCEPT !.at = "read", !.bound = bound, !.timed = timed]
  /\ reads' = reads + 1
  /\ UNCHANGED <<pipe, writer, numbered, sent, taken, met>>

LineEnds(result, line) ==
  reader' = [reader EXCEPT !.at = "idle", !.result = result, !.line = line]

(* The carriage return before the line feed does not count.                    *)
Stripped(line) ==
  IF line # <<>> /\ line[Len(line)].unit = "cr" THEN SubSeq(line, 1, Len(line) - 1)
  ELSE line

(* One unit; the buffer has room for one more than the bound, and what comes   *)
(* after is read and forgotten up to the line feed.                            *)
ReadUnit ==
  LET unit == pipe[1]
      line == Stripped(reader.line)
  IN  /\ reader.at = "read" /\ pipe # <<>>
      /\ pipe' = Tail(pipe)
      /\ IF unit.unit = "lf"
           THEN /\ taken' = taken + 1
                /\ IF reader.overflow \/ Len(line) > reader.bound
                     THEN LineEnds("toobig", <<>>)
                     ELSE LineEnds("line", line)
           ELSE /\ reader' = IF Len(reader.line) <= reader.bound
                               THEN [reader EXCEPT !.line = Append(@, unit)]
                               ELSE [reader EXCEPT !.overflow = TRUE]
                /\ UNCHANGED taken
      /\ UNCHANGED <<writer, numbered, sent, met, reads>>

(* Nothing is there: the deadline expires, or the descriptor does not block.   *)
(* A deadline waits for the first writer as well, which poll(2) does not take  *)
(* for the end of the pipe.                                                    *)
NeverMet == reader.timed /\ ~met
NothingToRead ==
  /\ reader.at = "read" /\ pipe = <<>> /\ (NoWriter => NeverMet)
  /\ LineEnds(IF reader.line = <<>> /\ ~reader.overflow THEN "nothing" ELSE "protocol",
              <<>>)
  /\ UNCHANGED <<pipe, writer, numbered, sent, taken, met, reads>>

(* Nobody writes: the end, or what there is of a line.                         *)
EndOfPipe ==
  /\ reader.at = "read" /\ pipe = <<>> /\ NoWriter /\ ~NeverMet
  /\ IF reader.overflow \/ Len(reader.line) > reader.bound THEN LineEnds("toobig", <<>>)
     ELSE LineEnds(IF reader.line = <<>> THEN "eof" ELSE "line", reader.line)
  /\ UNCHANGED <<pipe, writer, numbered, sent, taken, met, reads>>

StreamsNext ==
  \/ \E w \in Writer :
       \/ \E m \in Message : Send(w, m)
       \/ OpenWrite(w) \/ WriteOnce(w) \/ CloseWrite(w) \/ WriterDies(w)
  \/ OpenRead \/ CloseRead
  \/ \E bound \in LineBounds, timed \in BOOLEAN : ReadLine(bound, timed)
  \/ ReadUnit \/ NothingToRead \/ EndOfPipe

StreamsSpec == StreamsInit /\ [][StreamsNext]_streamsVars

-----------------------------------------------------------------------------
(* What a call returns as a line is the text of the message that was next, all *)
(* of it and nothing else; a line too long is passed over whole and leaves the *)
(* next one intact; a deadline that expires has consumed nothing.  This holds  *)
(* with any number of writers, which may die.                                  *)
LinesAreMessages ==
  /\ reader.result = "line" =>
       /\ taken > 0
       /\ LET n == sent[taken]
          IN  reader.line = Stripped(SubSeq(Units(n), 1, numbered[n].length))
  /\ reader.result = "toobig" =>
       LET m == numbered[sent[taken]]
       IN  m.length - (IF m.cr THEN 1 ELSE 0) > reader.bound
  /\ reader.result # "protocol"

(* A writer that reports success has sent its message once; one that reports   *)
(* that it could not has sent no unit of it, only a failed close leaves it     *)
(* open whether it was sent.                                                   *)
WritersKnow ==
  \A w \in Writer :
    LET times == {i \in DOMAIN sent : sent[i] = writer[w].number}
    IN  /\ writer[w].result \in {"ok", "unclosed"} => \E i \in DOMAIN sent : times = {i}
        /\ writer[w].result \in {"toolong", "broken", "timeout"} => times = {}
        /\ writer[w].result # "cut"
=============================================================================
