------------------------------- MODULE Capture -------------------------------
(* native_host_process_run_capture_v0 of native-core/shim/native_shim.c: a      *)
(* child is run with a text as its input, and what it writes to both of its     *)
(* outputs is returned, if it fits the bound.  The child and its pipes are      *)
(* external: it writes to either output in any order, waits while a pipe is     *)
(* full, ends, or is killed.  Every call of the system may fail.                *)
EXTENDS Integers, Sequences

CONSTANTS
  Outputs,    \* how much a child writes to each output: [out, err, text]
  OutputRoom, \* the capacity of a pipe
  MaxOutput,  \* the caller's bound on each output
  MaxRuns     \* bound: calls

VARIABLES
  capture,  \* the call: where it is, its buffers and what it returned
  held,     \* the memory and descriptors the call has
  kid,      \* the child: what it has left to write, wrote, and how it is
  outputs,  \* what is in each pipe
  runs      \* calls so far

captureVars == <<capture, held, kid, outputs, runs>>

Stream == {"out", "err"}
Nothing == [s \in Stream |-> 0]
NoKid ==
  [state |-> "none", left |-> Nothing, wrote |-> Nothing, text |-> TRUE, wants |-> "out"]
NoCapture ==
  [at |-> "idle", length |-> Nothing, overflow |-> [s \in Stream |-> FALSE],
   ready |-> {}, result |-> "none", failed |-> FALSE]
WriteEnd(s) == IF s = "out" THEN "outW" ELSE "errW"
ReadEnd(s) == IF s = "out" THEN "outR" ELSE "errR"

CaptureInit ==
  /\ capture = NoCapture /\ held = {} /\ kid = NoKid /\ outputs = Nothing /\ runs = 0

(* What the call takes, in order, before it has a child.  The input is moved    *)
(* when its descriptor is a standard one.                                       *)
Stages == <<"argv", "buffers", "input", "move", "outpipe", "errpipe", "flags", "actions">>
Taken(stage) ==
  CASE stage = "outpipe" -> {"outR", "outW"}
    [] stage = "errpipe" -> {"errR", "errW"}
    [] stage = "flags" -> {}
    [] OTHER -> {stage}
After(stage) ==
  LET i == CHOOSE j \in DOMAIN Stages : Stages[j] = stage
  IN  IF i = Len(Stages) THEN "spawn" ELSE Stages[i + 1]

Run ==
  /\ capture.at = "idle" /\ runs < MaxRuns
  /\ capture' = [NoCapture EXCEPT !.at = Stages[1]]
  /\ kid' = NoKid /\ outputs' = Nothing
  /\ runs' = runs + 1
  /\ UNCHANGED held

Take ==
  LET stage == capture.at
  IN  /\ \E i \in DOMAIN Stages : Stages[i] = stage
      /\ \/ held' = held \cup Taken(stage)
         \/ stage = "move" /\ UNCHANGED held
      /\ capture' = [capture EXCEPT !.at = After(stage)]
      /\ UNCHANGED <<kid, outputs, runs>>

TakeFails ==
  /\ capture.at = "spawn" \/ \E i \in DOMAIN Stages : Stages[i] = capture.at
  /\ capture' = [capture EXCEPT !.at = "idle", !.result = "error"]
  /\ held' = {}
  /\ UNCHANGED <<kid, outputs, runs>>

(* The child has the write ends; the parent keeps the read ends and its buffers.*)
Spawn ==
  /\ capture.at = "spawn"
  /\ \E o \in Outputs, s \in Stream :
       kid' = [NoKid EXCEPT !.state = "running", !.text = o.text, !.wants = s,
                            !.left = [out |-> o.out, err |-> o.err]]
  /\ held' = {"buffers", "outR", "errR"}
  /\ capture' = [capture EXCEPT !.at = "poll"]
  /\ UNCHANGED <<outputs, runs>>

-----------------------------------------------------------------------------
(* The loop: wait for an output, then drain each that is ready until it is       *)
(* empty or ended; the error of any call leads to Kill.                          *)
(* A pipe ends with the child: what it may have started itself does not outlive *)
(* it with a copy of the write end, which would keep the loop waiting.          *)
Ended(s) == kid.state # "running" /\ WriteEnd(s) \notin held
Ready(s) == ReadEnd(s) \in held /\ (outputs[s] > 0 \/ Ended(s))

Poll ==
  /\ capture.at = "poll" /\ \E s \in Stream : Ready(s)
  /\ capture' = [capture EXCEPT !.at = "drain", !.ready = {s \in Stream : Ready(s)}]
  /\ UNCHANGED <<held, kid, outputs, runs>>

Draining(s) ==
  capture.at = "drain" /\ s \in capture.ready /\ (s = "err" => "out" \notin capture.ready)

(* Faulty: nothing more is read once the buffer is full.                         *)
RoomLeft(s) == outputs[s] > 0 /\ capture.length[s] < MaxOutput
ReadsMore(s) == outputs[s] > 0

(* What does not fit the buffer is read all the same, and forgotten.             *)
ReadChunk(s) ==
  /\ Draining(s) /\ ReadsMore(s)
  /\ \E n \in 1..outputs[s] :
       LET available == MaxOutput - capture.length[s]
           copied == IF n < available THEN n ELSE available
       IN  /\ outputs' = [outputs EXCEPT ![s] = @ - n]
           /\ capture' = [capture EXCEPT !.length[s] = @ + copied,
                                         !.overflow[s] = @ \/ copied # n]
  /\ UNCHANGED <<held, kid, runs>>

Drained(s) ==
  LET rest == capture.ready \ {s}
  IN  capture' = [capture EXCEPT !.ready = rest,
                                 !.at = IF rest # {} THEN "drain"
                                        ELSE IF \E r \in Stream : ReadEnd(r) \in held'
                                               THEN "poll" ELSE "wait"]
DrainEnds(s) ==
  /\ Draining(s) /\ ~ReadsMore(s)
  /\ held' = IF Ended(s) /\ outputs[s] = 0 THEN held \ {ReadEnd(s)} ELSE held
  /\ Drained(s)
  /\ UNCHANGED <<kid, outputs, runs>>

CaptureFails ==
  /\ capture.at \in {"poll", "drain"}
  /\ capture' = [capture EXCEPT !.at = "kill", !.failed = TRUE]
  /\ held' = held \ {"outR", "errR"}
  /\ UNCHANGED <<kid, outputs, runs>>
Kill ==
  /\ capture.at = "kill"
  /\ capture' = [capture EXCEPT !.at = "wait"]
  /\ kid' = [kid EXCEPT !.state = IF @ = "running" THEN "zombie" ELSE @]
  /\ UNCHANGED <<held, outputs, runs>>

(* The child is waited for on every path, then the outcome is decided.           *)
WaitChild ==
  /\ capture.at = "wait" /\ kid.state = "zombie"
  /\ kid' = [kid EXCEPT !.state = "reaped"]
  /\ held' = {}
  /\ capture' = [capture EXCEPT !.at = "idle",
                   !.result = IF capture.failed THEN "error"
                              ELSE IF \E s \in Stream : capture.overflow[s] THEN "toobig"
                              ELSE IF kid.text THEN "ok" ELSE "notext"]
  /\ UNCHANGED <<outputs, runs>>

-----------------------------------------------------------------------------
(* It writes to one output until it chooses the other, and waits for that one.  *)
KidWrites(s) ==
  /\ kid.state = "running" /\ kid.wants = s
  /\ kid.left[s] > 0 /\ outputs[s] < OutputRoom
  /\ outputs' = [outputs EXCEPT ![s] = @ + 1]
  /\ \E next \in Stream :
       kid' = [kid EXCEPT !.left[s] = @ - 1, !.wrote[s] = @ + 1, !.wants = next]
  /\ UNCHANGED <<capture, held, runs>>
KidTurns ==
  /\ kid.state = "running" /\ kid.left[kid.wants] = 0 /\ kid.left # Nothing
  /\ kid' = [kid EXCEPT !.wants = IF @ = "out" THEN "err" ELSE "out"]
  /\ UNCHANGED <<capture, held, outputs, runs>>
KidExits ==
  /\ kid.state = "running" /\ kid.left = Nothing
  /\ kid' = [kid EXCEPT !.state = "zombie"]
  /\ UNCHANGED <<capture, held, outputs, runs>>
(* From outside, or by a write when the parent has closed the pipe.              *)
KidKilled ==
  /\ kid.state = "running"
  /\ kid' = [kid EXCEPT !.state = "zombie"]
  /\ UNCHANGED <<capture, held, outputs, runs>>

CaptureSteps ==
  \/ Take \/ Spawn \/ Poll \/ Kill \/ WaitChild
  \/ \E s \in Stream : ReadChunk(s) \/ DrainEnds(s)
KidSteps == KidExits \/ KidTurns \/ \E s \in Stream : KidWrites(s)
CaptureNext == Run \/ CaptureSteps \/ TakeFails \/ CaptureFails \/ KidSteps \/ KidKilled

CaptureSpec == CaptureInit /\ [][CaptureNext]_captureVars

-----------------------------------------------------------------------------
(* A call that returns a capture returns all that the child wrote, to both      *)
(* outputs; it refuses what is longer than the bound, and only that; no child   *)
(* is left to be waited for.                                                    *)
CaptureIsExact ==
  capture.at = "idle" =>
    /\ kid.state \in {"none", "reaped"}
    /\ capture.result \in {"ok", "notext"} => capture.length = kid.wrote
    /\ capture.result = "toobig" => \E s \in Stream : kid.wrote[s] > MaxOutput

(* A call ends, however much the child writes to whichever output, if the child *)
(* goes on writing and ends.                                                    *)
CaptureEnds == (capture.at # "idle") ~> (capture.at = "idle")
=============================================================================
