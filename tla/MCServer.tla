------------------------------ MODULE MCServer ------------------------------
(* What surrounds the store: how a program opens it, how the server admits    *)
(* connections, how a packet reaches it, who owns its memory, how another     *)
(* program calls it.  The parts are checked one at a time: a behaviour works  *)
(* with one of them and leaves the others alone.                              *)
EXTENDS Acceptor, Generations, Embed, Startup, Packets

VARIABLE part  \* what this behaviour works with

serverVars == <<part, vars, generationsVars, embedVars, startupVars, packetsVars>>

(* The least of the choices of a part's initial state.                        *)
Settled ==
  /\ part # "generations" => host = "server" /\ limit = DefaultGenerations
  /\ part # "embed" => regime = "posix"
  /\ part # "packets" => packet.body = 0 /\ packet.header = Announce(0)

ServerInit ==
  /\ part \in {"acceptor", "generations", "embed", "startup", "packets"}
  /\ Init /\ GenerationsInit /\ EmbedInit /\ StartupInit /\ PacketsInit
  /\ Settled

Admission ==
  /\ part = "acceptor" /\ Next
  /\ UNCHANGED <<part, generationsVars, embedVars, startupVars, packetsVars>>
OwnsMemory ==
  /\ part = "generations" /\ GenerationsNext
  /\ UNCHANGED <<part, vars, embedVars, startupVars, packetsVars>>
Embedding ==
  /\ part = "embed" /\ EmbedNext
  /\ UNCHANGED <<part, vars, generationsVars, startupVars, packetsVars>>
Opening ==
  /\ part = "startup" /\ StartupNext
  /\ UNCHANGED <<part, vars, generationsVars, embedVars, packetsVars>>
NotPackets == UNCHANGED <<part, vars, generationsVars, embedVars, startupVars>>
Connection == part = "packets" /\ PacketsNext /\ NotPackets

ServerNext == Admission \/ OwnsMemory \/ Embedding \/ Opening \/ Connection

(* The worker runs, and a client that waits takes what has come.              *)
ServerSpec ==
  /\ ServerInit /\ [][ServerNext]_serverVars
  /\ WF_serverVars(part = "packets" /\ ConnectionStep /\ NotPackets)
  /\ WF_serverVars(part = "packets" /\ TakeAnswer /\ NotPackets)

-----------------------------------------------------------------------------
(* A whole packet is served, and what is served is a whole packet.            *)
RequestsAreServed == []PacketsAreWhole /\ AskedIsAnswered

Plain ==
  [portArgument |-> "unset", portVariable |-> "unset", maxActive |-> "unset",
   workers |-> "unset", timeout |-> "unset", budget |-> "unset", bind |-> "unset",
   role |-> "unset", tls |-> "unset", port |-> 1, inherited |-> NoListener]
Inherited(family, address, port) ==
  [stream |-> TRUE, listening |-> TRUE, family |-> family, address |-> address, port |-> port]

(* Nothing said; a bad variable that an argument overrides, with a listener   *)
(* on another port; the older name overridden; every address; no active role. *)
MCSettings ==
  {Plain,
   [Plain EXCEPT !.portArgument = "ok", !.portVariable = "bad",
                 !.inherited = Inherited("inet", "loopback", 2)],
   [Plain EXCEPT !.maxActive = "ok", !.workers = "bad",
                 !.inherited = Inherited("inet6", "loopback", 1)],
   [Plain EXCEPT !.bind = "any", !.inherited = Inherited("inet6", "any", 1)],
   [Plain EXCEPT !.role = "bad"]}
=============================================================================
