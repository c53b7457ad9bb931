------------------------------ MODULE Packets ------------------------------
(* One connection to the server: a client sends a packet and waits for the    *)
(* answer; the worker reads exactly one packet, dispatches it and writes one  *)
(* answer.  A packet is a header, which gives the length of the body, and the *)
(* body.  Octets move in pieces of any size.  A client may close its sending  *)
(* half once its packet is on the wire, send less than it announced, or       *)
(* vanish.  An octet is known by its position, so a stream is a count.        *)
EXTENDS Integers, Sequences, FiniteSets

CONSTANTS
  HeaderDigits,   \* the octets of the header, all of which carry the length
  Radix,          \* the values of one of them
  MaxBody,        \* STORE_RPC_PACKET_MAX_BODY_BYTES
  AnswerLength,
  SendRoom        \* the octets of an answer that fit into the socket

VARIABLES
  packet,    \* [header, body]: the digits announced, and the octets that follow
  client,    \* [sent, received, half, gone, answered]
  server,    \* [pc, read, need, wrote, outcome]
  inbound, outbound   \* octets in the socket, each way

packetsVars == <<packet, client, server, inbound, outbound>>

(* packet_body_length: the digits of the header, the least first.             *)
PacketBodyLength(header) ==
  LET value[i \in 0..HeaderDigits] == IF i = 0 THEN 0 ELSE value[i - 1] + header[i] * Radix^(i - 1)
  IN  value[HeaderDigits]

(* What a client that keeps the protocol announces for a body.                *)
Digit(n, i) == (n \div Radix^(i - 1)) % Radix
Announce(n) == [i \in 1..HeaderDigits |-> Digit(n, i)]
MaxAnnounced == Radix^HeaderDigits - 1
Octets == HeaderDigits + packet.body

PacketsInit ==
  /\ packet \in [header : {Announce(n) : n \in 0..MaxAnnounced}, body : 0..MaxBody]
  /\ client = [sent |-> 0, received |-> 0, half |-> FALSE, gone |-> FALSE, answered |-> FALSE]
  /\ server = [pc |-> "probe", read |-> 0, need |-> HeaderDigits, wrote |-> 0, outcome |-> "none"]
  /\ inbound = 0 /\ outbound = 0

-----------------------------------------------------------------------------
(* The client.                                                                *)

Send ==
  /\ ~client.gone /\ client.sent < Octets
  /\ \E n \in 1..(Octets - client.sent) :
       client' = [client EXCEPT !.sent = @ + n] /\ inbound' = inbound + n
  /\ UNCHANGED <<packet, server, outbound>>
HalfClose ==
  /\ ~client.gone /\ ~client.half
  /\ client.sent = Octets
  /\ client' = [client EXCEPT !.half = TRUE]
  /\ UNCHANGED <<packet, server, inbound, outbound>>
TakeAnswer ==
  /\ ~client.gone /\ outbound > 0
  /\ client' = [client EXCEPT !.received = @ + outbound]
  /\ outbound' = 0
  /\ UNCHANGED <<packet, server, inbound>>
ClientVanishes ==
  /\ ~client.gone
  /\ client' = [client EXCEPT !.gone = TRUE]
  /\ UNCHANGED <<packet, server, inbound, outbound>>

-----------------------------------------------------------------------------
(* The worker.                                                                *)

ClosedWith(outcome) == server' = [server EXCEPT !.pc = "closed", !.outcome = outcome]
AtEnd == inbound = 0 /\ (client.half \/ client.gone)

(* peer_never_asked, before a worker is given the connection: it is dropped   *)
(* if it carries no octet and never will.                                     *)
AtHalfClose == client.half \/ client.gone  \* mutant
NeverAsked == AtEnd
Probe ==
  /\ server.pc = "probe"
  /\ IF NeverAsked THEN ClosedWith("dropped") ELSE server' = [server EXCEPT !.pc = "header"]
  /\ UNCHANGED <<packet, client, inbound, outbound>>

(* read_exact: pieces until the whole is there.                               *)
ReadPiece ==
  /\ server.pc \in {"header", "body"} /\ server.need > 0
  /\ \E n \in 1..inbound :
       /\ n <= server.need
       /\ inbound' = inbound - n
       /\ server' = [server EXCEPT !.read = @ + n, !.need = @ - n]
  /\ UNCHANGED <<packet, client, outbound>>

(* The other side ends first, or is silent for longer than the timeout.  An   *)
(* end before the first octet is a connection that asked nothing.             *)
ReadEnds ==
  /\ server.pc \in {"header", "body"} /\ server.need > 0
  /\ AtEnd
  /\ ClosedWith(IF server.read = 0 THEN "peerClosed" ELSE "clientError")
  /\ UNCHANGED <<packet, client, inbound, outbound>>
ReadTimesOut ==
  /\ server.pc \in {"header", "body"} /\ server.need > 0
  /\ inbound = 0 /\ client.sent < Octets
  /\ ClosedWith("clientError")
  /\ UNCHANGED <<packet, client, inbound, outbound>>

HeaderDone ==
  /\ server.pc = "header" /\ server.need = 0
  /\ IF PacketBodyLength(packet.header) > MaxBody
     THEN ClosedWith("clientError")
     ELSE server' = [server EXCEPT !.pc = "body", !.need = PacketBodyLength(packet.header)]
  /\ UNCHANGED <<packet, client, inbound, outbound>>
NoMemory ==
  /\ server.pc = "header" /\ server.need = 0
  /\ PacketBodyLength(packet.header) <= MaxBody
  /\ ClosedWith("fatal")
  /\ UNCHANGED <<packet, client, inbound, outbound>>

(* decode_request checks the length against the header once more, which also  *)
(* refuses what an embedder hands over with octets to spare; the generated    *)
(* decoder may still refuse what the packet says.                             *)
LengthsAgree(length) == length = HeaderDigits + PacketBodyLength(packet.header)
DecodeRequest ==
  /\ server.pc = "body" /\ server.need = 0
  /\ \/ LengthsAgree(server.read) /\ server' = [server EXCEPT !.pc = "dispatch"]
     \/ ClosedWith("clientError")
  /\ UNCHANGED <<packet, client, inbound, outbound>>

(* Whatever becomes of the peer meanwhile, a whole request is dispatched.     *)
ServeRequest ==
  /\ server.pc = "dispatch"
  /\ \/ server' = [server EXCEPT !.pc = "write"]
     \/ ClosedWith("fatal")
  /\ UNCHANGED <<packet, client, inbound, outbound>>

(* write_bytes: pieces until all is written; a peer that is gone, or one that *)
(* takes nothing for too long, ends it.                                       *)
WritePiece ==
  /\ server.pc = "write" /\ server.wrote < AnswerLength
  /\ ~client.gone
  /\ \E n \in 1..(SendRoom - outbound) :
       /\ server.wrote + n <= AnswerLength
       /\ outbound' = outbound + n
       /\ server' = [server EXCEPT !.wrote = @ + n]
  /\ UNCHANGED <<packet, client, inbound>>
WriteEnds ==
  /\ server.pc = "write" /\ server.wrote < AnswerLength
  /\ client.gone
  /\ ClosedWith("peerClosed")
  /\ UNCHANGED <<packet, client, inbound, outbound>>
WriteTimesOut ==
  /\ server.pc = "write" /\ server.wrote < AnswerLength
  /\ outbound = SendRoom
  /\ ClosedWith("clientError")
  /\ UNCHANGED <<packet, client, inbound, outbound>>
AfterWrite ==
  /\ server.pc = "write" /\ server.wrote = AnswerLength
  /\ ClosedWith("answered")
  /\ UNCHANGED <<packet, client, inbound, outbound>>

ConnectionStep ==
  \/ Probe \/ ReadPiece \/ ReadEnds \/ HeaderDone \/ DecodeRequest
  \/ ServeRequest \/ WritePiece \/ WriteEnds \/ AfterWrite
ClientStep == Send \/ TakeAnswer
PacketsNext == ConnectionStep \/ ClientStep \/ ReadTimesOut \/ WriteTimesOut \/ NoMemory \/ HalfClose \/ ClientVanishes

-----------------------------------------------------------------------------
(* What is dispatched is the packet of the client and all of it; what the     *)
(* client has is the beginning of the answer, in order and once.              *)
PacketsAreWhole ==
  /\ server.pc \in {"dispatch", "write"} =>
       \E n \in 0..MaxBody :
         /\ packet.header = Announce(n) /\ n <= packet.body
         /\ server.read = HeaderDigits + n
  /\ server.read + inbound = client.sent
  /\ client.received + outbound = server.wrote
  /\ server.outcome = "answered" => server.wrote = AnswerLength

(* A client that has sent the packet it announced, and stays, is not dropped  *)
(* for having closed its sending half: it gets the whole answer, unless the   *)
(* server cannot read the packet or fails.                                    *)
Asked ==
  /\ ~client.gone /\ client.sent = Octets /\ packet.header = Announce(packet.body)
AskedIsAnswered ==
  (Asked /\ server.pc # "closed") ~>
    \/ client.gone \/ client.received = AnswerLength
    \/ server.outcome \in {"clientError", "fatal"}
=============================================================================
