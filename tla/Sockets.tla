------------------------------- MODULE Sockets -------------------------------
(* Octets through a connected socket: native_host_socket_write_bounded_v0 at   *)
(* one end, native_host_socket_read_bounded_v0 into an arena at the other      *)
(* (native-core/shim/native_shim.c).  The kernel, external, takes any part of  *)
(* what is sent, delivers it in order, and may lose the peer at any time.      *)
EXTENDS Integers, Sequences

CONSTANTS
  MaxIo,       \* NATIVE_HOST_SOCKET_MAX_IO
  SocketRoom,  \* what the kernel holds of one direction
  ArenaRoom,   \* the capacity of the reader's arena
  MaxWrites,   \* bound: calls of write
  MaxErrors    \* bound: errors that are not the loss of the peer

ASSUME SocketsAssumption == {MaxIo, SocketRoom, ArenaRoom} \subseteq Nat

VARIABLES
  wire,      \* the octets on their way, each with its call and place
  linked,    \* whether the ends are connected
  sending,   \* the call of write
  written,   \* of every write made: its length and what it returned
  received,  \* the octets in the reader's arena
  got,       \* what the last read returned
  errors     \* errors so far

socketsVars == <<wire, linked, sending, written, received, got, errors>>

Unsent == [at |-> "idle", length |-> 0, offset |-> 0]

SocketsInit ==
  /\ wire = <<>> /\ linked = TRUE /\ sending = Unsent /\ written = <<>>
  /\ received = <<>> /\ got = "none" /\ errors = 0

(* More than the caller's bound is refused before anything is sent.            *)
WriteOctets(length, max) ==
  /\ sending.at = "idle" /\ Len(written) < MaxWrites
  /\ IF max > MaxIo \/ length > max
       THEN /\ written' = Append(written, [length |-> length, result |-> "refused", out |-> 0])
            /\ UNCHANGED sending
       ELSE /\ sending' = [at |-> "send", length |-> length, offset |-> 0]
            /\ UNCHANGED written
  /\ UNCHANGED <<wire, linked, received, got, errors>>

EndWrite(result, out) ==
  /\ written' = Append(written, [length |-> sending.length, result |-> result, out |-> out])
  /\ sending' = Unsent

Octet(i) == [call |-> Len(written) + 1, place |-> i]

SendSome ==
  LET offset == sending.offset
  IN  /\ sending.at = "send" /\ offset < sending.length /\ linked
      /\ \E n \in offset + 1 .. sending.length :
           /\ n - offset <= SocketRoom - Len(wire)
           /\ wire' = wire \o [i \in 1..n - offset |-> Octet(offset + i)]
           /\ sending' = [sending EXCEPT !.offset = n]
      /\ UNCHANGED <<linked, written, received, got, errors>>

(* Without room, wait_writable waits for some, for an error or for the end.    *)
WaitWritable ==
  /\ sending.at = "send" /\ sending.offset < sending.length
  /\ linked /\ Len(wire) = SocketRoom
  /\ sending' = [sending EXCEPT !.at = "wait"]
  /\ UNCHANGED <<wire, linked, written, received, got, errors>>
Writable ==
  /\ sending.at = "wait" /\ (Len(wire) < SocketRoom \/ ~linked)
  /\ sending' = [sending EXCEPT !.at = "send"]
  /\ UNCHANGED <<wire, linked, written, received, got, errors>>

SendEnds ==
  /\ \/ /\ sending.at = "send" /\ sending.offset = sending.length
        /\ EndWrite("ok", sending.length) /\ UNCHANGED errors
     \/ /\ sending.at = "send" /\ sending.offset < sending.length /\ ~linked
        /\ EndWrite("closed", 0) /\ UNCHANGED errors
     \/ /\ sending.at # "idle" /\ sending.offset < sending.length /\ errors < MaxErrors
        /\ errors' = errors + 1 /\ EndWrite("error", 0)
  /\ UNCHANGED <<wire, linked, received, got>>

Lose ==
  /\ linked /\ linked' = FALSE
  /\ \E n \in 0..Len(wire) : wire' = SubSeq(wire, 1, n)
  /\ UNCHANGED <<sending, written, received, got, errors>>

(* A read wants room for its whole bound, then takes what there is.            *)
ReadOctets(max) ==
  /\ \/ /\ max > ArenaRoom - Len(received) /\ got' = "nobufs" /\ UNCHANGED <<wire, received>>
     \/ /\ max <= ArenaRoom - Len(received) /\ max = 0
        /\ got' = "ok" /\ UNCHANGED <<wire, received>>
     \/ /\ max \in 1..ArenaRoom - Len(received) /\ wire # <<>>
        /\ \E n \in 1..max :
             /\ n <= Len(wire)
             /\ received' = received \o SubSeq(wire, 1, n)
             /\ wire' = SubSeq(wire, n + 1, Len(wire))
        /\ got' = "ok"
     \/ /\ max \in 1..ArenaRoom - Len(received) /\ wire = <<>> /\ ~linked
        /\ got' = "closed" /\ UNCHANGED <<wire, received>>
  /\ UNCHANGED <<linked, sending, written, errors>>

SocketsNext ==
  \/ \E length \in 0..MaxIo + 1, max \in 0..MaxIo + 1 : WriteOctets(length, max)
  \/ SendSome \/ WaitWritable \/ Writable \/ SendEnds \/ Lose
  \/ \E max \in 0..MaxIo : ReadOctets(max)

SocketsSpec == SocketsInit /\ [][SocketsNext]_socketsVars

-----------------------------------------------------------------------------
(* The arena holds, of every write in turn, a prefix: nothing twice, nothing    *)
(* left out, nothing out of order, however the octets were cut on the way; and  *)
(* of a write that returned its length, all of it, once the wire is empty and   *)
(* the peer was never lost.  A write that did not succeed claims nothing.       *)
PlacesOf(all, c) == {all[i].place : i \in {j \in DOMAIN all : all[j].call = c}}

OctetsArrive ==
  LET all == received \o wire
  IN  /\ \A i \in DOMAIN all :
           \/ all[i].place = 1 /\ \A j \in 1..i - 1 : all[j].call < all[i].call
           \/ i > 1 /\ all[i] = [all[i - 1] EXCEPT !.place = @ + 1]
      /\ \A c \in DOMAIN written :
           IF written[c].result = "ok"
             THEN written[c].out = written[c].length
                  /\ (linked => PlacesOf(all, c) = 1..written[c].length)
             ELSE written[c].out = 0 /\ (written[c].result = "refused" => PlacesOf(all, c) = {})
=============================================================================
