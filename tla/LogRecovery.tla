---------------------------- MODULE LogRecovery ----------------------------
(***************************************************************************)
(* How store/log_codec.bgl reads a transaction log back, byte by byte: the  *)
(* loop of consume-transaction-log-records! and the repair that follows it, *)
(* over logs that a crash has cut inside a record and a disk has damaged.   *)
(*                                                                          *)
(* A record is a 4-byte length, the payload, and a 4-byte CRC of the        *)
(* payload: the length itself is not covered by the CRC.  The CRC is taken  *)
(* to detect every other damage; a wrong length inside the file puts the    *)
(* stored CRC at the wrong bytes, which is a mismatch as well.              *)
(***************************************************************************)
EXTENDS Integers, Sequences

CONSTANTS
  Payloads,     \* the payload sizes that are written
  MaxPayload,   \* store-log-stream-max-payload-bytes
  HeaderBytes,  \* the size of the log's header
  MaxRecords,   \* bound of the model: appends in one behaviour
  MaxDamages    \* bound of the model: damaged fields in one behaviour

LengthBytes == 4
CrcBytes    == 4
Framing     == LengthBytes + CrcBytes

ASSUME LogRecoveryAssumption ==
  /\ MaxPayload \in Nat
  /\ Payloads \subseteq 1..MaxPayload
  /\ HeaderBytes \in Nat \ {0}
  /\ MaxRecords \in Nat /\ MaxDamages \in Nat

VARIABLES
  records,       \* the records in the log, the last one perhaps incomplete
  size,          \* the size of the log
  phase,         \* "down", "replaying", "serving" or "refused"
  position,      \* the loop's byte position
  recovered,     \* the transactions replayed or appended since the boot
  committed,     \* history: the transactions that were acknowledged
  issued,        \* history: how many appends were begun
  lengthDamaged, \* history: a length field was damaged
  damages

vars == <<records, size, phase, position, recovered, committed, issued,
          lengthDamaged, damages>>

Transaction(record) == [id |-> record.id, sound |-> record.sound]

End(record) == record.start + record.payload + Framing

Init ==
  /\ records = <<>>
  /\ size = HeaderBytes
  /\ phase = "down"
  /\ position = HeaderBytes
  /\ recovered = <<>>
  /\ committed = <<>>
  /\ issued = 0
  /\ lengthDamaged = FALSE
  /\ damages = 0

-----------------------------------------------------------------------------
(* The replay loop: one action per way a turn of it can end.                *)

Cursor    == Len(recovered) + 1
Remaining == size - position
Claimed   == records[Cursor].claimed

(* [(< remaining 4) stream] and [(< remaining record-length) stream]: the   *)
(* tail is taken for a record that a crash has cut.                         *)
Torn ==
  Remaining >= LengthBytes => (Claimed <= MaxPayload /\ Remaining < Claimed + Framing)

(* The CRC stored behind the claimed payload is the CRC of these bytes.     *)
CrcMatches(record) == record.claimed = record.payload /\ record.sound

BeginReplay ==
  /\ phase = "down"
  /\ phase' = "replaying"
  /\ position' = HeaderBytes
  /\ recovered' = <<>>
  /\ UNCHANGED <<records, size, committed, issued, lengthDamaged, damages>>

(* replay-record-fused! and the next turn of the loop.                      *)
ReplayRecord ==
  /\ phase = "replaying"
  /\ ~Torn
  /\ Claimed <= MaxPayload
  /\ CrcMatches(records[Cursor])
  /\ recovered' = Append(recovered, Transaction(records[Cursor]))
  /\ position' = position + Claimed + Framing
  /\ UNCHANGED <<records, size, phase, committed, issued, lengthDamaged, damages>>

(* failed-boot-stream: the length is out of range or the CRC differs.       *)
RefuseLog ==
  /\ phase = "replaying"
  /\ ~Torn
  /\ Claimed > MaxPayload \/ ~CrcMatches(records[Cursor])
  /\ phase' = "refused"
  /\ UNCHANGED <<records, size, position, recovered, committed, issued,
                 lengthDamaged, damages>>

(* Faulty: the incomplete record stays in the file.                         *)
FinishUnrepaired ==
  /\ phase = "replaying"
  /\ Torn
  /\ phase' = "serving"
  /\ UNCHANGED <<records, size, position, recovered, committed, issued,
                 lengthDamaged, damages>>

(* The loop ends and repair_log_tail cuts the file to the valid bytes.      *)
FinishReplay ==
  /\ phase = "replaying"
  /\ Torn
  /\ phase' = "serving"
  /\ size' = position
  /\ records' = SubSeq(records, 1, Len(recovered))
  /\ UNCHANGED <<position, recovered, committed, issued, lengthDamaged, damages>>

-----------------------------------------------------------------------------
NewRecord(payload) ==
  [id |-> issued + 1, start |-> size, payload |-> payload, claimed |-> payload,
   sound |-> TRUE]

(* append-record-bytes!, synced and acknowledged.                           *)
AppendRecord(payload) ==
  /\ phase = "serving"
  /\ issued < MaxRecords
  /\ records' = Append(records, NewRecord(payload))
  /\ size' = size + payload + Framing
  /\ position' = size'
  /\ recovered' = Append(recovered, Transaction(NewRecord(payload)))
  /\ committed' = Append(committed, Transaction(NewRecord(payload)))
  /\ issued' = issued + 1
  /\ UNCHANGED <<phase, lengthDamaged, damages>>

(* A crash inside an append leaves any number of the record's bytes, all of *)
(* them included, and acknowledges nothing.                                 *)
TearRecord(payload, written) ==
  /\ phase = "serving"
  /\ issued < MaxRecords
  /\ records' = Append(records, NewRecord(payload))
  /\ size' = size + written
  /\ issued' = issued + 1
  /\ phase' = "down"
  /\ UNCHANGED <<position, recovered, committed, lengthDamaged, damages>>

Stop ==
  /\ phase = "serving"
  /\ phase' = "down"
  /\ UNCHANGED <<records, size, position, recovered, committed, issued,
                 lengthDamaged, damages>>

(* The disk damages a complete record of a log that no server has open.     *)
DamageLength(i, claimed) ==
  /\ phase = "down"
  /\ damages < MaxDamages
  /\ End(records[i]) <= size
  /\ claimed # records[i].claimed
  /\ records' = [records EXCEPT ![i].claimed = claimed]
  /\ lengthDamaged' = TRUE
  /\ damages' = damages + 1
  /\ UNCHANGED <<size, phase, position, recovered, committed, issued>>

DamagePayload(i) ==
  /\ phase = "down"
  /\ damages < MaxDamages
  /\ End(records[i]) <= size
  /\ records[i].sound
  /\ records' = [records EXCEPT ![i].sound = FALSE]
  /\ damages' = damages + 1
  /\ UNCHANGED <<size, phase, position, recovered, committed, issued, lengthDamaged>>

Next ==
  \/ BeginReplay \/ ReplayRecord \/ RefuseLog \/ FinishReplay
  \/ \E payload \in Payloads : AppendRecord(payload)
  \/ \E payload \in Payloads : \E written \in 0..(payload + Framing) :
       TearRecord(payload, written)
  \/ Stop
  \/ \E i \in DOMAIN records : \E claimed \in 0..(MaxPayload + 1) : DamageLength(i, claimed)
  \/ \E i \in DOMAIN records : DamagePayload(i)

Spec == Init /\ [][Next]_vars
-----------------------------------------------------------------------------
Keeps(transactions) ==
  /\ Len(committed) <= Len(transactions)
  /\ \A i \in DOMAIN committed : \E j \in DOMAIN transactions :
       transactions[j] = committed[i]

(* D5: "replay never silently produces a divergent image": a store that     *)
(* serves has every acknowledged transaction, undamaged.                    *)
DamageIsLoud == phase = "serving" => Keeps(recovered)

(* What holds of the code: as long as no length field is damaged, a store   *)
(* that serves has every acknowledged transaction, whatever was cut and     *)
(* whatever else was damaged, and in the order they were written (D2, R1).  *)
PayloadDamageIsLoud ==
  (phase = "serving" /\ ~lengthDamaged) =>
    /\ Keeps(recovered)
    /\ \A i \in DOMAIN recovered : recovered[i].sound
    /\ \A i, j \in DOMAIN recovered : i < j => recovered[i].id < recovered[j].id

(* A store that serves has exactly the records of its log, end to end: the  *)
(* next record is appended where the next boot will look for it.            *)
ServedIsLogged ==
  phase = "serving" =>
    /\ Len(records) = Len(recovered)
    /\ \A i \in DOMAIN records : recovered[i] = Transaction(records[i])
    /\ \A i \in DOMAIN records :
         End(records[i]) = IF i = Len(records) THEN size ELSE records[i + 1].start

(* What a boot serves is what was acknowledged and what the log holds.      *)
RecoveryIsHonest == PayloadDamageIsLoud /\ ServedIsLogged
=============================================================================
