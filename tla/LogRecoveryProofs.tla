-------------------------- MODULE LogRecoveryProofs --------------------------
(***************************************************************************)
(* Proofs about LogRecovery: what a boot replays of a cut and damaged log,  *)
(* for any payload sizes, any number of records and any damage.             *)
(***************************************************************************)
EXTENDS LogRecovery, SequenceTheorems, TLAPS

-----------------------------------------------------------------------------
Records ==
  [id : Nat, start : Nat, payload : Payloads, claimed : 0..(MaxPayload + 1),
   sound : BOOLEAN]
Transactions == [id : Nat, sound : BOOLEAN]

TypeOK ==
  /\ records \in Seq(Records) /\ size \in Nat /\ position \in Nat
  /\ phase \in {"down", "replaying", "serving", "refused"}
  /\ recovered \in Seq(Transactions) /\ committed \in Seq(Transactions)
  /\ issued \in Nat /\ lengthDamaged \in BOOLEAN /\ damages \in Nat

(* Where the first n of the records rs end.                                 *)
EndOf(rs, n) == IF n = 0 THEN HeaderBytes ELSE End(rs[n])

(* The records rs of a file of s bytes lie end to end, and only the last    *)
(* may be incomplete; they were numbered in the order they were begun.      *)
LaidOut(rs, s) ==
  /\ \A i \in 1..Len(rs) : rs[i].start = EndOf(rs, i - 1)
  /\ \A i, j \in 1..Len(rs) : i < j => End(rs[i]) <= rs[j].start /\ rs[i].id < rs[j].id
  /\ IF rs = <<>> THEN s = HeaderBytes
                  ELSE rs[Len(rs)].start <= s /\ s <= End(rs[Len(rs)])

(* What was replayed, or appended since, are the records rs in order, each  *)
(* with a CRC that matched.                                                 *)
Replayed(rs, txs, at) ==
  /\ Len(txs) <= Len(rs)
  /\ \A i \in 1..Len(txs) : txs[i] = Transaction(rs[i]) /\ CrcMatches(rs[i])
  /\ at = EndOf(rs, Len(txs))

(* Every acknowledged transaction has a complete record, no earlier in the  *)
(* log than it was acknowledged.                                            *)
Kept(rs, s, txs) ==
  \A i \in 1..Len(txs) :
    /\ txs[i].sound
    /\ \E j \in i..Len(rs) : rs[j].id = txs[i].id /\ End(rs[j]) <= s

RecoveryInv ==
  /\ TypeOK
  /\ LaidOut(records, size)
  /\ \A i \in 1..Len(records) : records[i].id <= issued
  /\ phase \in {"replaying", "serving"} => Replayed(records, recovered, position)
  /\ phase = "serving" => Len(recovered) = Len(records) /\ position = size
  /\ ~lengthDamaged =>
       /\ \A i \in 1..Len(records) : records[i].claimed = records[i].payload
       /\ Kept(records, size, committed)

-----------------------------------------------------------------------------
(* Records and where they end.                                              *)

LEMMA RecordFacts ==
  ASSUME NEW r \in Records
  PROVE  /\ r.id \in Nat /\ r.start \in Nat /\ r.payload \in 1..MaxPayload
         /\ r.claimed \in 0..(MaxPayload + 1) /\ r.sound \in BOOLEAN
         /\ MaxPayload \in Nat
         /\ End(r) \in Nat /\ End(r) = r.start + r.payload + 8 /\ r.start < End(r)
<1>1. /\ r.id \in Nat /\ r.start \in Nat /\ r.payload \in 1..MaxPayload
      /\ r.claimed \in 0..(MaxPayload + 1) /\ r.sound \in BOOLEAN
      /\ MaxPayload \in Nat
  BY LogRecoveryAssumption DEF Records
<1>2. End(r) = r.start + r.payload + 8
  BY <1>1 DEF End, Framing, LengthBytes, CrcBytes
<1> QED
  BY <1>1, <1>2

LEMMA EndOfFacts ==
  ASSUME NEW rs \in Seq(Records), NEW n \in 0..Len(rs)
  PROVE  EndOf(rs, n) \in Nat /\ EndOf(rs, 0) = HeaderBytes
         /\ (n # 0 => n \in 1..Len(rs) /\ rs[n] \in Records /\ EndOf(rs, n) = End(rs[n]))
<1>1. CASE n = 0
  BY <1>1, LogRecoveryAssumption DEF EndOf
<1>2. CASE n # 0
  <2>1. n \in 1..Len(rs)
    BY <1>2
  <2>2. rs[n] \in Records
    BY <2>1, ElementOfSeq
  <2> QED
    BY <1>2, <2>1, <2>2, RecordFacts DEF EndOf
<1> QED
  BY <1>1, <1>2

(* A record appended to a log without a tail, in whole or in part.          *)
LEMMA AppendedIsLaidOut ==
  ASSUME NEW rs \in Seq(Records), NEW s \in Nat, NEW r \in Records, NEW t \in Nat,
         LaidOut(rs, s), s = EndOf(rs, Len(rs)), r.start = s,
         r.start <= t, t <= End(r), \A i \in 1..Len(rs) : rs[i].id < r.id
  PROVE  LaidOut(Append(rs, r), t)
<1> DEFINE q == Append(rs, r)
           n == Len(rs)
<1>1. /\ n \in Nat /\ Len(q) = n + 1 /\ q[n + 1] = r /\ \A i \in 1..n : q[i] = rs[i]
      /\ q \in Seq(Records)
  BY AppendProperties
<1>2. \A i \in 1..n : rs[i] \in Records
  BY ElementOfSeq
<1>3. \A i \in 1..n : End(rs[i]) <= s
  <2> TAKE i \in 1..n
  <2>1. n # 0 /\ s = End(rs[n]) /\ rs[n] \in Records /\ rs[i] \in Records
    BY <1>1, <1>2 DEF EndOf
  <2>2. CASE i = n
    BY <2>1, <2>2, RecordFacts
  <2>3. CASE i # n
    <3>1. i < n /\ n \in 1..n
      BY <2>3, <1>1
    <3>2. End(rs[i]) <= rs[n].start
      BY <3>1 DEF LaidOut
    <3>3. End(rs[i]) \in Nat /\ rs[n].start \in Nat /\ End(rs[n]) \in Nat /\ rs[n].start < End(rs[n])
      BY <2>1, RecordFacts
    <3> QED
      BY <3>2, <3>3, <2>1
  <2> QED
    BY <2>2, <2>3
<1>4. \A i \in 1..Len(q) : q[i].start = EndOf(q, i - 1)
  <2> TAKE i \in 1..Len(q)
  <2>1. CASE i = n + 1
    <3>1. EndOf(q, n) = EndOf(rs, n)
      BY <1>1 DEF EndOf
    <3> QED
      BY <2>1, <3>1, <1>1
  <2>2. CASE i \in 1..n
    <3>1. rs[i].start = EndOf(rs, i - 1) /\ q[i] = rs[i]
      BY <2>2, <1>1 DEF LaidOut
    <3>2. i - 1 # 0 => q[i - 1] = rs[i - 1]
      BY <2>2, <1>1
    <3> QED
      BY <3>1, <3>2 DEF EndOf
  <2> QED
    BY <2>1, <2>2, <1>1
<1>5. \A i, j \in 1..Len(q) : i < j => End(q[i]) <= q[j].start /\ q[i].id < q[j].id
  <2> SUFFICES ASSUME NEW i \in 1..Len(q), NEW j \in 1..Len(q), i < j
               PROVE  End(q[i]) <= q[j].start /\ q[i].id < q[j].id
    OBVIOUS
  <2>1. i \in 1..n /\ q[i] = rs[i]
    BY <1>1
  <2>2. CASE j = n + 1
    BY <2>1, <2>2, <1>1, <1>3
  <2>3. CASE j \in 1..n
    BY <2>1, <2>3, <1>1 DEF LaidOut
  <2> QED
    BY <2>2, <2>3, <1>1
<1>6. q # <<>> /\ q[Len(q)] = r
  BY <1>1, EmptySeq
<1> QED
  BY <1>4, <1>5, <1>6 DEF LaidOut

(* A log cut behind its n-th record.                                        *)
LEMMA CutIsLaidOut ==
  ASSUME NEW rs \in Seq(Records), NEW s \in Nat, LaidOut(rs, s), NEW n \in 0..Len(rs)
  PROVE  /\ SubSeq(rs, 1, n) \in Seq(Records) /\ Len(SubSeq(rs, 1, n)) = n
         /\ \A i \in 1..n : SubSeq(rs, 1, n)[i] = rs[i]
         /\ LaidOut(SubSeq(rs, 1, n), EndOf(rs, n))
         /\ EndOf(SubSeq(rs, 1, n), n) = EndOf(rs, n)
<1> DEFINE q == SubSeq(rs, 1, n)
<1>1. n \in Nat /\ \A i \in 1..n : i \in 1..Len(rs) /\ rs[i] \in Records
  BY ElementOfSeq
<1>2. q \in Seq(Records) /\ Len(q) = n /\ \A i \in 1..n : q[i] = rs[i]
  BY <1>1, SubSeqProperties
<1> HIDE DEF q
<1>3. \A k \in 0..n : EndOf(q, k) = EndOf(rs, k)
  BY <1>1, <1>2 DEF EndOf
<1>4. \A i \in 1..n : q[i].start = EndOf(q, i - 1)
  <2> TAKE i \in 1..n
  <2>1. i - 1 \in 0..n
    BY <1>1
  <2> QED
    BY <2>1, <1>1, <1>2, <1>3 DEF LaidOut
<1>5. \A i, j \in 1..n : i < j => End(q[i]) <= q[j].start /\ q[i].id < q[j].id
  BY <1>1, <1>2 DEF LaidOut
<1>6. q = <<>> => n = 0
  BY <1>2
<1>7. q # <<>> => n \in 1..n /\ EndOf(rs, n) = End(rs[n]) /\ End(rs[n]) \in Nat /\ rs[n].start <= End(rs[n])
  <2> SUFFICES ASSUME q # <<>> PROVE n \in 1..n /\ EndOf(rs, n) = End(rs[n]) /\ End(rs[n]) \in Nat /\ rs[n].start <= End(rs[n])
    OBVIOUS
  <2>1. n # 0
    BY <1>2, EmptySeq
  <2>2. n \in 1..n /\ rs[n] \in Records
    BY <2>1, <1>1
  <2>3. End(rs[n]) \in Nat /\ rs[n].start \in Nat /\ rs[n].start < End(rs[n])
    BY <2>2, RecordFacts
  <2> QED
    BY <2>1, <2>2, <2>3 DEF EndOf
<1>8. IF q = <<>> THEN EndOf(rs, n) = HeaderBytes
                  ELSE q[Len(q)].start <= EndOf(rs, n) /\ EndOf(rs, n) <= End(q[Len(q)])
  BY <1>2, <1>6, <1>7 DEF EndOf
<1>9. LaidOut(q, EndOf(rs, n))
  BY <1>2, <1>4, <1>5, <1>8 DEF LaidOut
<1> QED
  BY <1>1, <1>2, <1>3, <1>9 DEF q

(* Damage to a record leaves every record where it is.                      *)
LEMMA DamagedIsLaidOut ==
  ASSUME NEW rs \in Seq(Records), NEW q \in Seq(Records), NEW s \in Nat, LaidOut(rs, s),
         Len(q) = Len(rs),
         \A i \in 1..Len(rs) : /\ q[i].id = rs[i].id /\ q[i].start = rs[i].start
                               /\ q[i].payload = rs[i].payload
  PROVE  LaidOut(q, s)
<1>1. \A i \in 1..Len(rs) : End(q[i]) = End(rs[i])
  BY DEF End
<1>2. \A k \in 0..Len(rs) : EndOf(q, k) = EndOf(rs, k)
  BY <1>1 DEF EndOf
<1>3. \A i \in 1..Len(q) : q[i].start = EndOf(q, i - 1)
  <2> TAKE i \in 1..Len(q)
  <2>1. i \in 1..Len(rs) /\ i - 1 \in 0..Len(rs)
    OBVIOUS
  <2> QED
    BY <2>1, <1>2 DEF LaidOut
<1>4. \A i, j \in 1..Len(q) : i < j => End(q[i]) <= q[j].start /\ q[i].id < q[j].id
  BY <1>1 DEF LaidOut
<1>5. q = <<>> <=> rs = <<>>
  BY EmptySeq
<1>6. rs # <<>> => Len(rs) \in 1..Len(rs)
  BY EmptySeq
<1> QED
  BY <1>1, <1>3, <1>4, <1>5, <1>6 DEF LaidOut

-----------------------------------------------------------------------------
(* The replay loop.                                                         *)

(* Nothing is in the file behind its last record.                           *)
LEMMA SizeBounded ==
  ASSUME NEW rs \in Seq(Records), NEW s \in Nat, LaidOut(rs, s)
  PROVE  s <= EndOf(rs, Len(rs))
<1>1. CASE rs = <<>>
  BY <1>1 DEF LaidOut, EndOf
<1>2. CASE rs # <<>>
  <2>1. Len(rs) # 0
    BY <1>2, EmptySeq
  <2> QED
    BY <1>2, <2>1 DEF LaidOut, EndOf
<1> QED
  BY <1>1, <1>2

(* A turn of the loop that finds no torn tail stands at the start of the    *)
(* record it looks at.                                                      *)
LEMMA AtCursor ==
  ASSUME RecoveryInv, phase = "replaying"
  PROVE  /\ Len(recovered) \in 0..Len(records)
         /\ Cursor = Len(recovered) + 1
         /\ ~Torn => /\ Cursor \in 1..Len(records) /\ records[Cursor] \in Records
                     /\ position = records[Cursor].start
<1>1. /\ records \in Seq(Records) /\ size \in Nat /\ position \in Nat
      /\ recovered \in Seq(Transactions)
      /\ LaidOut(records, size) /\ Replayed(records, recovered, position)
  BY DEF RecoveryInv, TypeOK
<1>2. Len(recovered) \in 0..Len(records) /\ position = EndOf(records, Len(recovered))
  BY <1>1 DEF Replayed
<1>3. ASSUME ~Torn
      PROVE  /\ Cursor \in 1..Len(records) /\ records[Cursor] \in Records
             /\ position = records[Cursor].start
  <2>1. position < size
    BY <1>1, <1>3 DEF Torn, Remaining, LengthBytes
  <2>2. Len(recovered) # Len(records)
    BY <1>1, <1>2, <2>1, SizeBounded
  <2>3. Cursor \in 1..Len(records) /\ Cursor - 1 = Len(recovered)
    BY <1>2, <2>2 DEF Cursor
  <2>4. records[Cursor].start = EndOf(records, Cursor - 1)
    BY <1>1, <2>3 DEF LaidOut
  <2> QED
    BY <1>1, <1>2, <2>3, <2>4, ElementOfSeq
<1> QED
  BY <1>2, <1>3 DEF Cursor

(* What the loop takes for a tail holds no complete record, as long as no   *)
(* length is damaged.                                                       *)
LEMMA TailIsIncomplete ==
  ASSUME RecoveryInv, phase = "replaying", Torn, ~lengthDamaged,
         NEW j \in 1..Len(records), End(records[j]) <= size
  PROVE  j <= Len(recovered)
<1> DEFINE c == Len(recovered) + 1
<1>1. /\ records \in Seq(Records) /\ size \in Nat /\ position \in Nat
      /\ LaidOut(records, size) /\ Replayed(records, recovered, position)
      /\ \A i \in 1..Len(records) : records[i].claimed = records[i].payload
  BY DEF RecoveryInv, TypeOK
<1>2. Len(recovered) \in 0..Len(records) /\ position = EndOf(records, Len(recovered))
  BY <1>1, AtCursor DEF Replayed
<1> SUFFICES ASSUME Len(recovered) < j PROVE FALSE
  BY <1>2
<1>3. c \in 1..Len(records) /\ c <= j /\ c - 1 = Len(recovered)
  BY <1>2
<1>4. records[c] \in Records /\ records[j] \in Records
  BY <1>1, <1>3, ElementOfSeq
<1>5. records[c].start = position
  BY <1>1, <1>2, <1>3 DEF LaidOut
<1>6. End(records[c]) <= size
  <2>1. c < j => End(records[c]) <= records[j].start
    BY <1>1, <1>3 DEF LaidOut
  <2>2. /\ End(records[c]) \in Nat /\ records[j].start \in Nat /\ End(records[j]) \in Nat
        /\ records[j].start < End(records[j])
    BY <1>4, RecordFacts
  <2>3. CASE c = j
    BY <2>3
  <2>4. CASE c < j
    BY <1>1, <2>1, <2>2, <2>4
  <2> QED
    BY <1>3, <2>3, <2>4
<1>7. records[c].claimed = records[c].payload
  BY <1>1, <1>3
<1>8. /\ records[c].payload \in 1..MaxPayload /\ MaxPayload \in Nat
      /\ End(records[c]) = records[c].start + records[c].payload + 8
  BY <1>4, RecordFacts
<1>9. Remaining >= LengthBytes /\ Remaining >= records[c].payload + Framing
  BY <1>1, <1>5, <1>6, <1>8, SMTT(30) DEF Remaining, LengthBytes, Framing, CrcBytes
<1>10. Remaining < Claimed + Framing
  BY <1>9 DEF Torn
<1> QED
  BY <1>1, <1>7, <1>8, <1>9, <1>10 DEF Claimed, Cursor, Remaining, Framing, LengthBytes, CrcBytes

-----------------------------------------------------------------------------
(* Every step keeps the invariant.                                          *)

LEMMA InitRecovers == Init => RecoveryInv
<1> SUFFICES ASSUME Init PROVE RecoveryInv
  OBVIOUS
<1> USE DEF Init
<1>1. /\ Len(records) = 0 /\ Len(committed) = 0 /\ 1..0 = {}
      /\ records \in Seq(Records) /\ recovered \in Seq(Transactions)
      /\ committed \in Seq(Transactions)
  BY EmptySeq
<1>2. TypeOK
  BY <1>1, LogRecoveryAssumption DEF TypeOK
<1>3. LaidOut(records, size)
  BY <1>1 DEF LaidOut
<1>4. Kept(records, size, committed)
  BY <1>1 DEF Kept
<1> QED
  BY <1>1, <1>2, <1>3, <1>4 DEF RecoveryInv

(* Steps that leave the file and its history alone.                         *)
LEMMA FileUntouched ==
  ASSUME RecoveryInv, TypeOK',
         UNCHANGED <<records, size, committed, issued, lengthDamaged>>,
         phase' \in {"replaying", "serving"} => Replayed(records, recovered', position'),
         phase' = "serving" => Len(recovered') = Len(records) /\ position' = size
  PROVE  RecoveryInv'
<1>1. LaidOut(records', size')
  BY DEF RecoveryInv
<1>2. phase' \in {"replaying", "serving"} => Replayed(records', recovered', position')
  OBVIOUS
<1>3. ~lengthDamaged' =>
        /\ \A i \in 1..Len(records') : records'[i].claimed = records'[i].payload
        /\ Kept(records', size', committed')
  BY DEF RecoveryInv
<1> QED
  BY <1>1, <1>2, <1>3 DEF RecoveryInv

LEMMA BeginReplayRecovers == ASSUME RecoveryInv, BeginReplay PROVE RecoveryInv'
<1> USE DEF BeginReplay
<1>1. TypeOK'
  BY LogRecoveryAssumption, EmptySeq DEF RecoveryInv, TypeOK
<1>2. Len(recovered') = 0 /\ 1..0 = {} /\ Len(records) \in Nat
  BY EmptySeq DEF RecoveryInv, TypeOK
<1>3. Replayed(records, recovered', position')
  BY <1>2 DEF Replayed, EndOf
<1> QED
  BY <1>1, <1>3, FileUntouched

LEMMA ReplayRecordRecovers == ASSUME RecoveryInv, ReplayRecord PROVE RecoveryInv'
<1> DEFINE n == Len(recovered)
           r == records[Cursor]
<1>1. /\ records \in Seq(Records) /\ recovered \in Seq(Transactions)
      /\ position \in Nat /\ phase = "replaying" /\ TypeOK
      /\ Replayed(records, recovered, position)
  BY DEF RecoveryInv, TypeOK, ReplayRecord
<1>2. /\ n \in 0..Len(records) /\ Cursor = n + 1
      /\ Cursor \in 1..Len(records) /\ r \in Records /\ position = r.start
  BY <1>1, AtCursor DEF ReplayRecord
<1>3. /\ r.id \in Nat /\ r.sound \in BOOLEAN /\ End(r) \in Nat
      /\ End(r) = r.start + r.payload + 8
  BY <1>2, RecordFacts
<1>4. position' = End(r) /\ CrcMatches(r)
  BY <1>2, <1>3 DEF ReplayRecord, CrcMatches, Claimed, Framing, LengthBytes, CrcBytes, End
<1>5. Transaction(r) \in Transactions
  BY <1>3 DEF Transaction, Transactions
<1>6. recovered' = Append(recovered, Transaction(r))
  BY DEF ReplayRecord
<1>7. /\ recovered' \in Seq(Transactions) /\ Len(recovered') = n + 1
      /\ recovered'[n + 1] = Transaction(r)
      /\ \A i \in 1..n : recovered'[i] = recovered[i]
  BY <1>1, <1>5, <1>6, AppendProperties
<1>8. TypeOK'
  BY <1>1, <1>3, <1>4, <1>7 DEF TypeOK, ReplayRecord
<1>9. \A i \in 1..(n + 1) : recovered'[i] = Transaction(records[i]) /\ CrcMatches(records[i])
  <2> TAKE i \in 1..(n + 1)
  <2>1. CASE i = n + 1
    BY <2>1, <1>2, <1>4, <1>7
  <2>2. CASE i \in 1..n
    BY <2>2, <1>1, <1>7 DEF Replayed
  <2> QED
    BY <1>2, <2>1, <2>2
<1>10. Replayed(records, recovered', position')
  <2>1. EndOf(records, n + 1) = End(r)
    BY <1>2 DEF EndOf
  <2> QED
    BY <1>2, <1>4, <1>7, <1>9, <2>1 DEF Replayed
<1> QED
  BY <1>8, <1>10, FileUntouched DEF ReplayRecord

LEMMA RefuseLogRecovers == ASSUME RecoveryInv, RefuseLog PROVE RecoveryInv'
<1>1. TypeOK' /\ phase' = "refused"
  BY DEF RecoveryInv, TypeOK, RefuseLog
<1> QED
  BY <1>1, FileUntouched DEF RefuseLog

LEMMA StopRecovers == ASSUME RecoveryInv, Stop PROVE RecoveryInv'
<1>1. TypeOK' /\ phase' = "down"
  BY DEF RecoveryInv, TypeOK, Stop
<1> QED
  BY <1>1, FileUntouched DEF Stop

(* The repair cuts nothing but the incomplete record at the end.            *)
LEMMA FinishReplayRecovers == ASSUME RecoveryInv, FinishReplay PROVE RecoveryInv'
<1> DEFINE n == Len(recovered)
<1>1. /\ records \in Seq(Records) /\ size \in Nat /\ position \in Nat /\ TypeOK
      /\ recovered \in Seq(Transactions) /\ committed \in Seq(Transactions)
      /\ phase = "replaying" /\ Torn /\ LaidOut(records, size)
      /\ Replayed(records, recovered, position)
  BY DEF RecoveryInv, TypeOK, FinishReplay
<1>2. /\ n \in 0..Len(records) /\ position = EndOf(records, n)
      /\ size' = position /\ records' = SubSeq(records, 1, n) /\ phase' = "serving"
  BY <1>1, AtCursor DEF FinishReplay, Replayed
<1>3. /\ records' \in Seq(Records) /\ Len(records') = n
      /\ \A i \in 1..n : records'[i] = records[i]
      /\ LaidOut(records', size') /\ EndOf(records', n) = position
  BY <1>1, <1>2, CutIsLaidOut
<1>4. TypeOK'
  BY <1>1, <1>2, <1>3 DEF TypeOK, FinishReplay
<1>5. \A i \in 1..n : i \in 1..Len(records)
  BY <1>2
<1>6. \A i \in 1..Len(records') : records'[i].id <= issued'
  BY <1>3, <1>5 DEF RecoveryInv, FinishReplay
<1>7. Replayed(records', recovered', position')
  BY <1>1, <1>2, <1>3 DEF Replayed, FinishReplay
<1>8. ASSUME ~lengthDamaged'
      PROVE  /\ \A i \in 1..Len(records') : records'[i].claimed = records'[i].payload
             /\ Kept(records', size', committed')
  <2>1. /\ ~lengthDamaged /\ Kept(records, size, committed)
        /\ \A i \in 1..Len(records) : records[i].claimed = records[i].payload
    BY <1>8 DEF FinishReplay, RecoveryInv
  <2>2. ASSUME NEW i \in 1..Len(committed)
        PROVE  /\ committed[i].sound
               /\ \E j \in i..n : records'[j].id = committed[i].id /\ End(records'[j]) <= size'
    <3>1. PICK j \in i..Len(records) : records[j].id = committed[i].id /\ End(records[j]) <= size
      BY <2>1 DEF Kept
    <3>2. j \in 1..Len(records) /\ committed[i].sound
      BY <2>1, <1>1 DEF Kept
    <3>3. j <= n
      BY <1>1, <2>1, <3>1, <3>2, TailIsIncomplete
    <3>4. j \in i..n /\ records'[j] = records[j] /\ n \in 1..Len(records)
      BY <1>1, <1>2, <1>3, <3>2, <3>3
    <3>5. End(records[j]) <= End(records[n])
      <4>1. CASE j = n
        <5>1. End(records[n]) \in Nat
          BY <1>1, <3>4, ElementOfSeq, RecordFacts
        <5> QED
          BY <4>1, <5>1
      <4>2. CASE j < n
        <5>1. End(records[j]) <= records[n].start
          BY <1>1, <3>2, <3>4, <4>2 DEF LaidOut
        <5>2. /\ End(records[j]) \in Nat /\ records[n].start \in Nat /\ End(records[n]) \in Nat
              /\ records[n].start < End(records[n])
          BY <1>1, <3>2, <3>4, ElementOfSeq, RecordFacts
        <5> QED
          BY <5>1, <5>2
      <4> QED
        BY <1>2, <3>2, <3>3, <4>1, <4>2
    <3>6. End(records[n]) = size'
      BY <1>2, <3>4 DEF EndOf
    <3> QED
      BY <3>1, <3>2, <3>4, <3>5, <3>6
  <2>3. committed' = committed
    BY DEF FinishReplay
  <2> QED
    BY <1>3, <1>5, <2>1, <2>2, <2>3 DEF Kept
<1>9. Len(recovered') = Len(records') /\ position' = size'
  BY <1>2, <1>3 DEF FinishReplay
<1> QED
  BY <1>3, <1>4, <1>6, <1>7, <1>8, <1>9 DEF RecoveryInv

(* What a new record adds to the log, all of it or a part.                  *)
LEMMA NewRecordIsLaidOut ==
  ASSUME RecoveryInv, phase = "serving", NEW payload \in Payloads,
         NEW written \in 0..(payload + Framing)
  PROVE  /\ NewRecord(payload) \in Records
         /\ size + written \in Nat
         /\ End(NewRecord(payload)) = size + payload + Framing
         /\ LaidOut(Append(records, NewRecord(payload)), size + written)
<1> DEFINE r == NewRecord(payload)
<1>1. /\ records \in Seq(Records) /\ size \in Nat /\ issued \in Nat
      /\ LaidOut(records, size) /\ position = size
      /\ Replayed(records, recovered, position) /\ Len(recovered) = Len(records)
      /\ \A i \in 1..Len(records) : records[i].id <= issued
  BY DEF RecoveryInv, TypeOK
<1>2. /\ payload \in 1..MaxPayload /\ MaxPayload \in Nat
      /\ payload \in Nat /\ written \in Nat /\ written <= payload + 8
  BY LogRecoveryAssumption DEF Framing, LengthBytes, CrcBytes
<1>3. r \in Records /\ r.id = issued + 1 /\ r.start = size /\ r.payload = payload
  BY <1>1, <1>2 DEF NewRecord, Records
<1>4. End(r) = size + payload + Framing
  BY <1>3 DEF End
<1>5. /\ size + written \in Nat /\ r.start <= size + written
      /\ size + written <= End(r)
  BY <1>1, <1>2, <1>3, <1>4 DEF Framing, LengthBytes, CrcBytes
<1>6. size = EndOf(records, Len(records))
  BY <1>1 DEF Replayed
<1>7. \A i \in 1..Len(records) : records[i].id < r.id
  <2> TAKE i \in 1..Len(records)
  <2>1. records[i].id \in Nat /\ records[i].id <= issued
    BY <1>1, ElementOfSeq, RecordFacts
  <2> QED
    BY <1>1, <1>3, <2>1
<1> HIDE DEF r
<1>8. LaidOut(Append(records, r), size + written)
  BY <1>1, <1>3, <1>5, <1>6, <1>7, AppendedIsLaidOut
<1> QED
  BY <1>3, <1>4, <1>5, <1>8 DEF r

(* A longer log keeps what it kept.                                         *)
LEMMA AppendKeeps ==
  ASSUME NEW rs \in Seq(Records), NEW s \in Nat, NEW t \in Nat, s <= t, NEW r \in Records,
         NEW txs \in Seq(Transactions), Kept(rs, s, txs)
  PROVE  Kept(Append(rs, r), t, txs)
<1> SUFFICES ASSUME NEW i \in 1..Len(txs)
             PROVE  /\ txs[i].sound
                    /\ \E j \in i..Len(Append(rs, r)) :
                         Append(rs, r)[j].id = txs[i].id /\ End(Append(rs, r)[j]) <= t
  BY DEF Kept
<1>1. PICK j \in i..Len(rs) : rs[j].id = txs[i].id /\ End(rs[j]) <= s
  BY DEF Kept
<1>2. j \in 1..Len(rs)
  OBVIOUS
<1>3. End(rs[j]) <= t
  BY <1>1, <1>2, ElementOfSeq, RecordFacts
<1>4. j \in i..Len(Append(rs, r)) /\ Append(rs, r)[j] = rs[j]
  BY <1>2, AppendProperties
<1> QED
  BY <1>1, <1>3, <1>4 DEF Kept

LEMMA AppendRecordRecovers ==
  ASSUME RecoveryInv, NEW payload \in Payloads, AppendRecord(payload)
  PROVE  RecoveryInv'
<1> DEFINE r == NewRecord(payload)
           n == Len(records)
           written == payload + Framing
<1>1. /\ records \in Seq(Records) /\ size \in Nat /\ position = size /\ TypeOK
      /\ recovered \in Seq(Transactions) /\ committed \in Seq(Transactions)
      /\ issued \in Nat /\ Replayed(records, recovered, position) /\ Len(recovered) = n
      /\ phase = "serving" /\ \A i \in 1..n : records[i].id <= issued
  BY DEF RecoveryInv, TypeOK, AppendRecord
<1>2. written \in 0..(payload + Framing) /\ written \in Nat
  BY LogRecoveryAssumption DEF Framing, LengthBytes, CrcBytes
<1>3. /\ r \in Records /\ size + written \in Nat /\ End(r) = size + payload + Framing
      /\ LaidOut(Append(records, r), size + written)
  BY <1>1, <1>2, NewRecordIsLaidOut
<1>4. /\ r.id = issued + 1 /\ r.sound = TRUE /\ r.claimed = payload /\ r.payload = payload
      /\ CrcMatches(r)
  BY DEF NewRecord, CrcMatches
<1>5. /\ records' = Append(records, r) /\ size' = size + payload + Framing
      /\ position' = size' /\ recovered' = Append(recovered, Transaction(r))
      /\ committed' = Append(committed, Transaction(r)) /\ issued' = issued + 1
      /\ phase' = "serving" /\ UNCHANGED <<lengthDamaged, damages>>
  BY <1>1 DEF AppendRecord
<1> HIDE DEF r
<1>6. Transaction(r) \in Transactions /\ Transaction(r).sound /\ Transaction(r).id = r.id
  <2>1. r.id \in Nat /\ r.sound \in BOOLEAN /\ r.sound
    BY <1>3, <1>4, RecordFacts
  <2> QED
    BY <2>1 DEF Transaction, Transactions
<1>7. size' = size + written /\ size' = End(r) /\ size' \in Nat /\ size <= size'
  <2>1. payload \in Nat /\ Framing \in Nat
    BY LogRecoveryAssumption DEF Framing, LengthBytes, CrcBytes
  <2> QED
    BY <1>1, <1>3, <1>5, <2>1
<1>8. /\ records' \in Seq(Records) /\ Len(records') = n + 1 /\ records'[n + 1] = r
      /\ \A i \in 1..n : records'[i] = records[i]
      /\ n \in Nat
  BY <1>1, <1>3, <1>5, AppendProperties
<1>9. /\ recovered' \in Seq(Transactions) /\ Len(recovered') = n + 1
      /\ recovered'[n + 1] = Transaction(r)
      /\ \A i \in 1..n : recovered'[i] = recovered[i]
  BY <1>1, <1>5, <1>6, AppendProperties
<1>10. /\ committed' \in Seq(Transactions) /\ Len(committed') = Len(committed) + 1
       /\ committed'[Len(committed) + 1] = Transaction(r)
       /\ \A i \in 1..Len(committed) : committed'[i] = committed[i]
       /\ Len(committed) \in Nat
  BY <1>1, <1>5, <1>6, AppendProperties
<1>11. TypeOK'
  BY <1>1, <1>5, <1>7, <1>8, <1>9, <1>10 DEF TypeOK
<1>12. LaidOut(records', size')
  BY <1>3, <1>5, <1>7
<1>13. \A i \in 1..Len(records') : records'[i].id <= issued'
  <2> TAKE i \in 1..Len(records')
  <2>1. CASE i = n + 1
    BY <1>1, <1>4, <1>5, <1>8, <2>1
  <2>2. CASE i \in 1..n
    <3>1. records[i].id \in Nat
      BY <1>1, <2>2, ElementOfSeq, RecordFacts
    <3> QED
      BY <1>1, <1>5, <1>8, <2>2, <3>1
  <2> QED
    BY <1>8, <2>1, <2>2
<1>14. Replayed(records', recovered', position')
  <2>1. EndOf(records', n + 1) = End(r)
    BY <1>8 DEF EndOf
  <2>2. \A i \in 1..(n + 1) : recovered'[i] = Transaction(records'[i]) /\ CrcMatches(records'[i])
    <3> TAKE i \in 1..(n + 1)
    <3>1. CASE i = n + 1
      BY <3>1, <1>4, <1>8, <1>9
    <3>2. CASE i \in 1..n
      BY <3>2, <1>1, <1>8, <1>9 DEF Replayed
    <3> QED
      BY <1>8, <3>1, <3>2
  <2> QED
    BY <1>5, <1>7, <1>8, <1>9, <2>1, <2>2 DEF Replayed
<1>15. ASSUME ~lengthDamaged'
       PROVE  /\ \A i \in 1..Len(records') : records'[i].claimed = records'[i].payload
              /\ Kept(records', size', committed')
  <2>1. /\ \A i \in 1..n : records[i].claimed = records[i].payload
        /\ Kept(records, size, committed)
    BY <1>5, <1>15 DEF RecoveryInv
  <2>2. \A i \in 1..Len(records') : records'[i].claimed = records'[i].payload
    BY <1>4, <1>8, <2>1
  <2>3. Kept(records', size', committed)
    BY <1>1, <1>3, <1>5, <1>7, <2>1, AppendKeeps
  <2>4. Len(committed) <= n
    <3>1. CASE Len(committed) = 0
      BY <3>1, <1>8
    <3>2. CASE Len(committed) # 0
      <4>1. Len(committed) \in 1..Len(committed)
        BY <3>2, <1>10
      <4>2. \E j \in Len(committed)..n : TRUE
        BY <2>1, <4>1 DEF Kept
      <4> QED
        BY <4>2, <1>8, <1>10
    <3> QED
      BY <3>1, <3>2
  <2>5. ASSUME NEW i \in 1..Len(committed')
        PROVE  /\ committed'[i].sound
               /\ \E j \in i..Len(records') :
                    records'[j].id = committed'[i].id /\ End(records'[j]) <= size'
    <3>1. CASE i = Len(committed) + 1
      <4>1. n + 1 \in i..Len(records')
        BY <1>8, <1>10, <2>4, <3>1
      <4>2. End(r) <= size'
        BY <1>7
      <4> QED
        BY <4>1, <4>2, <1>6, <1>8, <1>10, <3>1
    <3>2. CASE i \in 1..Len(committed)
      <4>1. committed'[i] = committed[i]
        BY <1>10, <3>2
      <4> QED
        BY <2>3, <3>2, <4>1 DEF Kept
    <3> QED
      BY <1>10, <3>1, <3>2
  <2> QED
    BY <2>2, <2>5 DEF Kept
<1>16. Len(recovered') = Len(records') /\ position' = size'
  BY <1>5, <1>8, <1>9
<1> QED
  BY <1>5, <1>11, <1>12, <1>13, <1>14, <1>15, <1>16 DEF RecoveryInv

LEMMA TearRecordRecovers ==
  ASSUME RecoveryInv, NEW payload \in Payloads, NEW written \in 0..(payload + Framing),
         TearRecord(payload, written)
  PROVE  RecoveryInv'
<1> DEFINE r == NewRecord(payload)
           n == Len(records)
<1>1. /\ records \in Seq(Records) /\ size \in Nat /\ TypeOK
      /\ committed \in Seq(Transactions) /\ issued \in Nat
      /\ phase = "serving" /\ \A i \in 1..n : records[i].id <= issued
  BY DEF RecoveryInv, TypeOK, TearRecord
<1>2. /\ r \in Records /\ size + written \in Nat
      /\ LaidOut(Append(records, r), size + written)
  BY <1>1, NewRecordIsLaidOut
<1>3. r.id = issued + 1 /\ r.claimed = payload /\ r.payload = payload
  BY DEF NewRecord
<1>4. /\ records' = Append(records, r) /\ size' = size + written
      /\ issued' = issued + 1 /\ phase' = "down"
      /\ UNCHANGED <<position, recovered, committed, lengthDamaged, damages>>
  BY DEF TearRecord
<1> HIDE DEF r
<1>5. size <= size'
  <2>1. written \in Nat
    BY LogRecoveryAssumption DEF Framing, LengthBytes, CrcBytes
  <2> QED
    BY <1>1, <1>4, <2>1
<1>6. /\ records' \in Seq(Records) /\ Len(records') = n + 1 /\ records'[n + 1] = r
      /\ \A i \in 1..n : records'[i] = records[i]
      /\ n \in Nat
  BY <1>1, <1>2, <1>4, AppendProperties
<1>7. TypeOK'
  BY <1>1, <1>2, <1>4, <1>6 DEF TypeOK
<1>8. \A i \in 1..Len(records') : records'[i].id <= issued'
  <2> TAKE i \in 1..Len(records')
  <2>1. CASE i = n + 1
    BY <1>1, <1>3, <1>4, <1>6, <2>1
  <2>2. CASE i \in 1..n
    <3>1. records[i].id \in Nat
      BY <1>1, <2>2, ElementOfSeq, RecordFacts
    <3> QED
      BY <1>1, <1>4, <1>6, <2>2, <3>1
  <2> QED
    BY <1>6, <2>1, <2>2
<1>9. ASSUME ~lengthDamaged'
      PROVE  /\ \A i \in 1..Len(records') : records'[i].claimed = records'[i].payload
             /\ Kept(records', size', committed')
  <2>1. /\ \A i \in 1..n : records[i].claimed = records[i].payload
        /\ Kept(records, size, committed)
    BY <1>4, <1>9 DEF RecoveryInv
  <2>2. \A i \in 1..Len(records') : records'[i].claimed = records'[i].payload
    BY <1>3, <1>6, <2>1
  <2>3. Kept(records', size', committed)
    BY <1>1, <1>2, <1>4, <1>5, <2>1, AppendKeeps
  <2> QED
    BY <1>4, <2>2, <2>3
<1> QED
  BY <1>2, <1>4, <1>7, <1>8, <1>9 DEF RecoveryInv

(* Damage changes one field of one complete record.                         *)
LEMMA DamageRecovers ==
  ASSUME RecoveryInv, phase' = "down", records' \in Seq(Records),
         Len(records') = Len(records),
         \A i \in 1..Len(records) :
           /\ records'[i].id = records[i].id /\ records'[i].start = records[i].start
           /\ records'[i].payload = records[i].payload
           /\ ~lengthDamaged' => records'[i].claimed = records[i].claimed,
         ~lengthDamaged' => ~lengthDamaged,
         lengthDamaged' \in BOOLEAN, damages' \in Nat,
         UNCHANGED <<size, position, recovered, committed, issued>>
  PROVE  RecoveryInv'
<1> DEFINE n == Len(records)
<1>1. /\ records \in Seq(Records) /\ size \in Nat /\ TypeOK /\ LaidOut(records, size)
      /\ \A i \in 1..n : records[i].id <= issued
  BY DEF RecoveryInv, TypeOK
<1>2. LaidOut(records', size')
  BY <1>1, DamagedIsLaidOut
<1>3. TypeOK'
  BY <1>1 DEF TypeOK
<1>4. \A i \in 1..Len(records') : records'[i].id <= issued'
  BY <1>1
<1>5. ASSUME ~lengthDamaged'
      PROVE  /\ \A i \in 1..Len(records') : records'[i].claimed = records'[i].payload
             /\ Kept(records', size', committed')
  <2>1. /\ \A i \in 1..n : records[i].claimed = records[i].payload
        /\ Kept(records, size, committed)
    BY <1>5 DEF RecoveryInv
  <2>2. \A i \in 1..Len(records') : records'[i].claimed = records'[i].payload
    BY <1>5, <2>1
  <2>3. ASSUME NEW i \in 1..Len(committed)
        PROVE  /\ committed[i].sound
               /\ \E j \in i..Len(records') :
                    records'[j].id = committed[i].id /\ End(records'[j]) <= size
    <3>1. PICK j \in i..n : records[j].id = committed[i].id /\ End(records[j]) <= size
      BY <2>1 DEF Kept
    <3>2. j \in 1..n
      OBVIOUS
    <3>3. records'[j].id = records[j].id /\ End(records'[j]) = End(records[j])
      BY <3>2 DEF End
    <3> QED
      BY <2>1, <3>1, <3>3 DEF Kept
  <2> QED
    BY <2>2, <2>3 DEF Kept
<1> QED
  BY <1>2, <1>3, <1>4, <1>5 DEF RecoveryInv

LEMMA DamageLengthRecovers ==
  ASSUME RecoveryInv, NEW i \in DOMAIN records, NEW claimed \in 0..(MaxPayload + 1),
         DamageLength(i, claimed)
  PROVE  RecoveryInv'
<1>1. /\ records \in Seq(Records) /\ damages \in Nat /\ phase = "down"
      /\ phase' = phase /\ damages' = damages + 1 /\ lengthDamaged' = TRUE
      /\ records' = [records EXCEPT ![i].claimed = claimed]
      /\ UNCHANGED <<size, position, recovered, committed, issued>>
  BY DEF RecoveryInv, TypeOK, DamageLength
<1>2. i \in 1..Len(records) /\ records[i] \in Records
  BY <1>1, ElementOfSeq
<1>3. [records[i] EXCEPT !.claimed = claimed] \in Records
  BY <1>2 DEF Records
<1>4. records' \in Seq(Records) /\ Len(records') = Len(records)
  BY <1>1, <1>2, <1>3, ExceptSeq
<1>5. ASSUME NEW k \in 1..Len(records)
      PROVE  /\ records'[k].id = records[k].id /\ records'[k].start = records[k].start
             /\ records'[k].payload = records[k].payload
  <2>1. records[k] \in Records
    BY <1>1, ElementOfSeq
  <2>2. CASE k = i
    <3>1. records'[k] = [records[k] EXCEPT !.claimed = claimed]
      BY <1>1, <1>2, <2>2
    <3> QED
      BY <2>1, <3>1 DEF Records
  <2>3. CASE k # i
    BY <1>1, <1>2, <2>3
  <2> QED
    BY <2>2, <2>3
<1> QED
  BY <1>1, <1>4, <1>5, DamageRecovers

LEMMA DamagePayloadRecovers ==
  ASSUME RecoveryInv, NEW i \in DOMAIN records, DamagePayload(i)
  PROVE  RecoveryInv'
<1>1. /\ records \in Seq(Records) /\ damages \in Nat /\ phase = "down"
      /\ phase' = phase /\ damages' = damages + 1
      /\ lengthDamaged \in BOOLEAN /\ lengthDamaged' = lengthDamaged
      /\ records' = [records EXCEPT ![i].sound = FALSE]
      /\ UNCHANGED <<size, position, recovered, committed, issued>>
  BY DEF RecoveryInv, TypeOK, DamagePayload
<1>2. i \in 1..Len(records) /\ records[i] \in Records
  BY <1>1, ElementOfSeq
<1>3. [records[i] EXCEPT !.sound = FALSE] \in Records
  BY <1>2 DEF Records
<1>4. records' \in Seq(Records) /\ Len(records') = Len(records)
  BY <1>1, <1>2, <1>3, ExceptSeq
<1>5. ASSUME NEW k \in 1..Len(records)
      PROVE  /\ records'[k].id = records[k].id /\ records'[k].start = records[k].start
             /\ records'[k].payload = records[k].payload
             /\ records'[k].claimed = records[k].claimed
  <2>1. records[k] \in Records
    BY <1>1, ElementOfSeq
  <2>2. CASE k = i
    <3>1. records'[k] = [records[k] EXCEPT !.sound = FALSE]
      BY <1>1, <1>2, <2>2
    <3> QED
      BY <2>1, <3>1 DEF Records
  <2>3. CASE k # i
    BY <1>1, <1>2, <2>3
  <2> QED
    BY <2>2, <2>3
<1> QED
  BY <1>1, <1>4, <1>5, DamageRecovers

-----------------------------------------------------------------------------
(* The invariant, and what it says of a store that serves.                  *)

(* Whatever the file holds, its records lie end to end, what a boot replayed  *)
(* are the first of them, and as long as no length is damaged every           *)
(* acknowledged transaction has a complete one.                               *)
THEOREM RecoveryIsSound == Spec => []RecoveryInv
<1>1. ASSUME RecoveryInv, [Next]_vars PROVE RecoveryInv'
  <2>1. CASE BeginReplay BY <1>1, <2>1, BeginReplayRecovers
  <2>2. CASE ReplayRecord BY <1>1, <2>2, ReplayRecordRecovers
  <2>3. CASE RefuseLog BY <1>1, <2>3, RefuseLogRecovers
  <2>4. CASE FinishReplay BY <1>1, <2>4, FinishReplayRecovers
  <2>5. ASSUME NEW payload \in Payloads, AppendRecord(payload) PROVE RecoveryInv'
    BY <1>1, <2>5, AppendRecordRecovers
  <2>6. ASSUME NEW payload \in Payloads, NEW written \in 0..(payload + Framing),
               TearRecord(payload, written)
        PROVE  RecoveryInv'
    BY <1>1, <2>6, TearRecordRecovers
  <2>7. CASE Stop BY <1>1, <2>7, StopRecovers
  <2>8. ASSUME NEW i \in DOMAIN records, NEW claimed \in 0..(MaxPayload + 1),
               DamageLength(i, claimed)
        PROVE  RecoveryInv'
    BY <1>1, <2>8, DamageLengthRecovers
  <2>9. ASSUME NEW i \in DOMAIN records, DamagePayload(i) PROVE RecoveryInv'
    BY <1>1, <2>9, DamagePayloadRecovers
  <2>10. CASE UNCHANGED vars
    BY <1>1, <2>10 DEF vars, RecoveryInv, TypeOK, LaidOut, Replayed, Kept, EndOf, End
  <2> QED
    BY <1>1, <2>1, <2>2, <2>3, <2>4, <2>5, <2>6, <2>7, <2>8, <2>9, <2>10 DEF Next
<1> QED
  BY <1>1, InitRecovers, PTL DEF Spec

LEMMA ServedIsHonest == RecoveryInv => RecoveryIsHonest
<1> SUFFICES ASSUME RecoveryInv, phase = "serving" PROVE RecoveryIsHonest
  BY DEF RecoveryIsHonest, PayloadDamageIsLoud, ServedIsLogged
<1> DEFINE n == Len(records)
<1>1. /\ records \in Seq(Records) /\ recovered \in Seq(Transactions)
      /\ committed \in Seq(Transactions) /\ LaidOut(records, size)
      /\ Replayed(records, recovered, position) /\ Len(recovered) = n /\ position = size
      /\ DOMAIN records = 1..n /\ DOMAIN recovered = 1..n /\ n \in Nat
  BY DEF RecoveryInv, TypeOK
<1>2. \A i \in 1..n : /\ recovered[i] = Transaction(records[i])
                      /\ recovered[i].sound = records[i].sound /\ records[i].sound
                      /\ recovered[i].id = records[i].id
  BY <1>1 DEF Replayed, Transaction, CrcMatches
<1>3. ServedIsLogged
  <2>1. \A i \in 1..n : End(records[i]) = IF i = n THEN size ELSE records[i + 1].start
    <3> TAKE i \in 1..n
    <3>1. CASE i = n
      <4>1. n # 0 /\ size = EndOf(records, n)
        BY <3>1, <1>1 DEF Replayed
      <4>2. End(records[n]) = size
        BY <4>1 DEF EndOf
      <4> QED
        BY <3>1, <4>2
    <3>2. CASE i # n
      <4> HIDE DEF n
      <4>0. n \in Nat
        BY <1>1
      <4>1. i + 1 \in 1..n /\ (i + 1) - 1 = i /\ i # 0
        BY <4>0, <3>2
      <4>2. records[i + 1].start = EndOf(records, (i + 1) - 1)
        BY <1>1, <4>1 DEF LaidOut
      <4> QED
        BY <3>2, <4>1, <4>2 DEF EndOf
    <3> QED
      BY <3>1, <3>2
  <2> QED
    BY <1>1, <1>2, <2>1 DEF ServedIsLogged
<1>4. ASSUME ~lengthDamaged PROVE PayloadDamageIsLoud
  <2>1. Kept(records, size, committed)
    BY <1>4 DEF RecoveryInv
  <2>2. \A i \in 1..Len(committed) : \E j \in i..n : recovered[j] = committed[i]
    <3> TAKE i \in 1..Len(committed)
    <3>1. PICK j \in i..n : records[j].id = committed[i].id
      BY <2>1 DEF Kept
    <3>2. j \in 1..n /\ committed[i] \in Transactions /\ committed[i].sound
      BY <2>1, <1>1, ElementOfSeq DEF Kept
    <3>3. /\ recovered[j] \in Transactions /\ recovered[j].id = committed[i].id
          /\ recovered[j].sound
      BY <1>1, <1>2, <3>1, <3>2, ElementOfSeq
    <3>4. recovered[j] = committed[i]
      BY <3>2, <3>3 DEF Transactions
    <3> QED
      BY <3>4
  <2>3. Len(committed) <= n
    <3>1. Len(committed) \in Nat
      BY <1>1
    <3>2. CASE Len(committed) # 0
      <4>1. Len(committed) \in 1..Len(committed)
        BY <3>1, <3>2
      <4> QED
        BY <2>2, <4>1, <3>1, <1>1
    <3> QED
      BY <1>1, <3>1, <3>2
  <2>4. Keeps(recovered)
    <3>1. \A i \in 1..Len(committed) : \E j \in 1..n : recovered[j] = committed[i]
      BY <2>2
    <3> QED
      BY <1>1, <2>3, <3>1, LenProperties DEF Keeps
  <2>5. \A i, j \in 1..n : i < j => recovered[i].id < recovered[j].id
    BY <1>1, <1>2 DEF LaidOut
  <2> QED
    BY <1>1, <1>2, <2>4, <2>5 DEF PayloadDamageIsLoud
<1> QED
  BY <1>3, <1>4 DEF RecoveryIsHonest, PayloadDamageIsLoud

(* A boot that serves has every acknowledged transaction, whole and in order, *)
(* unless a length field was damaged, and exactly the records of its log, end *)
(* to end, whatever was cut and damaged (log_codec.bgl's replay and repair).  *)
THEOREM BootsAreHonest == Spec => []RecoveryIsHonest
  BY RecoveryIsSound, ServedIsHonest, PTL
=============================================================================
