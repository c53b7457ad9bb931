--------------------------- MODULE DurableProofs ---------------------------
(***************************************************************************)
(* The native server keeps what it answered, for every set of requests,     *)
(* every size of a record and any number of crashes and power losses, and   *)
(* it implements the atomic log.                                            *)
(***************************************************************************)
EXTENDS DurableServer, SequenceTheorems, TLAPS

-----------------------------------------------------------------------------
(* The log as a pile of records: record 0 is the header, record g the g-th   *)
(* transaction, and each takes Parts pieces.                                *)

Pieces == [tx : Write \cup {Header}, sequence : Nat, part : Nat]

(* The number of pieces in front of record g.                               *)
Before(g) == g * Parts

TxAt(l, g) == l[Before(g) + 1].tx

Txs(l, n) == [i \in 1..n |-> TxAt(l, i)]

(* Every piece is the one its place calls for; the last record may be torn. *)
InOrder(l) ==
  \A g \in Nat : \A p \in 1..Parts :
    Before(g) + p <= Len(l) => l[Before(g) + p] = Piece(TxAt(l, g), g, p)

(* How many transactions are completely on the disk.                        *)
VersionOf(d) == IF d < Parts THEN 0 ELSE (d \div Parts) - 1

Version == VersionOf(durable)

-----------------------------------------------------------------------------
(* The inductive invariant.                                                 *)

(* An image shows a part of the log l that no power loss can take back, of  *)
(* which d pieces are on the disk.                                          *)
Fits(img, l, d) ==
  /\ img \in [parts : 0..Parts, mark : Nat, txs : Seq(Write)]
  /\ \/ img.mark = 0 /\ img.parts = 0 /\ img.txs = <<>>
     \/ /\ img.mark = Before(Len(img.txs) + 1)
        /\ img.mark <= d
        /\ img.txs = Txs(l, Len(img.txs))

(* The pieces a power loss can leave are those of one log in order, which   *)
(* is at most one transaction ahead of the disk.                            *)
DiskInv ==
  /\ log \in Seq(Pieces) /\ tail \in Seq(Pieces) /\ durable \in 0..Len(log)
  /\ InOrder(log \o tail)
  /\ Len(log \o tail) <= Before(Version + 2)
  /\ tail # <<>> => \E k \in Nat \ {0} : Len(log) = Before(k)
  /\ Fits(image, log, durable) /\ Fits(imageOnDisk, log, durable)

(* Every transaction of the log was asked for, at the version it has there. *)
WritesKnown ==
  \A g \in Nat \ {0} :
    Before(g) < Len(log \o tail) =>
      LET w == TxAt(log \o tail, g)
      IN  w \in Write /\ client[w] # "idle" /\ guard[w] \in {AnyVersion, g - 1}

ClientsInv ==
  /\ client \in [Request -> {"idle", "waiting", "lost", "answered"}]
  /\ tries \in [Request -> Nat]
  /\ guard \in [Write -> Nat \cup {AnyVersion}]
  /\ asked \in [Request -> Int]
  /\ answer \in [Request -> [ok : BOOLEAN, version : Int]]
  /\ \A r \in Request : /\ asked[r] \in -1..Version
                        /\ client[r] = "idle" <=> asked[r] = -1

(* An acknowledged write is on the disk at the version of its answer.       *)
AnswersInv ==
  \A w \in Write :
    answer[w].ok => /\ answer[w].version \in 1..Version
                    /\ TxAt(log, answer[w].version) = w

Jobs == [req : Request, try : Nat]

Known(job) == job \in Jobs /\ client[job.req] # "idle" /\ job.try <= tries[job.req]

(* What is on the disk stays there, and one transaction may join it.        *)
LogGrows ==
  /\ Version' \in {Version, Version + 1}
  /\ \A i \in 1..Version : TxAt(log', i) = TxAt(log, i)

(* A response that is true, and that is not older than its request.         *)
RightAnswer(job, ok, version) ==
  /\ version \in 0..Len(current)
  /\ job.try = tries[job.req] => asked[job.req] <= version
  /\ IF job.req \in Write
     THEN IF ok THEN /\ version > 0 /\ current[version] = job.req
                     /\ job.try = tries[job.req] => asked[job.req] < version
                ELSE guard[job.req] \notin {AnyVersion, version}
     ELSE ok

JobsInv ==
  /\ \A job \in queue : Known(job)
  /\ \A response \in outbox :
       /\ response \in [job : Jobs, ok : BOOLEAN, version : Nat]
       /\ Known(response.job)
       /\ RightAnswer(response.job, response.ok, response.version)

Booted == {"repair", "sync", "serving", "stopping"}
Up     == {"serving", "stopping"}

HostInv ==
  /\ host \in {"down", "write header"} \cup Booted
  /\ poisoned \in BOOLEAN /\ dirty \in 0..CompactAt
  /\ host \notin Up => queue = {} /\ outbox = {} /\ turn = FreeTurn /\ ~poisoned
  /\ tail # <<>> => host \in {"down", "repair", "sync"}
  /\ host = "write header" => /\ current = <<>> /\ Len(log) < Parts
                              /\ Len(log) > 0 => TxAt(log, 0) = Header
  /\ host \in Booted =>
       /\ current \in Seq(Write)
       /\ Before(Len(current) + 1) <= Len(log)
       /\ current = Txs(log, Len(current))
  /\ host = "repair" => Len(log) < Before(Len(current) + 2)
  /\ host = "sync" => Len(log) = Before(Len(current) + 1)
  /\ host \in Up /\ turn.pc # "publish" => durable = Before(Len(current) + 1)
  /\ host \in Up /\ ~poisoned /\ turn.pc \notin {"append", "sync", "publish"} =>
       Len(log) = durable

Writing   == {"append", "sync", "publish"}
Imaging   == {"truncate image", "write image", "sync image"}
Finishing == Imaging \cup {"respond"}

TurnInv ==
  /\ turn \in [job : Jobs \cup {NoJob}, pc : {"free"} \cup Writing \cup Finishing,
               fork : Seq(Write), ok : BOOLEAN]
  /\ turn.pc # "free" => ~poisoned /\ Known(turn.job)
  /\ turn.pc \in Writing =>
       /\ turn.job.req \in Write /\ turn.ok
       /\ turn.fork = Append(current, turn.job.req)
       /\ guard[turn.job.req] \in {AnyVersion, Len(current)}
       /\ turn.job.try = tries[turn.job.req] => asked[turn.job.req] <= Len(current)
       /\ dirty < CompactAt
       /\ Len(log) > Before(Len(turn.fork)) => TxAt(log, Len(turn.fork)) = turn.job.req
  /\ turn.pc = "append" => Len(log) < Before(Len(turn.fork)) + Parts
  /\ turn.pc \in {"sync", "publish"} => Len(log) = Before(Len(turn.fork)) + Parts
  /\ turn.pc = "publish" => durable = Len(log)
  /\ turn.pc \in Finishing => turn.fork = current
  /\ turn.pc \in Imaging => turn.job.req \notin Write /\ turn.ok
  /\ turn.pc \in Finishing => RightAnswer(turn.job, turn.ok, Len(turn.fork))
  /\ turn.pc \in {"write image", "sync image"} => image.mark > 0
  /\ turn.pc = "write image" => image.parts < Parts

ServerInv ==
  DiskInv /\ WritesKnown /\ ClientsInv /\ AnswersInv /\ JobsInv /\ HostInv /\ TurnInv

-----------------------------------------------------------------------------
(* Counting pieces.                                                         *)

LEMMA BeforeFacts ==
  /\ Before(0) = 0 /\ Before(1) = Parts
  /\ \A g \in Nat : Before(g) \in Nat /\ Before(g + 1) = Before(g) + Parts
  /\ \A g \in Nat : Before(g + 2) = Before(g + 1) + Parts
  /\ \A g, h \in Nat : g < h => Before(g) + Parts <= Before(h)
<1>1. Parts \in Nat \ {0}
  BY DurableServerAssumption
<1>2. ASSUME NEW g \in Nat PROVE g * Parts \in Nat
  BY <1>1
<1>3. ASSUME NEW g \in Nat PROVE (g + 1) * Parts = g * Parts + Parts
  BY <1>1
<1>4. ASSUME NEW g \in Nat, NEW h \in Nat, g < h
      PROVE  g * Parts + Parts <= h * Parts
  <2>1. PICK d \in Nat : h = g + 1 + d
    <3>1. h - g - 1 \in Nat /\ h = g + 1 + (h - g - 1)
      BY <1>4
    <3> QED BY <3>1
  <2>2. h * Parts = g * Parts + Parts + d * Parts
    BY <1>1, <2>1
  <2>3. d * Parts \in Nat /\ g * Parts \in Nat
    BY <1>2
  <2> QED BY <1>1, <2>2, <2>3
<1>5. 0 * Parts = 0 /\ 1 * Parts = Parts
  BY <1>1
<1>6. ASSUME NEW g \in Nat PROVE (g + 2) * Parts = (g + 1) * Parts + Parts
  BY <1>1
<1> QED BY <1>2, <1>3, <1>4, <1>5, <1>6 DEF Before

LEMMA NextFacts ==
  ASSUME NEW g \in Nat
  PROVE  /\ g + 1 \in Nat /\ g + 2 \in Nat /\ Parts \in Nat \ {0}
         /\ Before(g) \in Nat /\ Before(g + 1) \in Nat /\ Before(g + 2) \in Nat
         /\ Before(g + 1) = Before(g) + Parts /\ Before(g + 2) = Before(g + 1) + Parts
<1>1. g + 1 \in Nat /\ g + 2 \in Nat
  OBVIOUS
<1>2. Before(g) \in Nat /\ Before(g + 1) \in Nat /\ Before(g + 2) \in Nat
  BY <1>1, BeforeFacts
<1> QED BY <1>1, <1>2, BeforeFacts, DurableServerAssumption

(* A record is before another's end unless it is a later one.               *)
LEMMA EarlierFacts ==
  ASSUME NEW g \in Nat, NEW h \in Nat, NEW m \in Nat, Before(g) <= m, m < Before(h + 1)
  PROVE  g <= h
<1>1. ASSUME h < g PROVE FALSE
  <2>1. Before(h) + Parts <= Before(g) /\ Before(g) \in Nat
    BY <1>1, BeforeFacts
  <2> QED BY <2>1, NextFacts
<1> QED BY <1>1

(* The pieces of a place have one record, and m pieces hold m \div Parts.   *)
LEMMA DivFacts ==
  ASSUME NEW m \in Nat
  PROVE  /\ m \div Parts \in Nat
         /\ Before(m \div Parts) <= m /\ m < Before(m \div Parts) + Parts
         /\ \A n \in Nat : Before(n) <= m /\ m < Before(n) + Parts => m \div Parts = n
<1>1. Parts \in Nat \ {0}
  BY DurableServerAssumption
<1>2. \A x \in Nat : \A k \in Nat \ {0} :
        /\ x \div k \in Nat /\ k * (x \div k) <= x /\ x < k * (x \div k) + k
  OBVIOUS
<1>3. \A x \in Nat : \A k \in Nat \ {0} : k * x = x * k
  OBVIOUS
<1>4. /\ m \div Parts \in Nat
      /\ Before(m \div Parts) <= m /\ m < Before(m \div Parts) + Parts
  BY <1>1, <1>2, <1>3 DEF Before
<1>5. ASSUME NEW n \in Nat, Before(n) <= m, m < Before(n) + Parts
      PROVE  m \div Parts = n
  <2>1. ASSUME NEW q \in Nat, Before(q) <= m, m < Before(q) + Parts PROVE q = n
    <3>1. /\ q < n => Before(q) + Parts <= Before(n)
          /\ n < q => Before(n) + Parts <= Before(q)
          /\ Before(n) \in Nat /\ Before(q) \in Nat
      BY BeforeFacts
    <3> QED BY <1>1, <1>5, <2>1, <3>1
  <2> QED BY <1>4, <2>1
<1> QED BY <1>4, <1>5

LEMMA VersionFacts ==
  ASSUME NEW d \in Nat
  PROVE  /\ VersionOf(d) \in Nat
         /\ d < Before(VersionOf(d) + 2)
         /\ VersionOf(d) > 0 \/ d >= Parts => Before(VersionOf(d) + 1) <= d
         /\ \A n \in Nat : Before(n + 1) <= d /\ d < Before(n + 2) => VersionOf(d) = n
         /\ d < Parts => VersionOf(d) = 0
<1>1. Parts \in Nat \ {0}
  BY DurableServerAssumption
<1> DEFINE q == d \div Parts
<1>2. q \in Nat /\ Before(q) <= d /\ d < Before(q) + Parts
  BY DivFacts
<1>3. \A n \in Nat : Before(n) <= d /\ d < Before(n) + Parts => q = n
  BY DivFacts
<1>4. CASE d < Parts
  <2>1. VersionOf(d) = 0
    BY <1>4 DEF VersionOf
  <2>2. ASSUME NEW n \in Nat PROVE ~(Before(n + 1) <= d)
    <3>1. Before(n) \in Nat /\ Before(n + 1) = Before(n) + Parts
      BY BeforeFacts
    <3> QED BY <1>1, <1>4, <3>1
  <2>3. d < Before(VersionOf(d) + 2)
    <3>1. Before(0 + 2) = Before(0 + 1) + Parts /\ Before(0 + 1) = Before(0) + Parts
      BY BeforeFacts
    <3>2. Before(0 + 2) = Parts + Parts
      BY <1>1, <3>1, BeforeFacts
    <3> QED BY <1>1, <1>4, <2>1, <3>2
  <2> QED BY <1>1, <1>4, <2>1, <2>2, <2>3
<1>5. CASE d >= Parts
  <2>1. VersionOf(d) = q - 1
    BY <1>1, <1>5 DEF VersionOf
  <2>2. q # 0
    BY <1>1, <1>2, <1>5, BeforeFacts
  <2>3. PICK v \in Nat : q = v + 1
    <3>1. q - 1 \in Nat /\ q = (q - 1) + 1
      BY <1>2, <2>2
    <3> QED BY <3>1
  <2>4. VersionOf(d) = v
    BY <2>1, <2>3
  <2>5. Before(v + 1) <= d /\ d < Before(v + 2)
    BY <1>1, <1>2, <2>3, BeforeFacts
  <2>6. ASSUME NEW n \in Nat, Before(n + 1) <= d, d < Before(n + 2) PROVE v = n
    <3>1. Before(n + 2) = Before(n + 1) + Parts
      BY BeforeFacts
    <3>2. q = n + 1
      BY <1>3, <2>6, <3>1
    <3> QED BY <2>3, <3>2
  <2> QED BY <1>1, <1>5, <2>4, <2>5, <2>6
<1> QED BY <1>1, <1>4, <1>5

(* As long as the log is at most one transaction ahead of the disk, the disk*)
(* moves on by at most one.                                                 *)
LEMMA VersionGrows ==
  ASSUME NEW d \in Nat, NEW m \in Nat, d <= m, m <= Before(VersionOf(d) + 2)
  PROVE  VersionOf(m) \in {VersionOf(d), VersionOf(d) + 1}
<1> DEFINE v == VersionOf(d)
           w == VersionOf(m)
<1>1. /\ v \in Nat /\ w \in Nat /\ d < Before(v + 2) /\ m < Before(w + 2)
      /\ v > 0 => Before(v + 1) <= d
      /\ w > 0 => Before(w + 1) <= m
      /\ m <= Before(v + 2)
  BY VersionFacts
<1> HIDE DEF v, w
<1>2. v <= w
  <2>1. CASE v = 0
    BY <1>1, <2>1
  <2>2. CASE v > 0
    <3>1. Before(v + 1) \in Nat /\ v + 1 \in Nat /\ w + 1 \in Nat /\ w + 1 + 1 = w + 2
      <4>1. v \in Nat /\ w \in Nat
        BY <1>1
      <4>2. Before(v + 1) \in Nat
        BY <4>1, NextFacts
      <4> QED BY <4>1, <4>2
    <3>2. Before(v + 1) <= m /\ m < Before(w + 1 + 1)
      BY <1>1, <2>2, <3>1
    <3>3. v + 1 <= w + 1
      BY <3>1, <3>2, EarlierFacts
    <3> QED BY <1>1, <3>3
  <2> QED BY <1>1, <2>1, <2>2
<1>3. w <= v + 1
  <2>1. CASE w = 0
    BY <1>1, <2>1
  <2>2. CASE w > 0
    <3>1. v + 2 \in Nat /\ w + 1 \in Nat
      BY <1>1
    <3>2. /\ Before(v + 2 + 1) = Before(v + 2) + Parts /\ Before(v + 2) \in Nat
          /\ Parts \in Nat \ {0} /\ Before(v + 2 + 1) \in Nat
      BY <3>1, NextFacts
    <3>3. Before(w + 1) <= m /\ m < Before(v + 2 + 1)
      BY <1>1, <2>2, <3>2
    <3>4. w + 1 <= v + 2
      BY <3>1, <3>3, EarlierFacts
    <3> QED BY <1>1, <3>4
  <2> QED BY <1>1, <2>1, <2>2
<1>4. w \in {v, v + 1}
  BY <1>1, <1>2, <1>3
<1> QED BY <1>4 DEF v, w

-----------------------------------------------------------------------------
(* Reading a log.                                                           *)

LEMMA PieceTyped ==
  ASSUME NEW l \in Seq(Pieces), NEW i \in 1..Len(l)
  PROVE  l[i] \in Pieces /\ l[i].tx \in Write \cup {Header}
<1>1. l[i] \in Pieces
  OBVIOUS
<1> QED BY <1>1 DEF Pieces

(* Where record i <= n of a log with n transactions begins.                 *)
LEMMA PlaceFacts ==
  ASSUME NEW n \in Nat, NEW i \in 0..n
  PROVE  /\ i \in Nat /\ Before(i) \in Nat /\ Before(n + 1) \in Nat
         /\ Before(i + 1) = Before(i) + Parts /\ Before(i + 1) <= Before(n + 1)
         /\ Before(i) + 1 \in 1..Before(n + 1)
<1>1. i \in Nat /\ n + 1 \in Nat /\ i < n + 1
  OBVIOUS
<1>2. /\ Before(i) \in Nat /\ Before(n + 1) \in Nat
      /\ Before(i + 1) = Before(i) + Parts /\ Before(i) + Parts <= Before(n + 1)
  BY <1>1, BeforeFacts
<1> QED BY <1>1, <1>2, DurableServerAssumption

LEMMA TxsFacts ==
  ASSUME NEW l \in Seq(Pieces), NEW n \in Nat, Before(n + 1) <= Len(l)
  PROVE  /\ Txs(l, n) \in Seq(Write \cup {Header})
         /\ Len(Txs(l, n)) = n
         /\ \A i \in 1..n : Txs(l, n)[i] = TxAt(l, i)
<1>1. ASSUME NEW i \in 1..n PROVE TxAt(l, i) \in Write \cup {Header}
  <2>1. Before(i) + 1 \in 1..Before(n + 1)
    BY <1>1, PlaceFacts, i \in 0..n
  <2>2. Before(i) + 1 \in 1..Len(l)
    BY <2>1, BeforeFacts
  <2> QED BY <2>2, PieceTyped DEF TxAt
<1>2. Txs(l, n) \in [1..n -> Write \cup {Header}]
  BY <1>1 DEF Txs
<1> QED BY <1>2 DEF Txs

LEMMA TxsAgree ==
  ASSUME NEW l \in Seq(Pieces), NEW k \in Seq(Pieces), NEW n \in Nat,
         \A j \in 1..Before(n + 1) : l[j] = k[j]
  PROVE  /\ Txs(l, n) = Txs(k, n)
         /\ \A i \in 0..n : TxAt(l, i) = TxAt(k, i)
<1>1. ASSUME NEW i \in 0..n PROVE TxAt(l, i) = TxAt(k, i)
  BY PlaceFacts DEF TxAt
<1> QED BY <1>1 DEF Txs

(* The start of a log is a log in order, with the same transactions.        *)
LEMMA PrefixFacts ==
  ASSUME NEW l \in Seq(Pieces), NEW m \in 0..Len(l)
  PROVE  /\ SubSeq(l, 1, m) \in Seq(Pieces) /\ Len(SubSeq(l, 1, m)) = m
         /\ \A j \in 1..m : SubSeq(l, 1, m)[j] = l[j]
         /\ InOrder(l) => InOrder(SubSeq(l, 1, m))
<1>1. /\ SubSeq(l, 1, m) \in Seq(Pieces) /\ Len(SubSeq(l, 1, m)) = m
      /\ \A j \in 1..m : SubSeq(l, 1, m)[j] = l[j]
  <2>1. \A j \in 1..m : l[j] \in Pieces
    BY PieceTyped
  <2>2. m \in Int /\ 1 \in Int /\ (1 <= m \/ m = 0) /\ m - 1 + 1 = m
    OBVIOUS
  <2> QED BY <2>1, <2>2, SubSeqProperties
<1>2. ASSUME InOrder(l), NEW g \in Nat, NEW p \in 1..Parts, Before(g) + p <= m
      PROVE  SubSeq(l, 1, m)[Before(g) + p] = Piece(TxAt(SubSeq(l, 1, m), g), g, p)
  <2>1. Before(g) \in Nat
    BY BeforeFacts
  <2>2. Before(g) + 1 \in 1..m /\ Before(g) + p \in 1..m /\ Before(g) + p <= Len(l)
    BY <1>2, <2>1, DurableServerAssumption
  <2>3. TxAt(SubSeq(l, 1, m), g) = TxAt(l, g)
    BY <1>1, <2>2 DEF TxAt
  <2>4. l[Before(g) + p] = Piece(TxAt(l, g), g, p)
    BY <1>2, <2>2 DEF InOrder
  <2> QED BY <1>1, <2>2, <2>3, <2>4
<1>3. InOrder(l) => InOrder(SubSeq(l, 1, m))
  BY <1>1, <1>2 DEF InOrder
<1> QED BY <1>1, <1>3

(* The pieces of one record.                                                *)
LEMMA RecordFacts ==
  ASSUME NEW l \in Seq(Pieces), InOrder(l), NEW g \in Nat, Before(g + 1) <= Len(l)
  PROVE  /\ RecordAt(l, g + 1).tx = TxAt(l, g)
         /\ RecordAt(l, g + 1).sequence = g
         /\ Intact(l, g + 1)
<1>1. (g + 1 - 1) * Parts = Before(g)
  <2>1. g + 1 - 1 = g
    OBVIOUS
  <2> QED BY <2>1 DEF Before
<1>2. RecordAt(l, g + 1) = l[Before(g) + 1]
  BY <1>1 DEF RecordAt
<1>3. \A p \in 1..Parts : l[Before(g) + p] = Piece(TxAt(l, g), g, p)
  <2>1. Before(g) \in Nat /\ Before(g + 1) = Before(g) + Parts
    BY BeforeFacts
  <2>2. \A p \in 1..Parts : Before(g) + p <= Len(l)
    BY <2>1, DurableServerAssumption
  <2> QED BY <2>2 DEF InOrder
<1>4. 1 \in 1..Parts
  BY DurableServerAssumption
<1>5. /\ RecordAt(l, g + 1).tx = TxAt(l, g) /\ RecordAt(l, g + 1).sequence = g
  <2>1. l[Before(g) + 1] = Piece(TxAt(l, g), g, 1)
    BY <1>3, <1>4
  <2> QED BY <1>2, <2>1 DEF Piece
<1>6. Intact(l, g + 1)
  BY <1>1, <1>3, <1>5 DEF Intact
<1> QED BY <1>5, <1>6

(* The number of complete records.                                          *)
LEMMA RecordsAre ==
  ASSUME NEW m \in Nat, NEW n \in Nat, Before(n + 1) <= m, m < Before(n + 2)
  PROVE  /\ m \div Parts = n + 1
         /\ (m \div Parts) * Parts = Before(n + 1)
<1>1. Before(n + 2) = Before(n + 1) + Parts
  BY BeforeFacts
<1>2. m \div Parts = n + 1
  BY <1>1, DivFacts
<1> QED BY <1>2 DEF Before

(* consume-transaction-log-records!: from any record on, a log in order is  *)
(* read to the end of its last complete record.                             *)
LEMMA ConsumeIs ==
  ASSUME NEW l \in Seq(Pieces), InOrder(l),
         NEW n \in Nat, Before(n + 1) <= Len(l), Len(l) < Before(n + 2),
         NEW k \in 0..n
  PROVE  Consume(l, k + 1, Txs(l, k)) =
           [ok |-> TRUE, txs |-> Txs(l, n), valid |-> Before(n + 1), fresh |-> FALSE]
<1>1. Len(l) \div Parts = n + 1 /\ (Len(l) \div Parts) * Parts = Before(n + 1)
  BY RecordsAre
<1>2. ASSUME NEW g \in 0..n
      PROVE  /\ RecordAt(l, g + 1).tx = TxAt(l, g) /\ RecordAt(l, g + 1).sequence = g
             /\ Intact(l, g + 1)
  <2>1. g \in Nat /\ Before(g + 1) <= Before(n + 1) /\ Before(g + 1) \in Nat
    <3>1. g \in Nat /\ Before(g) \in Nat /\ Before(g + 1) = Before(g) + Parts
      BY PlaceFacts
    <3> QED BY <3>1, PlaceFacts, DurableServerAssumption
  <2>2. Before(g + 1) <= Len(l)
    BY <2>1, PlaceFacts
  <2> QED BY <2>1, <2>2, RecordFacts
<1>3. k \in Nat /\ Before(k + 1) <= Len(l)
  <2>1. /\ k \in Nat /\ Before(k) \in Nat /\ Before(k + 1) = Before(k) + Parts
        /\ Before(k + 1) <= Before(n + 1) /\ Before(n + 1) \in Nat
    BY PlaceFacts
  <2> QED BY <2>1, DurableServerAssumption
<1>4. Len(Txs(l, k)) = k /\ Txs(l, k) \in Seq(Write \cup {Header})
  BY <1>3, TxsFacts
<1>5. \A g \in (k + 2)..(n + 1) :
        /\ Intact(l, g)
        /\ RecordAt(l, g).sequence >
             IF g = k + 2 THEN k ELSE RecordAt(l, g - 1).sequence
  <2> SUFFICES ASSUME NEW g \in (k + 2)..(n + 1)
               PROVE  /\ Intact(l, g)
                      /\ RecordAt(l, g).sequence >
                           IF g = k + 2 THEN k ELSE RecordAt(l, g - 1).sequence
    OBVIOUS
  <2>1. Intact(l, g - 1 + 1) /\ RecordAt(l, g - 1 + 1).sequence = g - 1
    BY <1>2, g - 1 \in 0..n
  <2>2. RecordAt(l, g - 2 + 1).sequence = g - 2
    BY <1>2, g - 2 \in 0..n
  <2>3. g - 1 + 1 = g /\ g - 2 + 1 = g - 1
    OBVIOUS
  <2> QED BY <2>1, <2>2, <2>3
<1>6. Txs(l, k) \o [i \in 1..(n - k) |-> RecordAt(l, k + 1 + i).tx] = Txs(l, n)
  <2> DEFINE rest == [i \in 1..(n - k) |-> RecordAt(l, k + 1 + i).tx]
  <2>1. ASSUME NEW i \in 1..(n - k)
        PROVE  rest[i] = TxAt(l, k + i)
    <3>1. k + i \in 0..n /\ k + i + 1 = k + 1 + i
      OBVIOUS
    <3> QED BY <1>2, <3>1
  <2>2. /\ Txs(l, n) \in Seq(Write \cup {Header}) /\ Len(Txs(l, n)) = n
        /\ \A i \in 1..n : Txs(l, n)[i] = TxAt(l, i)
    BY TxsFacts
  <2>3. rest \in Seq(Write \cup {Header}) /\ Len(rest) = n - k
    <3>1. \A i \in 1..(n - k) : rest[i] \in Write \cup {Header}
      <4> SUFFICES ASSUME NEW i \in 1..(n - k) PROVE rest[i] \in Write \cup {Header}
        OBVIOUS
      <4>1. k + i \in 1..n
        OBVIOUS
      <4>2. rest[i] = Txs(l, n)[k + i]
        BY <2>1, <2>2, <4>1
      <4>3. Txs(l, n)[k + i] \in Write \cup {Header}
        BY <2>2, <4>1
      <4> QED BY <4>2, <4>3
    <3>2. n - k \in Nat /\ DOMAIN rest = 1..(n - k)
      OBVIOUS
    <3>3. rest \in [1..(n - k) -> Write \cup {Header}]
      BY <3>1
    <3> HIDE DEF rest
    <3> QED BY <3>2, <3>3
  <2> HIDE DEF rest
  <2>4. /\ Txs(l, k) \o rest \in Seq(Write \cup {Header})
        /\ Len(Txs(l, k) \o rest) = n
        /\ \A i \in 1..n : (Txs(l, k) \o rest)[i] =
                              IF i <= k THEN Txs(l, k)[i] ELSE rest[i - k]
    <3>1. /\ Txs(l, k) \o rest \in Seq(Write \cup {Header})
          /\ Len(Txs(l, k) \o rest) = Len(Txs(l, k)) + Len(rest)
          /\ \A i \in 1..Len(Txs(l, k)) + Len(rest) :
               (Txs(l, k) \o rest)[i] = IF i <= Len(Txs(l, k)) THEN Txs(l, k)[i]
                                        ELSE rest[i - Len(Txs(l, k))]
      BY <1>4, <2>3, ConcatProperties
    <3>2. k + (n - k) = n
      OBVIOUS
    <3> QED BY <1>4, <2>3, <3>1, <3>2
  <2>5. ASSUME NEW i \in 1..n PROVE (Txs(l, k) \o rest)[i] = Txs(l, n)[i]
    <3>1. CASE i <= k
      <4>1. i \in 1..k
        BY <3>1
      <4>2. Txs(l, k)[i] = TxAt(l, i)
        BY <4>1, <1>3, TxsFacts
      <4> QED BY <2>2, <2>4, <3>1, <4>2
    <3>2. CASE i > k
      <4>1. i - k \in 1..(n - k) /\ k + (i - k) = i
        BY <3>2
      <4>2. rest[i - k] = TxAt(l, i)
        BY <2>1, <4>1
      <4>3. (Txs(l, k) \o rest)[i] = rest[i - k]
        BY <2>4, <3>2, ~(i <= k)
      <4> QED BY <2>2, <4>2, <4>3
    <3>3. i <= k \/ i > k
      BY <1>3
    <3> QED BY <3>1, <3>2, <3>3
  <2>6. Txs(l, k) \o rest = Txs(l, n)
    BY <2>2, <2>4, <2>5, SeqEqual
  <2> QED BY <2>6 DEF rest
<1>7. k + 1 + 1 = k + 2 /\ n + 1 - (k + 1) = n - k
  OBVIOUS
<1> DEFINE records == Len(l) \div Parts
           whole == \A g \in (k + 1 + 1)..records :
                      /\ Intact(l, g)
                      /\ RecordAt(l, g).sequence >
                           IF g = k + 1 + 1 THEN Len(Txs(l, k)) ELSE RecordAt(l, g - 1).sequence
           rest == [i \in 1..(records - (k + 1)) |-> RecordAt(l, k + 1 + i).tx]
<1>8. Consume(l, k + 1, Txs(l, k)) =
        [ok |-> whole, txs |-> Txs(l, k) \o rest, valid |-> records * Parts, fresh |-> FALSE]
  BY DEF Consume
<1>9. whole = TRUE
  BY <1>1, <1>4, <1>5, <1>7
<1>10. Txs(l, k) \o rest = Txs(l, n)
  <2>1. records - (k + 1) = n - k
    BY <1>1, <1>7
  <2>2. rest = [i \in 1..(n - k) |-> RecordAt(l, k + 1 + i).tx]
    <3> HIDE DEF records
    <3> QED BY <2>1
  <2> QED BY <1>6, <2>2
<1>11. records * Parts = Before(n + 1)
  BY <1>1
<1> HIDE DEF records, whole, rest
<1> QED BY <1>8, <1>9, <1>10, <1>11

(* The two halves of what a power loss may leave.                           *)
LEMMA JoinFacts ==
  ASSUME NEW l \in Seq(Pieces), NEW t \in Seq(Pieces)
  PROVE  /\ l \o t \in Seq(Pieces) /\ Len(l \o t) = Len(l) + Len(t)
         /\ \A j \in 1..Len(l) : (l \o t)[j] = l[j]
         /\ t = <<>> => l \o t = l
         /\ InOrder(l \o t) => InOrder(l)
<1>1. /\ l \o t \in Seq(Pieces) /\ Len(l \o t) = Len(l) + Len(t)
      /\ \A i \in 1..Len(l) + Len(t) :
           (l \o t)[i] = IF i <= Len(l) THEN l[i] ELSE t[i - Len(l)]
  BY ConcatProperties
<1>2. \A j \in 1..Len(l) : (l \o t)[j] = l[j]
  BY <1>1
<1>3. t = <<>> => l \o t = l
  BY ConcatEmptySeq
<1>4. ASSUME InOrder(l \o t), NEW g \in Nat, NEW p \in 1..Parts, Before(g) + p <= Len(l)
      PROVE  l[Before(g) + p] = Piece(TxAt(l, g), g, p)
  <2>1. Before(g) \in Nat
    BY BeforeFacts
  <2>2. Before(g) + 1 \in 1..Len(l) /\ Before(g) + p \in 1..Len(l)
    BY <1>4, <2>1, DurableServerAssumption
  <2>3. TxAt(l \o t, g) = TxAt(l, g)
    BY <1>2, <2>2 DEF TxAt
  <2>4. (l \o t)[Before(g) + p] = Piece(TxAt(l \o t, g), g, p)
    BY <1>1, <1>4, <2>2 DEF InOrder
  <2> QED BY <1>2, <2>2, <2>3, <2>4
<1>5. InOrder(l \o t) => InOrder(l)
  BY <1>4 DEF InOrder
<1> QED BY <1>1, <1>2, <1>3, <1>5

(* The transactions on the disk.                                            *)
LEMMA OnDiskIs ==
  ASSUME NEW l \in Seq(Pieces), InOrder(l), NEW d \in 0..Len(l)
  PROVE  (IF d < Parts THEN <<>> ELSE Consume(SubSeq(l, 1, d), 1, <<>>).txs)
           = Txs(l, VersionOf(d))
<1> DEFINE v == VersionOf(d)
<1>1. d \in Nat /\ Parts \in Nat /\ v \in Nat
  BY VersionFacts, DurableServerAssumption
<1>2. \A k : Txs(k, 0) = <<>>
  BY DEF Txs
<1>3. CASE d < Parts
  <2>1. v = 0
    BY <1>1, <1>3, VersionFacts
  <2> QED BY <1>2, <1>3, <2>1
<1>4. CASE ~(d < Parts)
  <2>1. Before(v + 1) <= d /\ d < Before(v + 2)
    BY <1>1, <1>4, VersionFacts
  <2> HIDE DEF v
  <2> DEFINE kept == SubSeq(l, 1, d)
  <2>2. /\ kept \in Seq(Pieces) /\ Len(kept) = d /\ InOrder(kept)
        /\ \A j \in 1..d : kept[j] = l[j]
    BY PrefixFacts
  <2> HIDE DEF kept
  <2>3. Consume(kept, 0 + 1, Txs(kept, 0)) =
          [ok |-> TRUE, txs |-> Txs(kept, v), valid |-> Before(v + 1), fresh |-> FALSE]
    BY <1>1, <2>1, <2>2, 0 \in 0..v, ConsumeIs
  <2>4. Consume(kept, 1, <<>>).txs = Txs(kept, v)
    BY <1>2, <2>3
  <2>5. Txs(kept, v) = Txs(l, v)
    <3>1. Before(v + 1) \in Nat
      BY <1>1, NextFacts
    <3>2. \A j \in 1..Before(v + 1) : j \in 1..d
      BY <1>1, <2>1, <3>1
    <3>3. \A j \in 1..Before(v + 1) : kept[j] = l[j]
      BY <2>2, <3>2
    <3> QED BY <1>1, <2>2, <3>3, TxsAgree
  <2> QED BY <1>4, <2>4, <2>5 DEF kept, v
<1> QED BY <1>3, <1>4

(* boot-store!: with or without a usable image, a boot reads every complete *)
(* record, and nothing else.                                                *)
LEMMA BootIs ==
  ASSUME NEW l \in Seq(Pieces), InOrder(l), NEW d \in 0..Len(l),
         NEW img, Fits(img, l, d),
         NEW n \in Nat, Before(n + 1) <= Len(l), Len(l) < Before(n + 2)
  PROVE  Boot(l, img) =
           [ok |-> TRUE, txs |-> Txs(l, n), valid |-> Before(n + 1), fresh |-> FALSE]
<1> DEFINE whole == [ok |-> TRUE, txs |-> Txs(l, n), valid |-> Before(n + 1), fresh |-> FALSE]
<1>1. Len(l) >= Parts /\ Parts \in Nat \ {0} /\ Len(l) \in Nat
  <2>1. Before(n) \in Nat /\ Before(n + 1) = Before(n) + Parts
    BY BeforeFacts
  <2> QED BY <2>1, DurableServerAssumption
<1>2. l # <<>> /\ Len(l) \notin 1..(Parts - 1)
  BY <1>1
<1>3. Consume(l, 1, <<>>) = whole
  <2>1. Txs(l, 0) = <<>>
    BY DEF Txs
  <2>2. Consume(l, 0 + 1, Txs(l, 0)) = whole
    BY 0 \in 0..n, ConsumeIs
  <2> QED BY <2>1, <2>2
<1>4. ASSUME Usable(l, img) PROVE Consume(l, img.mark \div Parts, ImageTxs(img)) = whole
  <2>1. ImageTxs(img) = img.txs /\ img.parts = Parts
    BY <1>4 DEF Usable, ImageTxs
  <2> DEFINE m == Len(img.txs)
  <2>2. /\ img.mark = Before(m + 1) /\ img.mark <= d /\ img.txs = Txs(l, m)
        /\ m \in Nat /\ img.mark \in Nat
    BY <1>1, <2>1 DEF Fits
  <2> HIDE DEF m
  <2>3. /\ m + 1 \in Nat /\ Before(m + 1) <= img.mark
        /\ img.mark < Before(m + 1) + Parts
    <3>1. m + 1 \in Nat /\ Before(m + 1) \in Nat /\ Parts \in Nat \ {0}
      BY <2>2, NextFacts
    <3> QED BY <2>2, <3>1
  <2>4. img.mark \div Parts = m + 1
    BY <2>2, <2>3, DivFacts
  <2>5. m + 1 <= n + 1
    <3>1. n + 1 + 1 = n + 2 /\ Before(m + 1) <= Len(l)
      BY <1>1, <2>2, <2>3
    <3> QED BY <1>1, <2>3, <3>1, n + 1 \in Nat, EarlierFacts
  <2>6. m \in 0..n
    BY <2>2, <2>5
  <2> QED BY <2>1, <2>2, <2>4, <2>6, ConsumeIs
<1> HIDE DEF whole
<1>5. whole.ok
  BY DEF whole
<1>6. Boot(l, img) = whole
  BY <1>1, <1>2, <1>3, <1>4, <1>5 DEF Boot
<1> QED BY <1>6 DEF whole

-----------------------------------------------------------------------------
(* What follows from the invariant alone.                                   *)

LEMMA ChainFacts == CompactAt \in Nat /\ 0 < CompactAt /\ 0 \in 0..CompactAt
<1>1. CompactAt \in Nat \ {0}
  BY DurableServerAssumption
<1> QED BY <1>1

LEMMA DiskFacts ==
  ASSUME DiskInv
  PROVE  /\ log \in Seq(Pieces) /\ tail \in Seq(Pieces) /\ log \o tail \in Seq(Pieces)
         /\ InOrder(log)
         /\ Len(log) \in Nat /\ durable \in Nat /\ durable <= Len(log)
         /\ Len(log \o tail) = Len(log) + Len(tail) /\ Len(tail) \in Nat
         /\ \A j \in 1..Len(log) : (log \o tail)[j] = log[j]
         /\ Version \in Nat /\ durable < Before(Version + 2)
         /\ Version > 0 => Before(Version + 1) <= durable
         /\ tail = <<>> => log \o tail = log
<1>1. log \in Seq(Pieces) /\ tail \in Seq(Pieces) /\ durable \in 0..Len(log)
  BY DEF DiskInv
<1>2. Len(log) \in Nat /\ Len(tail) \in Nat /\ durable \in Nat /\ durable <= Len(log)
  BY <1>1
<1>3. InOrder(log)
  BY <1>1, JoinFacts DEF DiskInv
<1>4. /\ log \o tail \in Seq(Pieces) /\ Len(log \o tail) = Len(log) + Len(tail)
      /\ \A j \in 1..Len(log) : (log \o tail)[j] = log[j]
      /\ tail = <<>> => log \o tail = log
  BY <1>1, JoinFacts
<1>5. /\ Version \in Nat /\ durable < Before(Version + 2)
      /\ Version > 0 => Before(Version + 1) <= durable
  BY <1>2, VersionFacts DEF Version
<1> QED BY <1>1, <1>2, <1>3, <1>4, <1>5

(* Where the transactions on the disk lie.                                  *)
LEMMA VersionPlaces ==
  ASSUME DiskInv, NEW i \in 1..Version
  PROVE  /\ i \in Nat \ {0} /\ Before(i) + 1 \in 1..durable /\ Before(i) \in Nat
         /\ Before(i) < Len(log) /\ TxAt(log \o tail, i) = TxAt(log, i)
<1>1. Version \in Nat /\ i \in 0..Version /\ Version > 0
  BY DiskFacts
<1>2. /\ i \in Nat /\ Before(i) \in Nat /\ Before(Version + 1) \in Nat
      /\ Before(i) + 1 \in 1..Before(Version + 1)
  BY <1>1, PlaceFacts
<1>3. Before(Version + 1) <= durable /\ durable \in Nat /\ durable <= Len(log) /\ Len(log) \in Nat
  BY <1>1, DiskFacts
<1>4. Before(i) + 1 \in 1..durable /\ Before(i) + 1 \in 1..Len(log) /\ Before(i) < Len(log)
  BY <1>2, <1>3
<1>5. TxAt(log \o tail, i) = TxAt(log, i)
  BY <1>4, DiskFacts DEF TxAt
<1> QED BY <1>1, <1>2, <1>4, <1>5

LEMMA DurableIs ==
  ASSUME DiskInv
  PROVE  /\ Durable = Txs(log, Version)
         /\ Len(Durable) = Version /\ DOMAIN Durable = 1..Version
         /\ \A i \in 1..Version : Durable[i] = TxAt(log, i)
<1>1. durable \in 0..Len(log) /\ log \in Seq(Pieces) /\ InOrder(log)
  BY DiskFacts
<1>2. Durable = Txs(log, Version)
  BY <1>1, OnDiskIs DEF Durable, Version
<1>3. Version \in Nat
  BY DiskFacts
<1> QED BY <1>2, <1>3 DEF Txs

LEMMA WritesAreRequests ==
  Write \subseteq Request /\ Read \subseteq Request /\ Checkpoint \subseteq Request
BY DEF Request

(* An image that fits still fits when the log keeps what is on the disk.    *)
LEMMA StillFits ==
  ASSUME NEW l \in Seq(Pieces), NEW k \in Seq(Pieces), NEW d \in 0..Len(l), NEW e \in Nat,
         NEW img, Fits(img, l, d), img.mark <= e,
         \A j \in 1..d : l[j] = k[j]
  PROVE  Fits(img, k, e)
<1>1. CASE img.mark = 0 /\ img.parts = 0 /\ img.txs = <<>>
  BY <1>1 DEF Fits
<1>2. CASE /\ img.mark = Before(Len(img.txs) + 1) /\ img.mark <= d
           /\ img.txs = Txs(l, Len(img.txs))
  <2> DEFINE m == Len(img.txs)
  <2>1. m \in Nat /\ Before(m + 1) <= d /\ d \in Nat
    BY <1>2 DEF Fits
  <2> HIDE DEF m
  <2>2. Before(m + 1) \in Nat
    BY <2>1, NextFacts
  <2>3. \A j \in 1..Before(m + 1) : j \in 1..d
    BY <2>1, <2>2
  <2>4. \A j \in 1..Before(m + 1) : l[j] = k[j]
    BY <2>3
  <2>5. Txs(l, m) = Txs(k, m)
    BY <2>1, <2>4, TxsAgree
  <2> QED BY <1>2, <2>5 DEF Fits, m
<1> QED BY <1>1, <1>2 DEF Fits

-----------------------------------------------------------------------------
(* What a step leaves alone stays right.                                    *)

(* Nobody's request is forgotten, nobody's first question is invented.      *)
Remembered ==
  /\ client' \in [Request -> {"idle", "waiting", "lost", "answered"}]
  /\ \A r \in Request : client'[r] = "idle" <=> client[r] = "idle"

LEMMA DisconnectRemembers ==
  ASSUME ClientsInv, NEW jobs, Disconnect(jobs)
  PROVE  Remembered
<1>1. client \in [Request -> {"idle", "waiting", "lost", "answered"}]
  BY DEF ClientsInv
<1>2. \A r \in Request : client'[r] \in {client[r], "lost"}
  BY DEF Disconnect
<1>3. \A r \in Request : client'[r] = "idle" <=> client[r] = "idle"
  BY <1>1 DEF Disconnect
<1>4. client' \in [Request -> {"idle", "waiting", "lost", "answered"}]
  BY <1>1 DEF Disconnect
<1> QED BY <1>3, <1>4 DEF Remembered

LEMMA DiskStays ==
  ASSUME DiskInv, UNCHANGED disk
  PROVE  DiskInv' /\ Version' = Version
BY DEF DiskInv, disk, Version

LEMMA KnownStays ==
  ASSUME WritesKnown, UNCHANGED <<log, tail, guard>>, Remembered
  PROVE  WritesKnown'
BY WritesAreRequests DEF WritesKnown, Remembered

LEMMA ClientsStay ==
  ASSUME ClientsInv, UNCHANGED <<tries, guard, asked, answer>>, Remembered,
         Version \in Nat, Version' \in Nat, Version <= Version'
  PROVE  ClientsInv'
BY DEF ClientsInv, Remembered

LEMMA AnswersStay ==
  ASSUME AnswersInv, UNCHANGED answer,
         Version \in Nat, Version' \in Nat, Version <= Version',
         \A i \in 1..Version : TxAt(log', i) = TxAt(log, i)
  PROVE  AnswersInv'
BY DEF AnswersInv

LEMMA KnownJobStays ==
  ASSUME UNCHANGED tries, Remembered, NEW job, Known(job)
  PROVE  Known(job)'
BY DEF Known, Remembered, Jobs

LEMMA JobsStay ==
  ASSUME JobsInv, UNCHANGED <<tries, guard, asked, current>>, Remembered,
         queue' \subseteq queue, outbox' \subseteq outbox
  PROVE  JobsInv'
<1>1. \A job \in queue' : Known(job)'
  BY KnownJobStays DEF JobsInv
<1>2. \A response \in outbox' :
        /\ response \in [job : Jobs, ok : BOOLEAN, version : Nat]
        /\ Known(response.job)'
        /\ RightAnswer(response.job, response.ok, response.version)'
  BY KnownJobStays DEF JobsInv, RightAnswer
<1> QED BY <1>1, <1>2 DEF JobsInv

(* The turn goes on, while others come and go.                              *)
LEMMA TurnStays ==
  ASSUME TurnInv, HostInv, UNCHANGED <<log, durable, image, current, tries, guard, asked, turn>>,
         Remembered, dirty' \in {dirty, 0}, turn.pc # "free" => ~poisoned'
  PROVE  TurnInv'
<1>1. Known(turn.job) => Known(turn.job)'
  BY KnownJobStays
<1>2. RightAnswer(turn.job, turn.ok, Len(turn.fork)) =>
        RightAnswer(turn.job, turn.ok, Len(turn.fork))'
  BY DEF RightAnswer
<1>3. dirty < CompactAt => dirty' < CompactAt
  BY ChainFacts
<1>4. /\ turn' \in [job : Jobs \cup {NoJob}, pc : {"free"} \cup Writing \cup Finishing,
                       fork : Seq(Write), ok : BOOLEAN]
      /\ turn'.pc # "free" => ~poisoned' /\ Known(turn.job)'
  BY <1>1 DEF TurnInv
<1>5. turn'.pc \in Writing =>
        /\ turn'.job.req \in Write /\ turn'.ok
        /\ turn'.fork = Append(current', turn'.job.req)
        /\ guard'[turn'.job.req] \in {AnyVersion, Len(current')}
        /\ turn'.job.try = tries'[turn'.job.req] => asked'[turn'.job.req] <= Len(current')
        /\ dirty' < CompactAt
        /\ Len(log') > Before(Len(turn'.fork)) => TxAt(log', Len(turn'.fork)) = turn'.job.req
  BY <1>3 DEF TurnInv
<1>6. /\ turn'.pc = "append" => Len(log') < Before(Len(turn'.fork)) + Parts
      /\ turn'.pc \in {"sync", "publish"} => Len(log') = Before(Len(turn'.fork)) + Parts
      /\ turn'.pc = "publish" => durable' = Len(log')
      /\ turn'.pc \in Finishing => turn'.fork = current'
      /\ turn'.pc \in Imaging => turn'.job.req \notin Write /\ turn'.ok
      /\ turn'.pc \in Finishing => RightAnswer(turn.job, turn.ok, Len(turn.fork))'
      /\ turn'.pc \in {"write image", "sync image"} => image'.mark > 0
      /\ turn'.pc = "write image" => image'.parts < Parts
  BY <1>2 DEF TurnInv
<1> QED BY <1>4, <1>5, <1>6 DEF TurnInv

LEMMA FreeTurnFits ==
  ASSUME turn' = FreeTurn
  PROVE  TurnInv'
<1>1. /\ FreeTurn \in [job : Jobs \cup {NoJob}, pc : {"free"} \cup Writing \cup Finishing,
                       fork : Seq(Write), ok : BOOLEAN]
      /\ FreeTurn.pc = "free"
  BY DEF FreeTurn
<1>2. "free" \notin Writing \cup Finishing \cup Imaging
  BY DEF Writing, Finishing, Imaging
<1>3. "free" \notin {"append", "sync", "publish", "write image", "sync image"}
  OBVIOUS
<1> QED BY <1>1, <1>2, <1>3 DEF TurnInv, Finishing

(* Nothing happens to the disk and to the published generation: a client    *)
(* comes or goes, a job ends without having published, a compaction.        *)
LEMMA Bystanders ==
  ASSUME ServerInv, UNCHANGED <<disk, current, tries, guard, asked>>, Remembered,
         queue' \subseteq queue, outbox' \subseteq outbox, dirty' \in {dirty, 0},
         host' = host \/ (host \in Up /\ host' \in Up),
         \/ turn' = turn /\ poisoned' = poisoned
         \/ /\ turn' = FreeTurn /\ host \in Up /\ turn.pc # "publish"
            /\ poisoned' \in BOOLEAN
            /\ poisoned' = FALSE => poisoned = FALSE /\ turn.pc \notin Writing
  PROVE  DiskInv' /\ WritesKnown' /\ JobsInv' /\ HostInv' /\ TurnInv' /\ Version' = Version
<1> USE DEF ServerInv
<1>1. DiskInv' /\ Version' = Version
  BY DiskStays
<1>2. WritesKnown' /\ JobsInv'
  BY KnownStays, JobsStay DEF disk
<1>3. dirty' \in 0..CompactAt
  BY ChainFacts DEF HostInv
<1>4. CASE turn' = turn /\ poisoned' = poisoned
  <2>1. TurnInv'
    BY <1>4, TurnStays DEF disk, TurnInv
  <2>2. HostInv'
    BY <1>3, <1>4 DEF HostInv, disk, Up, Booted
  <2> QED BY <1>1, <1>2, <2>1, <2>2
<1>5. CASE /\ turn' = FreeTurn /\ host \in Up /\ turn.pc # "publish"
           /\ poisoned' \in BOOLEAN
           /\ poisoned' = FALSE => poisoned = FALSE /\ turn.pc \notin Writing
  <2>1. TurnInv'
    BY <1>5, FreeTurnFits
  <2>2. HostInv'
    BY <1>3, <1>5 DEF HostInv, disk, Up, Booted, Writing
  <2> QED BY <1>1, <1>2, <2>1, <2>2
<1> QED BY <1>4, <1>5

(* A process that is gone has nothing in memory to be wrong about.          *)
LEMMA ColdMemory ==
  ASSUME LoseMemory
  PROVE  HostInv' /\ TurnInv' /\ JobsInv'
<1>1. TurnInv'
  BY FreeTurnFits DEF LoseMemory
<1>2. JobsInv'
  BY DEF LoseMemory, JobsInv
<1>3. HostInv'
  BY ChainFacts DEF LoseMemory, HostInv, Up, Booted
<1> QED BY <1>1, <1>2, <1>3

(* What a power loss, a sync or a shutdown leaves: some prefix of the pieces*)
(* from the durable ones on, all of it on the disk.                         *)
LEMMA Survives ==
  ASSUME DiskInv, WritesKnown, UNCHANGED guard, Remembered,
         NEW m \in durable..Len(log \o tail),
         log' = SubSeq(log \o tail, 1, m), durable' = m, tail' = <<>>,
         Fits(image', log, durable), Fits(imageOnDisk', log, durable)
  PROVE  /\ DiskInv' /\ WritesKnown'
         /\ LogGrows /\ Version \in Nat
<1> DEFINE all == log \o tail
<1>1. /\ all \in Seq(Pieces) /\ InOrder(all) /\ Len(all) \in Nat /\ m \in 0..Len(all)
      /\ m \in Nat /\ durable \in Nat /\ durable <= m /\ Version \in Nat
      /\ Len(all) <= Before(Version + 2)
  BY DiskFacts DEF DiskInv
<1>2. \A j \in 1..durable : all[j] = log[j]
  BY DiskFacts
<1> HIDE DEF all
<1>3. /\ log' \in Seq(Pieces) /\ Len(log') = m /\ InOrder(log')
      /\ \A j \in 1..m : log'[j] = all[j]
  BY <1>1, PrefixFacts DEF all
<1>4. tail' \in Seq(Pieces) /\ (log \o tail)' = log' /\ Len(log') \in Nat
  BY <1>3, ConcatEmptySeq
<1>5. Version' = VersionOf(m)
  BY DEF Version
<1>6. Version' \in Nat /\ Version' \in {Version, Version + 1}
  <2>1. m <= Before(VersionOf(durable) + 2)
    <3>1. Before(Version + 2) \in Nat
      BY <1>1, NextFacts
    <3> QED BY <1>1, <3>1 DEF Version
  <2>2. VersionOf(m) \in {VersionOf(durable), VersionOf(durable) + 1}
    BY <1>1, <2>1, VersionGrows
  <2>3. VersionOf(m) \in Nat
    BY <1>1, VersionFacts
  <2> QED BY <1>5, <2>2, <2>3 DEF Version
<1>7. Len(log') <= Before(Version' + 2)
  <2>1. m < Before(VersionOf(m) + 2)
    BY <1>1, VersionFacts
  <2>2. Before(Version' + 2) \in Nat
    BY <1>6, NextFacts
  <2> QED BY <1>1, <1>3, <1>5, <2>1, <2>2
<1>8. \A j \in 1..durable : log[j] = log'[j]
  BY <1>1, <1>2, <1>3
<1>9. Fits(image', log', m) /\ Fits(imageOnDisk', log', m)
  <2>1. log \in Seq(Pieces) /\ durable \in 0..Len(log)
    BY DEF DiskInv
  <2>2. \A img : Fits(img, log, durable) => img.mark <= durable /\ img.mark \in Nat
    BY <1>1 DEF Fits
  <2>3. image'.mark <= m /\ imageOnDisk'.mark <= m
    BY <1>1, <2>2
  <2> QED BY <1>1, <1>3, <1>8, <2>1, <2>3, StillFits
<1>10. DiskInv'
  BY <1>1, <1>3, <1>4, <1>7, <1>9 DEF DiskInv
<1>11. WritesKnown'
  <2> SUFFICES ASSUME NEW g \in Nat \ {0}, Before(g) < Len(log')
               PROVE  LET w == TxAt(log', g)
                      IN  w \in Write /\ client'[w] # "idle" /\ guard[w] \in {AnyVersion, g - 1}
    BY <1>4 DEF WritesKnown
  <2>1. Before(g) + 1 \in 1..m /\ Before(g) < Len(all)
    <3>1. Before(g) \in Nat
      BY NextFacts
    <3> QED BY <1>1, <1>3, <3>1
  <2>2. TxAt(log', g) = TxAt(all, g)
    BY <1>3, <2>1 DEF TxAt
  <2> QED BY <2>1, <2>2, WritesAreRequests DEF WritesKnown, all, Remembered
<1>12. \A i \in 1..Version : TxAt(log', i) = TxAt(log, i)
  BY <1>8, VersionPlaces DEF TxAt
<1> QED BY <1>1, <1>6, <1>10, <1>11, <1>12 DEF LogGrows

-----------------------------------------------------------------------------
(* The invariant holds at the start and in every step.                      *)

LEMMA ServerInvInit == Init => ServerInv
<1> SUFFICES ASSUME Init PROVE ServerInv
  OBVIOUS
<1>1. Len(<<>>) = 0 /\ (<<>> \o <<>>) = <<>> /\ Before(0) = 0
  BY ConcatEmptySeq, BeforeFacts
<1>2. Version = 0
  BY DurableServerAssumption DEF Init, Version, VersionOf
<1>3. Before(0 + 2) \in Nat /\ \A g \in Nat : Before(g) \in Nat
  BY NextFacts
<1>4. ASSUME NEW l, NEW d PROVE Fits(NoImage, l, d)
  BY DurableServerAssumption DEF Fits, NoImage
<1>5. DiskInv
  <2>1. InOrder(<<>>)
    <3>1. \A g \in Nat : \A p \in 1..Parts : ~(Before(g) + p <= 0)
      BY <1>3, DurableServerAssumption
    <3> QED BY <1>1, <3>1 DEF InOrder
  <2>2. log = <<>> /\ tail = <<>> /\ durable = 0 /\ image = NoImage /\ imageOnDisk = NoImage
    BY DEF Init
  <2>3. 0 <= Before(Version + 2)
    BY <1>2, <1>3
  <2> QED BY <1>1, <1>4, <2>1, <2>2, <2>3 DEF DiskInv
<1>6. WritesKnown
  <2>1. \A g \in Nat : ~(Before(g) < 0)
    BY <1>3
  <2> QED BY <1>1, <2>1 DEF Init, WritesKnown
<1>7. ClientsInv
  <2>1. tries \in [Request -> Nat]
    <3>1. PICK spent \in Spent : tries = spent.tries
      BY DEF Init
    <3>2. spent.tries \in [Request -> 0..MaxTries]
      BY DurableServerAssumption
    <3>3. 0..MaxTries \subseteq Nat
      BY DurableServerAssumption
    <3> QED BY <3>1, <3>2, <3>3
  <2>2. NoAnswer \in [ok : BOOLEAN, version : Int]
    BY DEF NoAnswer
  <2>3. /\ client = [r \in Request |-> "idle"] /\ guard = [w \in Write |-> AnyVersion]
        /\ asked = [r \in Request |-> -1] /\ answer = [r \in Request |-> NoAnswer]
    BY DEF Init
  <2>4. -1 \in -1..Version /\ -1 \in Int
    BY <1>2
  <2> QED BY <2>1, <2>2, <2>3, <2>4 DEF ClientsInv
<1>8. AnswersInv
  BY WritesAreRequests DEF Init, AnswersInv, NoAnswer
<1>9. JobsInv
  BY DEF Init, JobsInv
<1>10. HostInv
  BY ChainFacts DEF Init, HostInv, Up, Booted
<1>11. TurnInv
  <2>1. turn = FreeTurn
    BY DEF Init
  <2>2. /\ turn \in [job : Jobs \cup {NoJob}, pc : {"free"} \cup Writing \cup Finishing,
                     fork : Seq(Write), ok : BOOLEAN]
        /\ turn.pc = "free"
    BY <2>1 DEF FreeTurn
  <2> QED BY <2>2 DEF TurnInv, Writing, Finishing, Imaging
<1> QED BY <1>5, <1>6, <1>7, <1>8, <1>9, <1>10, <1>11 DEF ServerInv

(* Boots and compactions read the log back.                                 *)
LEMMA BootReads ==
  ASSUME DiskInv, NEW img, Fits(img, log, durable),
         NEW n \in Nat, Before(n + 1) <= Len(log), Len(log) < Before(n + 2)
  PROVE  Boot(log, img) =
           [ok |-> TRUE, txs |-> Txs(log, n), valid |-> Before(n + 1), fresh |-> FALSE]
<1>1. log \in Seq(Pieces) /\ InOrder(log) /\ durable \in 0..Len(log)
  BY DiskFacts
<1> QED BY <1>1, BootIs

(* compact_store between two dispatches finds what is published.            *)
LEMMA CompactIs ==
  ASSUME ServerInv, host \in Up, turn.pc = "free", ~poisoned
  PROVE  CompactionConsumes /\ Boot(log, image).txs = current
<1>1. /\ Len(log) = Before(Len(current) + 1) /\ current = Txs(log, Len(current))
      /\ Len(current) \in Nat
  <2>1. host \in Booted /\ turn.pc \notin {"append", "sync", "publish"}
    BY DEF Up, Booted
  <2>2. current \in Seq(Write) /\ current = Txs(log, Len(current))
    BY <2>1 DEF ServerInv, HostInv
  <2>3. Len(log) = durable /\ durable = Before(Len(current) + 1)
    BY <2>1 DEF ServerInv, HostInv
  <2> QED BY <2>2, <2>3
<1> DEFINE n == Len(current)
<1>2. /\ Before(n + 1) <= Len(log) /\ Len(log) < Before(n + 2)
  <2>1. Before(n + 1) \in Nat /\ Before(n + 2) = Before(n + 1) + Parts /\ Parts \in Nat \ {0}
    BY <1>1, NextFacts
  <2> QED BY <1>1, <2>1
<1> HIDE DEF n
<1>3. Boot(log, image) =
        [ok |-> TRUE, txs |-> Txs(log, n), valid |-> Before(n + 1), fresh |-> FALSE]
  BY <1>1, <1>2, BootReads DEF ServerInv, DiskInv, n
<1> QED BY <1>1, <1>3 DEF CompactionConsumes, n

LEMMA CompactChangesNothing ==
  ASSUME ServerInv, host \in Up, turn.pc = "free", ~poisoned, Compact
  PROVE  current' = current /\ dirty' = 0
BY CompactIs DEF Compact

(* Steps that leave the clients' questions and answers alone.               *)
LEMMA BystandersInv ==
  ASSUME ServerInv, UNCHANGED <<disk, current, tries, guard, asked, answer>>, Remembered,
         queue' \subseteq queue, outbox' \subseteq outbox, dirty' \in {dirty, 0},
         host' = host \/ (host \in Up /\ host' \in Up),
         \/ turn' = turn /\ poisoned' = poisoned
         \/ /\ turn' = FreeTurn /\ host \in Up /\ turn.pc # "publish"
            /\ poisoned' \in BOOLEAN
            /\ poisoned' = FALSE => poisoned = FALSE /\ turn.pc \notin Writing
  PROVE  ServerInv'
<1>1. DiskInv' /\ WritesKnown' /\ JobsInv' /\ HostInv' /\ TurnInv' /\ Version' = Version
  BY Bystanders
<1>2. Version \in Nat
  BY DiskFacts DEF ServerInv
<1>3. ClientsInv' /\ AnswersInv'
  BY <1>1, <1>2, ClientsStay, AnswersStay DEF ServerInv, disk
<1> QED BY <1>1, <1>3 DEF ServerInv

LEMMA TimeoutInv ==
  ASSUME ServerInv, NEW r \in Request, Timeout(r)
  PROVE  ServerInv'
<1>1. Remembered
  BY DEF Timeout, Remembered, ServerInv, ClientsInv
<1> QED BY <1>1, BystandersInv DEF Timeout, memory, work, ServerInv, HostInv

LEMMA DropInv ==
  ASSUME ServerInv, NEW response \in outbox, Drop(response)
  PROVE  ServerInv'
<1>1. Remembered
  BY DisconnectRemembers DEF Drop, ServerInv
<1> QED BY <1>1, BystandersInv DEF Drop, memory

LEMMA BeginStopInv ==
  ASSUME ServerInv, BeginStop
  PROVE  ServerInv'
<1>1. Remembered
  BY DisconnectRemembers DEF BeginStop, ServerInv
<1> QED BY <1>1, BystandersInv DEF BeginStop, memory, work, Up

LEMMA RefuseInv ==
  ASSUME ServerInv, NEW job \in queue, Refuse(job)
  PROVE  ServerInv'
<1>1. Remembered
  BY DisconnectRemembers DEF Refuse, ServerInv
<1>2. current' = current /\ dirty' \in {dirty, 0}
  BY CompactChangesNothing DEF Refuse, MayDispatch, Up
<1> QED BY <1>1, <1>2, BystandersInv DEF Refuse

LEMMA CompactIdleInv ==
  ASSUME ServerInv, CompactIdle
  PROVE  ServerInv'
<1>1. Remembered
  BY DEF CompactIdle, clients, Remembered, ServerInv, ClientsInv
<1>2. current' = current /\ dirty' \in {dirty, 0}
  BY CompactChangesNothing DEF CompactIdle, Up
<1> QED BY <1>1, <1>2, BystandersInv DEF CompactIdle, work, clients

LEMMA DispatchFailsInv ==
  ASSUME ServerInv, DispatchFails
  PROVE  ServerInv'
<1>1. Remembered
  BY DisconnectRemembers DEF DispatchFails, ServerInv
<1>2. host \in Up /\ turn.pc # "publish" /\ turn.pc # "free"
  <2>1. turn.pc # "publish" /\ turn.pc # "free"
    BY DEF DispatchFails
  <2>2. turn # FreeTurn
    BY <2>1 DEF FreeTurn
  <2> QED BY <2>1, <2>2 DEF ServerInv, HostInv
<1>3. poisoned' \in BOOLEAN /\ (poisoned' = FALSE => poisoned = FALSE /\ turn.pc \notin Writing)
  BY <1>2 DEF DispatchFails, ServerInv, HostInv, Writing
<1> QED BY <1>1, <1>2, <1>3, BystandersInv DEF DispatchFails

-----------------------------------------------------------------------------
(* Crashes, power losses and the shutdown.                                  *)

LEMMA ProcessCrashInv ==
  ASSUME ServerInv, ProcessCrash
  PROVE  ServerInv'
<1>1. Remembered
  BY DisconnectRemembers DEF ProcessCrash, ServerInv
<1>2. DiskInv' /\ Version' = Version /\ Version \in Nat
  BY DiskStays, DiskFacts DEF ProcessCrash, ServerInv
<1>3. WritesKnown' /\ ClientsInv' /\ AnswersInv'
  BY <1>1, <1>2, KnownStays, ClientsStay, AnswersStay DEF ProcessCrash, ServerInv, disk
<1>4. HostInv' /\ TurnInv' /\ JobsInv'
  BY ColdMemory DEF ProcessCrash
<1> QED BY <1>2, <1>3, <1>4 DEF ServerInv

(* Whatever survives, no answer does not.                                   *)
LEMMA SurvivorsInv ==
  ASSUME ServerInv, UNCHANGED <<tries, guard, asked, answer>>, Remembered,
         NEW m \in durable..Len(log \o tail),
         log' = SubSeq(log \o tail, 1, m), durable' = m, tail' = <<>>,
         Fits(image', log, durable), Fits(imageOnDisk', log, durable)
  PROVE  /\ DiskInv' /\ WritesKnown' /\ ClientsInv' /\ AnswersInv'
         /\ LogGrows /\ Version \in Nat
<1>1. /\ DiskInv' /\ WritesKnown'
      /\ Version' \in {Version, Version + 1} /\ Version \in Nat
      /\ \A i \in 1..Version : TxAt(log', i) = TxAt(log, i)
  BY Survives DEF ServerInv, LogGrows
<1>2. Version' \in Nat /\ Version <= Version'
  BY <1>1
<1>3. ClientsInv' /\ AnswersInv'
  BY <1>1, <1>2, ClientsStay, AnswersStay DEF ServerInv
<1> QED BY <1>1, <1>3 DEF LogGrows

LEMMA PowerLossSurvives ==
  ASSUME ServerInv, PowerLoss
  PROVE  /\ DiskInv' /\ WritesKnown' /\ ClientsInv' /\ AnswersInv'
         /\ LogGrows /\ Version \in Nat
<1>1. Remembered
  BY DisconnectRemembers DEF PowerLoss, ServerInv
<1>2. PICK m \in durable..Len(log \o tail) :
        log' = SubSeq(log \o tail, 1, m) /\ durable' = m
  BY DEF PowerLoss
<1>3. Fits(image', log, durable) /\ imageOnDisk' = image'
  <2>1. Fits(image, log, durable) /\ Fits(imageOnDisk, log, durable)
    BY DEF ServerInv, DiskInv
  <2>2. CASE image' = imageOnDisk
    BY <2>1, <2>2 DEF PowerLoss
  <2>3. ASSUME NEW parts \in 0..image.parts, image' = [image EXCEPT !.parts = parts]
        PROVE  Fits(image', log, durable)
    <3>1. image \in [parts : 0..Parts, mark : Nat, txs : Seq(Write)] /\ Parts \in Nat
      BY <2>1, DurableServerAssumption DEF Fits
    <3>2. parts \in 0..Parts /\ (image.parts = 0 => parts = 0)
      BY <3>1
    <3>3. /\ image' \in [parts : 0..Parts, mark : Nat, txs : Seq(Write)]
          /\ image'.parts = parts /\ image'.mark = image.mark /\ image'.txs = image.txs
      BY <2>3, <3>1, <3>2
    <3> QED BY <2>1, <3>2, <3>3 DEF Fits
  <2> QED BY <2>1, <2>2, <2>3 DEF PowerLoss
<1> QED BY <1>1, <1>2, <1>3, SurvivorsInv DEF PowerLoss

LEMMA PowerLossInv ==
  ASSUME ServerInv, PowerLoss
  PROVE  ServerInv' /\ LogGrows
<1>1. HostInv' /\ TurnInv' /\ JobsInv'
  BY ColdMemory DEF PowerLoss
<1> QED BY <1>1, PowerLossSurvives DEF ServerInv

(* A sync of the whole log when nothing is cut off.                         *)
LEMMA SyncSurvives ==
  ASSUME ServerInv, UNCHANGED <<log, client, tries, guard, asked, answer>>,
         durable' = Len(log), tail' = <<>>,
         image' = image, imageOnDisk' = imageOnDisk
  PROVE  /\ DiskInv' /\ WritesKnown' /\ ClientsInv' /\ AnswersInv'
         /\ LogGrows /\ Version \in Nat
<1>1. Remembered
  BY DEF Remembered, ServerInv, ClientsInv
<1>2. /\ Len(log) \in durable..Len(log \o tail) /\ Len(log) \in 0..Len(log \o tail)
      /\ log \in Seq(Pieces) /\ log \o tail \in Seq(Pieces)
      /\ \A j \in 1..Len(log) : (log \o tail)[j] = log[j]
  BY DiskFacts DEF ServerInv
<1>3. log = SubSeq(log \o tail, 1, Len(log))
  <2>1. /\ SubSeq(log \o tail, 1, Len(log)) \in Seq(Pieces)
        /\ Len(SubSeq(log \o tail, 1, Len(log))) = Len(log)
        /\ \A j \in 1..Len(log) : SubSeq(log \o tail, 1, Len(log))[j] = (log \o tail)[j]
    BY <1>2, PrefixFacts
  <2> QED BY <1>2, <2>1, SeqEqual
<1>4. Fits(image', log, durable) /\ Fits(imageOnDisk', log, durable)
  BY DEF ServerInv, DiskInv
<1> QED BY <1>1, <1>2, <1>3, <1>4, SurvivorsInv

LEMMA ShutdownInv ==
  ASSUME ServerInv, Shutdown
  PROVE  ServerInv' /\ LogGrows
<1>1. HostInv' /\ TurnInv' /\ JobsInv'
  BY ColdMemory DEF Shutdown
<1>2. tail' = <<>>
  BY DEF Shutdown, ServerInv, HostInv
<1> QED BY <1>1, <1>2, SyncSurvives DEF ServerInv, Shutdown, clients

-----------------------------------------------------------------------------
(* Clients and dispatches.                                                  *)

(* What is published is on the disk, and the disk is at most the one        *)
(* transaction ahead that is being published.                               *)
LEMMA UpFacts ==
  ASSUME ServerInv, host \in Up
  PROVE  /\ current \in Seq(Write) /\ Len(current) \in Nat /\ Version \in Nat
         /\ turn.pc # "publish" => Version = Len(current)
         /\ turn.pc = "publish" => Version = Len(current) + 1
         /\ \A i \in 1..Len(current) : current[i] = TxAt(log, i)
         /\ tail = <<>> /\ log \o tail = log
<1>1. host \in Booted
  BY DEF Up, Booted
<1>2. current \in Seq(Write) /\ current = Txs(log, Len(current)) /\ Len(current) \in Nat
  <2>1. current \in Seq(Write) /\ current = Txs(log, Len(current))
    BY <1>1 DEF ServerInv, HostInv
  <2> QED BY <2>1
<1>3. \A i \in 1..Len(current) : current[i] = TxAt(log, i)
  BY <1>2 DEF Txs
<1> DEFINE n == Len(current)
<1>4. /\ n + 1 \in Nat /\ n + 1 + 1 = n + 2 /\ Before(n + 1) \in Nat /\ Before(n + 2) \in Nat
      /\ Before(n + 1 + 1) \in Nat /\ Before(n + 1 + 2) \in Nat
      /\ Before(n + 2) = Before(n + 1) + Parts
      /\ Before(n + 1 + 2) = Before(n + 1 + 1) + Parts /\ Parts \in Nat \ {0}
  <2>1. n \in Nat /\ n + 1 \in Nat /\ n + 1 + 1 = n + 2
    BY <1>2
  <2>2. /\ Before(n + 1) \in Nat /\ Before(n + 2) \in Nat /\ Before(n + 2) = Before(n + 1) + Parts
        /\ Parts \in Nat \ {0}
    BY <2>1, NextFacts
  <2>3. /\ Before(n + 1 + 1) \in Nat /\ Before(n + 1 + 2) \in Nat
        /\ Before(n + 1 + 2) = Before(n + 1 + 1) + Parts
    BY <2>1, NextFacts
  <2> QED BY <2>1, <2>2, <2>3
<1>5. durable \in Nat
  BY DiskFacts DEF ServerInv
<1>6. ASSUME turn.pc # "publish" PROVE Version = n
  <2>1. durable = Before(n + 1)
    BY <1>6 DEF ServerInv, HostInv
  <2> HIDE DEF n
  <2>2. n \in Nat
    BY <1>2 DEF n
  <2>3. Before(n + 1) <= durable /\ durable < Before(n + 2)
    BY <1>4, <1>5, <2>1
  <2> QED BY <1>5, <2>2, <2>3, VersionFacts DEF Version
<1>7. ASSUME turn.pc = "publish" PROVE Version = n + 1
  <2>1. /\ durable = Before(Len(turn.fork)) + Parts
        /\ turn.fork = Append(current, turn.job.req) /\ turn.job.req \in Write
    BY <1>7 DEF ServerInv, TurnInv, Writing
  <2>2. Len(turn.fork) = n + 1
    BY <1>2, <2>1, AppendProperties
  <2>3. durable = Before(n + 1 + 1)
    BY <1>4, <2>1, <2>2
  <2> HIDE DEF n
  <2>4. Before(n + 1 + 1) <= durable /\ durable < Before(n + 1 + 2)
    BY <1>4, <1>5, <2>3
  <2> QED BY <1>4, <1>5, <2>4, VersionFacts DEF Version
<1>8. tail = <<>>
  BY DEF ServerInv, HostInv, Up
<1>9. log \o tail = log
  BY <1>8, DiskFacts DEF ServerInv
<1> QED BY <1>2, <1>3, <1>5, <1>6, <1>7, <1>8, <1>9, DiskFacts DEF ServerInv

LEMMA DeliverInv ==
  ASSUME ServerInv, NEW response \in outbox, Deliver(response)
  PROVE  ServerInv'
<1> DEFINE r == response.job.req
<1>1. /\ response \in [job : Jobs, ok : BOOLEAN, version : Nat]
      /\ RightAnswer(response.job, response.ok, response.version)
  BY DEF ServerInv, JobsInv
<1>2. r \in Request /\ response.ok \in BOOLEAN /\ response.version \in Nat
  BY <1>1 DEF Jobs
<1>3. /\ host \in Up /\ client[r] = "waiting" /\ outbox' = outbox \ {response}
      /\ client' = [client EXCEPT ![r] = "answered"]
      /\ answer' = [answer EXCEPT ![r] = [ok |-> response.ok, version |-> response.version]]
      /\ UNCHANGED <<disk, host, memory, queue, turn, tries, guard, asked, crashes>>
  BY DEF Deliver, Up
<1> HIDE DEF r
<1>4. Remembered
  BY <1>2, <1>3 DEF Remembered, ServerInv, ClientsInv
<1>5. /\ DiskInv' /\ WritesKnown' /\ JobsInv' /\ HostInv' /\ TurnInv' /\ Version' = Version
      /\ Version \in Nat
  <2>1. Version \in Nat
    BY DiskFacts DEF ServerInv
  <2> QED BY <1>3, <1>4, <2>1, Bystanders DEF memory
<1>6. ClientsInv'
  <2>1. [ok |-> response.ok, version |-> response.version] \in [ok : BOOLEAN, version : Int]
    BY <1>2
  <2>2. answer' \in [Request -> [ok : BOOLEAN, version : Int]]
    BY <1>2, <1>3, <2>1 DEF ServerInv, ClientsInv
  <2> QED BY <1>3, <1>4, <1>5, <2>2 DEF ServerInv, ClientsInv, Remembered
<1>7. AnswersInv'
  <2> SUFFICES ASSUME NEW w \in Write, answer'[w].ok
               PROVE  answer'[w].version \in 1..Version /\ TxAt(log, answer'[w].version) = w
    BY <1>3, <1>5 DEF AnswersInv, disk
  <2>1. CASE w = r
    <3>1. answer'[w] = [ok |-> response.ok, version |-> response.version]
      BY <1>2, <1>3, <2>1 DEF ServerInv, ClientsInv
    <3>2. /\ response.version \in 1..Len(current) /\ current[response.version] = w
      BY <1>1, <1>2, <2>1, <3>1 DEF RightAnswer, r
    <3>3. /\ Len(current) \in Nat /\ Version \in Nat /\ Len(current) <= Version
          /\ \A i \in 1..Len(current) : current[i] = TxAt(log, i)
      BY <1>3, UpFacts
    <3> QED BY <3>1, <3>2, <3>3
  <2>2. CASE w # r
    <3>1. answer'[w] = answer[w]
      BY <1>3, <2>2, WritesAreRequests DEF ServerInv, ClientsInv
    <3> QED BY <3>1 DEF ServerInv, AnswersInv
  <2> QED BY <2>1, <2>2
<1> QED BY <1>5, <1>6, <1>7 DEF ServerInv

(* A request is asked; nothing that is under way is about it.               *)
LEMMA SendInv ==
  ASSUME ServerInv, NEW r \in Request, Send(r)
  PROVE  ServerInv'
<1>1. /\ host \in Up /\ client[r] \in {"idle", "lost", "answered"}
      /\ tries' = [tries EXCEPT ![r] = @ + 1]
      /\ client' = [client EXCEPT ![r] = "waiting"]
      /\ queue' = queue \cup {[req |-> r, try |-> tries[r] + 1]}
      /\ asked' = [asked EXCEPT ![r] = Len(Durable)]
      /\ UNCHANGED <<disk, host, memory, turn, outbox, answer, crashes>>
  BY DEF Send, Up
<1>2. /\ guard' \in [Write -> Nat \cup {AnyVersion}]
      /\ \A w \in Write : client[w] # "idle" => guard'[w] = guard[w]
  <2>1. CASE UNCHANGED guard
    BY <2>1 DEF ServerInv, ClientsInv
  <2>2. ASSUME r \in Write, client[r] = "idle", NEW g \in Guards \cup {AnyVersion},
               guard' = [guard EXCEPT ![r] = g]
        PROVE  /\ guard' \in [Write -> Nat \cup {AnyVersion}]
               /\ \A w \in Write : client[w] # "idle" => guard'[w] = guard[w]
    <3>1. g \in Nat \cup {AnyVersion}
      BY DurableServerAssumption
    <3> QED BY <2>2, <3>1 DEF ServerInv, ClientsInv
  <2> QED BY <2>1, <2>2 DEF Send
<1>3. /\ client \in [Request -> {"idle", "waiting", "lost", "answered"}]
      /\ tries \in [Request -> Nat] /\ asked \in [Request -> Int]
  BY DEF ServerInv, ClientsInv
<1>4. /\ client' \in [Request -> {"idle", "waiting", "lost", "answered"}]
      /\ client'[r] = "waiting" /\ \A q \in Request : q # r => client'[q] = client[q]
      /\ \A q \in Request : client[q] # "idle" => client'[q] # "idle"
  BY <1>1, <1>3
<1>5. /\ tries' \in [Request -> Nat] /\ tries'[r] = tries[r] + 1
      /\ \A q \in Request : tries[q] <= tries'[q]
      /\ \A q \in Request : q # r => tries'[q] = tries[q]
  <2>1. \A q \in Request : tries[q] \in Nat
    BY <1>3
  <2>2. tries' = [q \in Request |-> IF q = r THEN tries[q] + 1 ELSE tries[q]]
    BY <1>1, <1>3
  <2>3. \A q \in Request : tries'[q] = IF q = r THEN tries[q] + 1 ELSE tries[q]
    BY <2>2
  <2>4. \A q \in Request : tries'[q] \in Nat /\ tries[q] <= tries'[q]
    BY <2>1, <2>3
  <2>5. DOMAIN tries' = Request
    BY <2>2
  <2>6. tries' \in [Request -> Nat]
    BY <2>2, <2>4
  <2> QED BY <2>3, <2>4, <2>6
<1>6. DiskInv' /\ Version' = Version /\ Version \in Nat /\ Len(Durable) = Version
  BY <1>1, DiskStays, DiskFacts, DurableIs DEF ServerInv
<1>7. /\ asked' \in [Request -> Int] /\ asked'[r] = Version
      /\ \A q \in Request : q # r => asked'[q] = asked[q]
  BY <1>1, <1>3, <1>6
<1>8. WritesKnown'
  <2>1. log' = log /\ tail' = tail
    BY <1>1 DEF disk
  <2> SUFFICES ASSUME NEW g \in Nat \ {0}, Before(g) < Len(log \o tail)
               PROVE  LET w == TxAt(log \o tail, g)
                      IN  w \in Write /\ client'[w] # "idle" /\ guard'[w] \in {AnyVersion, g - 1}
    BY <2>1 DEF WritesKnown
  <2>2. LET w == TxAt(log \o tail, g)
        IN  w \in Write /\ client[w] # "idle" /\ guard[w] \in {AnyVersion, g - 1}
    BY DEF ServerInv, WritesKnown
  <2> QED BY <1>2, <1>4, <2>2, WritesAreRequests
<1>9. ClientsInv'
  <2>1. answer' \in [Request -> [ok : BOOLEAN, version : Int]]
    BY <1>1 DEF ServerInv, ClientsInv
  <2>2. ASSUME NEW q \in Request
        PROVE  asked'[q] \in -1..Version' /\ (client'[q] = "idle" <=> asked'[q] = -1)
    <3>1. CASE q = r
      BY <1>4, <1>6, <1>7, <3>1
    <3>2. CASE q # r
      BY <1>4, <1>6, <1>7, <3>2 DEF ServerInv, ClientsInv
    <3> QED BY <3>1, <3>2
  <2> QED BY <1>2, <1>4, <1>5, <1>7, <2>1, <2>2 DEF ClientsInv
<1>10. AnswersInv'
  BY <1>1, <1>6 DEF ServerInv, AnswersInv, disk
<1>11. ASSUME NEW job, Known(job)
       PROVE  /\ Known(job)'
              /\ job.try = tries'[job.req] => job.req # r /\ job.try = tries[job.req]
              /\ job.req # r => asked'[job.req] = asked[job.req]
              /\ job.req \in Write => guard'[job.req] = guard[job.req]
  <2>1. job.req \in Request /\ job.try \in Nat /\ job.try <= tries[job.req]
        /\ client[job.req] # "idle" /\ job \in Jobs
    BY <1>11 DEF Known, Jobs
  <2>2. tries[job.req] \in Nat /\ tries'[job.req] \in Nat /\ tries[job.req] <= tries'[job.req]
    BY <1>3, <1>5, <2>1
  <2>3. Known(job)'
    BY <1>4, <2>1, <2>2 DEF Known
  <2>4. job.try = tries'[job.req] => job.req # r /\ job.try = tries[job.req]
    <3>1. CASE job.req = r
      BY <1>5, <2>1, <2>2, <3>1
    <3>2. CASE job.req # r
      BY <1>5, <2>1, <3>2
    <3> QED BY <3>1, <3>2
  <2> QED BY <1>2, <1>7, <2>1, <2>3, <2>4
<1>12. ASSUME NEW job, NEW ok, NEW version, Known(job), RightAnswer(job, ok, version)
       PROVE  RightAnswer(job, ok, version)'
  <2>1. current' = current
    BY <1>1 DEF memory
  <2> QED BY <1>11, <1>12, <2>1 DEF RightAnswer
<1>13. JobsInv'
  <2>1. ASSUME NEW job \in queue' PROVE Known(job)'
    <3>1. CASE job \in queue
      BY <1>11, <3>1 DEF ServerInv, JobsInv
    <3>2. CASE job = [req |-> r, try |-> tries[r] + 1]
      <4>1. job.req = r /\ job.try = tries'[r] /\ job \in Jobs /\ tries'[r] \in Nat
        BY <1>3, <1>5, <3>2 DEF Jobs
      <4> QED BY <1>4, <4>1 DEF Known
    <3> QED BY <1>1, <3>1, <3>2
  <2>2. \A response \in outbox' :
          /\ response \in [job : Jobs, ok : BOOLEAN, version : Nat]
          /\ Known(response.job)'
          /\ RightAnswer(response.job, response.ok, response.version)'
    BY <1>1, <1>11, <1>12 DEF ServerInv, JobsInv
  <2> QED BY <2>1, <2>2 DEF JobsInv
<1>14. HostInv'
  BY <1>1 DEF ServerInv, HostInv, disk, memory, Up, Booted
<1>15. TurnInv'
  <2>1. CASE turn.pc = "free"
    BY <1>1, <2>1 DEF ServerInv, TurnInv, Writing, Finishing, Imaging
  <2>2. CASE turn.pc # "free"
    <3>1. Known(turn.job) /\ ~poisoned'
      BY <1>1, <2>2 DEF ServerInv, TurnInv, memory
    <3>2. Known(turn.job)'
      BY <1>1, <1>11, <3>1
    <3>3. RightAnswer(turn.job, turn.ok, Len(turn.fork)) =>
            RightAnswer(turn.job, turn.ok, Len(turn.fork))'
      BY <1>1, <1>12, <3>1
    <3>4. turn.pc \in Writing =>
            /\ guard'[turn.job.req] \in {AnyVersion, Len(current)}
            /\ turn.job.try = tries'[turn.job.req] => asked'[turn.job.req] <= Len(current)
      BY <1>11, <3>1 DEF ServerInv, TurnInv
    <3>5. UNCHANGED <<log, durable, image, current, dirty, turn>>
      BY <1>1 DEF disk, memory
    <3>6. /\ turn' \in [job : Jobs \cup {NoJob}, pc : {"free"} \cup Writing \cup Finishing,
                         fork : Seq(Write), ok : BOOLEAN]
          /\ turn'.pc # "free" => ~poisoned' /\ Known(turn.job)'
      BY <3>1, <3>2, <3>5 DEF ServerInv, TurnInv
    <3>7. turn'.pc \in Writing =>
            /\ turn'.job.req \in Write /\ turn'.ok
            /\ turn'.fork = Append(current', turn'.job.req)
            /\ guard'[turn'.job.req] \in {AnyVersion, Len(current')}
            /\ turn'.job.try = tries'[turn'.job.req] => asked'[turn'.job.req] <= Len(current')
            /\ dirty' < CompactAt
            /\ Len(log') > Before(Len(turn'.fork)) => TxAt(log', Len(turn'.fork)) = turn'.job.req
      BY <3>4, <3>5 DEF ServerInv, TurnInv
    <3>8. /\ turn'.pc = "append" => Len(log') < Before(Len(turn'.fork)) + Parts
          /\ turn'.pc \in {"sync", "publish"} => Len(log') = Before(Len(turn'.fork)) + Parts
          /\ turn'.pc = "publish" => durable' = Len(log')
          /\ turn'.pc \in Finishing => turn'.fork = current'
          /\ turn'.pc \in Imaging => turn'.job.req \notin Write /\ turn'.ok
          /\ turn'.pc \in Finishing => RightAnswer(turn.job, turn.ok, Len(turn.fork))'
          /\ turn'.pc \in {"write image", "sync image"} => image'.mark > 0
          /\ turn'.pc = "write image" => image'.parts < Parts
      BY <3>3, <3>5 DEF ServerInv, TurnInv
    <3> QED BY <3>6, <3>7, <3>8 DEF TurnInv
  <2> QED BY <2>1, <2>2
<1> QED BY <1>6, <1>8, <1>9, <1>10, <1>13, <1>14, <1>15 DEF ServerInv

(* Steps of the turn leave the clients, and what they were told, alone.     *)
LEMMA ClientsSame ==
  ASSUME ServerInv, UNCHANGED <<clients, log, tail>>, durable' = durable
  PROVE  WritesKnown' /\ ClientsInv' /\ AnswersInv' /\ Version' = Version
<1>1. Remembered
  BY DEF clients, Remembered, ServerInv, ClientsInv
<1>2. Version' = Version /\ Version \in Nat
  BY DiskFacts DEF Version, ServerInv
<1> QED BY <1>1, <1>2, KnownStays, ClientsStay, AnswersStay DEF clients, ServerInv

LEMMA JobsSame ==
  ASSUME ServerInv, UNCHANGED <<clients, current>>, queue' \subseteq queue, outbox' \subseteq outbox
  PROVE  JobsInv'
<1>1. Remembered
  BY DEF clients, Remembered, ServerInv, ClientsInv
<1> QED BY <1>1, JobsStay DEF clients, ServerInv

LEMMA DispatchInv ==
  ASSUME ServerInv, NEW job \in queue, Dispatch(job)
  PROVE  ServerInv'
<1>1. host \in Up /\ turn.pc = "free" /\ ~poisoned
  BY DEF Dispatch, MayDispatch, Up
<1>2. Known(job)
  BY DEF ServerInv, JobsInv
<1>3. current' = current /\ dirty' \in 0..CompactAt /\ dirty' < CompactAt
  <2>1. dirty \in 0..CompactAt
    BY DEF ServerInv, HostInv
  <2>2. CASE NeedsCompaction
    <3>1. Compact
      BY <2>2 DEF Dispatch
    <3> QED BY <1>1, <3>1, CompactChangesNothing, ChainFacts
  <2>3. CASE ~NeedsCompaction
    BY <2>1, <2>3, ChainFacts DEF Dispatch, NeedsCompaction
  <2> QED BY <2>2, <2>3
<1>4. /\ queue' = queue \ {job} /\ turn' = Dispatched(job, current)
      /\ UNCHANGED <<disk, host, poisoned, fatal, outbox, clients, crashes>>
  BY <1>3 DEF Dispatch
<1>5. /\ current \in Seq(Write) /\ Len(current) \in Nat /\ Version = Len(current)
  BY <1>1, UpFacts
<1>6. job \in Jobs /\ job.req \in Request
  BY <1>2 DEF Known, Jobs
<1>7. asked[job.req] <= Len(current) /\ asked[job.req] \in Int
  BY <1>5, <1>6 DEF ServerInv, ClientsInv
<1>8. DiskInv' /\ WritesKnown' /\ ClientsInv' /\ AnswersInv' /\ JobsInv'
  BY <1>3, <1>4, DiskStays, ClientsSame, JobsSame DEF ServerInv, disk
<1>9. Known(job)'
  BY <1>2, <1>4 DEF Known, clients
<1> DEFINE after(pc, fork, ok) == [job |-> job, pc |-> pc, fork |-> fork, ok |-> ok]
<1>10. \/ /\ turn' = after("append", Append(current, job.req), TRUE)
          /\ job.req \in Write /\ Admits(job.req, current)
       \/ /\ turn' = after("respond", current, FALSE)
          /\ job.req \in Write /\ ~Admits(job.req, current)
       \/ turn' = after("respond", current, TRUE) /\ job.req \in Read
       \/ turn' = after("truncate image", current, TRUE) /\ job.req \in Checkpoint
  <2>1. /\ job.req \in Read => job.req \notin Write /\ job.req \notin Checkpoint
        /\ job.req \in Checkpoint => job.req \notin Write /\ job.req \notin Read
    BY DurableServerAssumption
  <2>2. CASE job.req \in Write /\ Admits(job.req, current)
    BY <1>4, <2>1, <2>2 DEF Dispatched
  <2>3. CASE job.req \in Write /\ ~Admits(job.req, current)
    BY <1>4, <2>1, <2>3 DEF Dispatched
  <2>4. CASE job.req \in Read
    BY <1>4, <2>1, <2>4 DEF Dispatched
  <2>5. CASE job.req \in Checkpoint
    BY <1>4, <2>1, <2>5 DEF Dispatched
  <2> QED BY <1>6, <2>2, <2>3, <2>4, <2>5 DEF Request
<1>11. /\ turn'.job = job /\ turn'.pc \in {"append", "respond", "truncate image"}
       /\ turn' \in [job : Jobs \cup {NoJob}, pc : {"free"} \cup Writing \cup Finishing,
                     fork : Seq(Write), ok : BOOLEAN]
  <2>1. job.req \in Write => Append(current, job.req) \in Seq(Write)
    BY <1>5, AppendProperties
  <2>2. ASSUME NEW pc \in {"append", "respond", "truncate image"},
               NEW fork \in Seq(Write), NEW ok \in BOOLEAN, turn' = after(pc, fork, ok)
        PROVE  /\ turn'.job = job /\ turn'.pc \in {"append", "respond", "truncate image"}
               /\ turn' \in [job : Jobs \cup {NoJob}, pc : {"free"} \cup Writing \cup Finishing,
                             fork : Seq(Write), ok : BOOLEAN]
    BY <1>6, <2>2 DEF Writing, Finishing, Imaging
  <2> HIDE DEF after
  <2> QED BY <1>5, <1>10, <2>1, <2>2
<1>12. HostInv'
  BY <1>1, <1>3, <1>4, <1>11 DEF ServerInv, HostInv, disk, Up, Booted
<1>13. TurnInv'
  <2>1. /\ guard' = guard /\ tries' = tries /\ asked' = asked /\ log' = log
        /\ durable' = durable /\ image' = image /\ ~poisoned'
    BY <1>1, <1>4 DEF clients, disk
  <2>2. /\ Len(log) = Before(Len(current) + 1) /\ Before(Len(current) + 1) \in Nat
        /\ Parts \in Nat \ {0}
    <3>1. Len(log) = durable /\ durable = Before(Len(current) + 1)
      BY <1>1 DEF ServerInv, HostInv
    <3> QED BY <1>5, <3>1, NextFacts
  <2>3. CASE /\ turn' = after("append", Append(current, job.req), TRUE)
             /\ job.req \in Write /\ Admits(job.req, current)
    <3>1. Len(Append(current, job.req)) = Len(current) + 1
      BY <1>5, <2>3, AppendProperties
    <3>2. guard[job.req] \in {AnyVersion, Len(current)}
      BY <2>3 DEF Admits
    <3>3. /\ turn'.pc = "append" /\ turn'.fork = Append(current, job.req) /\ turn'.ok
          /\ turn'.pc \notin Finishing
      BY <2>3 DEF Finishing, Imaging
    <3>4. Len(log) < Before(Len(turn'.fork)) + Parts /\ ~(Len(log) > Before(Len(turn'.fork)))
      BY <2>2, <3>1, <3>3
    <3> QED BY <1>3, <1>7, <1>9, <1>11, <2>1, <2>3, <3>2, <3>3, <3>4 DEF TurnInv, Imaging, Finishing
  <2>4. CASE /\ turn' = after("respond", current, FALSE)
             /\ job.req \in Write /\ ~Admits(job.req, current)
    <3>1. RightAnswer(job, FALSE, Len(current))'
      BY <1>3, <1>5, <1>7, <2>1, <2>4 DEF RightAnswer, Admits
    <3>2. /\ turn'.pc = "respond" /\ turn'.fork = current /\ turn'.ok = FALSE
          /\ turn'.pc \notin Writing /\ turn'.pc \notin Imaging
      BY <2>4 DEF Writing, Imaging
    <3> QED BY <1>3, <1>9, <1>11, <2>1, <3>1, <3>2 DEF TurnInv
  <2>5. CASE turn' = after("respond", current, TRUE) /\ job.req \in Read
    <3>1. RightAnswer(job, TRUE, Len(current))'
      BY <1>3, <1>5, <1>7, <2>1, <2>5, DurableServerAssumption DEF RightAnswer
    <3>2. /\ turn'.pc = "respond" /\ turn'.fork = current /\ turn'.ok = TRUE
          /\ turn'.pc \notin Writing /\ turn'.pc \notin Imaging
      BY <2>5 DEF Writing, Imaging
    <3> QED BY <1>3, <1>9, <1>11, <2>1, <3>1, <3>2 DEF TurnInv
  <2>6. CASE turn' = after("truncate image", current, TRUE) /\ job.req \in Checkpoint
    <3>0. job.req \notin Write
      BY <2>6, DurableServerAssumption
    <3>1. RightAnswer(job, TRUE, Len(current))'
      BY <1>3, <1>5, <1>7, <2>1, <3>0 DEF RightAnswer
    <3>2. /\ turn'.pc = "truncate image" /\ turn'.fork = current /\ turn'.ok = TRUE
          /\ turn'.pc \notin Writing
      BY <2>6 DEF Writing
    <3> QED BY <1>3, <1>9, <1>11, <2>1, <3>0, <3>1, <3>2 DEF TurnInv
  <2> QED BY <1>10, <2>3, <2>4, <2>5, <2>6
<1> QED BY <1>8, <1>12, <1>13 DEF ServerInv

-----------------------------------------------------------------------------
(* Appending a piece.                                                       *)

(* How far into a record a place is.                                        *)
LEMMA OffsetFacts ==
  ASSUME NEW a \in Nat, NEW b \in Nat, NEW k \in Nat, b <= a, a < b + k
  PROVE  /\ a - b + 1 \in 1..k /\ a + 1 = b + (a - b + 1)
         /\ a > b => a - b \in 1..k /\ b + (a - b) = a
OBVIOUS

(* A place belongs to one record.                                           *)
LEMMA PlaceIsUnique ==
  ASSUME NEW g \in Nat, NEW h \in Nat, NEW p \in 1..Parts, NEW q \in 1..Parts,
         Before(g) + p = Before(h) + q
  PROVE  g = h /\ p = q
<1>1. /\ Before(g) \in Nat /\ Before(h) \in Nat /\ Parts \in Nat
      /\ g < h => Before(g) + Parts <= Before(h)
      /\ h < g => Before(h) + Parts <= Before(g)
  BY BeforeFacts, DurableServerAssumption
<1>2. ~(g < h) /\ ~(h < g)
  BY <1>1
<1> QED BY <1>1, <1>2

LEMMA AppendInOrder ==
  ASSUME NEW l \in Seq(Pieces), InOrder(l), NEW h \in Nat, NEW q \in 1..Parts,
         NEW tx \in Write \cup {Header}, Len(l) + 1 = Before(h) + q,
         q > 1 => TxAt(l, h) = tx
  PROVE  LET k == Append(l, Piece(tx, h, q))
         IN  /\ k \in Seq(Pieces) /\ Len(k) = Len(l) + 1 /\ InOrder(k)
             /\ \A j \in 1..Len(l) : k[j] = l[j]
             /\ \A g \in Nat : Before(g) < Len(l) => TxAt(k, g) = TxAt(l, g)
             /\ TxAt(k, h) = tx
<1> DEFINE k == Append(l, Piece(tx, h, q))
<1>1. q \in Nat /\ Parts \in Nat /\ Before(h) \in Nat /\ Len(l) \in Nat /\ 1 <= q
  BY NextFacts
<1>2. Piece(tx, h, q) \in Pieces
  BY <1>1 DEF Piece, Pieces
<1>3. /\ k \in Seq(Pieces) /\ Len(k) = Len(l) + 1
      /\ \A j \in 1..Len(l) : k[j] = l[j]
      /\ k[Len(l) + 1] = Piece(tx, h, q)
  BY <1>2, AppendProperties
<1> HIDE DEF k
<1>4. ASSUME NEW g \in Nat, Before(g) < Len(l) PROVE TxAt(k, g) = TxAt(l, g)
  <2>1. Before(g) + 1 \in 1..Len(l)
    <3>1. Before(g) \in Nat
      BY NextFacts
    <3> QED BY <1>1, <1>4, <3>1
  <2> QED BY <1>3, <2>1 DEF TxAt
<1>5. TxAt(k, h) = tx
  <2>1. CASE q = 1
    BY <1>3, <2>1 DEF TxAt, Piece
  <2>2. CASE q > 1
    <3>1. Before(h) < Len(l)
      BY <1>1, <2>2
    <3> QED BY <1>4, <2>2, <3>1
  <2> QED BY <1>1, <2>1, <2>2
<1>6. ASSUME NEW g \in Nat, NEW p \in 1..Parts, Before(g) + p <= Len(l) + 1
      PROVE  k[Before(g) + p] = Piece(TxAt(k, g), g, p)
  <2>1. Before(g) \in Nat
    BY NextFacts
  <2>2. CASE Before(g) + p <= Len(l)
    <3>1. l[Before(g) + p] = Piece(TxAt(l, g), g, p)
      BY <2>2 DEF InOrder
    <3>2. Before(g) + p \in 1..Len(l) /\ Before(g) < Len(l)
      BY <1>1, <2>1, <2>2
    <3> QED BY <1>3, <1>4, <3>1, <3>2
  <2>3. CASE Before(g) + p = Len(l) + 1
    <3>1. g = h /\ p = q
      BY <2>3, PlaceIsUnique
    <3> QED BY <1>3, <1>5, <2>3, <3>1
  <2> QED BY <1>1, <1>6, <2>1, <2>2, <2>3
<1>7. InOrder(k)
  BY <1>3, <1>6 DEF InOrder
<1> QED BY <1>3, <1>4, <1>5, <1>7 DEF k

(* A piece that belongs next keeps the disk in order.                       *)
LEMMA AppendKeepsDisk ==
  ASSUME DiskInv, tail = <<>>, UNCHANGED <<durable, tail, image, imageOnDisk>>,
         NEW h \in Nat, NEW q \in 1..Parts, NEW tx \in Write \cup {Header},
         Len(log) + 1 = Before(h) + q, q > 1 => TxAt(log, h) = tx,
         h <= Version + 1, log' = Append(log, Piece(tx, h, q))
  PROVE  /\ DiskInv' /\ Version' = Version /\ Version \in Nat
         /\ (log \o tail)' = log' /\ Len(log') = Len(log) + 1
         /\ \A j \in 1..Len(log) : log'[j] = log[j]
         /\ \A g \in Nat : Before(g) < Len(log) => TxAt(log', g) = TxAt(log, g)
         /\ TxAt(log', h) = tx
<1>1. /\ log \in Seq(Pieces) /\ InOrder(log) /\ Len(log) \in Nat /\ durable \in Nat
      /\ durable <= Len(log) /\ durable \in 0..Len(log) /\ Version \in Nat
  BY DiskFacts
<1>2. /\ log' \in Seq(Pieces) /\ Len(log') = Len(log) + 1 /\ InOrder(log')
      /\ \A j \in 1..Len(log) : log'[j] = log[j]
      /\ \A g \in Nat : Before(g) < Len(log) => TxAt(log', g) = TxAt(log, g)
      /\ TxAt(log', h) = tx
  BY <1>1, AppendInOrder
<1>3. (log \o tail)' = log' /\ tail' \in Seq(Pieces) /\ tail' = <<>>
  BY <1>2, ConcatEmptySeq
<1>4. Len(log') <= Before(Version + 2)
  <2>1. Before(h + 1) <= Before(Version + 2)
    <3>1. CASE h = Version + 1
      <4>1. h + 1 = Version + 2
        BY <1>1, <3>1
      <4>2. Before(Version + 2) \in Nat
        BY <1>1, NextFacts
      <4> QED BY <4>1, <4>2
    <3>2. CASE h < Version + 1
      <4>1. h + 1 \in Nat /\ Version + 2 \in Nat /\ h + 1 < Version + 2
        BY <1>1, <3>2
      <4>2. Before(h + 1) + Parts <= Before(Version + 2) /\ Before(h + 1) \in Nat
        BY <4>1, BeforeFacts
      <4> QED BY <4>2, <4>1, BeforeFacts, DurableServerAssumption
    <3> QED BY <1>1, <3>1, <3>2
  <2>2. Before(h) + q <= Before(h + 1)
    <3>1. Before(h + 1) = Before(h) + Parts /\ Before(h) \in Nat /\ Parts \in Nat
      BY NextFacts
    <3> QED BY <3>1
  <2>3. Before(h) \in Nat /\ Before(h + 1) \in Nat /\ Before(Version + 2) \in Nat
    BY <1>1, NextFacts
  <2> QED BY <1>1, <1>2, <2>1, <2>2, <2>3
<1>5. Version' = Version
  BY DEF Version
<1>6. Fits(image', log', durable) /\ Fits(imageOnDisk', log', durable)
  <2>1. Fits(image, log, durable) /\ Fits(imageOnDisk, log, durable)
    BY DEF DiskInv
  <2>2. \A img : Fits(img, log, durable) => img.mark <= durable
    BY <1>1 DEF Fits
  <2>3. \A j \in 1..durable : log[j] = log'[j]
    BY <1>1, <1>2
  <2> QED BY <1>1, <1>2, <2>1, <2>2, <2>3, StillFits
<1>7. durable' \in 0..Len(log')
  BY <1>1, <1>2
<1>8. DiskInv'
  BY <1>2, <1>3, <1>4, <1>5, <1>6, <1>7 DEF DiskInv
<1> QED BY <1>1, <1>2, <1>3, <1>5, <1>8

(* The record of the turn, piece by piece.                                  *)
LEMMA WritingFacts ==
  ASSUME ServerInv, turn.pc \in Writing
  PROVE  LET n == Len(current)
         IN  /\ host \in Up /\ ~poisoned /\ n \in Nat /\ current \in Seq(Write)
             /\ turn.job.req \in Write /\ Known(turn.job)
             /\ turn.fork = Append(current, turn.job.req)
             /\ Len(turn.fork) = n + 1 /\ turn.fork \in Seq(Write)
             /\ turn.fork[n + 1] = turn.job.req
             /\ \A i \in 1..n : turn.fork[i] = current[i]
             /\ Before(n + 1) <= Len(log) /\ current = Txs(log, n)
<1>1. turn # FreeTurn
  BY DEF FreeTurn, Writing
<1>2. host \in Up /\ host \in Booted
  BY <1>1 DEF ServerInv, HostInv, Up, Booted
<1>3. current \in Seq(Write) /\ Before(Len(current) + 1) <= Len(log) /\ current = Txs(log, Len(current))
  BY <1>2 DEF ServerInv, HostInv
<1>4. /\ turn.job.req \in Write /\ turn.fork = Append(current, turn.job.req)
      /\ Known(turn.job) /\ ~poisoned
  BY DEF ServerInv, TurnInv, Writing
<1>5. /\ turn.fork \in Seq(Write) /\ Len(turn.fork) = Len(current) + 1
      /\ turn.fork[Len(current) + 1] = turn.job.req
      /\ \A i \in 1..Len(current) : turn.fork[i] = current[i]
  BY <1>3, <1>4, AppendProperties
<1> QED BY <1>2, <1>3, <1>4, <1>5

LEMMA AppendPieceInv ==
  ASSUME ServerInv, AppendPiece
  PROVE  ServerInv' /\ LogGrows
<1> DEFINE n == Len(current)
           w == turn.job.req
           written == IF log = <<>> \/ log[Len(log)].tx # turn.job.req
                         \/ log[Len(log)].sequence # Len(turn.fork)
                      THEN 0 ELSE log[Len(log)].part
           q == Len(log) - Before(n + 1) + 1
<1>1. /\ turn.pc = "append"
      /\ log' = Append(log, Piece(w, Len(turn.fork), written + 1))
      /\ turn' = [turn EXCEPT !.pc = IF written + 1 = Parts THEN "sync" ELSE "append"]
      /\ UNCHANGED <<durable, tail, image, imageOnDisk, host, memory, queue, outbox,
                     clients, crashes>>
  BY DEF AppendPiece
<1>2. turn.pc \in Writing
  BY <1>1 DEF Writing
<1>3. /\ host \in Up /\ ~poisoned /\ n \in Nat /\ current \in Seq(Write)
      /\ w \in Write /\ Known(turn.job)
      /\ turn.fork = Append(current, w) /\ Len(turn.fork) = n + 1 /\ turn.fork \in Seq(Write)
      /\ Before(n + 1) <= Len(log) /\ current = Txs(log, n)
  BY <1>2, WritingFacts
<1>4. Version = n /\ tail = <<>>
  BY <1>1, <1>3, UpFacts
<1>5. /\ Len(log) < Before(n + 1) + Parts
      /\ Len(log) > Before(n + 1) => TxAt(log, n + 1) = w
      /\ guard[w] \in {AnyVersion, n}
  BY <1>1, <1>2, <1>3 DEF ServerInv, TurnInv
<1>6. /\ Before(n) \in Nat /\ Before(n + 1) \in Nat /\ Before(n + 1) = Before(n) + Parts
      /\ Parts \in Nat \ {0} /\ n + 1 \in Nat
  BY <1>3, NextFacts
<1>7. log \in Seq(Pieces) /\ InOrder(log) /\ Len(log) \in Nat /\ log \o tail = log
  BY <1>4, DiskFacts DEF ServerInv
<1> HIDE DEF n, w
<1>8. q \in 1..Parts /\ Len(log) + 1 = Before(n + 1) + q
  <2>1. Before(n + 1) \in Nat /\ Len(log) \in Nat /\ Parts \in Nat
    BY <1>6, <1>7
  <2>2. Before(n + 1) <= Len(log) /\ Len(log) < Before(n + 1) + Parts
    BY <1>3, <1>5
  <2> QED BY <2>1, <2>2, OffsetFacts
<1>9. written + 1 = q
  <2>1. CASE Len(log) = Before(n + 1)
    <3>1. Parts \in 1..Parts /\ Before(n) + Parts <= Len(log)
      BY <1>6, <2>1
    <3>2. log[Before(n) + Parts] = Piece(TxAt(log, n), n, Parts)
      BY <1>3, <1>7, <3>1 DEF InOrder
    <3>3. log[Len(log)].sequence = n
      BY <1>6, <2>1, <3>2 DEF Piece
    <3>4. written = 0
      BY <1>3, <3>3
    <3> QED BY <1>6, <1>7, <2>1, <3>4
  <2>2. CASE Len(log) > Before(n + 1)
    <3> DEFINE p == Len(log) - Before(n + 1)
    <3>1. p \in 1..Parts /\ Before(n + 1) + p <= Len(log) /\ Before(n + 1) + p = Len(log)
      <4>1. Before(n + 1) \in Nat /\ Len(log) \in Nat /\ Parts \in Nat
        BY <1>6, <1>7
      <4>2. Before(n + 1) <= Len(log) /\ Len(log) < Before(n + 1) + Parts
        BY <1>3, <1>5
      <4>3. p \in 1..Parts /\ Before(n + 1) + p = Len(log)
        BY <2>2, <4>1, <4>2, OffsetFacts
      <4> QED BY <4>1, <4>3
    <3> HIDE DEF p
    <3>2. log[Before(n + 1) + p] = Piece(TxAt(log, n + 1), n + 1, p)
      BY <1>6, <1>7, <3>1 DEF InOrder
    <3>3. log[Len(log)] = Piece(w, n + 1, p)
      BY <1>5, <2>2, <3>1, <3>2
    <3>4. log # <<>>
      BY <1>6, <1>7, <2>2
    <3>5. written = p
      BY <1>3, <3>3, <3>4 DEF Piece, w
    <3> QED BY <3>5 DEF p
  <2> QED BY <1>3, <1>6, <1>7, <2>1, <2>2
<1> HIDE DEF written
<1>10. log' = Append(log, Piece(w, n + 1, q))
  BY <1>1, <1>3, <1>9
<1>11. q > 1 => TxAt(log, n + 1) = w
  BY <1>5, <1>6, <1>7
<1> HIDE DEF q
<1>12. /\ DiskInv' /\ Version' = Version /\ Version \in Nat
       /\ (log \o tail)' = log' /\ Len(log') = Len(log) + 1
       /\ \A j \in 1..Len(log) : log'[j] = log[j]
       /\ \A g \in Nat : Before(g) < Len(log) => TxAt(log', g) = TxAt(log, g)
       /\ TxAt(log', n + 1) = w
  <2>1. w \in Write \cup {Header} /\ n + 1 <= Version + 1
    BY <1>3, <1>4
  <2> QED BY <1>1, <1>4, <1>6, <1>8, <1>10, <1>11, <2>1, AppendKeepsDisk DEF ServerInv
<1>13. /\ guard' = guard /\ client' = client /\ current' = current /\ poisoned' = poisoned
       /\ dirty' = dirty /\ tries' = tries /\ asked' = asked /\ answer' = answer
       /\ tail' = tail /\ durable' = durable /\ host' = host /\ queue' = queue
       /\ outbox' = outbox /\ image' = image
  BY <1>1 DEF clients, memory
<1>14. Remembered
  BY <1>13 DEF Remembered, ServerInv, ClientsInv
<1>15. WritesKnown'
  <2> SUFFICES ASSUME NEW g \in Nat \ {0}, Before(g) < Len(log')
               PROVE  LET x == TxAt(log', g)
                      IN  x \in Write /\ client[x] # "idle" /\ guard[x] \in {AnyVersion, g - 1}
    BY <1>12, <1>13 DEF WritesKnown
  <2>1. Before(g) \in Nat
    BY NextFacts
  <2>2. CASE Before(g) < Len(log)
    BY <1>7, <1>12, <2>2 DEF ServerInv, WritesKnown
  <2>3. CASE Before(g) = Len(log)
    <3>1. Before(g) + 1 = Before(n + 1) + q /\ 1 \in 1..Parts
      BY <1>6, <1>8, <2>3
    <3>2. g = n + 1
      BY <1>6, <1>8, <3>1, PlaceIsUnique
    <3>3. client[w] # "idle"
      BY <1>3 DEF Known, w
    <3> QED BY <1>3, <1>5, <1>12, <3>2, <3>3
  <2> QED BY <1>7, <1>12, <2>1, <2>2, <2>3
<1>16. ClientsInv'
  BY <1>12, <1>13, <1>14, ClientsStay DEF ServerInv
<1>17. AnswersInv' /\ LogGrows
  <2>1. \A i \in 1..Version : TxAt(log', i) = TxAt(log, i)
    BY <1>12, VersionPlaces DEF ServerInv
  <2> QED BY <1>12, <1>13, <2>1, AnswersStay DEF ServerInv, LogGrows
<1>18. JobsInv'
  BY <1>13, <1>14, JobsStay DEF ServerInv
<1>19. /\ turn' = [turn EXCEPT !.pc = turn'.pc]
       /\ turn'.pc = (IF q = Parts THEN "sync" ELSE "append")
  BY <1>1, <1>9 DEF ServerInv, TurnInv
<1>20. HostInv'
  <2>1. current = Txs(log', n)
    <3>1. \A j \in 1..Before(n + 1) : log[j] = log'[j]
      BY <1>3, <1>6, <1>7, <1>12
    <3>2. log' \in Seq(Pieces)
      BY <1>12 DEF DiskInv
    <3> QED BY <1>3, <1>7, <3>1, <3>2, TxsAgree
  <2>2. Before(n + 1) <= Len(log')
    BY <1>3, <1>6, <1>7, <1>12
  <2>3. turn'.pc \in {"append", "sync"} /\ host \notin {"repair", "sync", "write header", "down"}
    BY <1>3, <1>19 DEF Up
  <2> QED BY <1>1, <1>3, <1>4, <1>13, <2>1, <2>2, <2>3 DEF ServerInv, HostInv, Up, Booted, n
<1>21. TurnInv'
  <2>1. Known(turn.job)' /\ turn'.job = turn.job /\ turn'.fork = turn.fork /\ turn'.ok = turn.ok
    <3>1. turn'.job = turn.job /\ turn'.fork = turn.fork /\ turn'.ok = turn.ok
      BY <1>1 DEF ServerInv, TurnInv
    <3>2. Known(turn.job)
      BY <1>3
    <3>3. Known(turn.job)'
      BY <1>13, <3>1, <3>2 DEF Known
    <3> QED BY <3>1, <3>3
  <2>2. turn' \in [job : Jobs \cup {NoJob}, pc : {"free"} \cup Writing \cup Finishing,
                   fork : Seq(Write), ok : BOOLEAN]
    <3>1. turn'.pc \in {"free"} \cup Writing \cup Finishing
      BY <1>19 DEF Writing
    <3> QED BY <1>19, <3>1 DEF ServerInv, TurnInv
  <2>3. turn'.pc \in {"append", "sync"} /\ turn'.pc \notin Finishing /\ turn'.pc \notin Imaging
    BY <1>19 DEF Finishing, Imaging
  <2>4. turn'.pc = "append" => Len(log') < Before(n + 1) + Parts
    BY <1>6, <1>7, <1>8, <1>12, <1>19
  <2>5. turn'.pc = "sync" => Len(log') = Before(n + 1) + Parts
    BY <1>6, <1>7, <1>8, <1>12, <1>19
  <2>6. /\ w \in Write /\ turn.ok /\ turn.fork = Append(current, w)
        /\ guard[w] \in {AnyVersion, n}
        /\ turn.job.try = tries[w] => asked[w] <= n
        /\ dirty < CompactAt
    BY <1>2 DEF ServerInv, TurnInv, n, w
  <2> QED BY <1>3, <1>12, <1>13, <2>1, <2>2, <2>3, <2>4, <2>5, <2>6 DEF TurnInv, n, w
<1> QED BY <1>12, <1>15, <1>16, <1>17, <1>18, <1>20, <1>21 DEF ServerInv

-----------------------------------------------------------------------------
(* The rest of the turn.                                                    *)

LEMMA SyncLogInv ==
  ASSUME ServerInv, SyncLog
  PROVE  ServerInv' /\ LogGrows
<1> DEFINE n == Len(current)
           w == turn.job.req
<1>1. /\ turn.pc = "sync" /\ durable' = Len(log)
      /\ turn' = [turn EXCEPT !.pc = "publish"]
      /\ UNCHANGED <<log, tail, image, imageOnDisk, host, memory, queue, outbox,
                     clients, crashes>>
  BY DEF SyncLog
<1>2. turn.pc \in Writing
  BY <1>1 DEF Writing
<1>3. /\ host \in Up /\ ~poisoned /\ n \in Nat /\ w \in Write /\ Known(turn.job)
      /\ turn.fork = Append(current, w) /\ Len(turn.fork) = n + 1
  BY <1>2, WritingFacts
<1>4. tail = <<>>
  BY <1>3, UpFacts
<1>5. /\ guard' = guard /\ client' = client /\ current' = current /\ poisoned' = poisoned
      /\ dirty' = dirty /\ tries' = tries /\ asked' = asked /\ answer' = answer
      /\ tail' = tail /\ log' = log /\ host' = host /\ queue' = queue
      /\ outbox' = outbox /\ image' = image
  BY <1>1 DEF clients, memory
<1>6. DiskInv' /\ WritesKnown' /\ ClientsInv' /\ AnswersInv' /\ LogGrows
  BY <1>1, <1>4, <1>5, SyncSurvives
<1>7. JobsInv'
  BY <1>1, <1>5, JobsSame
<1>8. /\ turn'.pc = "publish" /\ turn'.job = turn.job /\ turn'.fork = turn.fork
      /\ turn'.ok = turn.ok
      /\ turn' \in [job : Jobs \cup {NoJob}, pc : {"free"} \cup Writing \cup Finishing,
                    fork : Seq(Write), ok : BOOLEAN]
  BY <1>1 DEF ServerInv, TurnInv, Writing
<1>9. HostInv'
  BY <1>3, <1>4, <1>5, <1>8 DEF ServerInv, HostInv, Up, Booted
<1>10. TurnInv'
  <2>1. Known(turn.job)'
    BY <1>3, <1>5, <1>8 DEF Known
  <2>2. Len(log) = Before(n + 1) + Parts
    BY <1>1, <1>3 DEF ServerInv, TurnInv
  <2>3. turn'.pc \in Writing /\ turn'.pc \notin Finishing /\ turn'.pc \notin Imaging
    BY <1>8 DEF Writing, Finishing, Imaging
  <2>4. /\ turn.ok /\ guard[w] \in {AnyVersion, n}
        /\ turn.job.try = tries[w] => asked[w] <= n
        /\ dirty < CompactAt
        /\ Len(log) > Before(n + 1) => TxAt(log, n + 1) = w
    BY <1>2, <1>3 DEF ServerInv, TurnInv
  <2> QED BY <1>1, <1>3, <1>5, <1>8, <2>1, <2>2, <2>3, <2>4 DEF TurnInv
<1> QED BY <1>6, <1>7, <1>9, <1>10 DEF ServerInv

LEMMA PublishInv ==
  ASSUME ServerInv, Publish
  PROVE  ServerInv'
<1> DEFINE n == Len(current)
           w == turn.job.req
<1>1. /\ turn.pc = "publish" /\ current' = turn.fork /\ dirty' = dirty + 1
      /\ turn' = [turn EXCEPT !.pc = "respond"]
      /\ UNCHANGED <<disk, host, poisoned, fatal, queue, outbox, clients, crashes>>
  BY DEF Publish
<1>2. turn.pc \in Writing
  BY <1>1 DEF Writing
<1>3. /\ host \in Up /\ ~poisoned /\ n \in Nat /\ current \in Seq(Write)
      /\ w \in Write /\ Known(turn.job) /\ turn.fork \in Seq(Write)
      /\ Len(turn.fork) = n + 1 /\ turn.fork[n + 1] = w
      /\ \A i \in 1..n : turn.fork[i] = current[i]
  BY <1>2, WritingFacts
<1>4. /\ tail = <<>> /\ \A i \in 1..n : current[i] = TxAt(log, i)
  BY <1>3, UpFacts
<1>5. /\ turn.ok
      /\ turn.job.try = tries[w] => asked[w] <= n
      /\ dirty < CompactAt
      /\ Len(log) > Before(n + 1) => TxAt(log, n + 1) = w
      /\ Len(log) = Before(n + 1) + Parts /\ durable = Len(log)
  BY <1>1, <1>2, <1>3 DEF ServerInv, TurnInv
<1>6. /\ Before(n + 1) \in Nat /\ Before(n + 2) = Before(n + 1) + Parts /\ Parts \in Nat \ {0}
      /\ n + 1 \in Nat /\ n + 1 + 1 = n + 2
  BY <1>3, NextFacts
<1>7. TxAt(log, n + 1) = w /\ Len(log) = Before(n + 1 + 1)
  BY <1>5, <1>6
<1>8. DiskInv' /\ Version' = Version /\ WritesKnown' /\ ClientsInv' /\ AnswersInv'
  BY <1>1, DiskStays, ClientsSame DEF ServerInv, disk
<1>9. /\ guard' = guard /\ client' = client /\ tries' = tries /\ asked' = asked
      /\ log' = log /\ durable' = durable /\ tail' = tail /\ host' = host
      /\ queue' = queue /\ outbox' = outbox /\ poisoned' = poisoned
  BY <1>1 DEF clients, disk
<1>10. Remembered
  BY <1>9 DEF Remembered, ServerInv, ClientsInv
<1>11. ASSUME NEW job, NEW ok, NEW version, Known(job), RightAnswer(job, ok, version)
       PROVE  RightAnswer(job, ok, version)'
  <2>1. version \in 0..n
    BY <1>11 DEF RightAnswer
  <2>2. version \in 0..Len(current')
    BY <1>1, <1>3, <2>1
  <2>3. version > 0 => current'[version] = current[version]
    BY <1>1, <1>3, <2>1
  <2> QED BY <1>9, <1>11, <2>2, <2>3 DEF RightAnswer
<1>12. JobsInv'
  BY <1>9, <1>10, <1>11, KnownJobStays DEF ServerInv, JobsInv
<1>13. /\ turn'.pc = "respond" /\ turn'.job = turn.job /\ turn'.fork = turn.fork
       /\ turn'.ok = turn.ok
       /\ turn' \in [job : Jobs \cup {NoJob}, pc : {"free"} \cup Writing \cup Finishing,
                     fork : Seq(Write), ok : BOOLEAN]
  BY <1>1 DEF ServerInv, TurnInv, Finishing
<1>14. turn.fork = Txs(log, n + 1)
  <2>1. \A i \in 1..(n + 1) : turn.fork[i] = TxAt(log, i)
    BY <1>3, <1>4, <1>7
  <2>2. turn.fork = [i \in 1..(n + 1) |-> turn.fork[i]]
    BY <1>3
  <2> QED BY <2>1, <2>2 DEF Txs
<1>15. HostInv'
  <2>1. dirty' \in 0..CompactAt
    <3>1. dirty \in 0..CompactAt
      BY DEF ServerInv, HostInv
    <3> QED BY <1>1, <1>5, <3>1, ChainFacts
  <2>2. Len(current') = n + 1 /\ current' \in Seq(Write) /\ current' = Txs(log, n + 1)
    BY <1>1, <1>3, <1>14
  <2>3. Before(n + 1 + 1) <= Len(log) /\ durable = Before(n + 1 + 1) /\ Len(log) = durable
    BY <1>5, <1>6, <1>7
  <2> QED BY <1>3, <1>4, <1>9, <1>13, <2>1, <2>2, <2>3 DEF ServerInv, HostInv, Up, Booted
<1>16. TurnInv'
  <2>1. Known(turn.job)'
    BY <1>3, <1>9, <1>13 DEF Known
  <2>2. asked[w] \in Int /\ w \in Request
    BY <1>3, WritesAreRequests DEF ServerInv, ClientsInv
  <2>3. turn.job.try = tries[w] => asked[w] <= n + 1 /\ asked[w] < n + 1
    BY <1>3, <1>5, <2>2
  <2>4. RightAnswer(turn.job, turn.ok, Len(turn.fork))'
    BY <1>1, <1>3, <1>5, <1>6, <1>9, <1>13, <2>3 DEF RightAnswer
  <2>5. turn'.pc \notin Writing /\ turn'.pc \notin Imaging
    BY <1>13 DEF Writing, Imaging
  <2> QED BY <1>1, <1>3, <1>9, <1>13, <2>1, <2>4, <2>5 DEF TurnInv
<1> QED BY <1>8, <1>12, <1>15, <1>16 DEF ServerInv

(* A checkpoint: the turn that writes the image has published nothing.      *)
LEMMA ImagingFacts ==
  ASSUME ServerInv, turn.pc \in Finishing
  PROVE  /\ host \in Up /\ ~poisoned /\ turn.fork = current /\ current \in Seq(Write)
         /\ Len(current) \in Nat /\ Known(turn.job) /\ current = Txs(log, Len(current))
         /\ durable = Before(Len(current) + 1) /\ Len(log) = durable /\ tail = <<>>
         /\ RightAnswer(turn.job, turn.ok, Len(turn.fork))
<1>1. turn # FreeTurn /\ turn.pc # "free" /\ turn.pc \notin {"append", "sync", "publish"}
  <2>1. turn.pc \in {"truncate image", "write image", "sync image", "respond"}
    BY DEF Finishing, Imaging
  <2>2. FreeTurn.pc = "free"
    BY DEF FreeTurn
  <2> QED BY <2>1, <2>2
<1>2. host \in Up /\ host \in Booted
  BY <1>1 DEF ServerInv, HostInv, Up, Booted
<1>3. /\ turn.fork = current /\ Known(turn.job) /\ ~poisoned
      /\ RightAnswer(turn.job, turn.ok, Len(turn.fork))
  BY <1>1 DEF ServerInv, TurnInv
<1>4. /\ current \in Seq(Write) /\ current = Txs(log, Len(current))
      /\ durable = Before(Len(current) + 1) /\ Len(log) = durable
  BY <1>1, <1>2, <1>3 DEF ServerInv, HostInv
<1>5. tail = <<>>
  BY <1>2, UpFacts
<1> QED BY <1>2, <1>3, <1>4, <1>5

(* Only the image changes, and it still fits.                               *)
LEMMA ImagingInv ==
  ASSUME ServerInv, turn.pc \in Imaging, NEW to \in {"write image", "sync image", "respond"},
         turn' = [turn EXCEPT !.pc = to],
         UNCHANGED <<log, durable, tail, host, memory, queue, outbox, clients, crashes>>,
         Fits(image', log, durable), Fits(imageOnDisk', log, durable),
         to # "respond" => image'.mark > 0,
         to = "write image" => image'.parts < Parts
  PROVE  ServerInv'
<1>1. turn.pc \in Finishing
  BY DEF Finishing
<1>2. /\ host \in Up /\ ~poisoned /\ turn.fork = current /\ current \in Seq(Write)
      /\ Len(current) \in Nat /\ Known(turn.job) /\ current = Txs(log, Len(current))
      /\ durable = Before(Len(current) + 1) /\ Len(log) = durable /\ tail = <<>>
      /\ RightAnswer(turn.job, turn.ok, Len(turn.fork))
  BY <1>1, ImagingFacts
<1>3. /\ guard' = guard /\ client' = client /\ tries' = tries /\ asked' = asked
      /\ log' = log /\ durable' = durable /\ tail' = tail /\ host' = host
      /\ queue' = queue /\ outbox' = outbox /\ poisoned' = poisoned
      /\ current' = current /\ dirty' = dirty
  BY DEF clients, memory
<1>4. DiskInv'
  BY <1>3 DEF ServerInv, DiskInv, Version
<1>5. WritesKnown' /\ ClientsInv' /\ AnswersInv' /\ JobsInv'
  BY <1>3, ClientsSame, JobsSame
<1>6. /\ turn'.pc = to /\ turn'.job = turn.job /\ turn'.fork = turn.fork /\ turn'.ok = turn.ok
      /\ turn' \in [job : Jobs \cup {NoJob}, pc : {"free"} \cup Writing \cup Finishing,
                    fork : Seq(Write), ok : BOOLEAN]
      /\ turn'.pc \notin Writing /\ turn'.pc # "free"
      /\ turn'.pc \notin {"append", "sync", "publish"}
  BY DEF ServerInv, TurnInv, Finishing, Imaging, Writing
<1>7. HostInv'
  BY <1>2, <1>3, <1>6 DEF ServerInv, HostInv, Up, Booted
<1>8. TurnInv'
  <2>1. Known(turn.job)'
    BY <1>2, <1>3, <1>6 DEF Known
  <2>2. RightAnswer(turn.job, turn.ok, Len(turn.fork))'
    BY <1>2, <1>3, <1>6 DEF RightAnswer
  <2>3. turn.job.req \notin Write /\ turn.ok
    BY DEF ServerInv, TurnInv
  <2> QED BY <1>2, <1>3, <1>6, <2>1, <2>2, <2>3 DEF TurnInv
<1> QED BY <1>4, <1>5, <1>7, <1>8 DEF ServerInv

LEMMA TruncateImageInv ==
  ASSUME ServerInv, TruncateImage
  PROVE  ServerInv'
<1>1. turn.pc \in Imaging /\ turn.pc \in Finishing
  BY DEF TruncateImage, Imaging, Finishing
<1>2. /\ turn.fork = current /\ current \in Seq(Write) /\ Len(current) \in Nat
      /\ current = Txs(log, Len(current)) /\ durable = Before(Len(current) + 1)
  BY <1>1, ImagingFacts
<1>3. Parts * (1 + Len(current)) = Before(Len(current) + 1)
  <2>1. \A k, m \in Nat : k * (1 + m) = (m + 1) * k
    OBVIOUS
  <2> QED BY <1>2, <2>1, DurableServerAssumption DEF Before
<1>4. Before(Len(current) + 1) \in Nat /\ Before(Len(current) + 1) > 0 /\ Parts \in Nat \ {0}
  <2>1. /\ Before(Len(current) + 1) = Before(Len(current)) + Parts
        /\ Before(Len(current)) \in Nat /\ Parts \in Nat \ {0}
    BY <1>2, NextFacts
  <2> QED BY <2>1
<1>5. image' = [parts |-> 0, mark |-> Before(Len(current) + 1), txs |-> current]
  BY <1>2, <1>3 DEF TruncateImage, ImageOf
<1>6. Fits(image', log, durable) /\ image'.mark > 0 /\ image'.parts < Parts
  <2>1. /\ image'.parts = 0 /\ image'.mark = Before(Len(current) + 1) /\ image'.txs = current
    BY <1>5
  <2>2. image' \in [parts : 0..Parts, mark : Nat, txs : Seq(Write)]
    BY <1>2, <1>4, <1>5
  <2>3. durable <= durable
    BY <1>2, <1>4
  <2> QED BY <1>2, <1>4, <2>1, <2>2, <2>3 DEF Fits
<1>7. Fits(imageOnDisk', log, durable)
  BY DEF TruncateImage, ServerInv, DiskInv
<1> QED BY <1>1, <1>6, <1>7, ImagingInv DEF TruncateImage

LEMMA WriteImagePieceInv ==
  ASSUME ServerInv, WriteImagePiece
  PROVE  ServerInv'
<1>1. turn.pc \in Imaging /\ turn.pc = "write image"
  BY DEF WriteImagePiece, Imaging
<1>2. image.mark > 0 /\ image.parts < Parts
  BY <1>1 DEF ServerInv, TurnInv
<1>3. /\ Fits(image, log, durable) /\ Fits(imageOnDisk', log, durable)
      /\ image \in [parts : 0..Parts, mark : Nat, txs : Seq(Write)] /\ Parts \in Nat
  BY DurableServerAssumption DEF WriteImagePiece, ServerInv, DiskInv, Fits
<1>4. /\ image' \in [parts : 0..Parts, mark : Nat, txs : Seq(Write)]
      /\ image'.parts = image.parts + 1 /\ image'.mark = image.mark /\ image'.txs = image.txs
  <2>1. image.parts + 1 \in 0..Parts
    BY <1>2, <1>3
  <2>2. image' = [image EXCEPT !.parts = image.parts + 1]
    BY DEF WriteImagePiece
  <2> QED BY <1>3, <2>1, <2>2
<1>5. Fits(image', log, durable) /\ image'.mark > 0
  BY <1>2, <1>3, <1>4 DEF Fits
<1> DEFINE to == IF image'.parts = Parts THEN "sync image" ELSE "write image"
<1>6. turn' = [turn EXCEPT !.pc = to]
  BY <1>1 DEF WriteImagePiece, ServerInv, TurnInv
<1>7. to = "write image" => image'.parts < Parts
  BY <1>3, <1>4
<1>8. to \in {"write image", "sync image", "respond"} /\ to # "respond"
  OBVIOUS
<1> HIDE DEF to
<1> QED BY <1>1, <1>3, <1>5, <1>6, <1>7, <1>8, ImagingInv DEF WriteImagePiece

LEMMA SyncImageInv ==
  ASSUME ServerInv, SyncImage
  PROVE  ServerInv'
<1>1. turn.pc \in Imaging
  BY DEF SyncImage, Imaging
<1>2. Fits(image', log, durable) /\ Fits(imageOnDisk', log, durable)
  BY DEF SyncImage, ServerInv, DiskInv
<1> QED BY <1>1, <1>2, ImagingInv DEF SyncImage

LEMMA RespondInv ==
  ASSUME ServerInv, Respond
  PROVE  ServerInv'
<1> DEFINE mine == [job |-> turn.job, ok |-> turn.ok, version |-> Len(turn.fork)]
<1>1. turn.pc \in Finishing /\ turn.pc = "respond" /\ turn.pc \notin {"append", "sync", "publish"}
  BY DEF Respond, Finishing
<1>2. /\ host \in Up /\ ~poisoned /\ turn.fork = current /\ Len(current) \in Nat
      /\ Known(turn.job) /\ RightAnswer(turn.job, turn.ok, Len(turn.fork))
      /\ Len(log) = durable /\ tail = <<>>
  BY <1>1, ImagingFacts
<1>3. /\ outbox' = outbox \cup {mine} /\ turn' = FreeTurn
      /\ UNCHANGED <<disk, host, memory, queue, clients, crashes>>
  BY DEF Respond
<1>4. DiskInv' /\ WritesKnown' /\ ClientsInv' /\ AnswersInv' /\ TurnInv'
  BY <1>3, DiskStays, ClientsSame, FreeTurnFits DEF ServerInv, disk
<1>5. /\ mine \in [job : Jobs, ok : BOOLEAN, version : Nat]
      /\ mine.job = turn.job /\ mine.ok = turn.ok /\ mine.version = Len(turn.fork)
  <2>1. turn.job \in Jobs /\ turn.ok \in BOOLEAN
    BY <1>2 DEF Known, ServerInv, TurnInv
  <2> QED BY <1>2, <2>1
<1> HIDE DEF mine
<1>6. /\ guard' = guard /\ client' = client /\ tries' = tries /\ asked' = asked
      /\ current' = current
  BY <1>3 DEF clients, memory
<1>7. \A job, ok, version :
        RightAnswer(job, ok, version) => RightAnswer(job, ok, version)'
  BY <1>6 DEF RightAnswer
<1>8. \A job : Known(job) => Known(job)'
  BY <1>6 DEF Known
<1>9. JobsInv'
  <2>1. \A job \in queue' : Known(job)'
    BY <1>3, <1>8 DEF ServerInv, JobsInv
  <2>2. ASSUME NEW response \in outbox'
        PROVE  /\ response \in [job : Jobs, ok : BOOLEAN, version : Nat]
               /\ Known(response.job)
               /\ RightAnswer(response.job, response.ok, response.version)
    BY <1>2, <1>3, <1>5 DEF ServerInv, JobsInv
  <2> QED BY <1>7, <1>8, <2>1, <2>2 DEF JobsInv
<1>10. HostInv'
  BY <1>1, <1>2, <1>3 DEF ServerInv, HostInv, disk, memory, Up, Booted
<1> QED BY <1>4, <1>9, <1>10 DEF ServerInv

-----------------------------------------------------------------------------
(* Boot.                                                                    *)

(* Before the server is up nothing waits, and the turn is free.             *)
LEMMA DownFacts ==
  ASSUME ServerInv, host \notin Up
  PROVE  /\ queue = {} /\ outbox = {} /\ turn = FreeTurn /\ turn.pc = "free" /\ ~poisoned
         /\ dirty \in 0..CompactAt /\ poisoned \in BOOLEAN
<1>1. /\ queue = {} /\ outbox = {} /\ turn = FreeTurn /\ ~poisoned
      /\ dirty \in 0..CompactAt /\ poisoned \in BOOLEAN
  BY DEF ServerInv, HostInv
<1>2. FreeTurn.pc = "free"
  BY DEF FreeTurn
<1> QED BY <1>1, <1>2

LEMMA EmptyJobs ==
  ASSUME queue' = {}, outbox' = {}
  PROVE  JobsInv'
BY DEF JobsInv

(* Every transaction that the log holds completely was asked for.           *)
LEMMA TxsAreWrites ==
  ASSUME ServerInv, NEW n \in Nat, Before(n + 1) <= Len(log)
  PROVE  Txs(log, n) \in Seq(Write) /\ Len(Txs(log, n)) = n
<1>1. /\ log \in Seq(Pieces) /\ tail \in Seq(Pieces) /\ log \o tail \in Seq(Pieces)
      /\ Len(log) \in Nat /\ Len(tail) \in Nat /\ Len(log \o tail) = Len(log) + Len(tail)
      /\ \A j \in 1..Len(log) : (log \o tail)[j] = log[j]
  BY DiskFacts DEF ServerInv
<1>2. ASSUME NEW i \in 1..n PROVE TxAt(log, i) \in Write
  <2>1. /\ i \in Nat \ {0} /\ Before(i) \in Nat /\ Before(i) + 1 \in 1..Before(n + 1)
        /\ Before(n + 1) \in Nat
    BY PlaceFacts
  <2>2. Before(i) < Len(log \o tail) /\ Before(i) + 1 \in 1..Len(log)
    BY <1>1, <2>1
  <2>3. TxAt(log \o tail, i) \in Write
    BY <2>1, <2>2 DEF ServerInv, WritesKnown
  <2> QED BY <1>1, <2>2, <2>3 DEF TxAt
<1> QED BY <1>2 DEF Txs

(* An empty log is fresh, and a torn header refuses the boot.               *)
LEMMA EmptyBoots ==
  ASSUME NEW l, NEW img
  PROVE  /\ l = <<>> =>
              /\ Boot(l, img) = [ok |-> TRUE, txs |-> <<>>, valid |-> 0, fresh |-> TRUE]
              /\ Boot(l, img).ok /\ Boot(l, img).fresh /\ Boot(l, img).txs = <<>>
         /\ l # <<>> /\ Len(l) \in Nat /\ l \in Seq(Pieces) /\ Len(l) < Parts =>
              /\ Boot(l, img) = [ok |-> FALSE, txs |-> <<>>, valid |-> 0, fresh |-> FALSE]
              /\ ~Boot(l, img).ok
<1>1. Parts \in Nat \ {0}
  BY DurableServerAssumption
<1>2. ASSUME l = <<>>
      PROVE  /\ Boot(l, img) = [ok |-> TRUE, txs |-> <<>>, valid |-> 0, fresh |-> TRUE]
             /\ Boot(l, img).ok /\ Boot(l, img).fresh /\ Boot(l, img).txs = <<>>
  <2>1. Len(l) = 0
    BY <1>2
  <2>2. Len(l) \notin 1..(Parts - 1) /\ ~(Len(l) >= Parts)
    BY <1>1, <2>1
  <2>3. Boot(l, img) = [ok |-> TRUE, txs |-> <<>>, valid |-> 0, fresh |-> TRUE]
    BY <1>2, <2>2 DEF Boot
  <2> QED BY <2>3
<1>3. ASSUME l # <<>>, Len(l) \in Nat, l \in Seq(Pieces), Len(l) < Parts
      PROVE  /\ Boot(l, img) = [ok |-> FALSE, txs |-> <<>>, valid |-> 0, fresh |-> FALSE]
             /\ ~Boot(l, img).ok
  <2>1. Len(l) \in 1..(Parts - 1) /\ ~(Len(l) >= Parts)
    BY <1>1, <1>3
  <2>2. Boot(l, img) = [ok |-> FALSE, txs |-> <<>>, valid |-> 0, fresh |-> FALSE]
    BY <1>3, <2>1 DEF Boot
  <2> QED BY <2>2
<1> QED BY <1>2, <1>3

LEMMA ReadLogInv ==
  ASSUME ServerInv, ReadLog
  PROVE  ServerInv'
<1>1. /\ host = "down" /\ Boot(log, image).ok
      /\ current' = Boot(log, image).txs
      /\ host' = IF Boot(log, image).fresh THEN "write header" ELSE "repair"
      /\ UNCHANGED <<disk, dirty, poisoned, fatal, work, clients, crashes>>
  BY DEF ReadLog
<1>2. host \notin Up
  BY <1>1 DEF Up
<1>3. /\ queue = {} /\ outbox = {} /\ turn = FreeTurn /\ turn.pc = "free" /\ ~poisoned
      /\ dirty \in 0..CompactAt /\ poisoned \in BOOLEAN
  BY <1>2, DownFacts
<1>4. /\ queue' = {} /\ outbox' = {} /\ turn' = FreeTurn /\ ~poisoned' /\ dirty' = dirty
      /\ poisoned' = poisoned
      /\ log' = log /\ durable' = durable /\ tail' = tail
  BY <1>1, <1>3 DEF work, disk
<1>5. DiskInv' /\ WritesKnown' /\ ClientsInv' /\ AnswersInv'
  BY <1>1, DiskStays, ClientsSame DEF ServerInv, disk
<1>6. JobsInv' /\ TurnInv'
  BY <1>4, EmptyJobs, FreeTurnFits
<1>7. /\ log \in Seq(Pieces) /\ Len(log) \in Nat
      /\ tail # <<>> => \E k \in Nat \ {0} : Len(log) = Before(k)
  BY DiskFacts DEF ServerInv, DiskInv
<1>8. Parts \in Nat \ {0} /\ Before(0 + 1) = Parts
  BY DurableServerAssumption, BeforeFacts
<1>9. HostInv'
  <2>1. CASE log = <<>>
    <3>3. Len(log) = 0 /\ Len(log) < Parts /\ ~(Len(log) > 0)
      BY <1>8, <2>1
    <3>1. Boot(log, image).txs = <<>> /\ Boot(log, image).fresh
      BY <2>1, EmptyBoots
    <3>2. host' = "write header" /\ current' = <<>>
      BY <1>1, <3>1
    <3>4. tail = <<>>
      <4>1. ASSUME NEW k \in Nat \ {0} PROVE Before(0) + Parts <= Before(k) /\ Before(0) = 0
        BY <4>1, BeforeFacts
      <4> QED BY <1>7, <1>8, <3>3, <4>1
    <3> QED BY <1>3, <1>4, <3>2, <3>3, <3>4 DEF HostInv, Up, Booted
  <2>2. CASE log # <<>> /\ Len(log) < Parts
    <3>1. ~Boot(log, image).ok
      BY <1>7, <2>2, EmptyBoots
    <3> QED BY <1>1, <3>1
  <2>3. CASE Len(log) >= Parts
    <3> DEFINE n == VersionOf(Len(log))
    <3>1. n \in Nat /\ Before(n + 1) <= Len(log) /\ Len(log) < Before(n + 2)
      BY <1>7, <2>3, VersionFacts
    <3> HIDE DEF n
    <3>2. Boot(log, image) =
            [ok |-> TRUE, txs |-> Txs(log, n), valid |-> Before(n + 1), fresh |-> FALSE]
      BY <3>1, BootReads DEF ServerInv, DiskInv
    <3>3. host' = "repair" /\ current' = Txs(log, n)
      BY <1>1, <3>2
    <3>4. current' \in Seq(Write) /\ Len(current') = n
      BY <3>1, <3>3, TxsAreWrites
    <3> QED BY <1>3, <1>4, <3>1, <3>3, <3>4 DEF HostInv, Up, Booted
  <2> QED BY <1>7, <1>8, <2>1, <2>2, <2>3
<1> QED BY <1>5, <1>6, <1>9 DEF ServerInv

LEMMA WriteHeaderPieceInv ==
  ASSUME ServerInv, WriteHeaderPiece
  PROVE  ServerInv' /\ LogGrows
<1> DEFINE q == Len(log) + 1
<1>1. /\ host = "write header" /\ log' = Append(log, Piece(Header, 0, q))
      /\ host' = IF Len(log') = Parts THEN "sync" ELSE host
      /\ UNCHANGED <<durable, tail, image, imageOnDisk, memory, work, clients, crashes>>
  BY DEF WriteHeaderPiece
<1>2. host \notin Up
  BY <1>1 DEF Up
<1>3. /\ queue = {} /\ outbox = {} /\ turn = FreeTurn /\ turn.pc = "free" /\ ~poisoned
      /\ dirty \in 0..CompactAt /\ poisoned \in BOOLEAN
  BY <1>2, DownFacts
<1>4. /\ queue' = {} /\ outbox' = {} /\ turn' = FreeTurn /\ ~poisoned' /\ dirty' = dirty
      /\ poisoned' = poisoned /\ current' = current /\ tail' = tail
      /\ guard' = guard /\ client' = client /\ tries' = tries /\ asked' = asked
      /\ answer' = answer
  BY <1>1, <1>3 DEF work, memory, clients
<1>5. /\ tail = <<>> /\ current = <<>> /\ Len(log) < Parts
      /\ Len(log) > 0 => TxAt(log, 0) = Header
  BY <1>1 DEF ServerInv, HostInv
<1>6. /\ Parts \in Nat \ {0} /\ Before(0) = 0 /\ Before(0 + 1) = Parts /\ Len(log) \in Nat
      /\ \A g \in Nat \ {0} : Before(g) \in Nat /\ Parts <= Before(g)
  <2>1. ASSUME NEW g \in Nat \ {0} PROVE Before(g) \in Nat /\ Before(0) + Parts <= Before(g)
    <3>1. 0 < g /\ g \in Nat /\ 0 \in Nat
      OBVIOUS
    <3> QED BY <3>1, BeforeFacts
  <2>2. Before(0) = 0 /\ Before(1) = Parts /\ Parts \in Nat \ {0} /\ Len(log) \in Nat
    BY BeforeFacts, DurableServerAssumption, DiskFacts DEF ServerInv
  <2>3. Before(0 + 1) = Parts
    BY <2>2
  <2> QED BY <2>1, <2>2, <2>3
<1>7. /\ q \in 1..Parts /\ Len(log) + 1 = Before(0) + q
      /\ q > 1 => TxAt(log, 0) = Header
  BY <1>5, <1>6
<1> HIDE DEF q
<1>8. /\ DiskInv' /\ Version' = Version /\ Version \in Nat
      /\ (log \o tail)' = log' /\ Len(log') = Len(log) + 1
      /\ \A g \in Nat : Before(g) < Len(log) => TxAt(log', g) = TxAt(log, g)
      /\ TxAt(log', 0) = Header
  <2>1. Version \in Nat /\ DiskInv
    BY DiskFacts DEF ServerInv
  <2>2. 0 <= Version + 1
    BY <2>1
  <2> QED BY <1>1, <1>5, <1>7, <2>1, <2>2, AppendKeepsDisk
<1>9. Remembered
  BY <1>4 DEF Remembered, ServerInv, ClientsInv
<1>10. WritesKnown'
  <2>1. ASSUME NEW g \in Nat \ {0} PROVE ~(Before(g) < Len(log'))
    BY <1>5, <1>6, <1>8
  <2> QED BY <1>8, <2>1 DEF WritesKnown
<1>11. ClientsInv'
  BY <1>4, <1>8, <1>9, ClientsStay DEF ServerInv
<1>12. AnswersInv' /\ LogGrows
  <2>1. \A i \in 1..Version : TxAt(log', i) = TxAt(log, i)
    BY <1>8, VersionPlaces DEF ServerInv
  <2> QED BY <1>4, <1>8, <2>1, AnswersStay DEF ServerInv, LogGrows
<1>13. JobsInv' /\ TurnInv'
  BY <1>4, EmptyJobs, FreeTurnFits
<1>14. HostInv'
  <2>3. /\ Len(log') = Parts => host' = "sync"
        /\ Len(log') # Parts => host' = "write header"
    BY <1>1
  <2>1. CASE Len(log') = Parts
    <3>1. /\ host' = "sync" /\ current' = <<>> /\ Len(current') = 0 /\ current' \in Seq(Write)
          /\ tail' = <<>>
      BY <1>4, <1>5, <2>1, <2>3
    <3>2. current' = Txs(log', Len(current'))
      BY <3>1 DEF Txs
    <3>3. Before(Len(current') + 1) = Len(log') /\ Before(Len(current') + 1) <= Len(log')
      BY <1>6, <2>1, <3>1
    <3> QED BY <1>3, <1>4, <3>1, <3>2, <3>3 DEF HostInv, Up, Booted
  <2>2. CASE Len(log') # Parts
    <3>1. host' = "write header" /\ Len(log') < Parts
      <4>1. Len(log) \in Nat /\ Parts \in Nat /\ Len(log) < Parts /\ Len(log') = Len(log) + 1
        BY <1>5, <1>6, <1>8
      <4>2. Len(log') < Parts
        BY <2>2, <4>1
      <4> QED BY <2>2, <2>3, <4>2
    <3> QED BY <1>3, <1>4, <1>5, <1>8, <3>1 DEF HostInv, Up, Booted
  <2> QED BY <2>1, <2>2
<1> QED BY <1>8, <1>10, <1>11, <1>12, <1>13, <1>14 DEF ServerInv

LEMMA SyncBootInv ==
  ASSUME ServerInv, SyncBoot
  PROVE  ServerInv' /\ LogGrows
<1>1. /\ host = "sync" /\ durable' = Len(log) /\ tail' = <<>> /\ host' = "serving"
      /\ UNCHANGED <<log, image, imageOnDisk, memory, work, clients, crashes>>
  BY DEF SyncBoot
<1>2. host \notin Up
  BY <1>1 DEF Up
<1>3. /\ queue = {} /\ outbox = {} /\ turn = FreeTurn /\ turn.pc = "free" /\ ~poisoned
      /\ dirty \in 0..CompactAt /\ poisoned \in BOOLEAN
  BY <1>2, DownFacts
<1>4. /\ queue' = {} /\ outbox' = {} /\ turn' = FreeTurn /\ ~poisoned' /\ dirty' = dirty
      /\ poisoned' = poisoned /\ current' = current /\ turn'.pc = "free" /\ log' = log
  BY <1>1, <1>3 DEF work, memory
<1>5. DiskInv' /\ WritesKnown' /\ ClientsInv' /\ AnswersInv' /\ LogGrows
  BY <1>1, SyncSurvives DEF clients
<1>6. JobsInv' /\ TurnInv'
  BY <1>4, EmptyJobs, FreeTurnFits
<1>7. /\ current \in Seq(Write) /\ Before(Len(current) + 1) <= Len(log)
      /\ current = Txs(log, Len(current)) /\ Len(log) = Before(Len(current) + 1)
  BY <1>1 DEF ServerInv, HostInv, Booted
<1>8. HostInv'
  BY <1>1, <1>3, <1>4, <1>7 DEF HostInv, Up, Booted
<1> QED BY <1>5, <1>6, <1>8 DEF ServerInv

(* The repair cuts the log after its last complete record; what it cuts off *)
(* a power loss may still bring back.                                       *)
LEMMA RepairTailIs ==
  ASSUME ServerInv, RepairTail
  PROVE  LET n == Len(current)
         IN  /\ n \in Nat /\ current \in Seq(Write) /\ current = Txs(log, n)
             /\ Before(n + 1) <= Len(log) /\ Len(log) < Before(n + 2)
             /\ Len(log) = Before(n + 1) =>
                  log' = log /\ tail' = tail /\ durable' = durable
             /\ Len(log) # Before(n + 1) =>
                  /\ tail = <<>> /\ log' = SubSeq(log, 1, Before(n + 1))
                  /\ tail' = SubSeq(log, Before(n + 1) + 1, Len(log))
                  /\ durable' = IF durable > Before(n + 1) THEN Before(n + 1) ELSE durable
<1> DEFINE n == Len(current)
           valid == Before(n + 1)
<1>1. /\ host = "repair"
      /\ log' = SubSeq(log, 1, Boot(log, image).valid)
      /\ tail' = IF Boot(log, image).valid = Len(log) THEN tail
                 ELSE SubSeq(log, Boot(log, image).valid + 1, Len(log))
      /\ durable' = IF durable > Boot(log, image).valid THEN Boot(log, image).valid
                                                       ELSE durable
  BY DEF RepairTail
<1>2. /\ current \in Seq(Write) /\ current = Txs(log, n) /\ n \in Nat
      /\ Before(n + 1) <= Len(log) /\ Len(log) < Before(n + 2)
  BY <1>1 DEF ServerInv, HostInv, Booted
<1> HIDE DEF n
<1>3. Boot(log, image).valid = valid
  <2>1. Boot(log, image) =
          [ok |-> TRUE, txs |-> Txs(log, n), valid |-> Before(n + 1), fresh |-> FALSE]
    BY <1>2, BootReads DEF ServerInv, DiskInv
  <2> QED BY <2>1
<1>4. /\ log \in Seq(Pieces) /\ Len(log) \in Nat /\ durable \in Nat /\ durable <= Len(log)
      /\ tail # <<>> => \E k \in Nat \ {0} : Len(log) = Before(k)
  BY DiskFacts DEF ServerInv, DiskInv
<1>5. ASSUME Len(log) = valid PROVE log' = log /\ tail' = tail /\ durable' = durable
  <2>1. SubSeq(log, 1, Len(log)) = log
    <3>1. /\ SubSeq(log, 1, Len(log)) \in Seq(Pieces) /\ Len(SubSeq(log, 1, Len(log))) = Len(log)
          /\ \A j \in 1..Len(log) : SubSeq(log, 1, Len(log))[j] = log[j]
      BY <1>4, PrefixFacts
    <3> QED BY <1>4, <3>1, SeqEqual
  <2>2. ~(durable > Len(log))
    BY <1>4
  <2> QED BY <1>1, <1>3, <1>5, <2>1, <2>2
<1>6. ASSUME Len(log) # valid PROVE tail = <<>>
  <2>1. ASSUME NEW k \in Nat \ {0}, Len(log) = Before(k) PROVE FALSE
    <3>1. /\ Before(n + 1) \in Nat /\ Before(n + 2) \in Nat /\ Before(k) \in Nat
          /\ Before(n + 2) = Before(n + 1) + Parts /\ Parts \in Nat \ {0}
          /\ n + 1 \in Nat /\ k \in Nat
      BY <1>2, NextFacts
    <3>2. /\ k < n + 1 => Before(k) + Parts <= Before(n + 1)
          /\ n + 1 < k => Before(n + 1) + Parts <= Before(k)
      BY <3>1, BeforeFacts
    <3>3. k = n + 1
      BY <1>2, <2>1, <3>1, <3>2
    <3> QED BY <1>6, <2>1, <3>3
  <2> QED BY <1>4, <2>1
<1> QED BY <1>1, <1>2, <1>3, <1>5, <1>6 DEF n

LEMMA SplitJoins ==
  ASSUME NEW l \in Seq(Pieces), NEW m \in 0..Len(l)
  PROVE  /\ SubSeq(l, m + 1, Len(l)) \in Seq(Pieces)
         /\ SubSeq(l, 1, m) \o SubSeq(l, m + 1, Len(l)) = l
<1> DEFINE a == SubSeq(l, 1, m)
           b == SubSeq(l, m + 1, Len(l))
<1>1. Len(l) \in Nat /\ m \in Nat /\ m <= Len(l)
  OBVIOUS
<1>2. /\ a \in Seq(Pieces) /\ Len(a) = m /\ \A j \in 1..m : a[j] = l[j]
  BY PrefixFacts
<1>3. /\ b \in Seq(Pieces) /\ Len(b) = Len(l) - m
      /\ \A j \in 1..(Len(l) - m) : b[j] = l[m + j]
  BY <1>1
<1> HIDE DEF a, b
<1>4. /\ a \o b \in Seq(Pieces) /\ Len(a \o b) = Len(l)
      /\ \A j \in 1..Len(l) : (a \o b)[j] = IF j <= m THEN a[j] ELSE b[j - m]
  BY <1>1, <1>2, <1>3
<1>5. \A j \in 1..Len(l) : (a \o b)[j] = l[j]
  BY <1>1, <1>2, <1>3, <1>4
<1>6. a \o b = l
  BY <1>1, <1>4, <1>5, SeqEqual
<1> QED BY <1>3, <1>6 DEF a, b

LEMMA RepairTailInv ==
  ASSUME ServerInv, RepairTail
  PROVE  ServerInv' /\ LogGrows
<1> DEFINE n == Len(current)
           valid == Before(n + 1)
<1>1. /\ host = "repair" /\ host' = "sync"
      /\ UNCHANGED <<image, imageOnDisk, memory, work, clients, crashes>>
  BY DEF RepairTail
<1>2. /\ n \in Nat /\ current \in Seq(Write) /\ current = Txs(log, n)
      /\ valid <= Len(log) /\ Len(log) < Before(n + 2)
      /\ Len(log) = valid => log' = log /\ tail' = tail /\ durable' = durable
      /\ Len(log) # valid =>
           /\ tail = <<>> /\ log' = SubSeq(log, 1, valid)
           /\ tail' = SubSeq(log, valid + 1, Len(log))
           /\ durable' = IF durable > valid THEN valid ELSE durable
  BY RepairTailIs
<1> HIDE DEF n
<1>3. /\ log \in Seq(Pieces) /\ tail \in Seq(Pieces) /\ InOrder(log) /\ Len(log) \in Nat
      /\ durable \in Nat /\ durable <= Len(log) /\ Version \in Nat
      /\ tail = <<>> => log \o tail = log
      /\ InOrder(log \o tail) /\ Len(log \o tail) <= Before(Version + 2)
      /\ Fits(image, log, durable) /\ Fits(imageOnDisk, log, durable)
  BY DiskFacts DEF ServerInv, DiskInv
<1>4. /\ valid \in Nat /\ Before(n + 2) \in Nat /\ n + 1 \in Nat /\ n + 1 + 1 = n + 2
      /\ valid \in 0..Len(log)
  BY <1>2, <1>3, NextFacts
<1> HIDE DEF valid
<1>5. /\ log' \in Seq(Pieces) /\ tail' \in Seq(Pieces) /\ Len(log') = valid
      /\ log' \o tail' = log \o tail
      /\ \A j \in 1..valid : log'[j] = log[j]
  <2>1. CASE Len(log) = valid
    BY <1>2, <1>3, <2>1
  <2>2. CASE Len(log) # valid
    <3>1. log' = SubSeq(log, 1, valid) /\ tail' = SubSeq(log, valid + 1, Len(log)) /\ tail = <<>>
      BY <1>2, <2>2
    <3>2. /\ SubSeq(log, 1, valid) \in Seq(Pieces) /\ Len(SubSeq(log, 1, valid)) = valid
          /\ \A j \in 1..valid : SubSeq(log, 1, valid)[j] = log[j]
      BY <1>3, <1>4, PrefixFacts
    <3>3. /\ SubSeq(log, valid + 1, Len(log)) \in Seq(Pieces)
          /\ SubSeq(log, 1, valid) \o SubSeq(log, valid + 1, Len(log)) = log
      BY <1>3, <1>4, SplitJoins
    <3> QED BY <1>3, <3>1, <3>2, <3>3
  <2> QED BY <2>1, <2>2
<1>6. durable' = IF durable > valid THEN valid ELSE durable
  <2>1. CASE Len(log) = valid
    <3>1. ~(durable > valid)
      BY <1>3, <1>4, <2>1
    <3> QED BY <1>2, <2>1, <3>1
  <2>2. CASE Len(log) # valid
    BY <1>2, <2>2
  <2> QED BY <2>1, <2>2
<1>7. durable' \in Nat /\ durable' <= valid /\ durable' <= durable
  BY <1>3, <1>4, <1>6
<1>8. Version' = Version
  <2>1. CASE durable > valid
    <3>1. VersionOf(durable) = n
      <4>1. durable < Before(n + 2) /\ Before(n + 1) <= durable
        BY <1>2, <1>3, <1>4, <2>1 DEF valid
      <4> QED BY <1>2, <1>3, <4>1, VersionFacts
    <3>2. VersionOf(valid) = n
      <4>1. valid < Before(n + 2) /\ Before(n + 1) <= valid
        <5>1. /\ valid \in Nat /\ Before(n + 2) \in Nat /\ Len(log) \in Nat
              /\ valid <= Len(log) /\ Len(log) < Before(n + 2)
          BY <1>2, <1>3, <1>4
        <5>2. Before(n + 1) = valid
          BY DEF valid
        <5> QED BY <5>1, <5>2
      <4> QED BY <1>2, <1>4, <4>1, VersionFacts
    <3> QED BY <1>6, <2>1, <3>1, <3>2 DEF Version
  <2>2. CASE ~(durable > valid)
    BY <1>6, <2>2 DEF Version
  <2> QED BY <2>1, <2>2
<1>9. ASSUME NEW img, Fits(img, log, durable) PROVE Fits(img, log', durable')
  <2>1. img.mark <= durable' /\ img.mark \in Nat
    <3>1. img.mark \in Nat /\ (img.mark = 0 \/ img.mark <= durable)
      BY <1>9 DEF Fits
    <3>2. CASE img.mark # 0 /\ durable > valid
      <4> DEFINE k == Len(img.txs)
      <4>1. img.mark = Before(k + 1) /\ k \in Nat /\ img.mark <= durable
        BY <1>9, <3>2 DEF Fits
      <4> HIDE DEF k
      <4>2. Before(k + 1) < Before(n + 1 + 1) /\ Before(k + 1) \in Nat /\ k + 1 \in Nat
        <5>1. k + 1 \in Nat /\ Before(k + 1) \in Nat
          BY <4>1, NextFacts
        <5>2. durable <= Len(log) /\ Len(log) < Before(n + 2) /\ Before(n + 2) = Before(n + 1 + 1)
          BY <1>2, <1>3, <1>4
        <5>3. Before(k + 1) <= durable
          BY <4>1
        <5> QED BY <1>3, <1>4, <5>1, <5>2, <5>3
      <4>3. k + 1 <= n + 1
        BY <1>4, <4>2, EarlierFacts
      <4>4. Before(k + 1) <= Before(n + 1)
        <5>1. CASE k + 1 = n + 1
          BY <4>2, <5>1
        <5>2. CASE k + 1 < n + 1
          <6>1. Before(k + 1) + Parts <= Before(n + 1) /\ Before(n + 1) \in Nat /\ Parts \in Nat
            BY <1>4, <4>2, <5>2, BeforeFacts, DurableServerAssumption
          <6> QED BY <4>2, <6>1
        <5> QED BY <1>2, <4>1, <4>3, <5>1, <5>2
      <4> QED BY <1>6, <3>1, <3>2, <4>1, <4>4 DEF valid
    <3>3. CASE img.mark = 0
      BY <1>7, <3>3
    <3>4. CASE ~(durable > valid)
      BY <1>3, <1>6, <3>1, <3>4
    <3> QED BY <3>1, <3>2, <3>3, <3>4
  <2>2. durable \in 0..Len(log) /\ durable' \in 0..Len(log)
    BY <1>3, <1>7
  <2>3. Fits(img, log, durable')
    BY <1>3, <1>7, <1>9, <2>1, <2>2, StillFits
  <2>4. \A j \in 1..durable' : log[j] = log'[j]
    BY <1>4, <1>5, <1>7
  <2> QED BY <1>3, <1>5, <1>7, <2>1, <2>2, <2>3, <2>4, StillFits
<1>10. DiskInv'
  <2>1. image' = image /\ imageOnDisk' = imageOnDisk
    BY <1>1
  <2>2. Fits(image', log', durable') /\ Fits(imageOnDisk', log', durable')
    BY <1>3, <1>9, <2>1
  <2>3. durable' \in 0..Len(log')
    BY <1>4, <1>5, <1>7
  <2>4. (tail # <<>>)' => \E k \in Nat \ {0} : Len(log') = Before(k)
    <3>1. n + 1 \in Nat \ {0} /\ Len(log') = Before(n + 1)
      BY <1>2, <1>5 DEF valid
    <3> QED BY <3>1
  <2>5. InOrder((log \o tail)') /\ Len((log \o tail)') <= Before(Version' + 2)
    BY <1>3, <1>5, <1>8
  <2> QED BY <1>5, <2>2, <2>3, <2>4, <2>5 DEF DiskInv
<1>11. /\ guard' = guard /\ client' = client /\ tries' = tries /\ asked' = asked
       /\ answer' = answer /\ current' = current /\ dirty' = dirty /\ poisoned' = poisoned
       /\ queue' = queue /\ outbox' = outbox /\ turn' = turn
  BY <1>1 DEF clients, memory, work
<1>12. Remembered
  BY <1>11 DEF Remembered, ServerInv, ClientsInv
<1>13. WritesKnown'
  BY <1>5, <1>11 DEF ServerInv, WritesKnown
<1>14. ClientsInv'
  BY <1>3, <1>8, <1>11, <1>12, ClientsStay DEF ServerInv
<1>15. AnswersInv' /\ LogGrows
  <2>1. ASSUME NEW i \in 1..Version PROVE TxAt(log', i) = TxAt(log, i)
    <3>1. Before(i) + 1 \in 1..durable /\ i \in Nat /\ Before(i) \in Nat
      BY VersionPlaces DEF ServerInv
    <3>2. Before(i) + 1 \in 1..valid
      <4>1. CASE durable <= valid
        BY <1>3, <1>4, <3>1, <4>1
      <4>2. CASE durable > valid
        <5>1. Before(i) < Before(n + 1 + 1)
          BY <1>2, <1>3, <1>4, <3>1
        <5>2. Version = n
          <6>1. durable < Before(n + 2) /\ Before(n + 1) <= durable
            BY <1>2, <1>3, <1>4, <4>2 DEF valid
          <6> QED BY <1>2, <1>3, <6>1, VersionFacts, SMTT(30) DEF Version
        <5>3. i \in 0..n
          BY <1>2, <5>2
        <5> QED BY <1>2, <5>3, PlaceFacts DEF valid
      <4> QED BY <1>3, <1>4, <4>1, <4>2
    <3> QED BY <1>5, <3>2 DEF TxAt
  <2> QED BY <1>3, <1>8, <1>11, <2>1, AnswersStay DEF ServerInv, LogGrows
<1>16. host \notin Up
  BY <1>1 DEF Up
<1>17. /\ queue = {} /\ outbox = {} /\ turn = FreeTurn /\ turn.pc = "free" /\ ~poisoned
       /\ dirty \in 0..CompactAt /\ poisoned \in BOOLEAN
  BY <1>16, DownFacts
<1>18. JobsInv' /\ TurnInv'
  BY <1>11, <1>17, EmptyJobs, FreeTurnFits
<1>19. HostInv'
  <2>1. current = Txs(log', n)
    BY <1>2, <1>3, <1>5, TxsAgree DEF valid
  <2>2. Len(log') = Before(n + 1) /\ Before(n + 1) <= Before(n + 1)
    BY <1>4, <1>5 DEF valid
  <2> QED BY <1>1, <1>2, <1>11, <1>17, <2>1, <2>2 DEF HostInv, Up, Booted, n
<1> QED BY <1>10, <1>13, <1>14, <1>15, <1>18, <1>19 DEF ServerInv

-----------------------------------------------------------------------------
(* Every step, and what it does to the disk.                                *)

LEMMA StepInv ==
  ASSUME ServerInv, [Next]_vars
  PROVE  ServerInv'
<1>1. ASSUME NEW r \in Request, Send(r) \/ Timeout(r) PROVE ServerInv'
  BY <1>1, SendInv, TimeoutInv
<1>2. ASSUME NEW job \in queue, Dispatch(job) \/ Refuse(job) PROVE ServerInv'
  BY <1>2, DispatchInv, RefuseInv
<1>3. CASE AppendPiece \/ SyncLog \/ Publish
  BY <1>3, AppendPieceInv, SyncLogInv, PublishInv
<1>4. CASE TruncateImage \/ WriteImagePiece \/ SyncImage \/ Respond \/ DispatchFails
  BY <1>4, TruncateImageInv, WriteImagePieceInv, SyncImageInv, RespondInv, DispatchFailsInv
<1>5. ASSUME NEW response \in outbox, Deliver(response) \/ Drop(response) PROVE ServerInv'
  BY <1>5, DeliverInv, DropInv
<1>6. CASE CompactIdle \/ BeginStop \/ Shutdown
  BY <1>6, CompactIdleInv, BeginStopInv, ShutdownInv
<1>7. CASE ReadLog \/ RepairTail \/ WriteHeaderPiece \/ SyncBoot
  BY <1>7, ReadLogInv, RepairTailInv, WriteHeaderPieceInv, SyncBootInv
<1>8. CASE ProcessCrash \/ PowerLoss
  BY <1>8, ProcessCrashInv, PowerLossInv
<1>9. CASE UNCHANGED vars
  <2>1. UNCHANGED <<disk, current, tries, guard, asked, answer>> /\ UNCHANGED client
    BY <1>9 DEF vars, memory, clients
  <2>2. Remembered
    BY <2>1 DEF Remembered, ServerInv, ClientsInv
  <2>3. /\ queue' \subseteq queue /\ outbox' \subseteq outbox /\ dirty' \in {dirty, 0}
        /\ host' = host /\ turn' = turn /\ poisoned' = poisoned
    BY <1>9 DEF vars, memory, work
  <2> QED BY <2>1, <2>2, <2>3, BystandersInv
<1> QED BY <1>1, <1>2, <1>3, <1>4, <1>5, <1>6, <1>7, <1>8, <1>9 DEF Next

(* What is durable grows by at most the next transaction of the log.        *)
LEMMA DurableGrows ==
  ASSUME DiskInv, DiskInv', LogGrows
  PROVE  /\ Version \in Nat /\ Version' \in Nat
         /\ Version' = Version => Durable' = Durable
         /\ Version' = Version + 1 => Durable' = Append(Durable, TxAt(log', Version + 1))
<1>1. /\ Version \in Nat /\ Durable = Txs(log, Version) /\ Len(Durable) = Version
  BY DiskFacts, DurableIs
<1>2. Durable' = Txs(log', Version') /\ Version' \in Nat
  <2>1. /\ log' \in Seq(Pieces) /\ tail' \in Seq(Pieces) /\ durable' \in 0..Len(log')
        /\ InOrder(log' \o tail')
    BY DEF DiskInv
  <2>2. InOrder(log')
    BY <2>1, JoinFacts
  <2>3. Version' = VersionOf(durable')
    BY DEF Version
  <2>4. VersionOf(durable') \in Nat
    BY <2>1, VersionFacts
  <2> QED BY <2>1, <2>2, <2>3, <2>4, OnDiskIs DEF Durable
<1>3. ASSUME Version' = Version PROVE Durable' = Durable
  BY <1>1, <1>2, <1>3 DEF Txs, LogGrows
<1>4. ASSUME Version' = Version + 1
      PROVE  Durable' = Append(Durable, TxAt(log', Version + 1))
  <2> DEFINE v == Version
             w == TxAt(log', v + 1)
             s == [i \in 1..v |-> TxAt(log, i)]
  <2>1. s \in Seq({TxAt(log, i) : i \in 1..v} \cup {w}) /\ Len(s) = v /\ Durable = s
    BY <1>1 DEF Txs
  <2>2. Append(s, w) = [i \in 1..(v + 1) |-> IF i \in 1..v THEN TxAt(log, i) ELSE w]
    BY <1>1, <2>1
  <2>3. \A i \in 1..v : TxAt(log', i) = TxAt(log, i)
    BY DEF LogGrows
  <2>4. \A i \in 1..(v + 1) : i \notin 1..v => i = v + 1
    BY <1>1
  <2>5. Txs(log', v + 1) = [i \in 1..(v + 1) |-> IF i \in 1..v THEN TxAt(log, i) ELSE w]
    BY <2>3, <2>4 DEF Txs
  <2> QED BY <1>2, <1>4, <2>1, <2>2, <2>5
<1> QED BY <1>1, <1>2, <1>3, <1>4

(* A step that asks and answers nothing is a stutter of the atomic log, or  *)
(* one commit.                                                              *)
LEMMA GrowthCommits ==
  ASSUME ServerInv, ServerInv', LogGrows, UNCHANGED <<guard, asked, answer>>
  PROVE  [Abstract!AbstractNext]_(Abstract!abstractVars)
<1>1. /\ Version \in Nat /\ Version' \in Nat
      /\ Version' = Version => Durable' = Durable
      /\ Version' = Version + 1 => Durable' = Append(Durable, TxAt(log', Version + 1))
  BY DurableGrows DEF ServerInv
<1>2. CASE Version' = Version
  BY <1>1, <1>2 DEF Abstract!abstractVars
<1>3. CASE Version' = Version + 1
  <2> DEFINE g == Version + 1
             w == TxAt(log', g)
  <2>1. Before(g) < Len(log' \o tail') /\ TxAt(log' \o tail', g) = w
    <3>1. /\ log' \in Seq(Pieces) /\ tail' \in Seq(Pieces) /\ durable' \in 0..Len(log')
      BY DEF ServerInv, DiskInv
    <3>2. /\ Len(log') \in Nat /\ Len(tail') \in Nat /\ durable' \in Nat /\ durable' <= Len(log')
          /\ Len(log' \o tail') = Len(log') + Len(tail')
          /\ \A j \in 1..Len(log') : (log' \o tail')[j] = log'[j]
      BY <3>1, JoinFacts
    <3>3. Before(g + 1) <= durable'
      <4>1. VersionOf(durable') = g /\ g > 0
        BY <1>1, <1>3 DEF Version
      <4> QED BY <3>2, <4>1, VersionFacts
    <3>4. /\ Before(g) \in Nat /\ Before(g + 1) = Before(g) + Parts /\ Parts \in Nat \ {0}
      BY <1>1, NextFacts
    <3>5. Before(g) + 1 \in 1..Len(log')
      BY <3>2, <3>3, <3>4
    <3> QED BY <3>2, <3>4, <3>5 DEF TxAt
  <2>2. w \in Write /\ client'[w] # "idle" /\ guard[w] \in {AnyVersion, Version}
    <3>1. g \in Nat \ {0} /\ g - 1 = Version
      BY <1>1
    <3>2. /\ TxAt((log \o tail)', g) \in Write
          /\ client'[TxAt((log \o tail)', g)] # "idle"
          /\ guard'[TxAt((log \o tail)', g)] \in {AnyVersion, g - 1}
      BY <2>1, <3>1 DEF ServerInv, WritesKnown
    <3> QED BY <2>1, <3>1, <3>2
  <2>3. asked[w] # -1
    <3>1. w \in Request
      BY <2>2, WritesAreRequests
    <3>2. client'[w] = "idle" <=> asked'[w] = -1
      BY <3>1 DEF ServerInv, ClientsInv
    <3> QED BY <2>2, <3>2
  <2>4. Len(Durable) = Version
    BY DurableIs DEF ServerInv
  <2>5. Abstract!AtomicCommit(w)
    BY <1>1, <1>3, <2>2, <2>3, <2>4 DEF Abstract!AtomicCommit
  <2> QED BY <2>2, <2>5 DEF Abstract!AbstractNext
<1> QED BY <1>2, <1>3 DEF LogGrows

(* A request is asked of the version that is durable at that moment.        *)
LEMMA SendAsks ==
  ASSUME ServerInv, NEW r \in Request, Send(r)
  PROVE  Abstract!AbstractNext
<1>1. Durable' = Durable
  BY DEF Send, disk, Durable
<1>2. asked' = [asked EXCEPT ![r] = Len(Durable)] /\ UNCHANGED answer
  BY DEF Send
<1>3. \/ r \in Write /\ asked[r] = -1 /\ guard' = [guard EXCEPT ![r] = guard'[r]]
      \/ UNCHANGED guard
  <2>1. CASE r \in Write /\ client[r] = "idle"
    <3>1. PICK g \in Guards \cup {AnyVersion} : guard' = [guard EXCEPT ![r] = g]
      BY <2>1 DEF Send
    <3>2. asked[r] = -1
      BY <2>1 DEF ServerInv, ClientsInv
    <3>3. guard'[r] = g
      BY <2>1, <3>1 DEF ServerInv, ClientsInv
    <3> QED BY <2>1, <3>1, <3>2, <3>3
  <2>2. CASE ~(r \in Write /\ client[r] = "idle")
    BY <2>2 DEF Send
  <2> QED BY <2>1, <2>2
<1>4. Abstract!Ask(r)
  BY <1>1, <1>2, <1>3 DEF Abstract!Ask
<1> QED BY <1>4 DEF Abstract!AbstractNext

(* An answer that arrives is true of a version that was current since its   *)
(* question.                                                                *)
LEMMA DeliverAnswers ==
  ASSUME ServerInv, NEW response \in outbox, Deliver(response)
  PROVE  Abstract!AbstractNext
<1> DEFINE r == response.job.req
           v == response.version
<1>1. /\ host = "serving" /\ response.job.try = tries[r]
      /\ answer' = [answer EXCEPT ![r] = [ok |-> response.ok, version |-> v]]
      /\ UNCHANGED <<disk, guard, asked>>
  BY DEF Deliver
<1>2. UNCHANGED <<Durable, guard, asked>>
  BY <1>1 DEF disk, Durable
<1>3. /\ response.job \in Jobs /\ response.ok \in BOOLEAN /\ v \in Nat
      /\ RightAnswer(response.job, response.ok, v)
  BY DEF ServerInv, JobsInv
<1>4. r \in Request
  BY <1>3 DEF Jobs
<1>5. /\ v \in 0..Len(current) /\ asked[r] <= v
      /\ r \in Write /\ response.ok => v > 0 /\ current[v] = r /\ asked[r] < v
      /\ r \in Write /\ ~response.ok => guard[r] \notin {AnyVersion, v}
      /\ r \notin Write => response.ok
  BY <1>1, <1>3 DEF RightAnswer
<1>6. asked[r] \in Int
  BY <1>4 DEF ServerInv, ClientsInv
<1>7. /\ Len(current) \in Nat /\ Len(Durable) \in Nat /\ Len(current) <= Len(Durable)
      /\ DOMAIN Durable = 1..Len(Durable)
      /\ \A i \in 1..Len(current) : Durable[i] = current[i]
  <2>1. /\ Len(current) \in Nat /\ Version \in Nat
        /\ Version = Len(current) \/ Version = Len(current) + 1
        /\ \A i \in 1..Len(current) : current[i] = TxAt(log, i)
    BY <1>1, UpFacts DEF Up
  <2>2. /\ Len(Durable) = Version /\ DOMAIN Durable = 1..Version
        /\ \A i \in 1..Version : Durable[i] = TxAt(log, i)
    BY DurableIs DEF ServerInv
  <2> QED BY <2>1, <2>2
<1> HIDE DEF r, v
<1>8. v \in 0..Len(Durable) /\ v \in asked[r]..Len(Durable)
  BY <1>5, <1>6, <1>7
<1>9. CASE r \in Write /\ response.ok
  <2>1. v \in DOMAIN Durable /\ v > asked[r] /\ Durable[v] = r
    BY <1>5, <1>6, <1>7, <1>8, <1>9
  <2>2. answer' = [answer EXCEPT ![r] = [ok |-> TRUE, version |-> v]]
    BY <1>1, <1>3, <1>9 DEF r, v
  <2>3. Abstract!AnswerCommit(r, v)
    BY <1>2, <2>1, <2>2 DEF Abstract!AnswerCommit
  <2> QED BY <1>8, <1>9, <2>3 DEF Abstract!AbstractNext
<1>10. CASE r \in Write /\ ~response.ok
  <2>1. answer' = [answer EXCEPT ![r] = [ok |-> FALSE, version |-> v]]
    BY <1>1, <1>3, <1>10 DEF r, v
  <2>2. Abstract!AnswerConflict(r, v)
    BY <1>2, <1>5, <1>8, <1>10, <2>1 DEF Abstract!AnswerConflict
  <2> QED BY <1>8, <1>10, <2>2 DEF Abstract!AbstractNext
<1>11. CASE r \notin Write
  <2>1. answer' = [answer EXCEPT ![r] = [ok |-> TRUE, version |-> v]]
    BY <1>1, <1>3, <1>5, <1>11 DEF r, v
  <2>2. Abstract!AnswerRead(r, v)
    BY <1>2, <1>8, <2>1 DEF Abstract!AnswerRead
  <2> QED BY <1>4, <1>8, <1>11, <2>2 DEF Abstract!AbstractNext
<1> QED BY <1>9, <1>10, <1>11

(* Every other step neither asks nor answers, and the disk only grows.      *)
LEMMA OtherStepsGrow ==
  ASSUME ServerInv, [Next]_vars,
         ~\E r \in Request : Send(r), ~\E response \in outbox : Deliver(response)
  PROVE  LogGrows /\ UNCHANGED <<guard, asked, answer>>
<1>1. Version \in Nat
  BY DiskFacts DEF ServerInv
<1>2. ASSUME UNCHANGED <<log, durable>> PROVE LogGrows
  BY <1>1, <1>2 DEF LogGrows, Version
<1>3. ASSUME NEW r \in Request, Timeout(r)
      PROVE  LogGrows /\ UNCHANGED <<guard, asked, answer>>
  BY <1>2, <1>3 DEF Timeout, disk
<1>4. ASSUME NEW job \in queue, Dispatch(job) \/ Refuse(job)
      PROVE  LogGrows /\ UNCHANGED <<guard, asked, answer>>
  BY <1>2, <1>4 DEF Dispatch, Refuse, disk, clients
<1>5. CASE AppendPiece \/ SyncLog \/ Publish
  <2>1. LogGrows
    BY <1>2, <1>5, AppendPieceInv, SyncLogInv DEF Publish, disk
  <2> QED BY <1>5, <2>1 DEF AppendPiece, SyncLog, Publish, clients
<1>6. CASE TruncateImage \/ WriteImagePiece \/ SyncImage \/ Respond \/ DispatchFails
  BY <1>2, <1>6 DEF TruncateImage, WriteImagePiece, SyncImage, Respond, DispatchFails,
                    disk, clients
<1>7. ASSUME NEW response \in outbox, Drop(response)
      PROVE  LogGrows /\ UNCHANGED <<guard, asked, answer>>
  BY <1>2, <1>7 DEF Drop, disk
<1>8. CASE CompactIdle \/ BeginStop
  BY <1>2, <1>8 DEF CompactIdle, BeginStop, disk, clients
<1>9. CASE Shutdown
  BY <1>9, ShutdownInv DEF Shutdown, clients
<1>10. CASE ReadLog
  BY <1>2, <1>10 DEF ReadLog, disk, clients
<1>11. CASE RepairTail \/ WriteHeaderPiece \/ SyncBoot
  BY <1>11, RepairTailInv, WriteHeaderPieceInv, SyncBootInv
     DEF RepairTail, WriteHeaderPiece, SyncBoot, clients
<1>12. CASE ProcessCrash
  BY <1>2, <1>12 DEF ProcessCrash, disk
<1>13. CASE PowerLoss
  BY <1>13, PowerLossInv DEF PowerLoss
<1>14. CASE UNCHANGED vars
  BY <1>2, <1>14 DEF vars, disk, clients
<1> QED BY <1>3, <1>4, <1>5, <1>6, <1>7, <1>8, <1>9, <1>10, <1>11, <1>12, <1>13, <1>14
        DEF Next

LEMMA StepRefines ==
  ASSUME ServerInv, [Next]_vars
  PROVE  [Abstract!AbstractNext]_(Abstract!abstractVars)
<1>1. CASE \E r \in Request : Send(r)
  BY <1>1, SendAsks
<1>2. CASE \E response \in outbox : Deliver(response)
  BY <1>2, DeliverAnswers
<1>3. CASE ~(\E r \in Request : Send(r)) /\ ~(\E response \in outbox : Deliver(response))
  BY <1>3, StepInv, OtherStepsGrow, GrowthCommits
<1> QED BY <1>1, <1>2, <1>3

LEMMA InitRefines ==
  ASSUME Init
  PROVE  Abstract!AbstractInit
<1>1. Durable = <<>>
  <2>1. durable = 0 /\ Parts \in Nat \ {0}
    BY DurableServerAssumption DEF Init
  <2>2. durable < Parts
    BY <2>1
  <2> QED BY <2>2 DEF Durable
<1> QED BY <1>1 DEF Init, Abstract!AbstractInit

-----------------------------------------------------------------------------
(* What the invariant says to clients.                                      *)

LEMMA AnswersHold ==
  ASSUME ServerInv
  PROVE  AnswersAreDurable
<1>1. /\ Version \in Nat /\ Len(Durable) = Version /\ DOMAIN Durable = 1..Version
      /\ \A i \in 1..Version : Durable[i] = TxAt(log, i)
  BY DiskFacts, DurableIs DEF ServerInv
<1>2. AckedIsDurable
  BY <1>1 DEF AckedIsDurable, ServerInv, AnswersInv
<1>3. ServedIsDurable
  <2> SUFFICES ASSUME host \in {"serving", "stopping"}
               PROVE  /\ Len(current) <= Len(Durable)
                      /\ current = SubSeq(Durable, 1, Len(current))
    BY DEF ServedIsDurable
  <2>1. /\ current \in Seq(Write) /\ Len(current) \in Nat
        /\ Version = Len(current) \/ Version = Len(current) + 1
        /\ \A i \in 1..Len(current) : current[i] = TxAt(log, i)
    BY UpFacts DEF Up
  <2>2. Len(current) <= Version
    BY <2>1
  <2>3. \A i \in 1..Len(current) : Durable[i] = current[i]
    BY <1>1, <2>1, <2>2
  <2>4. current = [i \in 1..Len(current) |-> Durable[i]]
    BY <2>1, <2>3
  <2>5. SubSeq(Durable, 1, Len(current)) = [i \in 1..Len(current) |-> Durable[i]]
    <3>1. \A i \in 1..Len(current) : i + 1 - 1 = i
      BY <2>1
    <3>2. Len(current) + 1 - 1 = Len(current)
      BY <2>1
    <3>3. SubSeq(Durable, 1, Len(current))
            = [i \in 1..(Len(current) + 1 - 1) |-> Durable[i + 1 - 1]]
      BY <1>1, <2>1
    <3> QED BY <3>1, <3>2, <3>3
  <2> QED BY <1>1, <2>2, <2>4, <2>5
<1>4. GuardHolds
  <2>1. ASSUME NEW i \in 1..Version PROVE guard[Durable[i]] \in {AnyVersion, i - 1}
    <3>1. /\ i \in Nat \ {0} /\ Before(i) < Len(log) /\ Before(i) \in Nat
          /\ TxAt(log \o tail, i) = TxAt(log, i)
      BY VersionPlaces DEF ServerInv
    <3>2. Before(i) < Len(log \o tail)
      BY <3>1, DiskFacts DEF ServerInv
    <3>3. guard[TxAt(log \o tail, i)] \in {AnyVersion, i - 1}
      BY <3>1, <3>2 DEF ServerInv, WritesKnown
    <3> QED BY <1>1, <3>1, <3>3
  <2> QED BY <1>1, <2>1 DEF GuardHolds
<1> QED BY <1>2, <1>3, <1>4 DEF AnswersAreDurable

LEMMA LogReads ==
  ASSUME ServerInv
  PROVE  LogStaysReadable
<1> SUFFICES ASSUME Len(log) >= Parts PROVE Consume(log, 1, <<>>).ok
  BY DEF LogStaysReadable
<1>1. log \in Seq(Pieces) /\ InOrder(log) /\ Len(log) \in Nat
  BY DiskFacts DEF ServerInv
<1> DEFINE n == VersionOf(Len(log))
<1>2. n \in Nat /\ Before(n + 1) <= Len(log) /\ Len(log) < Before(n + 2)
  BY <1>1, VersionFacts
<1> HIDE DEF n
<1>3. Txs(log, 0) = <<>> /\ 0 \in 0..n
  BY <1>2 DEF Txs
<1>4. Consume(log, 0 + 1, Txs(log, 0)) =
        [ok |-> TRUE, txs |-> Txs(log, n), valid |-> Before(n + 1), fresh |-> FALSE]
  BY <1>1, <1>2, <1>3, ConsumeIs
<1> QED BY <1>3, <1>4

LEMMA ImagesAgree ==
  ASSUME ServerInv
  PROVE  ImagesChangeNothing
<1>1. log \in Seq(Pieces) /\ Len(log) \in Nat
  BY DiskFacts DEF ServerInv
<1>2. Boot(log, image) = Boot(log, NoImage)
  <2>1. CASE log = <<>>
    BY <2>1, EmptyBoots
  <2>2. CASE log # <<>> /\ Len(log) < Parts
    BY <1>1, <2>2, EmptyBoots
  <2>3. CASE Len(log) >= Parts
    <3> DEFINE n == VersionOf(Len(log))
    <3>1. n \in Nat /\ Before(n + 1) <= Len(log) /\ Len(log) < Before(n + 2)
      BY <1>1, <2>3, VersionFacts
    <3> HIDE DEF n
    <3>2. Fits(image, log, durable) /\ Fits(NoImage, log, durable)
      <4>1. Parts \in Nat
        BY DurableServerAssumption
      <4> QED BY <4>1 DEF ServerInv, DiskInv, Fits, NoImage
    <3> QED BY <3>1, <3>2, BootReads DEF ServerInv
  <2>4. Parts \in Nat
    BY DurableServerAssumption
  <2> QED BY <1>1, <2>1, <2>2, <2>3, <2>4
<1>3. (host = "serving" /\ turn.pc = "free" /\ ~poisoned) =>
        CompactionConsumes /\ Boot(log, image).txs = current
  BY CompactIs DEF Up
<1>4. dirty <= CompactAt
  <2>1. dirty \in 0..CompactAt
    BY DEF ServerInv, HostInv
  <2> QED BY <2>1, ChainFacts
<1> QED BY <1>2, <1>3, <1>4 DEF ImagesChangeNothing

(* The inductive invariant holds in every state: any number of requests and *)
(* retries, of pieces to a record, of compactions, crashes and power losses.*)
THEOREM ServerIsSound == Spec => []ServerInv
<1>1. Init => ServerInv
  BY ServerInvInit
<1>2. ServerInv /\ [Next]_vars => ServerInv'
  BY StepInv
<1> QED BY <1>1, <1>2, PTL DEF Spec

(* What a client was told of a write stays true through any crash, restart  *)
(* or retry; what is served is on the disk; a guarded write takes effect at *)
(* the version it names.                                                    *)
THEOREM AnswersSurvive == Spec => []AnswersAreDurable
<1>1. ServerInv => AnswersAreDurable
  BY AnswersHold
<1> QED BY <1>1, ServerIsSound, PTL

(* Nothing is appended behind a torn record (poisoning, repair_log_tail).   *)
THEOREM LogIsReadable == Spec => []LogStaysReadable
<1>1. ServerInv => LogStaysReadable
  BY LogReads
<1> QED BY <1>1, ServerIsSound, PTL

(* A boot from a snapshot image restores what the whole log restores, a     *)
(* compaction finds the published generation, and the chain stays short.    *)
THEOREM ImagesAreAccelerators == Spec => []ImagesChangeNothing
<1>1. ServerInv => ImagesChangeNothing
  BY ImagesAgree
<1> QED BY <1>1, ServerIsSound, PTL

(* The server implements the atomic log: a write takes effect at one moment *)
(* between its question and its answer, in one order, whatever is lost.     *)
THEOREM ServerIsAtomicLog == Spec => ImplementsAtomicLog
<1>1. Init => Abstract!AbstractInit
  BY InitRefines
<1>2. ServerInv /\ [Next]_vars => [Abstract!AbstractNext]_(Abstract!abstractVars)
  BY StepRefines
<1> QED
  BY <1>1, <1>2, ServerIsSound, PTL
  DEF Spec, ImplementsAtomicLog, Abstract!AtomicLogSpec
=============================================================================
