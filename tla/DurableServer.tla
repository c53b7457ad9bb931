--------------------------- MODULE DurableServer ---------------------------
(***************************************************************************)
(* The native Store server from a client's request to the disk and back:    *)
(* the workers and the acceptor of native/server_host.c, the dispatch, boot,*)
(* compaction and shutdown of native/server_generated.c, and the boot and   *)
(* checkpoint decisions of store/native_server.bgl.                         *)
(*                                                                          *)
(* A record of the log, and the snapshot image, are written in Parts pieces *)
(* (the 8192-byte chunks of append_log_vector and the partial writes of the *)
(* host), so a crash can leave any prefix of one.  One write request is one *)
(* transaction: A1.  Terms, reads and leases are the subject of other       *)
(* modules; here a transaction is the name of the request that asked for it.*)
(***************************************************************************)
EXTENDS Integers, Sequences

CONSTANTS
  Write,       \* the logical write requests
  Read,        \* the read requests
  Checkpoint,  \* the rpc/checkpoint requests
  Header,      \* the transaction name of the log's header
  Guards,      \* the expected versions a client may name
  Parts,       \* the pieces in which a record is written
  CompactAt,   \* limits.compact_generations
  MaxTries,    \* bound of the model: how often one request is sent
  MaxCrashes,  \* bound of the model: process crashes and power losses
  Spent        \* what of these two bounds a behaviour may start without

Request    == Write \cup Read \cup Checkpoint
AnyVersion == -1
NoAnswer   == [ok |-> FALSE, version |-> -1]

ASSUME DurableServerAssumption ==
  /\ Write \cap (Read \cup Checkpoint) = {} /\ Read \cap Checkpoint = {}
  /\ Header \notin Request
  /\ Guards \subseteq Nat
  /\ Parts \in Nat \ {0} /\ CompactAt \in Nat \ {0}
  /\ MaxTries \in Nat /\ MaxCrashes \in Nat
  /\ Spent \subseteq [tries : [Request -> 0..MaxTries], crashes : 0..MaxCrashes]

VARIABLES
  log,         \* the pieces in the log file, as the running system sees it
  durable,     \* how many of them are on the disk
  tail,        \* the pieces a repair has cut off and no sync has confirmed
  image,       \* the snapshot image, as the running system sees it
  imageOnDisk, \* the last image that was synced
  host,        \* "down", the boot's next step, "serving" or "stopping"
  current,     \* the published generation: its transactions, in order
  dirty,       \* generations published since the last compaction
  poisoned,    \* an append or a sync of the log has failed
  fatal,       \* a worker has failed and the acceptor must stop
  queue,       \* jobs whose request was read and that wait for the mutex
  turn,        \* the job that holds dispatch_mutex, and where it is
  outbox,      \* encoded responses not yet written to their clients
  client,      \* what every client knows of its request
  tries,       \* how often it was sent
  guard,       \* the expected version of every write
  asked,       \* history: the committed version when it was last sent
  answer,      \* the last response that reached the client
  crashes

disk    == <<log, durable, tail, image, imageOnDisk>>
memory  == <<current, dirty, poisoned, fatal>>
work    == <<queue, turn, outbox>>
clients == <<client, tries, guard, asked, answer>>
vars    == <<disk, host, memory, work, clients, crashes>>

NoJob   == [req |-> Header, try |-> 0]
FreeTurn == [job |-> NoJob, pc |-> "free", fork |-> <<>>, ok |-> FALSE]
NoImage == [parts |-> 0, mark |-> 0, txs |-> <<>>]

-----------------------------------------------------------------------------
(* Reading the log back.                                                    *)

Piece(tx, sequence, part) == [tx |-> tx, sequence |-> sequence, part |-> part]

RecordAt(l, g) == l[(g - 1) * Parts + 1]

(* The record's length and CRC agree with its bytes.                        *)
Intact(l, g) ==
  \A i \in 1..Parts :
    l[(g - 1) * Parts + i] = Piece(RecordAt(l, g).tx, RecordAt(l, g).sequence, i)

(* consume-transaction-log-records!, from the byte after `skip` records on: *)
(* an incomplete record at the end is left alone, any other damage and a    *)
(* sequence that does not advance refuse the log.                           *)
Consume(l, skip, txs) ==
  LET records == Len(l) \div Parts
  IN  [ok    |-> \A g \in (skip + 1)..records :
                   /\ Intact(l, g)
                   /\ RecordAt(l, g).sequence >
                        IF g = skip + 1 THEN Len(txs) ELSE RecordAt(l, g - 1).sequence,
       txs   |-> txs \o [i \in 1..(records - skip) |-> RecordAt(l, skip + i).tx],
       valid |-> records * Parts,
       fresh |-> FALSE]

(* encode-snapshot!: the image of a store, not a piece of it written yet.    *)
ImageOf(txs) == [parts |-> 0, mark |-> Parts * (1 + Len(txs)), txs |-> txs]

(* What a decoder would make of an image: a torn one has lost transactions. *)
ImageTxs(img) == IF img.parts = Parts THEN img.txs ELSE <<>>

(* sidecar-reason!: the watermark is inside the log, and the record found   *)
(* there, if one can be read, is the image's next transaction.              *)
TailContinues(l, img) ==
  /\ img.mark <= Len(l)
  /\ img.mark < Len(l) => l[img.mark + 1].sequence = Len(ImageTxs(img)) + 1

(* Faulty: an image is installed without verifying its fingerprint.         *)
UsableUnverified(l, img) == img.mark > 0 /\ TailContinues(l, img)

(* plan-snapshot-boot!: the image is present, verifies and fits the log.    *)
Usable(l, img) == img.parts = Parts /\ TailContinues(l, img)

(* boot-store!: an empty log gets a header, a torn header refuses the boot, *)
(* an image that does not install or continue degrades to the full fold.    *)
Boot(l, img) ==
  LET replay == Consume(l, img.mark \div Parts, ImageTxs(img))
  IN  CASE l = <<>> -> [ok |-> TRUE, txs |-> <<>>, valid |-> 0, fresh |-> TRUE]
        [] Len(l) \in 1..(Parts - 1) ->
             [ok |-> FALSE, txs |-> <<>>, valid |-> 0, fresh |-> FALSE]
        [] Len(l) >= Parts /\ Usable(l, img) /\ replay.ok -> replay
        [] OTHER -> Consume(l, 1, <<>>)

(* The transactions whose record is completely on the disk.                 *)
Durable == IF durable < Parts THEN <<>>
                              ELSE Consume(SubSeq(log, 1, durable), 1, <<>>).txs

-----------------------------------------------------------------------------
Init ==
  /\ log = <<>> /\ durable = 0 /\ tail = <<>>
  /\ image = NoImage /\ imageOnDisk = NoImage
  /\ host = "down"
  /\ current = <<>> /\ dirty = 0 /\ poisoned = FALSE /\ fatal = FALSE
  /\ queue = {} /\ turn = FreeTurn /\ outbox = {}
  /\ client = [r \in Request |-> "idle"]
  /\ \E spent \in Spent : tries = spent.tries /\ crashes = spent.crashes
  /\ guard = [w \in Write |-> AnyVersion]
  /\ asked = [r \in Request |-> -1]
  /\ answer = [r \in Request |-> NoAnswer]

(* The connections of these jobs end without a response.                    *)
Disconnect(jobs) ==
  client' = [r \in Request |->
               IF client[r] = "waiting" /\ [req |-> r, try |-> tries[r]] \in jobs
               THEN "lost" ELSE client[r]]

AllJobs == [req : Request, try : 1..MaxTries]

(* The process is gone, with everything it held in memory.                  *)
LoseMemory ==
  /\ host' = "down"
  /\ current' = <<>> /\ dirty' = 0 /\ poisoned' = FALSE /\ fatal' = FALSE
  /\ queue' = {} /\ turn' = FreeTurn /\ outbox' = {}

-----------------------------------------------------------------------------
(* Clients.                                                                 *)

(* A complete request reaches a worker that the acceptor has admitted.  A   *)
(* request without an answer is sent again with the same guard.             *)
Send(r) ==
  /\ host = "serving"
  /\ client[r] \in {"idle", "lost"} \/ (client[r] = "answered" /\ r \notin Write)
  /\ tries[r] < MaxTries
  /\ tries' = [tries EXCEPT ![r] = @ + 1]
  /\ client' = [client EXCEPT ![r] = "waiting"]
  /\ queue' = queue \cup {[req |-> r, try |-> tries[r] + 1]}
  /\ asked' = [asked EXCEPT ![r] = Len(Durable)]
  /\ IF r \in Write /\ client[r] = "idle"
     THEN \E g \in Guards \cup {AnyVersion} : guard' = [guard EXCEPT ![r] = g]
     ELSE UNCHANGED guard
  /\ UNCHANGED <<disk, host, memory, turn, outbox, answer, crashes>>

(* The client stops waiting.  Its job stays: a worker that has read a       *)
(* complete request always dispatches it.                                   *)
Timeout(r) ==
  /\ client[r] = "waiting"
  /\ client' = [client EXCEPT ![r] = "lost"]
  /\ UNCHANGED <<disk, host, memory, work, tries, guard, asked, answer, crashes>>

-----------------------------------------------------------------------------
(* store_server_store_dispatch, under dispatch_mutex.                       *)

(* store_needs_compaction                                                   *)
NeedsCompaction == dirty >= CompactAt

(* compact_store replays the whole log, which must leave nothing over.      *)
CompactionConsumes ==
  LET boot == Boot(log, image)
  IN  boot.ok /\ ~boot.fresh /\ boot.valid = Len(log)

(* Faulty: a guard only has to be reached.                                  *)
AdmitsStale(w, txs) == guard[w] <= Len(txs)

(* expected-version: none, or exactly the version being served.             *)
Admits(w, txs) == guard[w] \in {AnyVersion, Len(txs)}

(* The dispatch on a fork: what the job does next, and the fork it leaves.  *)
Dispatched(job, txs) ==
  LET after(pc, fork, ok) == [job |-> job, pc |-> pc, fork |-> fork, ok |-> ok]
  IN  CASE job.req \in Write /\ Admits(job.req, txs) ->
             after("append", Append(txs, job.req), TRUE)
        [] job.req \in Write /\ ~Admits(job.req, txs) -> after("respond", txs, FALSE)
        [] job.req \in Read       -> after("respond", txs, TRUE)
        [] job.req \in Checkpoint -> after("truncate image", txs, TRUE)

MayDispatch == host \in {"serving", "stopping"} /\ turn.pc = "free"

(* compact_store: the generation read back replaces the whole chain.        *)
Compact ==
  /\ CompactionConsumes
  /\ current' = Boot(log, image).txs
  /\ dirty' = 0

(* Faulty: the worker tries again instead of giving its connection up.      *)
RefuseRetrying(job) ==
  /\ MayDispatch
  /\ job \in queue
  /\ fatal' = TRUE
  /\ UNCHANGED <<disk, host, current, dirty, poisoned, work, clients, crashes>>

(* The dispatch fails before it appends: the store is poisoned, or the      *)
(* compaction, the clock or an allocation fails.  The refusal is fatal to   *)
(* the server, not an answer to the client.                                 *)
Refuse(job) ==
  /\ MayDispatch
  /\ job \in queue
  /\ \/ UNCHANGED <<current, dirty>>
     \/ ~poisoned /\ NeedsCompaction /\ Compact
  /\ fatal' = TRUE
  /\ queue' = queue \ {job}
  /\ Disconnect({job})
  /\ UNCHANGED <<disk, host, poisoned, turn, outbox,
                 tries, guard, asked, answer, crashes>>

(* Compact first if the chain is long, then dispatch on a fork.             *)
Dispatch(job) ==
  /\ MayDispatch
  /\ job \in queue
  /\ ~poisoned
  /\ queue' = queue \ {job}
  /\ IF NeedsCompaction THEN Compact ELSE UNCHANGED <<current, dirty>>
  /\ turn' = Dispatched(job, current')
  /\ UNCHANGED <<disk, host, poisoned, fatal, outbox, clients, crashes>>

(* append_log_vector, one piece of the record.                              *)
AppendPiece ==
  LET written == IF log = <<>> \/ log[Len(log)].tx # turn.job.req
                    \/ log[Len(log)].sequence # Len(turn.fork)
                 THEN 0 ELSE log[Len(log)].part
  IN  /\ turn.pc = "append"
      /\ log' = Append(log, Piece(turn.job.req, Len(turn.fork), written + 1))
      /\ turn' = [turn EXCEPT !.pc = IF written + 1 = Parts THEN "sync" ELSE "append"]
      /\ UNCHANGED <<durable, tail, image, imageOnDisk, host, memory, queue, outbox,
                     clients, crashes>>

(* Faulty: the generation is published without waiting for the disk.        *)
SkipSync ==
  /\ turn.pc = "sync"
  /\ turn' = [turn EXCEPT !.pc = "publish"]
  /\ UNCHANGED <<disk, host, memory, queue, outbox, clients, crashes>>

(* storage_sync of the log.                                                 *)
SyncLog ==
  /\ turn.pc = "sync"
  /\ durable' = Len(log)
  /\ turn' = [turn EXCEPT !.pc = "publish"]
  /\ UNCHANGED <<log, tail, image, imageOnDisk, host, memory, queue, outbox,
                 clients, crashes>>

(* store->current = next_generation                                         *)
Publish ==
  /\ turn.pc = "publish"
  /\ current' = turn.fork
  /\ dirty' = dirty + 1
  /\ turn' = [turn EXCEPT !.pc = "respond"]
  /\ UNCHANGED <<disk, host, poisoned, fatal, queue, outbox, clients, crashes>>

(* write_snapshot_vector: truncate the image object, write the pieces of    *)
(* the new image, sync it.  The watermark is the store's own byte count.    *)
TruncateImage ==
  /\ turn.pc = "truncate image"
  /\ image' = ImageOf(turn.fork)
  /\ turn' = [turn EXCEPT !.pc = "write image"]
  /\ UNCHANGED <<log, durable, tail, imageOnDisk, host, memory, queue, outbox,
                 clients, crashes>>

WriteImagePiece ==
  /\ turn.pc = "write image"
  /\ image' = [image EXCEPT !.parts = @ + 1]
  /\ turn' = [turn EXCEPT !.pc = IF image'.parts = Parts THEN "sync image" ELSE @]
  /\ UNCHANGED <<log, durable, tail, imageOnDisk, host, memory, queue, outbox,
                 clients, crashes>>

SyncImage ==
  /\ turn.pc = "sync image"
  /\ imageOnDisk' = image
  /\ turn' = [turn EXCEPT !.pc = "respond"]
  /\ UNCHANGED <<log, durable, tail, image, host, memory, queue, outbox,
                 clients, crashes>>

(* encode_response_packet, and the mutex is released.                       *)
Respond ==
  /\ turn.pc = "respond"
  /\ outbox' = outbox \cup
       {[job |-> turn.job, ok |-> turn.ok, version |-> Len(turn.fork)]}
  /\ turn' = FreeTurn
  /\ UNCHANGED <<disk, host, memory, queue, clients, crashes>>

(* A host call of the dispatch fails.  A failed append or sync of the log   *)
(* poisons the store; a failed image or response does not, though the       *)
(* transaction may be durable by then.  Every failure is fatal.             *)
DispatchFails ==
  /\ turn.pc \in {"append", "sync", "truncate image", "write image",
                  "sync image", "respond"}
  /\ poisoned' = (poisoned \/ turn.pc \in {"append", "sync"})
  /\ fatal' = TRUE
  /\ Disconnect({turn.job})
  /\ turn' = FreeTurn
  /\ UNCHANGED <<disk, host, current, dirty, queue, outbox,
                 tries, guard, asked, answer, crashes>>

-----------------------------------------------------------------------------
(* After the mutex: the worker writes its response, outside any lock.       *)

Deliver(response) ==
  LET r == response.job.req
  IN  /\ host = "serving"
      /\ response \in outbox
      /\ client[r] = "waiting" /\ response.job.try = tries[r]
      /\ outbox' = outbox \ {response}
      /\ client' = [client EXCEPT ![r] = "answered"]
      /\ answer' = [answer EXCEPT ![r] = [ok |-> response.ok,
                                          version |-> response.version]]
      /\ UNCHANGED <<disk, host, memory, queue, turn, tries, guard, asked, crashes>>

(* The peer is gone, or its socket was shut down.                           *)
Drop(response) ==
  /\ response \in outbox
  /\ outbox' = outbox \ {response}
  /\ Disconnect({response.job})
  /\ UNCHANGED <<disk, host, memory, queue, turn, tries, guard, asked, answer, crashes>>

-----------------------------------------------------------------------------
(* The acceptor: idle compaction, draining, shutdown.                       *)

(* compact_while_quiet, with no client admitted.                            *)
CompactIdle ==
  /\ host = "serving" /\ turn.pc = "free" /\ queue = {} /\ outbox = {}
  /\ ~poisoned /\ dirty > 0
  /\ Compact
  /\ UNCHANGED <<disk, host, poisoned, fatal, work, clients, crashes>>

(* accept_loop ends on a signal or a fatal failure and shuts every socket.  *)
BeginStop ==
  /\ host = "serving"
  /\ host' = "stopping"
  /\ Disconnect(AllJobs)
  /\ UNCHANGED <<disk, memory, work, tries, guard, asked, answer, crashes>>

(* stop_clients_and_wait returns, and store_server_store_shutdown syncs the *)
(* log, poisoned or not.                                                    *)
Shutdown ==
  /\ host = "stopping" /\ turn.pc = "free" /\ queue = {} /\ outbox = {}
  /\ LoseMemory
  /\ durable' = Len(log)
  /\ UNCHANGED <<log, tail, image, imageOnDisk, clients, crashes>>

-----------------------------------------------------------------------------
(* store_server_store_boot_with_host.                                       *)

(* boot_generation_from_log: read log and image, and fold.                  *)
ReadLog ==
  /\ host = "down"
  /\ Boot(log, image).ok
  /\ current' = Boot(log, image).txs
  /\ host' = IF Boot(log, image).fresh THEN "write header" ELSE "repair"
  /\ UNCHANGED <<disk, dirty, poisoned, fatal, work, clients, crashes>>

(* Faulty: the torn record stays in the log.                                *)
SkipRepair ==
  /\ host = "repair"
  /\ host' = "sync"
  /\ UNCHANGED <<disk, memory, work, clients, crashes>>

(* repair_log_tail                                                          *)
RepairTail ==
  LET valid == Boot(log, image).valid
  IN  /\ host = "repair"
      /\ log' = SubSeq(log, 1, valid)
      /\ tail' = IF valid = Len(log) THEN tail ELSE SubSeq(log, valid + 1, Len(log))
      /\ durable' = IF durable > valid THEN valid ELSE durable
      /\ host' = "sync"
      /\ UNCHANGED <<image, imageOnDisk, memory, work, clients, crashes>>

(* The header of a new log is appended without a sync of its own.           *)
WriteHeaderPiece ==
  /\ host = "write header"
  /\ log' = Append(log, Piece(Header, 0, Len(log) + 1))
  /\ host' = IF Len(log') = Parts THEN "sync" ELSE host
  /\ UNCHANGED <<durable, tail, image, imageOnDisk, memory, work, clients, crashes>>

(* The sync that ends every boot; then the server is ready.                 *)
SyncBoot ==
  /\ host = "sync"
  /\ durable' = Len(log)
  /\ tail' = <<>>
  /\ host' = "serving"
  /\ UNCHANGED <<log, image, imageOnDisk, memory, work, clients, crashes>>

-----------------------------------------------------------------------------
(* Crashes.  A failed boot is a process crash as well.                      *)

ProcessCrash ==
  /\ host # "down"
  /\ crashes < MaxCrashes
  /\ crashes' = crashes + 1
  /\ LoseMemory
  /\ Disconnect(AllJobs)
  /\ UNCHANGED <<disk, tries, guard, asked, answer>>

(* The machine loses what was never synced: any prefix of the log from the  *)
(* durable one on survives, a truncation may be undone, and of the image    *)
(* the last synced one or a part of the new one.                            *)
PowerLoss ==
  /\ crashes < MaxCrashes
  /\ crashes' = crashes + 1
  /\ LoseMemory
  /\ Disconnect(AllJobs)
  /\ \E kept \in durable..Len(log \o tail) :
       /\ log' = SubSeq(log \o tail, 1, kept)
       /\ durable' = kept
  /\ tail' = <<>>
  /\ \/ image' = imageOnDisk
     \/ \E parts \in 0..image.parts : image' = [image EXCEPT !.parts = parts]
  /\ imageOnDisk' = image'
  /\ UNCHANGED <<tries, guard, asked, answer>>

Next ==
  \/ \E r \in Request : Send(r) \/ Timeout(r)
  \/ \E job \in queue : Dispatch(job) \/ Refuse(job)
  \/ AppendPiece \/ SyncLog \/ Publish
  \/ TruncateImage \/ WriteImagePiece \/ SyncImage
  \/ Respond \/ DispatchFails
  \/ \E response \in outbox : Deliver(response) \/ Drop(response)
  \/ CompactIdle \/ BeginStop \/ Shutdown
  \/ ReadLog \/ RepairTail \/ WriteHeaderPiece \/ SyncBoot
  \/ ProcessCrash \/ PowerLoss

Spec == Init /\ [][Next]_vars

(* What the code schedules: a worker finishes its dispatch and its response,*)
(* the mutex is not held for ever, the acceptor polls with a timeout and    *)
(* leaves its loop once it sees the fatal flag.  Nothing is assumed of      *)
(* clients, of signals, of crashes or of a supervisor that restarts.        *)
HoldTurn ==
  \/ AppendPiece \/ SyncLog \/ Publish
  \/ TruncateImage \/ WriteImagePiece \/ SyncImage
  \/ Respond \/ DispatchFails

Fairness ==
  /\ WF_vars(\E job \in queue : Dispatch(job) \/ Refuse(job))
  /\ WF_vars(HoldTurn)
  /\ WF_vars(\E response \in outbox : Deliver(response) \/ Drop(response))
  /\ WF_vars(fatal /\ BeginStop)
  /\ WF_vars(Shutdown)

FairSpec == Spec /\ Fairness
-----------------------------------------------------------------------------
(* D1 and I3: the transaction of every acknowledged write is on the disk at *)
(* the version its acknowledgement names, through any crash and restart.    *)
AckedIsDurable ==
  \A w \in Write :
    answer[w].ok => /\ answer[w].version \in DOMAIN Durable
                    /\ Durable[answer[w].version] = w

(* What a server serves is on the disk: no response can show a transaction  *)
(* that a power loss would take back, not even one that a restart found in  *)
(* the page cache.                                                          *)
ServedIsDurable ==
  host \in {"serving", "stopping"} =>
    /\ Len(current) <= Len(Durable)
    /\ current = SubSeq(Durable, 1, Len(current))

(* I2: a guarded write takes effect at exactly the version it names, hence  *)
(* at most once, however often it is retried after a lost response.         *)
GuardHolds ==
  \A i \in DOMAIN Durable :
    guard[Durable[i]] # AnyVersion => guard[Durable[i]] = i - 1

(* Acknowledged, served and guarded writes, together: what a client was     *)
(* told of a write stays true through any crash, restart or retry.          *)
AnswersAreDurable == AckedIsDurable /\ ServedIsDurable /\ GuardHolds

(* Nothing is ever appended behind a torn record: whatever a crash leaves,  *)
(* the log's complete records are intact and in order (poisoning, D4; tail  *)
(* repair, D2).                                                             *)
LogStaysReadable == Len(log) >= Parts => Consume(log, 1, <<>>).ok

(* R3: an image is an accelerator.  Whatever image a crash left, and however*)
(* old, the boot restores what the full fold of the log restores; and       *)
(* between two dispatches a compaction (compact_store) would find exactly   *)
(* the published generation and consume the whole log.  The chain of        *)
(* generations stays within limits.compact_generations.                     *)
ImagesChangeNothing ==
  /\ Boot(log, image) = Boot(log, NoImage)
  /\ (host = "serving" /\ turn.pc = "free" /\ ~poisoned) =>
       CompactionConsumes /\ Boot(log, image).txs = current
  /\ dirty <= CompactAt

(* A transaction takes effect when its record is complete on the disk.      *)
Abstract == INSTANCE AtomicLog WITH committed <- Durable

(* The server implements the atomic log, through crashes, restarts and      *)
(* compactions: a write takes effect at one moment between its question and *)
(* its answer, and no later question ever gets an older version (D1, I2,    *)
(* I3; store_server_store_dispatch, boot).                                  *)
ImplementsAtomicLog == Abstract!AtomicLogSpec

(* A fatal failure always ends in a stopped server: no queued job and no    *)
(* unwritten response keeps stop_clients_and_wait waiting for ever.         *)
FatalStops == fatal ~> host = "down"
=============================================================================
