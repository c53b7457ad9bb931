------------------------------- MODULE Lease -------------------------------
(***************************************************************************)
(* Leases and fences of the native Store (store/native_lease_ops.bgl and    *)
(* the fence check of store/native_dispatch.bgl).  A lease is a live        *)
(* :kernel/lease proposition; its epoch is the sequence of the transaction  *)
(* that asserted it.  A client that was granted one presents the fence      *)
(* [resource, holder, epoch] with its writes, however late.                 *)
(*                                                                          *)
(* A dispatch is atomic here: it holds dispatch_mutex and reads the clock   *)
(* inside.  The clock is CLOCK_REALTIME: it may be set back.                *)
(*                                                                          *)
(* Lease propositions are not protected: the actions of a mutation may       *)
(* assert and retract them like any other, several in one transaction, and  *)
(* then leases share an epoch and are told apart by their places in it.     *)
(***************************************************************************)
EXTENDS Integers, Sequences

CONSTANTS
  Resource, Holder,
  Ttl,        \* the ttl-ms clients ask for
  MaxTime,    \* max-time-ms
  Batches,    \* what mutations do to leases: their actions on lease propositions
  MaxVersion  \* bound of the model: transactions in one behaviour

LeaseProp == [resource : Resource, holder : Holder, expires : Nat]
Action == [operation : {"assert", "retract"}, proposition : LeaseProp]

ASSUME LeaseAssumption ==
  /\ Ttl \subseteq Int
  /\ MaxTime \in Nat /\ MaxVersion \in Nat
  /\ Batches \subseteq Seq(Action)

VARIABLES
  version,  \* current-sequence
  live,     \* the live lease occurrences
  clock,    \* what the next dispatch reads as now-ms
  grants,   \* history: every lease the server has granted
  ended,    \* history: fences renewed or released, and the version before
  writes,   \* history: accepted fenced writes
  raw,      \* history: a client has written lease propositions itself
  shared    \* history: fences that two live leases have had at once

vars == <<version, live, clock, grants, ended, writes, raw, shared>>

(* The lease operations assert one lease in a transaction, after retracting *)
(* at most one: its place is the same for all that follows.                 *)
LeaseAt(p, epoch, place) ==
  [resource |-> p.resource, holder |-> p.holder, expires |-> p.expires,
   epoch |-> epoch, place |-> place]
NewLease(resource, holder, expires, epoch) ==
  LeaseAt([resource |-> resource, holder |-> holder, expires |-> expires], epoch, 1)
PropositionOf(lease) ==
  [resource |-> lease.resource, holder |-> lease.holder, expires |-> lease.expires]

FenceOf(lease) ==
  [resource |-> lease.resource, holder |-> lease.holder, epoch |-> lease.epoch]

(* The order of the positions in the log.                                   *)
NotAfter(lease, other) ==
  \/ lease.epoch < other.epoch
  \/ lease.epoch = other.epoch /\ lease.place <= other.place

(* current-lease, in both modules: the newest live lease of a resource.     *)
IsCurrent(lease) ==
  lease \in live /\ \A other \in live :
    other.resource = lease.resource => NotAfter(other, lease)

(* Faulty: a lease is free one tick before it expires.                      *)
HeldShort(lease) == lease.expires > clock + 1

(* held?                                                                    *)
Held(lease) == lease.expires > clock

(* The current lease that a fence names exactly: matching-fence?.           *)
MatchedBy(lease, fence) == IsCurrent(lease) /\ FenceOf(lease) = fence

(* Faulty: any later fence of the holder will do.                           *)
FenceValidByHolder(fence) ==
  \E lease \in live : /\ IsCurrent(lease)
                      /\ lease.resource = fence.resource /\ lease.holder = fence.holder
                      /\ lease.expires > clock

(* fence-valid? of a mutation.                                              *)
FenceValid(fence) ==
  \E lease \in live : /\ IsCurrent(lease)
                      /\ lease.resource = fence.resource /\ lease.holder = fence.holder
                      /\ lease.epoch = fence.epoch
                      /\ lease.expires > clock

(* valid-grant-input?                                                       *)
ValidGrant(ttl) == ttl > 0 /\ ttl <= MaxTime - clock

Init ==
  /\ version = 0
  /\ live = {}
  /\ clock = 0
  /\ grants = {} /\ ended = {} /\ writes = {}
  /\ raw = FALSE /\ shared = {}

Advance == version < MaxVersion /\ version' = version + 1

(* Faulty: the prior lease is not retracted.                                *)
ReplaceKeeping(prior, lease) ==
  /\ Advance
  /\ live' = live \cup {lease}
  /\ grants' = grants \cup {lease}

(* replace-lease!, in one transaction; the grant names its sequence.        *)
Replace(prior, lease) ==
  /\ Advance
  /\ live' = (live \ prior) \cup {lease}
  /\ grants' = grants \cup {lease}

(* acquire-response!: refused while the resource is held, also to its holder*)
Acquire(resource, holder, ttl) ==
  LET prior == {lease \in live : lease.resource = resource /\ IsCurrent(lease)}
  IN  /\ ValidGrant(ttl)
      /\ \A lease \in prior : ~Held(lease)
      /\ Replace(prior, NewLease(resource, holder, clock + ttl, version + 1))
      /\ UNCHANGED <<clock, ended, writes, raw, shared>>

(* renew-response!: the fence must be current and unexpired, and the new    *)
(* grant has a new epoch.                                                   *)
Renew(lease, fence, ttl) ==
  /\ ValidGrant(ttl)
  /\ MatchedBy(lease, fence) /\ Held(lease)
  /\ Replace({lease}, NewLease(fence.resource, fence.holder, clock + ttl, version + 1))
  /\ ended' = ended \cup {[fence |-> fence, version |-> version]}
  /\ UNCHANGED <<clock, writes, raw, shared>>

(* Faulty: the release answers without retracting.                          *)
ReleaseNothing(lease, fence) ==
  /\ MatchedBy(lease, fence)
  /\ Advance
  /\ ended' = ended \cup {[fence |-> fence, version |-> version]}
  /\ UNCHANGED <<live, clock, grants, writes, raw, shared>>

(* release-response!: the fence must be current; it may have expired.       *)
Release(lease, fence) ==
  /\ MatchedBy(lease, fence)
  /\ Advance
  /\ live' = live \ {lease}
  /\ ended' = ended \cup {[fence |-> fence, version |-> version]}
  /\ UNCHANGED <<clock, grants, writes, raw, shared>>

(* An action: an assertion makes one more lease, a retraction withdraws the *)
(* newest live one that is equal, if there is any.                          *)
Newest(leases) == {lease \in leases : \A other \in leases : NotAfter(other, lease)}
Applied(leases, action, epoch, place) ==
  IF action.operation = "assert"
    THEN leases \cup {LeaseAt(action.proposition, epoch, place)}
    ELSE leases \ Newest({lease \in leases : PropositionOf(lease) = action.proposition})

(* The live leases after the actions of a batch, in their order.            *)
After(batch) ==
  LET after[n \in 0..Len(batch)] ==
        IF n = 0 THEN live ELSE Applied(after[n - 1], batch[n], version + 1, n)
  IN  after[Len(batch)]

SharedBy(leases) ==
  {FenceOf(lease) : lease \in {l \in leases : \E other \in leases \ {l} :
                                             FenceOf(other) = FenceOf(l)}}

(* commit-mutation!: one transaction, whatever its actions do to leases.    *)
Mutate(batch) ==
  /\ Advance
  /\ live' = After(batch)
  /\ raw' = (raw \/ batch # <<>>)
  /\ shared' = shared \cup SharedBy(live')
  /\ UNCHANGED <<clock, grants, ended>>

(* A mutation with a fence: execute-actions!.                               *)
FencedWrite(fence, batch) ==
  /\ FenceValid(fence)
  /\ Mutate(batch)
  /\ writes' = writes \cup {[resource |-> fence.resource, epoch |-> fence.epoch,
                             fence |-> fence, version |-> version + 1]}

(* A mutation without one.                                                  *)
PlainWrite(batch) == Mutate(batch) /\ UNCHANGED writes

(* Time passes, or the clock is set.                                        *)
SetClock(time) ==
  /\ clock' = time
  /\ UNCHANGED <<version, live, grants, ended, writes, raw, shared>>

Fence == [resource : Resource, holder : Holder, epoch : 1..MaxVersion]

Next ==
  \/ \E resource \in Resource, holder \in Holder, ttl \in Ttl :
       Acquire(resource, holder, ttl)
  \/ \E lease \in live, fence \in Fence, ttl \in Ttl : Renew(lease, fence, ttl)
  \/ \E lease \in live, fence \in Fence : Release(lease, fence)
  \/ \E batch \in Batches :
       PlainWrite(batch) \/ \E fence \in Fence : FencedWrite(fence, batch)
  \/ \E time \in 0..MaxTime : SetClock(time)

Spec == Init /\ [][Next]_vars
-----------------------------------------------------------------------------
LeaseType ==
  [resource : Resource, holder : Holder, expires : Nat,
   epoch : Nat \ {0}, place : Nat \ {0}]

FenceType == [resource : Resource, holder : Holder, epoch : Nat \ {0}]

(* The type of every variable: no granted expiry passes max-time-ms.        *)
TypeOK ==
  /\ version \in Nat
  /\ live \subseteq LeaseType
  /\ grants \subseteq LeaseType /\ \A lease \in grants : lease.expires <= MaxTime
  /\ clock \in 0..MaxTime /\ raw \in BOOLEAN /\ shared \subseteq FenceType
  /\ ended \subseteq [fence : FenceType, version : Nat]
  /\ writes \subseteq [resource : Resource, epoch : Nat \ {0},
                       fence : FenceType, version : Nat \ {0}]

(* As long as clients write leases through the lease operations only, a     *)
(* resource has one live lease at most, whatever was acquired, renewed or   *)
(* released and however the clock moved (replace-lease!).                   *)
OneLease ==
  ~raw => \A lease, other \in live : lease.resource = other.resource => lease = other

(* The guarantee fencing exists for: once a write with a newer fence was    *)
(* accepted for a resource, no delayed write with an older one ever is      *)
(* (fence-valid?), as long as clients write no lease propositions.          *)
FencedWritesOrdered ==
  ~raw => \A early, late \in writes :
    (early.resource = late.resource /\ early.version < late.version) =>
      early.epoch <= late.epoch

(* A fence that was renewed or released is never accepted again, not even   *)
(* when the clock goes back behind its expiry, and whatever lease           *)
(* propositions clients write themselves, unless one transaction of a       *)
(* client's own left two live leases with that very fence: a release then   *)
(* ends only the newer of them.  A fence the server granted is never one of *)
(* those (retract-lease!, fence-valid?).                                    *)
EndedNeverAccepted ==
  /\ \A end \in ended, write \in writes :
       write.fence = end.fence /\ end.fence \notin shared => write.version <= end.version
  /\ \A lease \in grants : FenceOf(lease) \notin shared

(* A lease whose fence a write would still pass is given up only by that    *)
(* fence's own renewal or release: an acquire never takes it over, though   *)
(* it asks held? and the write asks fence-valid? (acquire-response!).       *)
ValidLeaseStays ==
  [][~raw' => \A lease \in live :
       (FenceValid(FenceOf(lease)) /\ lease \notin live') =>
         \E end \in ended' \ ended : end.fence = FenceOf(lease)]_vars
=============================================================================
