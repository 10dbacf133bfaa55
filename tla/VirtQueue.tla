------------------------------ MODULE VirtQueue ------------------------------
(***************************************************************************)
(* The split virtqueue of virtio-drivers/src/queue.rs: the driver's        *)
(* VirtIoQueue, the memory it shares with the device, and the device.      *)
(*                                                                         *)
(* The driver runs `add` and `pop_used` one at a time (both take           *)
(* &mut self), but the device runs concurrently with them, so each is cut  *)
(* into steps at its accesses to the shared memory.  The device is         *)
(* external; it is modelled from what the driver assumes of it: it walks   *)
(* every chain it finds in the available ring one descriptor at a time,    *)
(* finishes chains in any order, and publishes each in the used ring by    *)
(* writing the element first and the index after.                          *)
(***************************************************************************)
EXTENDS Integers, Sequences

CONSTANTS
  SIZE,        \* number of descriptors (const generic SIZE)
  IdxMod,      \* number of values of a ring index, 2^16 in the code
  Buf,         \* the buffers a descriptor may point to
  NoBuf,       \* the address in a descriptor that was never written
  Requests,    \* the buffer lists a client may pass to `add`
  Lens,        \* the lengths the device may report
  DrainFirst   \* TRUE: the client calls `add` only when poped_used is empty

ASSUME SizeAssumption == SIZE \in Nat \ {0}

\* `new` accepts only powers of two up to u16::MAX, so that SIZE divides 2^16
\* and is at most half of it.
ASSUME IdxModAssumption ==
  /\ IdxMod \in Nat
  /\ \E k \in 2 .. IdxMod : IdxMod = k * SIZE

\* `add` asserts that its argument is not empty.
ASSUME RequestsAssumption == Requests \subseteq Seq(Buf) \ {<<>>}

ASSUME NoBufAssumption == NoBuf \notin Buf

ASSUME LensAssumption == Lens \subseteq Nat

ASSUME DrainFirstAssumption == DrainFirst \in BOOLEAN

VARIABLES
  \* VirtIoQueue
  avail_desc_index,  \* free descriptors, first in first out
  last_seen_used,    \* first used-ring index not known to be popped
  poped_used,        \* used-ring indices popped out of order
  \* memory shared with the device
  desc,              \* descriptor table
  avail_idx, avail_ring,
  used_event,        \* last field of the available ring
  used_idx, used_ring,
  \* the call in progress
  pc,
  req,               \* add: `data`
  built,             \* add: descriptors taken so far, the head of the chain last
  id,                \* pop_used: `id`
  now,               \* pop_used: `now`
  ret,               \* result of the last call
  \* the device
  last_avail,        \* next index of the available ring to fetch
  dev_pc, dev_head, dev_at, dev_seen,  \* the chain being walked
  taken,             \* buffers of the chains walked and not yet used, by head
  writing,           \* a used element is written and its index is not
  \* history
  chain,             \* descriptors of each outstanding request, by head
  left,              \* how many of chain[id] pop_used has not freed yet
  data,              \* buffers of each request not yet popped, by head
  done               \* the length the device reported for it, or NotDone

driver == <<avail_desc_index, last_seen_used, poped_used>>
shared == <<desc, avail_idx, avail_ring, used_event, used_idx, used_ring>>
call == <<pc, req, built, id, now, ret>>
device == <<last_avail, dev_pc, dev_head, dev_at, dev_seen, taken, writing>>
history == <<chain, left, data, done>>
vars == <<driver, shared, call, device, history>>

Desc == 0 .. SIZE - 1
Idx == 0 .. IdxMod - 1
NotDone == -1

\* u16::wrapping_add(1) and u16::wrapping_sub
Succ(i) == (i + 1) % IdxMod
WrappingSub(i, j) == (i - j) % IdxMod

Descriptor == [addr : Buf \cup {NoBuf}, more : BOOLEAN, next : Desc]
NullDescriptor == [addr |-> NoBuf, more |-> FALSE, next |-> 0]

Ok(v) == [kind |-> "Ok", val |-> v]
Err(e) == [kind |-> e, val |-> 0]

(***************************************************************************)
(* VirtIoQueue::new, as far as the queue itself is concerned.  The queue   *)
(* page comes zeroed: `new` does not clear it.                             *)
(***************************************************************************)
Init ==
  /\ avail_desc_index = [i \in 1 .. SIZE |-> i - 1]
  /\ last_seen_used = 0
  /\ poped_used = {}
  /\ desc = [d \in Desc |-> NullDescriptor]
  /\ avail_idx = 0 /\ avail_ring = [i \in Desc |-> 0]
  /\ used_event = 0
  /\ used_idx = 0 /\ used_ring = [i \in Desc |-> [id |-> 0, len |-> 0]]
  /\ pc = "idle" /\ req = <<>> /\ built = <<>> /\ id = 0 /\ now = 0
  /\ ret = Ok(0)
  /\ last_avail = 0 /\ dev_pc = "ready" /\ dev_head = 0 /\ dev_at = 0
  /\ dev_seen = <<>> /\ taken = [d \in Desc |-> <<>>] /\ writing = FALSE
  /\ chain = [d \in Desc |-> <<>>] /\ left = 0
  /\ data = [d \in Desc |-> <<>>] /\ done = [d \in Desc |-> NotDone]

-----------------------------------------------------------------------------
(* VirtIoQueue::add *)

MayAdd == pc = "idle" /\ (DrainFirst => poped_used = {})

AddBegin(r) ==
  /\ MayAdd
  /\ Len(r) <= Len(avail_desc_index)
  /\ pc' = "add" /\ req' = r /\ built' = <<>>
  /\ UNCHANGED <<driver, shared, id, now, ret, device, history>>

\* Err(QueueFull)
AddFull(r) ==
  /\ MayAdd
  /\ Len(r) > Len(avail_desc_index)
  /\ ret' = Err("QueueFull")
  /\ UNCHANGED <<driver, shared, pc, req, built, id, now, device, history>>

\* The next field of the descriptor that goes in front of k others.
Link(k) == IF k > 0 THEN built[k] ELSE 0

\* Mutant of Buffer: the loop runs over `data` without rev().
BufferForward(k) == req[k + 1]

\* The element of `data` that the loop meets after k others.
Buffer(k) == req[Len(req) - k]

\* One turn of the loop over `data` reversed.  Every caller sets NEXT in the
\* flags of all its descriptors but the last, which this loop meets first.
AddDesc ==
  LET i == Head(avail_desc_index)
      k == Len(built)
  IN /\ pc = "add"
     /\ avail_desc_index' = Tail(avail_desc_index)
     /\ desc' = [desc EXCEPT ![i % SIZE] =
                   [addr |-> Buffer(k), more |-> k > 0, next |-> Link(k)]]
     /\ built' = Append(built, i)
     /\ pc' = IF k + 1 = Len(req) THEN "push" ELSE "add"
     /\ UNCHANGED <<last_seen_used, poped_used, avail_idx, avail_ring,
                    used_event, used_idx, used_ring, req, id, now, ret,
                    device, history>>

\* AvailRing::push: the slot, then (Release) the index.
AddPush ==
  /\ pc = "push"
  /\ avail_ring' = [avail_ring EXCEPT ![avail_idx % SIZE] = built[Len(built)]]
  /\ pc' = "publish"
  /\ UNCHANGED <<driver, desc, avail_idx, used_event, used_idx, used_ring,
                 req, built, id, now, ret, device, history>>

AddPublish ==
  LET head == built[Len(built)]
  IN /\ pc = "publish"
     /\ avail_idx' = Succ(avail_idx)
     /\ pc' = "idle" /\ built' = <<>> /\ req' = <<>>
     /\ ret' = Ok(head)
     /\ chain' = [chain EXCEPT ![head] = built]
     /\ data' = [data EXCEPT ![head] = req]
     /\ done' = [done EXCEPT ![head] = NotDone]
     /\ UNCHANGED <<driver, desc, avail_ring, used_event, used_idx, used_ring,
                    id, now, device, left>>

-----------------------------------------------------------------------------
(* VirtIoQueue::pop_used *)

\* Mutant of Window: the scan stops one short.
WindowShort == 0 .. WrappingSub(used_idx, last_seen_used) - 2

\* The used-ring indices that can_pop and pop_used scan, by distance from
\* last_seen_used, and those whose element carries the token.
Window == 0 .. WrappingSub(used_idx, last_seen_used) - 1
At(k) == (last_seen_used + k) % IdxMod
Matches(t) == {k \in Window : used_ring[At(k) % SIZE].id = t}

can_pop(t) == Matches(t) # {}

PopBegin(t) ==
  /\ pc = "idle"
  /\ data[t] # <<>>
  /\ can_pop(t)
  /\ pc' = "find" /\ id' = t
  /\ UNCHANGED <<driver, shared, req, built, now, ret, device, history>>

\* Err(NotReady)
PopNotReady(t) ==
  /\ pc = "idle"
  /\ data[t] # <<>>
  /\ ~can_pop(t)
  /\ ret' = Err("NotReady")
  /\ UNCHANGED <<driver, shared, pc, req, built, id, now, device, history>>

UsedLen(header) == used_ring[header % SIZE].len

\* used.idx is loaded again; the header is the first element with the token.
\* The two asserts fail if there is none, which SeenCanBePopped excludes.
PopFind ==
  /\ pc = "find"
  /\ \E k \in Matches(id) :
       /\ \A j \in Matches(id) : k <= j
       /\ poped_used' = poped_used \cup {At(k)}
       /\ ret' = Ok(UsedLen(At(k)))
  /\ avail_desc_index' = Append(avail_desc_index, id)
  /\ now' = id
  /\ pc' = "walk"
  /\ left' = Len(chain[id]) - 1
  /\ data' = [data EXCEPT ![id] = <<>>]
  /\ UNCHANGED <<last_seen_used, shared, req, built, id, device, chain, done>>

\* Mutant of PopWalk: the descriptor is freed before `now` moves on.
PopWalkFreesNow ==
  /\ pc = "walk"
  /\ desc[now].more
  /\ avail_desc_index' = Append(avail_desc_index, now)
  /\ now' = desc[now % SIZE].next
  /\ left' = left - 1
  /\ UNCHANGED <<last_seen_used, poped_used, shared, pc, req, built, id, ret,
                 device, chain, data, done>>

\* One turn of the loop that returns the chain to the free list.
PopWalk ==
  LET next == desc[now % SIZE].next
  IN /\ pc = "walk"
     /\ desc[now].more
     /\ avail_desc_index' = Append(avail_desc_index, next)
     /\ now' = next
     /\ left' = left - 1
     /\ UNCHANGED <<last_seen_used, poped_used, shared, pc, req, built, id, ret,
                    device, chain, data, done>>

PopWalked ==
  /\ pc = "walk"
  /\ ~desc[now].more
  /\ pc' = "advance"
  /\ chain' = [chain EXCEPT ![id] = <<>>]
  /\ UNCHANGED <<driver, shared, req, built, id, now, ret, device,
                 left, data, done>>

\* Mutant of PopAdvance: last_seen_used is never moved.
PopAdvanceStuck ==
  /\ pc = "advance"
  /\ last_seen_used \in poped_used
  /\ poped_used' = poped_used \ {last_seen_used}
  /\ UNCHANGED <<avail_desc_index, last_seen_used, shared, call, device, history>>

\* One turn of the loop that moves last_seen_used over popped entries.
PopAdvance ==
  /\ pc = "advance"
  /\ last_seen_used \in poped_used
  /\ poped_used' = poped_used \ {last_seen_used}
  /\ last_seen_used' = Succ(last_seen_used)
  /\ used_event' = last_seen_used'
  /\ UNCHANGED <<avail_desc_index, desc, avail_idx, avail_ring, used_idx,
                 used_ring, call, device, history>>

\* Mutant of PopReturn: `if` for `while`, the loop may stop too early.
PopReturnEarly ==
  /\ pc = "advance"
  /\ pc' = "idle"
  /\ UNCHANGED <<driver, shared, req, built, id, now, ret, device, history>>

\* Mutant of PopReturn: the loop spins until poped_used is empty.
PopReturnDrained ==
  /\ pc = "advance"
  /\ last_seen_used \notin poped_used
  /\ pc' = IF poped_used = {} THEN "idle" ELSE "advance"
  /\ UNCHANGED <<driver, shared, req, built, id, now, ret, device, history>>

PopReturn ==
  /\ pc = "advance"
  /\ last_seen_used \notin poped_used
  /\ pc' = "idle"
  /\ UNCHANGED <<driver, shared, req, built, id, now, ret, device, history>>

\* VirtIoQueue::peek_used: the token of the next used element, if there is one.
peek_used ==
  IF last_seen_used = used_idx
    THEN {}
    ELSE {used_ring[last_seen_used % SIZE].id}

-----------------------------------------------------------------------------
(* The device (external) *)

DevFetch ==
  LET head == avail_ring[last_avail % SIZE]
  IN /\ dev_pc = "ready"
     /\ last_avail # avail_idx
     /\ last_avail' = Succ(last_avail)
     /\ dev_pc' = "walk"
     /\ dev_head' = head /\ dev_at' = head /\ dev_seen' = <<>>
     /\ UNCHANGED <<driver, shared, call, taken, writing, history>>

DevWalk ==
  LET d == desc[dev_at]
      seen == Append(dev_seen, d.addr)
  IN /\ dev_pc = "walk"
     /\ \/ /\ d.more
           /\ dev_at' = d.next /\ dev_seen' = seen
           /\ UNCHANGED <<dev_pc, taken>>
        \/ /\ ~d.more
           /\ dev_pc' = "ready" /\ dev_seen' = <<>>
           /\ taken' = [taken EXCEPT ![dev_head] = seen]
           /\ UNCHANGED dev_at
     /\ UNCHANGED <<driver, shared, call, last_avail, dev_head, writing, history>>

DevWrite(h, len) ==
  /\ ~writing
  /\ taken[h] # <<>>
  /\ used_ring' = [used_ring EXCEPT ![used_idx % SIZE] = [id |-> h, len |-> len]]
  /\ writing' = TRUE
  /\ UNCHANGED <<driver, desc, avail_idx, avail_ring, used_event, used_idx,
                 call, last_avail, dev_pc, dev_head, dev_at, dev_seen, taken,
                 history>>

DevPublish ==
  LET elem == used_ring[used_idx % SIZE]
  IN /\ writing
     /\ used_idx' = Succ(used_idx)
     /\ writing' = FALSE
     /\ taken' = [taken EXCEPT ![elem.id] = <<>>]
     /\ done' = [done EXCEPT ![elem.id] = elem.len]
     /\ UNCHANGED <<driver, desc, avail_idx, avail_ring, used_event, used_ring,
                    call, last_avail, dev_pc, dev_head, dev_at, dev_seen,
                    chain, left, data>>

-----------------------------------------------------------------------------
DriverStep ==
  \/ AddDesc \/ AddPush \/ AddPublish
  \/ PopFind \/ PopWalk \/ PopWalked \/ PopAdvance \/ PopReturn

DeviceStep ==
  \/ DevFetch \/ DevWalk \/ DevPublish
  \/ \E h \in Desc, len \in Lens : DevWrite(h, len)

Next ==
  \/ \E r \in Requests : AddBegin(r) \/ AddFull(r)
  \/ \E t \in Desc : PopBegin(t) \/ PopNotReady(t)
  \/ DriverStep
  \/ DeviceStep

Spec == Init /\ [][Next]_vars

\* A call that has begun is executed to its end: nothing in `add` or
\* `pop_used` waits.  Nothing is assumed of the client or of the device.
FairSpec == Spec /\ WF_vars(DriverStep)

-----------------------------------------------------------------------------
(* Properties *)

DriverType ==
  /\ avail_desc_index \in Seq(Desc)
  /\ last_seen_used \in Idx
  /\ poped_used \subseteq Idx

SharedType ==
  /\ desc \in [Desc -> Descriptor]
  /\ avail_idx \in Idx
  /\ avail_ring \in [Desc -> Desc]
  /\ used_event \in Idx
  /\ used_idx \in Idx
  /\ used_ring \in [Desc -> [id : Desc, len : Nat]]

CallType ==
  /\ pc \in {"idle", "add", "push", "publish",
             "find", "walk", "advance"}
  /\ req \in Seq(Buf)
  /\ built \in Seq(Desc)
  /\ id \in Desc
  /\ now \in Desc
  /\ ret \in [kind : {"Ok", "QueueFull", "NotReady"}, val : Nat]

DeviceType ==
  /\ last_avail \in Idx
  /\ dev_pc \in {"ready", "walk"}
  /\ dev_head \in Desc
  /\ dev_at \in Desc
  /\ dev_seen \in Seq(Buf \cup {NoBuf})
  /\ taken \in [Desc -> Seq(Buf \cup {NoBuf})]
  /\ writing \in BOOLEAN

HistoryType ==
  /\ chain \in [Desc -> Seq(Desc)]
  /\ left \in Nat
  /\ data \in [Desc -> Seq(Buf)]
  /\ done \in [Desc -> Nat \cup {NotDone}]

TypeOK == DriverType /\ SharedType /\ CallType /\ DeviceType /\ HistoryType

\* The part of chain[t] that is not back on the free list.
Held(t) == IF pc = "walk" /\ t = id THEN left ELSE Len(chain[t])

\* The places a descriptor can be in, named by owner and position.
FreePlaces == {<<"free", 0, i>> : i \in 1 .. Len(avail_desc_index)}
BuiltPlaces == {<<"built", 0, i>> : i \in 1 .. Len(built)}
ChainPlaces == UNION {{<<"chain", t, i>> : i \in 1 .. Held(t)} : t \in Desc}
DescAt(p) ==
  CASE p[1] = "free" -> avail_desc_index[p[3]]
    [] p[1] = "built" -> built[p[3]]
    [] p[1] = "chain" -> chain[p[2]][p[3]]

\* No descriptor is ever allocated twice and none is lost: at every step of
\* `add` and `pop_used` each one is in exactly one place of the free list, the
\* chain being built and the chains handed to the device, whatever the client
\* pops and in whatever order.
DescriptorsPartitioned ==
  LET places == FreePlaces \cup BuiltPlaces \cup ChainPlaces
  IN \A d \in Desc :
       \E p \in places : /\ DescAt(p) = d
                         /\ \A q \in places : DescAt(q) = d => q = p

\* The device is given what the client submitted: the buffers it collects by
\* walking the descriptor table, concurrently with later calls of `add` and
\* `pop_used`, are those of the request whose token it will report.
DeviceSeesRequest ==
  \A t \in Desc : taken[t] # <<>> => taken[t] = data[t]

\* pop_used succeeds only on a request the device has finished, and returns
\* the length the device reported for that request and not for an earlier one
\* that had the same token.
PopsWhatDeviceUsed ==
  [][PopFind => done[id] # NotDone /\ ret'.val = done[id]]_vars

\* Neither side overwrites a ring slot the other has still to read: "have
\* enough space, because (avail ring's len == desc's)" (AvailRing::push), and
\* the same for the used ring as can_pop and pop_used scan it.
RingsNotOverrun ==
  /\ WrappingSub(avail_idx, last_avail) + (IF pc = "publish" THEN 1 ELSE 0) <= SIZE
  /\ WrappingSub(used_idx, last_seen_used) + (IF writing THEN 1 ELSE 0) <= SIZE

\* What was seen in the used ring is still there when it is read again: the
\* asserts of pop_used hold after can_pop, and between two calls the token
\* that peek_used returns is that of a request that is outstanding and finished,
\* so that the pop_used of the network and input drivers succeeds.
SeenCanBePopped ==
  /\ pc = "find" => can_pop(id)
  /\ pc = "idle" =>
       \A t \in peek_used : data[t] # <<>> /\ done[t] # NotDone /\ can_pop(t)

\* Every call returns: the walks over the chain and over poped_used end.
CallsReturn == pc # "idle" ~> pc = "idle"

-----------------------------------------------------------------------------
(* The queue that VirtQueue implements *)

\* The length in the published element of the used ring that waits to be popped
\* under token t, read off the shared memory.
CompletedLen(t) ==
  LET published == {At(k) : k \in 0 .. WrappingSub(used_idx, last_seen_used) - 1}
      waiting == {i \in published \ poped_used : used_ring[i % SIZE].id = t}
  IN IF waiting = {} THEN -1 ELSE used_ring[(CHOOSE i \in waiting : TRUE) % SIZE].len

Abstract == INSTANCE RequestQueue WITH
  Token <- Desc, Capacity <- SIZE,
  request <- data, completed <- [t \in Desc |-> CompletedLen(t)]

\* The ring protocol implements RequestQueue: a request is submitted when its
\* index is published in the available ring, completed when the device
\* publishes its element in the used ring, and popped when pop_used marks that
\* element; QueueFull and NotReady are returned only when RequestQueue says so.
ImplementsRequestQueue == Abstract!Spec

-----------------------------------------------------------------------------
(***************************************************************************)
(* The inductive invariant behind DescriptorsPartitioned.  Each part is    *)
(* about the places of the descriptors, written with positions because     *)
(* that is the form in which the steps preserve it.                        *)
(***************************************************************************)

FreeDistinct ==
  \A i, j \in 1 .. Len(avail_desc_index) :
    avail_desc_index[i] = avail_desc_index[j] => i = j

BuiltDistinct ==
  \A i, j \in 1 .. Len(built) : built[i] = built[j] => i = j

ChainsDistinct ==
  \A t, u \in Desc : \A i \in 1 .. Len(chain[t]), j \in 1 .. Len(chain[u]) :
    chain[t][i] = chain[u][j] => t = u /\ i = j

FreeNotBuilt ==
  \A i \in 1 .. Len(avail_desc_index), j \in 1 .. Len(built) :
    avail_desc_index[i] # built[j]

FreeNotHeld ==
  \A i \in 1 .. Len(avail_desc_index), t \in Desc : \A j \in 1 .. Held(t) :
    avail_desc_index[i] # chain[t][j]

BuiltNotHeld ==
  \A i \in 1 .. Len(built), t \in Desc : \A j \in 1 .. Len(chain[t]) :
    built[i] # chain[t][j]

NoneLost ==
  \A d \in Desc :
    \/ \E i \in 1 .. Len(avail_desc_index) : avail_desc_index[i] = d
    \/ \E i \in 1 .. Len(built) : built[i] = d
    \/ \E t \in Desc : \E i \in 1 .. Held(t) : chain[t][i] = d

\* A chain is linked in the descriptor table from its head, the last position,
\* down to its first position, whose NEXT flag is clear.
Linked(s) ==
  \A k \in 1 .. Len(s) : /\ desc[s[k]].more <=> k > 1
                         /\ k > 1 => desc[s[k]].next = s[k - 1]

ChainsLinked ==
  /\ Linked(built)
  /\ \A t \in Desc : Linked(chain[t])

\* A chain is filed under its head, and a token that can be popped has one.
TokensAreHeads ==
  \A t \in Desc : /\ chain[t] # <<>> => chain[t][Len(chain[t])] = t
                  /\ data[t] # <<>> => chain[t] # <<>>

\* What the calls know at each of their steps.
CallInv ==
  /\ pc = "add" =>
       /\ Len(built) < Len(req)
       /\ Len(req) - Len(built) <= Len(avail_desc_index)
  /\ pc \in {"push", "publish"} => Len(built) = Len(req) /\ Len(req) > 0
  /\ pc \notin {"add", "push", "publish"} => built = <<>>
  /\ pc = "find" => data[id] # <<>>
  /\ pc = "walk" =>
       left < Len(chain[id]) /\ now = chain[id][left + 1] /\ data[id] = <<>>

OwnershipInv ==
  /\ TypeOK
  /\ FreeDistinct /\ BuiltDistinct /\ ChainsDistinct
  /\ FreeNotBuilt /\ FreeNotHeld /\ BuiltNotHeld
  /\ NoneLost
  /\ ChainsLinked /\ TokensAreHeads /\ CallInv

=============================================================================
