---------------------------- MODULE Notification ----------------------------
(***************************************************************************)
(* How a driver and a device that sleeps wake each other up: `add`,        *)
(* `should_notify`, `notify`, and then either the blocking wait of         *)
(* VirtIoQueue::add_notify_wait_pop or a later poll by the caller, as in   *)
(* VirtIONetRaw::transmit_begin/receive_begin and VirtIOInput.             *)
(*                                                                         *)
(* A request is one token.  VirtQueue shows what becomes of its            *)
(* descriptors and of the rings' slots; here a ring is the sequence of     *)
(* tokens in it, and what matters is who looks at which ring when.         *)
(*                                                                         *)
(* avail.idx is stored with Release and used.flags is loaded with Acquire. *)
(* Nothing orders that store before that load on RISC-V or x86, where the  *)
(* store may wait in a store buffer; on AArch64 the two instructions are   *)
(* ordered.  The machine, and whether the client blocks, are chosen once.  *)
(***************************************************************************)
EXTENDS Integers, Sequences, FiniteSets

CONSTANT Token   \* descriptors of the queue

VARIABLES
  blocking,     \* the client calls add_notify_wait_pop
  store_buffer, \* a load may overtake an earlier store
  pc,         \* where the driver is in the call
  token,      \* the token of the call in progress, or of the last one
  free,       \* avail_desc_index
  buffered,   \* stored in the available ring, not yet visible to the device
  avail,      \* visible to the device and not yet fetched
  used,       \* the used ring from last_seen_used on
  no_notify,  \* bit 0 of used.flags, written by the device
  kicked,     \* a write to queue_notify that the device has not seen yet
  dev,        \* what the device is doing
  fetched,    \* requests the device is working on
  lent,       \* requests whose buffers the caller keeps for the device
  failed      \* history: Transport::notify has returned an error

setting == <<blocking, store_buffer>>
vars == <<setting, pc, token, free, buffered, avail, used, no_notify, kicked, dev,
          fetched, lent, failed>>
rings == <<free, buffered, avail, used>>
device == <<no_notify, dev, fetched>>

UsedElem == [id : Token, popped : BOOLEAN]

\* VirtIoQueue::new
Init ==
  /\ blocking \in BOOLEAN /\ store_buffer \in BOOLEAN
  /\ pc = "idle"
  /\ token \in Token
  /\ free = Token
  /\ buffered = <<>> /\ avail = <<>> /\ used = <<>>
  /\ no_notify = FALSE /\ kicked = FALSE
  /\ dev = "asleep" /\ fetched = {}
  /\ lent = {} /\ failed = FALSE

-----------------------------------------------------------------------------
(* VirtIoQueue::add *)

\* Mutant of Publish: the head is stored where the device looks next.
PublishFront(t) == avail' = <<t>> \o avail /\ UNCHANGED buffered

\* The fence in `add` makes every earlier store visible; then the index of the
\* available ring is stored.
Publish(t) ==
  IF store_buffer
  THEN avail' = avail \o buffered /\ buffered' = <<t>>
  ELSE avail' = Append(avail, t) /\ buffered' = buffered

\* Mutant of AddOk: the descriptor stays in avail_desc_index.
AddOkKeep(t) ==
  /\ pc = "idle"
  /\ t \in free
  /\ token' = t
  /\ Publish(t)
  /\ lent' = lent \cup {t}
  /\ pc' = "should_notify"
  /\ UNCHANGED <<setting, free, used, kicked, device, failed>>

\* `add` succeeds: the caller now lends its buffers to the device.
AddOk(t) ==
  /\ pc = "idle"
  /\ t \in free
  /\ token' = t
  /\ free' = free \ {t}
  /\ Publish(t)
  /\ lent' = lent \cup {t}
  /\ pc' = "should_notify"
  /\ UNCHANGED <<setting, used, kicked, device, failed>>

\* Err(QueueFull)
AddFull ==
  /\ pc = "idle"
  /\ free = {}
  /\ UNCHANGED vars

-----------------------------------------------------------------------------
(* VirtIoQueue::should_notify and Transport::notify *)

\* What follows the notification: the blocking call waits for its request, the
\* other calls return the token.
AfterNotify == IF blocking THEN "wait" ELSE "idle"

\* Mutant of ShouldNotify: the flag is read as "notifications wanted".
ShouldNotifyInverted ==
  /\ pc = "should_notify"
  /\ pc' = IF no_notify THEN "notify" ELSE AfterNotify
  /\ UNCHANGED <<setting, token, rings, kicked, device, lent, failed>>

\* The load of used.flags.
ShouldNotify ==
  /\ pc = "should_notify"
  /\ pc' = IF no_notify THEN AfterNotify ELSE "notify"
  /\ UNCHANGED <<setting, token, rings, kicked, device, lent, failed>>

\* The store to queue_notify.  Stores become visible in their order, so the
\* device sees the available ring before it sees the notification.
Notify ==
  /\ pc = "notify"
  /\ avail' = avail \o buffered /\ buffered' = <<>>
  /\ kicked' = TRUE
  /\ pc' = AfterNotify
  /\ UNCHANGED <<setting, token, free, used, device, lent, failed>>

\* `notify` returns an error and `?` passes it on.  The caller has no token, so
\* it can only take its buffers back.
NotifyError ==
  /\ pc = "notify"
  /\ lent' = lent \ {token}
  /\ failed' = TRUE
  /\ pc' = "idle"
  /\ UNCHANGED <<setting, token, rings, kicked, device>>

-----------------------------------------------------------------------------
(* VirtIoQueue::can_pop, peek_used and pop_used *)

\* can_pop looks at every element from last_seen_used on, popped or not.
can_pop(t) == \E k \in DOMAIN used : used[k].id = t

\* k is where pop_used(t) finds its element: the first one with that token.
Finds(t, k) == used[k].id = t /\ \A j \in 1 .. k - 1 : used[j].id # t

\* The loop that advances last_seen_used passes the first n elements.
Passes(ring, n) ==
  /\ \A j \in 1 .. n : ring[j].popped
  /\ n < Len(ring) => ~ring[n + 1].popped

pop_used(t) ==
  \E k \in DOMAIN used :
    /\ Finds(t, k)
    /\ LET ring == [used EXCEPT ![k].popped = TRUE]
       IN \E n \in 0 .. Len(ring) :
            Passes(ring, n) /\ used' = SubSeq(ring, n + 1, Len(ring))
    /\ free' = free \cup {t}
    /\ lent' = lent \ {t}

\* Mutant of WaitPop: the loop runs while can_pop, so that pop_used returns
\* NotReady and the caller takes its buffers back.
WaitPopEarly ==
  /\ pc = "wait"
  /\ ~can_pop(token)
  /\ lent' = lent \ {token}
  /\ pc' = "idle"
  /\ UNCHANGED <<setting, token, rings, kicked, device, failed>>

\* A turn of the loop of add_notify_wait_pop that finds nothing.
WaitSpin ==
  /\ pc = "wait"
  /\ ~can_pop(token)
  /\ UNCHANGED vars

\* The end of the loop of add_notify_wait_pop, and its pop_used.
WaitPop ==
  /\ pc = "wait"
  /\ pop_used(token)
  /\ pc' = "idle"
  /\ UNCHANGED <<setting, token, buffered, avail, kicked, device, failed>>

\* A client that does not block pops what peek_used returns.
PeekPop ==
  /\ ~blocking
  /\ pc = "idle"
  /\ used # <<>>
  /\ pop_used(used[1].id)
  /\ UNCHANGED <<setting, pc, token, buffered, avail, kicked, device, failed>>

-----------------------------------------------------------------------------
(* The memory system: a store leaves the store buffer. *)

Drain ==
  /\ buffered # <<>>
  /\ avail' = avail \o buffered /\ buffered' = <<>>
  /\ UNCHANGED <<setting, pc, token, free, used, kicked, device, lent, failed>>

-----------------------------------------------------------------------------
(* The device (external).  It sleeps until it is notified, and may suppress *)
(* notifications while it is awake.  Before it sleeps it allows them again  *)
(* and then looks at the available ring once more.                          *)

DevWake ==
  /\ dev = "asleep" /\ kicked
  /\ kicked' = FALSE
  /\ dev' = "awake"
  /\ no_notify' \in BOOLEAN
  /\ UNCHANGED <<setting, pc, token, rings, fetched, lent, failed>>

DevFetch ==
  /\ dev = "awake" /\ avail # <<>>
  /\ fetched' = fetched \cup {Head(avail)}
  /\ avail' = Tail(avail)
  /\ UNCHANGED <<setting, pc, token, free, buffered, used, no_notify, kicked, dev, lent,
                 failed>>

DevAllow ==
  /\ dev = "awake" /\ avail = <<>>
  /\ no_notify' = FALSE
  /\ dev' = "recheck"
  /\ UNCHANGED <<setting, pc, token, rings, kicked, fetched, lent, failed>>

DevRecheck ==
  /\ dev = "recheck"
  /\ dev' = IF avail = <<>> THEN "asleep" ELSE "awake"
  /\ no_notify' \in IF avail = <<>> THEN {FALSE} ELSE BOOLEAN
  /\ UNCHANGED <<setting, pc, token, rings, kicked, fetched, lent, failed>>

DevUse(t) ==
  /\ t \in fetched
  /\ fetched' = fetched \ {t}
  /\ used' = Append(used, [id |-> t, popped |-> FALSE])
  /\ UNCHANGED <<setting, pc, token, free, buffered, avail, no_notify, kicked, dev, lent,
                 failed>>

-----------------------------------------------------------------------------
CallStep == ShouldNotify \/ Notify \/ NotifyError \/ WaitSpin \/ WaitPop

Next ==
  \/ \E t \in Token : AddOk(t)
  \/ AddFull
  \/ CallStep
  \/ PeekPop
  \/ Drain
  \/ DevWake \/ DevFetch \/ DevAllow \/ DevRecheck
  \/ \E t \in Token : DevUse(t)

Spec == Init /\ [][Next]_vars

\* A call that has begun goes on, stores become visible, and the device keeps
\* running and finishes what it fetched.  Whether the client makes a call, and
\* which one, is up to it.
FairSpec ==
  /\ Spec
  /\ WF_vars(CallStep)
  /\ WF_vars(Drain)
  /\ WF_vars(DevWake \/ DevFetch \/ DevAllow \/ DevRecheck)
  /\ \A t \in Token : WF_vars(DevUse(t))

-----------------------------------------------------------------------------
(* Properties *)

Elements(s) == {s[k] : k \in DOMAIN s}

\* Requests the device can still reach.
WithDevice == Elements(buffered) \cup Elements(avail) \cup fetched

\* Bound for TLC.  A blocking client that goes on after a failed notification
\* pops past the request it left behind, uses its tokens again and overruns the
\* used ring; no property below says anything of what follows.
WithinContract == failed => ~blocking

TypeOK ==
  /\ blocking \in BOOLEAN /\ store_buffer \in BOOLEAN /\ failed \in BOOLEAN
  /\ pc \in {"idle", "should_notify", "notify", "wait"}
  /\ token \in Token
  /\ free \subseteq Token
  /\ buffered \in Seq(Token) /\ avail \in Seq(Token) /\ used \in Seq(UsedElem)
  /\ no_notify \in BOOLEAN /\ kicked \in BOOLEAN
  /\ dev \in {"asleep", "awake", "recheck"}
  /\ fetched \subseteq Token
  /\ lent \subseteq Token

\* No notification is lost: when the device sleeps although a request is
\* visible to it, either a notification is on its way or the driver is about to
\* send one.  `should_notify` may skip the notification only while the device
\* is certain to look at the available ring again.  It takes a machine that does
\* not let the load of used.flags overtake the store of avail.idx, and a
\* transport that has not failed to notify.
NoLostKick ==
  (~store_buffer /\ ~failed /\ dev = "asleep" /\ avail # <<>> /\ ~kicked)
    => pc \in {"should_notify", "notify"}

\* The memory a descriptor points to stays lent while the device can reach the
\* request: "the buffers must remain valid and not be accessed until a call to
\* `pop_used` with the returned token succeeds" (queue.rs, `add`).  The error of
\* a failed notification ends this: `?` returns while the request is published.
BuffersOutliveRequest == ~failed => WithDevice \subseteq lent

\* add_notify_wait_pop "notifies the device, blocks until the device uses
\* them, then pops them": a call that waits comes back, if loads do not overtake
\* stores and no notification has failed.
BlockingCallReturns ==
  (pc = "wait" /\ ~store_buffer /\ ~failed) ~> pc = "idle"

\* A free descriptor belongs to nobody else: neither the device nor an element
\* of the used ring that is still in the window refers to it.  For a client that
\* pops what peek_used returns it survives failed notifications; a blocking
\* client leaves the request of a failed call in the ring and pops past it.
FreeIsFree ==
  WithinContract => free \cap (WithDevice \cup {used[k].id : k \in DOMAIN used}) = {}

\* The device finishes every request that `add` accepted, whether or not the
\* caller waits for it, under the same two conditions.
RequestsAreServed ==
  \A t \in Token :
    (t \in WithDevice /\ ~store_buffer /\ ~failed) ~> (t \notin WithDevice \/ failed)

=============================================================================
