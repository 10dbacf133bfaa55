--------------------------- MODULE ReceiveBuffers ---------------------------
(***************************************************************************)
(* The drivers that keep a buffer in every slot of a receive queue:        *)
(* VirtIOInput (pop_pending_event) and VirtIONet (receive).  Buffer i is   *)
(* meant to travel under token i for ever: `new` hands the buffers out in  *)
(* order, and each call pops one, copies it, adds it again and asserts     *)
(* that it got the same token.                                             *)
(*                                                                         *)
(* VirtQueue and RequestQueue show what `add` and `pop_used` do; here a    *)
(* call of one of them is one step.  The device is external: it fills the  *)
(* buffers it has in any order.                                            *)
(***************************************************************************)
EXTENDS Integers, Sequences

CONSTANTS
  SIZE,        \* QUEUE_SIZE
  HDR,         \* NET_HDR_SIZE; 0 for VirtIOInput, which ignores the length
  Lens,        \* lengths the device may report
  MaxPackets   \* bound on the packets the device delivers

ASSUME SizeAssumption == SIZE \in Nat \ {0}
ASSUME LensAssumption == Lens \subseteq Nat /\ HDR \in Nat
ASSUME MaxPacketsAssumption == MaxPackets \in Nat

VARIABLES
  free,       \* avail_desc_index
  buffer,     \* the buffer each descriptor points to
  posted,     \* descriptors the device has
  used,       \* the used ring from last_seen_used on
  content,    \* the packet in each buffer, numbered from 1
  pc, token,  \* the call in progress
  saved,      \* the packet it has copied
  ret,        \* what the last call returned
  sent,       \* history: the packets the device has delivered, in order
  got         \* history: the packets calls have taken, in order: returned, or
              \* given up for an error of notify

vars == <<free, buffer, posted, used, content, pc, token, saved, ret, sent, got>>

Slot == 0 .. SIZE - 1
Packet == 0 .. MaxPackets   \* 0: not a whole packet

\* `new`: every buffer is added under its own index, which the code asserts.
Init ==
  /\ free = <<>>
  /\ buffer = [s \in Slot |-> s]
  /\ posted = Slot
  /\ used = <<>>
  /\ content = [s \in Slot |-> 0]
  /\ pc = "idle" /\ token = 0 /\ saved = 0 /\ ret = "none"
  /\ sent = <<>> /\ got = <<>>

queue == <<free, buffer, posted, used>>

-----------------------------------------------------------------------------
(* VirtIOInput::pop_pending_event and VirtIONet::receive *)

\* peek_used finds nothing: Ok(None), Err(NotReady).
PeekNone ==
  /\ pc = "idle" /\ used = <<>>
  /\ ret' = "none"
  /\ UNCHANGED <<queue, content, pc, token, saved, sent, got>>

\* Mutant of TooShort: a packet that is only a header is refused too.
TooShortStrict(len) == len <= HDR

\* receive_complete: checked_sub of the header fails.
TooShort(len) == len < HDR

\* Mutant of PeekPop: peek_used does not compare last_seen_used with used.idx.
PeekPopUnchecked ==
  /\ pc = "idle" /\ posted # {}
  /\ token' \in posted
  /\ free' = Append(free, token')
  /\ pc' = "copy"
  /\ UNCHANGED <<ret, used, buffer, posted, content, saved, sent, got>>

\* peek_used, and the same token is passed to pop_used.
PeekPop ==
  /\ pc = "idle" /\ used # <<>>
  /\ token' = used[1].id
  /\ used' = Tail(used)
  /\ free' = Append(free, used[1].id)
  /\ IF TooShort(used[1].len)
     THEN pc' = "idle" /\ ret' = "IoError"
     ELSE pc' = "copy" /\ UNCHANGED ret
  /\ UNCHANGED <<buffer, posted, content, saved, sent, got>>

\* The packet is copied out of event_buf[token] or rx_buffers[token].
Copy ==
  /\ pc = "copy"
  /\ saved' = content[token]
  /\ pc' = "add"
  /\ UNCHANGED <<queue, content, token, ret, sent, got>>

\* Mutant of StillFree: the descriptor stays at the front of avail_desc_index.
StillFreeAll == free

\* `add` takes the first free descriptor and leaves the others.
StillFree == Tail(free)

\* The buffer is added again; the call asserts that its token is the same.
AddAgain ==
  /\ pc = "add"
  /\ LET t == Head(free)
     IN /\ buffer' = [buffer EXCEPT ![t] = token]
        /\ posted' = posted \cup {t}
        /\ pc' = IF t = token THEN "notify" ELSE "panicked"
  /\ free' = StillFree
  /\ UNCHANGED <<used, content, token, saved, ret, sent, got>>

\* The device is notified, if it wants to be, and the call returns the packet.
Notified ==
  /\ pc = "notify"
  /\ pc' = "idle" /\ ret' = "some" /\ got' = Append(got, saved)
  /\ UNCHANGED <<queue, content, token, saved, sent>>

\* `notify` returns an error, which the call returns in place of the packet.
NotifyError ==
  /\ pc = "notify"
  /\ pc' = "idle" /\ ret' = "IoError" /\ got' = Append(got, saved)
  /\ UNCHANGED <<queue, content, token, saved, sent>>

-----------------------------------------------------------------------------
(* The device (external).  Until it publishes a buffer as used it may have  *)
(* written any part of it.                                                  *)

DevWrite(t) ==
  /\ t \in posted
  /\ content' = [content EXCEPT ![buffer[t]] = 0]
  /\ UNCHANGED <<queue, pc, token, saved, ret, sent, got>>

DevDeliver(t, n) ==
  /\ t \in posted
  /\ Len(sent) < MaxPackets
  /\ posted' = posted \ {t}
  /\ content' = [content EXCEPT ![buffer[t]] = Len(sent) + 1]
  /\ used' = Append(used, [id |-> t, len |-> n])
  /\ sent' = Append(sent, Len(sent) + 1)
  /\ UNCHANGED <<free, buffer, pc, token, saved, ret, got>>

CallStep == PeekPop \/ Copy \/ AddAgain \/ Notified \/ NotifyError

Next ==
  \/ PeekNone
  \/ CallStep
  \/ \E t \in Slot : DevWrite(t)
  \/ \E t \in Slot, n \in Lens : DevDeliver(t, n)

Spec == Init /\ [][Next]_vars

\* The client keeps asking for packets; the device need not send any.
FairSpec == Spec /\ WF_vars(CallStep)

-----------------------------------------------------------------------------
(* Properties *)

UsedElem == [id : Slot, len : Nat]

TypeOK ==
  /\ free \in Seq(Slot)
  /\ buffer \in [Slot -> Slot]
  /\ posted \subseteq Slot
  /\ used \in Seq(UsedElem)
  /\ content \in [Slot -> Packet]
  /\ pc \in {"idle", "copy", "add", "notify", "panicked"}
  /\ token \in Slot /\ saved \in Packet
  /\ ret \in {"none", "some", "IoError"}
  /\ sent \in Seq(Packet) /\ got \in Seq(Packet)

\* assert_eq!(new_token, token): the buffer that has just been popped always
\* gets its own token again.
SameTokenAgain == pc # "panicked"

\* Between calls every buffer is in the queue: with the device, or used and not
\* yet popped.  The driver never loses a buffer, not even when it cannot notify.
EveryBufferInQueue ==
  pc = "idle" => posted \cup {used[k].id : k \in DOMAIN used} = Slot

\* The buffer a call reads is not with the device: it is popped before it is
\* copied and added only after it has been copied.
ReadsOwnBuffer == pc \in {"copy", "add"} => token \notin posted

\* Calls take the packets the device delivered, each once, all of them, in its
\* order and unchanged: what was taken, what this call holds and what is still
\* in the used ring make up everything that was sent.  A packet that was taken
\* is returned, unless `notify` failed in that very call.
NothingLostOrTorn ==
  LET held == CASE pc = "copy" -> <<content[token]>>
                [] pc \in {"add", "notify"} -> <<saved>>
                [] OTHER -> <<>>
  IN sent = got \o held \o [k \in DOMAIN used |-> content[buffer[used[k].id]]]

\* Every packet that was delivered is taken by some call.
EveryPacketTaken ==
  \A p \in 1 .. MaxPackets : Len(sent) >= p ~> Len(got) >= p

=============================================================================
