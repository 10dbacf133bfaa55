------------------------- MODULE ReceiveBuffersProof -------------------------
(***************************************************************************)
(* Proofs about ReceiveBuffers, for every queue size, buffer length and    *)
(* number of packets, and every order in which the device uses buffers.    *)
(***************************************************************************)
EXTENDS ReceiveBuffers, SequenceTheorems, TLAPS

\* The empty sequence has every type.
LEMMA EmptyTyped == \A S : <<>> \in Seq(S)
  OBVIOUS

\* The types hold at first.
LEMMA InitTypeOK == Init => TypeOK
<1>1. 0 \in Slot /\ 0 \in Packet
  BY SizeAssumption, MaxPacketsAssumption DEF Slot, Packet
<1> QED
  BY <1>1, EmptyTyped DEF Init, TypeOK

\* The element that peek_used looks at, and what pop_used leaves of the ring.
LEMMA FirstUsed ==
  ASSUME TypeOK, used # <<>>
  PROVE  /\ 1 \in 1 .. Len(used) /\ used[1].id \in Slot /\ used[1].len \in Nat
         /\ Tail(used) \in Seq(UsedElem)
         /\ Len(Tail(used)) = Len(used) - 1
         /\ \A k \in 1 .. Len(Tail(used)) : Tail(used)[k] = used[k + 1]
<1>1. used \in Seq(UsedElem)
  BY DEF TypeOK
<1>2. 1 \in 1 .. Len(used)
  BY <1>1, EmptySeq
<1>3. used[1] \in UsedElem
  BY <1>1, <1>2, ElementOfSeq
<1>4. used[1].id \in Slot /\ used[1].len \in Nat
  BY <1>3 DEF UsedElem
<1> QED
  BY <1>1, <1>2, <1>4, HeadTailProperties

-----------------------------------------------------------------------------
(* The tokens.  Whichever buffer the device uses next, the free list is     *)
(* empty except while a call holds a buffer, and then it holds that         *)
(* buffer's descriptor and nothing else; so `add` cannot return another.    *)
(* A descriptor is with the device, in the used ring (once) or held.        *)

Held == pc \in {"copy", "add"}

RingInv ==
  /\ SameTokenAgain
  /\ buffer = [s \in Slot |-> s]
  /\ free = IF Held THEN <<token>> ELSE <<>>
  /\ Held => token \notin posted /\ \A k \in 1 .. Len(used) : used[k].id # token
  /\ \A k \in 1 .. Len(used) : used[k].id \notin posted /\ used[k].len >= HDR
  /\ \A j, k \in 1 .. Len(used) : used[j].id = used[k].id => j = k
  /\ \A s \in Slot : \/ s \in posted
                     \/ Held /\ s = token
                     \/ \E k \in 1 .. Len(used) : used[k].id = s

WholePackets == \A n \in Lens : n >= HDR

\* Every step keeps the types.
LEMMA NextTypeOK == TypeOK /\ RingInv /\ [Next]_vars => TypeOK'
<1> SUFFICES ASSUME TypeOK, RingInv, [Next]_vars PROVE TypeOK'
  OBVIOUS
<1>1. CASE PeekNone
  BY <1>1 DEF TypeOK, PeekNone, queue
<1>2. CASE PeekPop
  <2>1. token' \in Slot /\ used' \in Seq(UsedElem)
    BY <1>2, FirstUsed DEF PeekPop
  <2>2. free' \in Seq(Slot)
    BY <1>2, FirstUsed, AppendProperties DEF PeekPop, TypeOK
  <2> QED
    BY <1>2, <2>1, <2>2 DEF TypeOK, PeekPop
<1>3. CASE Copy
  BY <1>3 DEF TypeOK, Copy, queue
<1>4. CASE AddAgain
  <2>1. free = <<token>> /\ token \in Slot
    BY <1>4 DEF RingInv, Held, AddAgain, TypeOK
  <2>2. free' = <<>>
    BY <1>4, <2>1 DEF AddAgain, StillFree
  <2>3. Head(free) = token
    BY <2>1
  <2>4. buffer' \in [Slot -> Slot] /\ posted' \subseteq Slot
    BY <1>4, <2>1, <2>3 DEF AddAgain, TypeOK
  <2> QED
    BY <1>4, <2>2, <2>4, EmptyTyped DEF AddAgain, TypeOK
<1>5. CASE Notified
  BY <1>5, AppendProperties DEF TypeOK, Notified, queue
<1>6. CASE NotifyError
  BY <1>6, AppendProperties DEF TypeOK, NotifyError, queue
<1>7. ASSUME NEW t \in Slot, DevWrite(t) PROVE TypeOK'
  <2>1. 0 \in Packet
    BY MaxPacketsAssumption DEF Packet
  <2> QED
    BY <1>7, <2>1 DEF TypeOK, DevWrite, queue
<1>8. ASSUME NEW t \in Slot, NEW n \in Lens, DevDeliver(t, n) PROVE TypeOK'
  <2>1. Len(sent) + 1 \in Packet
    BY <1>8, MaxPacketsAssumption, LenProperties DEF TypeOK, DevDeliver, Packet
  <2>2. sent' \in Seq(Packet) /\ content' \in [Slot -> Packet]
    BY <1>8, <2>1, AppendProperties DEF TypeOK, DevDeliver
  <2>3. [id |-> t, len |-> n] \in UsedElem
    BY LensAssumption DEF UsedElem
  <2>4. used' \in Seq(UsedElem)
    BY <1>8, <2>3, AppendProperties DEF TypeOK, DevDeliver
  <2> QED
    BY <1>8, <2>2, <2>4 DEF TypeOK, DevDeliver
<1>9. CASE UNCHANGED vars
  BY <1>9 DEF TypeOK, vars
<1> QED
  BY <1>1, <1>2, <1>3, <1>4, <1>5, <1>6, <1>7, <1>8, <1>9 DEF Next, CallStep

\* The ring at first.
LEMMA InitRing == Init => RingInv
  BY DEF Init, RingInv, Held, SameTokenAgain

\* Every step keeps the ring.
LEMMA NextRing ==
  ASSUME WholePackets
  PROVE  TypeOK /\ RingInv /\ [Next]_vars => RingInv'
<1> SUFFICES ASSUME TypeOK, RingInv, [Next]_vars PROVE RingInv'
  OBVIOUS
<1> USE DEF RingInv, Held, SameTokenAgain
<1>1. CASE PeekNone
  BY <1>1 DEF PeekNone, queue
<1>2. CASE PeekPop
  <2>1. free = <<>> /\ free' = <<used[1].id>> /\ token' = used[1].id
    BY <1>2 DEF PeekPop
  <2>2. pc' = "copy"
    <3>1. 1 \in 1 .. Len(used) /\ used[1].len \in Nat
      BY <1>2, FirstUsed DEF PeekPop
    <3>2. ~TooShort(used[1].len)
      BY <3>1, LensAssumption DEF TooShort
    <3> QED
      BY <1>2, <3>2 DEF PeekPop
  <2>3. /\ Len(used') = Len(used) - 1 /\ Len(used) \in Nat /\ 1 \in 1 .. Len(used)
        /\ \A k \in 1 .. Len(used') : used'[k] = used[k + 1]
    BY <1>2, FirstUsed DEF PeekPop, TypeOK
  <2>4. /\ token' \notin posted' /\ \A k \in 1 .. Len(used') : used'[k].id # token'
        /\ \A k \in 1 .. Len(used') : used'[k].id \notin posted' /\ used'[k].len >= HDR
        /\ \A j, k \in 1 .. Len(used') : used'[j].id = used'[k].id => j = k
    BY <1>2, <2>1, <2>3 DEF PeekPop
  <2>5. ASSUME NEW s \in Slot, s \notin posted', s # token'
        PROVE  \E k \in 1 .. Len(used') : used'[k].id = s
    <3>1. PICK k \in 1 .. Len(used) : used[k].id = s
      BY <1>2, <2>5 DEF PeekPop
    <3>2. k # 1 /\ k - 1 \in 1 .. Len(used')
      BY <2>1, <2>3, <2>5, <3>1
    <3>3. used'[k - 1] = used[(k - 1) + 1] /\ (k - 1) + 1 = k
      BY <2>3, <3>2
    <3> QED
      BY <3>1, <3>2, <3>3
  <2> QED
    BY <1>2, <2>1, <2>2, <2>4, <2>5 DEF PeekPop
<1>3. CASE Copy
  BY <1>3 DEF Copy, queue
<1>4. CASE AddAgain
  <2>1. free = <<token>> /\ Head(free) = token /\ free' = <<>>
    BY <1>4 DEF AddAgain, StillFree
  <2>2. pc' = "notify" /\ posted' = posted \cup {token} /\ buffer' = buffer
    BY <1>4, <2>1 DEF AddAgain, TypeOK
  <2> QED
    BY <1>4, <2>1, <2>2 DEF AddAgain
<1>5. CASE Notified
  BY <1>5 DEF Notified, queue
<1>6. CASE NotifyError
  BY <1>6 DEF NotifyError, queue
<1>7. ASSUME NEW t \in Slot, DevWrite(t) PROVE RingInv'
  BY <1>7 DEF DevWrite, queue
<1>8. ASSUME NEW t \in Slot, NEW n \in Lens, DevDeliver(t, n) PROVE RingInv'
  <2> DEFINE elem == [id |-> t, len |-> n]
  <2>1. elem \in UsedElem /\ n >= HDR
    BY LensAssumption DEF UsedElem, WholePackets
  <2>2. /\ Len(used') = Len(used) + 1 /\ Len(used) \in Nat
        /\ \A k \in 1 .. Len(used) : used'[k] = used[k]
        /\ used'[Len(used) + 1] = elem
    BY <1>8, <2>1, AppendProperties, LenProperties DEF DevDeliver, TypeOK
  <2>3. /\ t \in posted /\ posted' = posted \ {t}
        /\ UNCHANGED <<free, buffer, pc, token>>
    BY <1>8 DEF DevDeliver
  <2>4. /\ \A k \in 1 .. Len(used') : used'[k].id \notin posted' /\ used'[k].len >= HDR
        /\ Held => \A k \in 1 .. Len(used') : used'[k].id # token
    BY <2>1, <2>2, <2>3
  <2>5. \A j, k \in 1 .. Len(used') : used'[j].id = used'[k].id => j = k
    BY <2>2, <2>3
  <2>6. ASSUME NEW s \in Slot, s \notin posted', ~(Held /\ s = token)
        PROVE  \E k \in 1 .. Len(used') : used'[k].id = s
    <3>1. CASE s = t
      BY <2>2, <3>1
    <3>2. CASE s # t
      <4>1. PICK k \in 1 .. Len(used) : used[k].id = s
        BY <2>3, <2>6, <3>2
      <4> QED
        BY <2>2, <4>1
    <3> QED
      BY <3>1, <3>2
  <2> QED
    BY <2>3, <2>4, <2>5, <2>6
<1>9. CASE UNCHANGED vars
  BY <1>9 DEF vars
<1> QED
  BY <1>1, <1>2, <1>3, <1>4, <1>5, <1>6, <1>7, <1>8, <1>9 DEF Next, CallStep

\* The ring, always.
LEMMA AlwaysRing ==
  ASSUME WholePackets
  PROVE  Spec => [](TypeOK /\ RingInv)
<1>1. TypeOK /\ RingInv /\ [Next]_vars => TypeOK' /\ RingInv'
  BY NextTypeOK, NextRing
<1> QED
  BY <1>1, InitTypeOK, InitRing, PTL DEF Spec

\* If every buffer the device uses holds at least a header, the assertion that
\* a buffer gets its own token again cannot fail, in input or in net, whatever
\* the order in which buffers are used and whether or not notify fails.
THEOREM SameTokenAlways ==
  ASSUME WholePackets
  PROVE  Spec => []SameTokenAgain
<1>1. RingInv => SameTokenAgain
  BY DEF RingInv
<1> QED
  BY <1>1, AlwaysRing, PTL

\* Under the same assumption a call never reads a buffer the device may write.
THEOREM NeverReadsPostedBuffer ==
  ASSUME WholePackets
  PROVE  Spec => []ReadsOwnBuffer
<1>1. RingInv => ReadsOwnBuffer
  BY DEF RingInv, Held, ReadsOwnBuffer
<1> QED
  BY <1>1, AlwaysRing, PTL

\* Under the same assumption no buffer is ever lost from the queue: a failed
\* notify costs the packet but not the buffer.
THEOREM NoBufferLost ==
  ASSUME WholePackets
  PROVE  Spec => []EveryBufferInQueue
<1>1. TypeOK /\ RingInv => EveryBufferInQueue
  <2> SUFFICES ASSUME TypeOK, RingInv, pc = "idle"
               PROVE  posted \cup {used[k].id : k \in DOMAIN used} = Slot
    BY DEF EveryBufferInQueue
  <2>1. used \in Seq(UsedElem) /\ DOMAIN used = 1 .. Len(used)
    BY LenProperties DEF TypeOK
  <2>2. \A k \in DOMAIN used : used[k] \in UsedElem
    BY <2>1, ElementOfSeq
  <2>3. \A k \in DOMAIN used : used[k].id \in Slot
    BY <2>2 DEF UsedElem
  <2>4. \A s \in Slot : s \in posted \/ \E k \in DOMAIN used : used[k].id = s
    BY <2>1 DEF RingInv, Held
  <2> QED
    BY <2>3, <2>4, ZenonT(30) DEF TypeOK
<1> QED
  BY <1>1, AlwaysRing, PTL

-----------------------------------------------------------------------------
(* The packets.  Element by element: got is a prefix of sent, then comes    *)
(* the packet a call holds, then those in the used ring.  The device cannot *)
(* disturb the latter two, because it writes only to buffers it has.        *)

InCall == IF pc \in {"copy", "add", "notify"} THEN 1 ELSE 0

PacketInv ==
  /\ Len(sent) = Len(got) + InCall + Len(used)
  /\ \A i \in 1 .. Len(got) : sent[i] = got[i]
  /\ pc = "copy" => sent[Len(got) + 1] = content[token]
  /\ pc \in {"add", "notify"} => sent[Len(got) + 1] = saved
  /\ \A k \in 1 .. Len(used) : sent[Len(got) + InCall + k] = content[used[k].id]

\* No packet at first.
LEMMA InitPacket == Init => PacketInv
  BY DEF Init, PacketInv, InCall

\* The lengths of the sequences.
LEMMA Lengths == TypeOK => Len(used) \in Nat /\ Len(got) \in Nat /\ Len(sent) \in Nat
  BY LenProperties DEF TypeOK

\* The ids of used buffers.
LEMMA UsedIds == TypeOK => \A k \in 1 .. Len(used) : used[k].id \in Slot
<1> SUFFICES ASSUME TypeOK, NEW k \in 1 .. Len(used) PROVE used[k].id \in Slot
  OBVIOUS
<1>1. used[k] \in UsedElem
  BY ElementOfSeq DEF TypeOK
<1> QED
  BY <1>1 DEF UsedElem

\* Every step keeps the packets.
LEMMA NextPacket ==
  ASSUME WholePackets
  PROVE  TypeOK /\ RingInv /\ PacketInv /\ [Next]_vars => PacketInv'
<1> SUFFICES ASSUME TypeOK, RingInv, PacketInv, [Next]_vars PROVE PacketInv'
  OBVIOUS
<1>0. /\ Len(used) \in Nat /\ Len(got) \in Nat /\ Len(sent) \in Nat
      /\ \A k \in 1 .. Len(used) : used[k].id \in Slot
  BY Lengths, UsedIds
<1>1. CASE PeekNone
  BY <1>1 DEF PeekNone, queue, PacketInv, InCall
<1>2. CASE PeekPop
  <2>1. pc = "idle" /\ token' = used[1].id /\ used' = Tail(used)
        /\ UNCHANGED <<content, saved, sent, got>>
    BY <1>2 DEF PeekPop
  <2>2. /\ 1 \in 1 .. Len(used) /\ used[1].len \in Nat
        /\ Len(used') = Len(used) - 1
        /\ \A k \in 1 .. Len(used') : used'[k] = used[k + 1]
    BY <1>2, FirstUsed DEF PeekPop
  <2>3. pc' = "copy"
    <3>1. ~TooShort(used[1].len)
      BY <2>2, LensAssumption DEF RingInv, TooShort
    <3> QED
      BY <1>2, <3>1 DEF PeekPop
  <2>4. sent[Len(got) + 1] = content[used[1].id]
    BY <1>0, <2>1, <2>2 DEF PacketInv, InCall
  <2>5. ASSUME NEW k \in 1 .. Len(used')
        PROVE  sent[Len(got) + 1 + k] = content[used'[k].id]
    <3>1. k + 1 \in 1 .. Len(used) /\ Len(got) + 0 + (k + 1) = Len(got) + 1 + k
      BY <1>0, <2>2
    <3>2. sent[Len(got) + 0 + (k + 1)] = content[used[k + 1].id]
      BY <2>1, <3>1 DEF PacketInv, InCall
    <3> QED
      BY <2>2, <3>1, <3>2
  <2>6. InCall = 0 /\ InCall' = 1
    BY <2>1, <2>3 DEF InCall
  <2>7. Len(sent') = Len(got') + InCall' + Len(used')
    <3>1. Len(sent) = Len(got) + 0 + Len(used)
      BY <2>6 DEF PacketInv
    <3>2. Len(used') = Len(used) - 1
      BY <2>2
    <3>3. Len(sent) = Len(got) + 1 + Len(used')
      BY <1>0, <3>1, <3>2
    <3> QED
      BY <2>1, <2>6, <3>3
  <2> QED
    BY <2>1, <2>3, <2>4, <2>5, <2>6, <2>7, ZenonT(30) DEF PacketInv
<1>3. CASE Copy
  BY <1>3 DEF Copy, queue, PacketInv, InCall
<1>4. CASE AddAgain
  <2>1. pc = "add" /\ pc' = "notify"
    BY <1>4 DEF AddAgain, RingInv, Held
  <2> QED
    BY <1>4, <2>1 DEF AddAgain, PacketInv, InCall
<1>5. CASE Notified \/ NotifyError
  <2>1. pc = "notify" /\ pc' = "idle" /\ UNCHANGED <<used, content, sent>>
    BY <1>5 DEF Notified, NotifyError, queue
  <2>2. /\ Len(got') = Len(got) + 1
        /\ \A i \in 1 .. Len(got) : got'[i] = got[i]
        /\ got'[Len(got) + 1] = saved
    <3>1. got' = Append(got, saved)
      BY <1>5 DEF Notified, NotifyError
    <3> QED
      BY <3>1, AppendProperties DEF TypeOK
  <2>3. InCall = 1 /\ InCall' = 0
    BY <2>1 DEF InCall
  <2>4. \A i \in 1 .. Len(got') : sent'[i] = got'[i]
    BY <1>0, <2>1, <2>2 DEF PacketInv
  <2>5. \A k \in 1 .. Len(used') : sent'[Len(got') + 0 + k] = content'[used'[k].id]
    <3> TAKE k \in 1 .. Len(used')
    <3>1. k \in 1 .. Len(used) /\ Len(got') + 0 + k = Len(got) + 1 + k
      BY <1>0, <2>1, <2>2
    <3> QED
      BY <2>1, <2>3, <3>1 DEF PacketInv
  <2>6. Len(sent') = Len(got') + 0 + Len(used')
    BY <1>0, <2>1, <2>2, <2>3 DEF PacketInv
  <2> QED
    BY <2>1, <2>3, <2>4, <2>5, <2>6, ZenonT(30) DEF PacketInv
<1>6. ASSUME NEW t \in Slot, DevWrite(t) PROVE PacketInv'
  <2>1. t \in posted /\ content' = [content EXCEPT ![t] = 0]
        /\ UNCHANGED <<used, pc, token, saved, sent, got>>
    BY <1>6 DEF DevWrite, queue, RingInv
  <2>2. \A k \in 1 .. Len(used) : content'[used[k].id] = content[used[k].id]
    BY <1>0, <2>1 DEF RingInv, TypeOK
  <2>3. pc = "copy" => content'[token] = content[token]
    BY <2>1 DEF RingInv, Held, TypeOK
  <2> QED
    BY <2>1, <2>2, <2>3 DEF PacketInv, InCall
<1>7. ASSUME NEW t \in Slot, NEW n \in Lens, DevDeliver(t, n) PROVE PacketInv'
  <2> DEFINE elem == [id |-> t, len |-> n]
  <2>1. t \in posted /\ content' = [content EXCEPT ![t] = Len(sent) + 1]
        /\ used' = Append(used, elem) /\ sent' = Append(sent, Len(sent) + 1)
        /\ UNCHANGED <<pc, token, saved, got>>
    BY <1>7 DEF DevDeliver, RingInv
  <2>2. elem \in UsedElem /\ elem.id = t
    BY LensAssumption DEF UsedElem
  <2>3. /\ Len(used') = Len(used) + 1
        /\ \A k \in 1 .. Len(used) : used'[k] = used[k]
        /\ used'[Len(used) + 1] = elem
    BY <2>1, <2>2, AppendProperties DEF TypeOK
  <2>4. Len(sent) + 1 \in Packet
    BY <1>0, <1>7, MaxPacketsAssumption DEF DevDeliver, Packet
  <2>5. /\ Len(sent') = Len(sent) + 1
        /\ \A i \in 1 .. Len(sent) : sent'[i] = sent[i]
        /\ sent'[Len(sent) + 1] = Len(sent) + 1
    BY <2>1, <2>4, AppendProperties DEF TypeOK
  <2>6. \A k \in 1 .. Len(used) : content'[used[k].id] = content[used[k].id]
    BY <1>0, <2>1 DEF RingInv, TypeOK
  <2>7. pc = "copy" => content'[token] = content[token]
    BY <2>1 DEF RingInv, Held, TypeOK
  <2>8. content'[t] = Len(sent) + 1
    BY <2>1 DEF TypeOK
  <2>9. InCall \in {0, 1} /\ InCall' = InCall
    BY <2>1 DEF InCall
  <2>10. ASSUME NEW k \in 1 .. Len(used')
         PROVE  sent'[Len(got) + InCall + k] = content'[used'[k].id]
    <3>1. CASE k \in 1 .. Len(used)
      <4>1. Len(got) + InCall + k \in 1 .. Len(sent)
        BY <1>0, <2>9, <3>1 DEF PacketInv
      <4> QED
        BY <2>3, <2>5, <2>6, <3>1, <4>1 DEF PacketInv
    <3>2. CASE k = Len(used) + 1
      <4>1. Len(got) + InCall + k = Len(sent) + 1
        BY <1>0, <2>9, <3>2 DEF PacketInv
      <4> QED
        BY <2>2, <2>3, <2>5, <2>8, <3>2, <4>1
    <3> QED
      BY <1>0, <2>3, <3>1, <3>2
  <2>11. /\ \A i \in 1 .. Len(got) : sent'[i] = got[i]
         /\ pc # "idle" /\ InCall = 1 => sent'[Len(got) + 1] = sent[Len(got) + 1]
    BY <1>0, <2>5, <2>9 DEF PacketInv
  <2>12. pc \in {"copy", "add", "notify"} => InCall = 1 /\ pc # "idle"
    BY DEF InCall
  <2>13. Len(sent') = Len(got') + InCall' + Len(used')
    BY <1>0, <2>1, <2>3, <2>5, <2>9 DEF PacketInv
  <2> QED
    BY <2>1, <2>7, <2>9, <2>10, <2>11, <2>12, <2>13, ZenonT(30) DEF PacketInv
<1>8. CASE UNCHANGED vars
  BY <1>8 DEF vars, PacketInv, InCall
<1> QED
  BY <1>1, <1>2, <1>3, <1>4, <1>5, <1>6, <1>7, <1>8 DEF Next, CallStep

\* PacketInv is NothingLostOrTorn, element by element.
LEMMA PacketsInOrder == TypeOK /\ RingInv /\ PacketInv => NothingLostOrTorn
<1> SUFFICES ASSUME TypeOK, RingInv, PacketInv PROVE NothingLostOrTorn
  OBVIOUS
<1> DEFINE held == CASE pc = "copy" -> <<content[token]>>
                     [] pc \in {"add", "notify"} -> <<saved>>
                     [] OTHER -> <<>>
           ring == [k \in DOMAIN used |-> content[buffer[used[k].id]]]
<1>0. /\ Len(used) \in Nat /\ Len(got) \in Nat /\ Len(sent) \in Nat
      /\ \A k \in 1 .. Len(used) : used[k].id \in Slot
      /\ DOMAIN used = 1 .. Len(used)
  BY Lengths, UsedIds, LenProperties DEF TypeOK
<1>1. /\ held \in Seq(Packet) /\ Len(held) = InCall /\ InCall \in {0, 1}
      /\ InCall = 1 => held[1] = sent[Len(got) + 1]
  <2>1. CASE pc = "copy"
    <3>1. held = <<content[token]>> /\ content[token] \in Packet
      BY <2>1 DEF TypeOK
    <3> HIDE DEF held
    <3> QED  BY <2>1, <3>1 DEF PacketInv, InCall
  <2>2. CASE pc \in {"add", "notify"}
    <3>1. held = <<saved>> /\ saved \in Packet
      BY <2>2 DEF TypeOK
    <3> HIDE DEF held
    <3> QED  BY <2>2, <3>1 DEF PacketInv, InCall
  <2>3. CASE pc \notin {"copy", "add", "notify"}
    <3>1. held = <<>>
      BY <2>3
    <3> HIDE DEF held
    <3> QED  BY <2>3, <3>1, EmptyTyped DEF InCall
  <2> QED
    BY <2>1, <2>2, <2>3
<1>2. /\ ring \in Seq(Packet) /\ Len(ring) = Len(used)
      /\ \A k \in 1 .. Len(used) : ring[k] = content[used[k].id]
  <2>1. \A k \in 1 .. Len(used) : content[buffer[used[k].id]] = content[used[k].id]
                                  /\ content[used[k].id] \in Packet
    BY <1>0 DEF RingInv, TypeOK
  <2>2. ring \in [1 .. Len(used) -> Packet]
    BY <1>0, <2>1
  <2>3. \A k \in 1 .. Len(used) : ring[k] = content[used[k].id]
    BY <1>0, <2>1
  <2> HIDE DEF ring
  <2> QED
    BY <1>0, <2>2, <2>3
<1> HIDE DEF held, ring
<1>3. /\ got \o held \in Seq(Packet) /\ Len(got \o held) = Len(got) + InCall
      /\ \A i \in 1 .. Len(got) + InCall :
           (got \o held)[i] = IF i <= Len(got) THEN got[i] ELSE held[i - Len(got)]
  BY <1>1, ConcatProperties, ZenonT(30) DEF TypeOK
<1> DEFINE all == (got \o held) \o ring
<1>4. /\ all \in Seq(Packet) /\ Len(all) = Len(sent)
      /\ \A i \in 1 .. Len(sent) :
           all[i] = IF i <= Len(got) + InCall THEN (got \o held)[i]
                    ELSE ring[i - (Len(got) + InCall)]
  <2> HIDE DEF PacketInv
  <2>1. /\ all \in Seq(Packet) /\ Len(all) = Len(got \o held) + Len(ring)
        /\ \A i \in 1 .. Len(got \o held) + Len(ring) :
             all[i] = IF i <= Len(got \o held) THEN (got \o held)[i]
                      ELSE ring[i - Len(got \o held)]
    BY <1>2, <1>3, ConcatProperties
  <2>2. Len(got \o held) + Len(ring) = Len(sent)
    BY <1>2, <1>3 DEF PacketInv
  <2> HIDE DEF all
  <2> QED
    BY <1>3, <2>1, <2>2
<1> HIDE DEF all
<1>5. ASSUME NEW i \in 1 .. Len(sent) PROVE sent[i] = all[i]
  <2>1. CASE i <= Len(got)
    BY <1>0, <1>1, <1>3, <1>4, <2>1 DEF PacketInv
  <2>2. CASE Len(got) < i /\ i <= Len(got) + InCall
    <3>1. InCall = 1 /\ i = Len(got) + 1 /\ i - Len(got) = 1
      BY <1>0, <1>1, <2>2
    <3>2. i \in 1 .. Len(got) + InCall
      BY <1>0, <3>1
    <3>3. all[i] = (got \o held)[i]
      BY <1>4, <2>2, ZenonT(30)
    <3>4. (got \o held)[i] = held[1]
      BY <1>0, <1>3, <3>1, <3>2
    <3> QED
      BY <1>1, <3>1, <3>3, <3>4
  <2>3. CASE i > Len(got) + InCall
    <3> DEFINE k == i - (Len(got) + InCall)
    <3>1. k \in 1 .. Len(used) /\ i = Len(got) + InCall + k
      BY <1>0, <1>1, <2>3 DEF PacketInv
    <3>2. all[i] = ring[k]
      BY <1>0, <1>1, <1>4, <2>3
    <3> HIDE DEF k
    <3> QED
      BY <1>2, <3>1, <3>2 DEF PacketInv
  <2> QED
    BY <1>0, <1>1, <2>1, <2>2, <2>3
<1>6. sent = all
  <2>1. sent \in Seq(Packet)
    BY DEF TypeOK
  <2> QED
    BY <1>4, <1>5, <2>1, SeqEqual
<1> QED
  BY <1>6 DEF all, held, ring, NothingLostOrTorn

\* If every used buffer holds at least a header, calls take every packet the
\* device delivers, unchanged and in order, also when notify fails now and then.
THEOREM PacketsNeverLostOrTorn ==
  ASSUME WholePackets
  PROVE  Spec => []NothingLostOrTorn
<1>1. TypeOK /\ RingInv /\ PacketInv /\ [Next]_vars => PacketInv'
  BY NextPacket
<1> QED
  BY <1>1, AlwaysRing, InitPacket, PacketsInOrder, PTL DEF Spec

=============================================================================
