--------------------------- MODULE VirtQueueProof ---------------------------
(***************************************************************************)
(* Proofs about VirtQueue, for every SIZE and every index width.           *)
(*                                                                         *)
(* First the ownership of descriptors (OwnershipInv), for every client,    *)
(* disciplined or not.  Then the two rings, and that VirtQueue implements  *)
(* RequestQueue, for a client that submits only while no element of the    *)
(* used ring is popped out of order (DrainFirst); without it the           *)
(* statements are false.                                                   *)
(*                                                                         *)
(* RingInv says what each slot between two indices holds.  The heads in a  *)
(* ring are distinct tokens and at least one token is never among them     *)
(* when a slot is about to be written, so that fewer than SIZE slots are   *)
(* in use: a pigeonhole argument (FewerThanSize).                          *)
(***************************************************************************)
EXTENDS VirtQueue, FiniteSetTheorems, TLAPS

-----------------------------------------------------------------------------
(* Arithmetic of ring indices and descriptor numbers *)

\* A descriptor number is its own remainder, as in desc[id as usize % SIZE].
LEMMA DescMod == \A d \in Desc : d % SIZE = d
BY SizeAssumption DEF Desc

\* Any ring index addresses a slot of a ring.
LEMMA SlotInRing == \A i \in Nat : i % SIZE \in Desc
BY SizeAssumption DEF Desc

\* The modulus of the indices.
LEMMA IdxModPositive == IdxMod \in Nat /\ IdxMod > 0 /\ IdxMod >= SIZE
BY SizeAssumption, IdxModAssumption

\* wrapping_add stays within the index width.
LEMMA SuccInIdx == \A i \in Idx : Succ(i) \in Idx
BY IdxModPositive DEF Idx, Succ

\* The types at first.
LEMMA ZeroTypes == 0 \in Desc /\ 0 \in Idx
BY SizeAssumption, IdxModPositive DEF Desc, Idx

-----------------------------------------------------------------------------
(* Types *)

\* The empty list is a list of anything.
LEMMA EmptyTyped ==
  /\ <<>> \in Seq(Desc) /\ Len(<<>>) = 0
  /\ <<>> \in Seq(Buf)
  /\ <<>> \in Seq(Buf \cup {NoBuf})
OBVIOUS

\* VirtIoQueue::new starts in a well-typed state.
LEMMA InitTypeOK == Init => TypeOK
<1> SUFFICES ASSUME Init PROVE TypeOK
  BY Zenon
<1>1. DriverType
  BY SizeAssumption, ZeroTypes DEF Init, DriverType, Desc
<1>2. NullDescriptor \in Descriptor
  BY ZeroTypes, Zenon DEF NullDescriptor, Descriptor
<1>3. SharedType
  BY <1>2, ZeroTypes, Zenon DEF Init, SharedType
<1>4. CallType
  BY ZeroTypes DEF Init, CallType, Ok
<1>5. DeviceType
  <2>1. writing \in BOOLEAN
    BY ZenonT(30) DEF Init
  <2>2. QED
    BY <2>1, EmptyTyped, ZeroTypes, Zenon DEF Init, DeviceType
<1>6. HistoryType
  BY DEF Init, HistoryType
<1>7. QED
  BY <1>1, <1>3, <1>4, <1>5, <1>6, Zenon DEF TypeOK

\* A group of variables that a step leaves alone keeps its types.
LEMMA TypeFrame ==
  /\ DriverType /\ UNCHANGED driver => DriverType'
  /\ SharedType /\ UNCHANGED shared => SharedType'
  /\ CallType /\ UNCHANGED call => CallType'
  /\ DeviceType /\ UNCHANGED device => DeviceType'
  /\ HistoryType /\ UNCHANGED history => HistoryType'
<1>1. DriverType /\ UNCHANGED driver => DriverType'
  BY Zenon DEF DriverType, driver
<1>2. SharedType /\ UNCHANGED shared => SharedType'
  BY Zenon DEF SharedType, shared
<1>3. CallType /\ UNCHANGED call => CallType'
  BY Zenon DEF CallType, call
<1>4. DeviceType /\ UNCHANGED device => DeviceType'
  BY Zenon DEF DeviceType, device
<1>5. HistoryType /\ UNCHANGED history => HistoryType'
  BY Zenon DEF HistoryType, history
<1>6. QED
  BY <1>1, <1>2, <1>3, <1>4, <1>5, Zenon

\* The descriptor at the head of the chain being built.
LEMMA BuiltHead ==
  ASSUME OwnershipInv, pc \in {"push", "publish"}
  PROVE  /\ Len(built) \in Nat /\ Len(built) > 0 /\ built[Len(built)] \in Desc
         /\ Len(built) = Len(req)
<1>1. built \in Seq(Desc) /\ Len(built) = Len(req) /\ Len(req) > 0
  BY Zenon DEF OwnershipInv, TypeOK, CallType, CallInv
<1>2. QED
  BY <1>1

\* The next free descriptor, which AddDesc takes.
LEMMA FreeHead ==
  ASSUME OwnershipInv, pc = "add"
  PROVE  /\ Len(avail_desc_index) > 0 /\ avail_desc_index # <<>>
         /\ Head(avail_desc_index) = avail_desc_index[1]
         /\ Head(avail_desc_index) \in Desc
         /\ Tail(avail_desc_index) \in Seq(Desc)
         /\ Len(Tail(avail_desc_index)) = Len(avail_desc_index) - 1
         /\ \A i \in 1 .. Len(Tail(avail_desc_index)) :
              Tail(avail_desc_index)[i] = avail_desc_index[i + 1]
<1>1. /\ avail_desc_index \in Seq(Desc) /\ built \in Seq(Desc) /\ req \in Seq(Buf)
      /\ Len(req) - Len(built) <= Len(avail_desc_index) /\ Len(built) < Len(req)
  BY Zenon DEF OwnershipInv, TypeOK, DriverType, CallType, CallInv
<1>2. Len(avail_desc_index) > 0 /\ avail_desc_index # <<>>
  BY <1>1
<1>3. QED
  BY <1>1, <1>2

\* The walk of pop_used follows the links of the chain that `add` made.
LEMMA WalkNext ==
  ASSUME OwnershipInv, pc = "walk"
  PROVE  /\ left < Len(chain[id]) /\ now = chain[id][left + 1]
         /\ now % SIZE = now
         /\ desc[now].more <=> left > 0
         /\ left > 0 => desc[now].next = chain[id][left] /\ desc[now].next \in Desc
<1>1. /\ left < Len(chain[id]) /\ now = chain[id][left + 1] /\ now \in Desc
      /\ left \in Nat /\ chain[id] \in Seq(Desc) /\ id \in Desc
  BY Zenon DEF OwnershipInv, CallInv, TypeOK, CallType, HistoryType
<1>2. left + 1 \in 1 .. Len(chain[id]) /\ (left > 0 => left \in 1 .. Len(chain[id]))
  BY <1>1
<1>3. Linked(chain[id])
  BY <1>1, Zenon DEF OwnershipInv, ChainsLinked
<1>4. /\ desc[now].more <=> left > 0
      /\ left > 0 => desc[now].next = chain[id][left]
  BY <1>1, <1>2, <1>3 DEF Linked
<1>5. QED
  BY <1>1, <1>2, <1>4, DescMod

\* The header that pop_used finds is an index of the used ring, and what it
\* reads there is a length.
LEMMA FoundInIdx ==
  ASSUME TypeOK, NEW k \in Matches(id)
  PROVE  At(k) \in Idx /\ UsedLen(At(k)) \in Nat
<1>1. /\ last_seen_used \in Nat
      /\ used_ring \in [Desc -> [id : Desc, len : Nat]]
  BY DEF TypeOK, DriverType, SharedType, Idx
<1>2. k \in Nat
  BY DEF Matches, Window
<1>3. At(k) \in Idx
  BY <1>1, <1>2, IdxModPositive DEF At, Idx
<1>4. At(k) % SIZE \in Desc
  BY <1>3, SlotInRing DEF Idx
<1>5. QED
  BY <1>1, <1>3, <1>4, Zenon DEF UsedLen

\* Every step of the driver, its client and the device keeps the types.
LEMMA NextTypeOK ==
  ASSUME OwnershipInv, Next
  PROVE  TypeOK'
<1>0. DriverType /\ SharedType /\ CallType /\ DeviceType /\ HistoryType
  BY Zenon DEF OwnershipInv, TypeOK
<1>1. ASSUME NEW r \in Requests, AddBegin(r) PROVE TypeOK'
  <2>1. CallType'
    BY <1>0, <1>1, RequestsAssumption DEF AddBegin, CallType
  <2>2. QED
    BY <1>0, <1>1, <2>1, TypeFrame, Zenon DEF AddBegin, TypeOK
<1>2. ASSUME NEW r \in Requests, AddFull(r) PROVE TypeOK'
  <2>1. CallType'
    BY <1>0, <1>2, Zenon DEF AddFull, CallType, Err
  <2>2. QED
    BY <1>0, <1>2, <2>1, TypeFrame, Zenon DEF AddFull, TypeOK
<1>3. ASSUME NEW t \in Desc, PopBegin(t) PROVE TypeOK'
  <2>1. CallType'
    BY <1>0, <1>3, Zenon DEF PopBegin, CallType
  <2>2. QED
    BY <1>0, <1>3, <2>1, TypeFrame, Zenon DEF PopBegin, TypeOK
<1>4. ASSUME NEW t \in Desc, PopNotReady(t) PROVE TypeOK'
  <2>1. CallType'
    BY <1>0, <1>4, Zenon DEF PopNotReady, CallType, Err
  <2>2. QED
    BY <1>0, <1>4, <2>1, TypeFrame, Zenon DEF PopNotReady, TypeOK
<1>5. CASE AddDesc
  <2>1. /\ Head(avail_desc_index) \in Desc /\ Tail(avail_desc_index) \in Seq(Desc)
    BY <1>5, FreeHead, Zenon DEF AddDesc
  <2>2. Len(built) \in Nat /\ Len(built) < Len(req) /\ Len(req) \in Nat
    BY <1>0, <1>5 DEF AddDesc, OwnershipInv, CallInv, CallType
  <2>3. Buffer(Len(built)) \in Buf /\ Link(Len(built)) \in Desc
    BY <1>0, <2>2, ZeroTypes DEF Buffer, Link, CallType
  <2>4. [addr |-> Buffer(Len(built)), more |-> Len(built) > 0,
         next |-> Link(Len(built))] \in Descriptor
    BY <2>2, <2>3 DEF Descriptor
  <2>5. DriverType'
    BY <1>0, <1>5, <2>1, Zenon DEF AddDesc, DriverType
  <2>6. SharedType'
    BY <1>0, <1>5, <2>4, ZenonT(30) DEF AddDesc, SharedType
  <2>7. CallType'
    BY <1>0, <1>5, <2>1 DEF AddDesc, CallType
  <2>8. QED
    BY <1>0, <1>5, <2>5, <2>6, <2>7, TypeFrame, Zenon DEF AddDesc, TypeOK
<1>6. CASE AddPush
  <2>1. built[Len(built)] \in Desc
    BY <1>6, BuiltHead, Zenon DEF AddPush
  <2>2. SharedType'
    BY <1>0, <1>6, <2>1, ZenonT(30) DEF AddPush, SharedType
  <2>3. CallType'
    BY <1>0, <1>6, Zenon DEF AddPush, CallType
  <2>4. QED
    BY <1>0, <1>6, <2>2, <2>3, TypeFrame, Zenon DEF AddPush, TypeOK
<1>7. CASE AddPublish
  <2>1. built[Len(built)] \in Desc /\ built[Len(built)] \in Nat
    BY <1>7, BuiltHead, SizeAssumption DEF AddPublish, Desc
  <2>2. SharedType'
    BY <1>0, <1>7, SuccInIdx, Zenon DEF AddPublish, SharedType
  <2>3. CallType'
    BY <1>0, <1>7, <2>1 DEF AddPublish, CallType, Ok
  <2>4. HistoryType'
    BY <1>0, <1>7, <2>1, SMTT(30) DEF AddPublish, HistoryType, CallType
  <2>5. QED
    BY <1>0, <1>7, <2>2, <2>3, <2>4, TypeFrame, Zenon DEF AddPublish, TypeOK
<1>8. CASE PopFind
  <2>1. PICK k \in Matches(id) : poped_used' = poped_used \cup {At(k)}
                                 /\ ret' = Ok(UsedLen(At(k)))
    BY <1>8, Zenon DEF PopFind
  <2>2. At(k) \in Idx /\ UsedLen(At(k)) \in Nat
    BY <1>0, FoundInIdx, Zenon DEF TypeOK
  <2>3. chain[id] # <<>> /\ chain[id] \in Seq(Desc)
    BY <1>0, <1>8, Zenon DEF PopFind, OwnershipInv, CallInv, TokensAreHeads, CallType,
                      HistoryType
  <2>4. Len(chain[id]) - 1 \in Nat
    BY <2>3
  <2>5. DriverType'
    BY <1>0, <1>8, <2>1, <2>2 DEF PopFind, DriverType, CallType
  <2>6. CallType'
    BY <1>0, <1>8, <2>1, <2>2, Zenon DEF PopFind, CallType, Ok
  <2>7. HistoryType'
    BY <1>0, <1>8, <2>4, EmptyTyped, ZenonT(30) DEF PopFind, HistoryType
  <2>8. QED
    BY <1>0, <1>8, <2>5, <2>6, <2>7, TypeFrame, Zenon DEF PopFind, TypeOK
<1>10. CASE PopWalk
  <2>1. left > 0 /\ desc[now % SIZE].next \in Desc
    BY <1>10, WalkNext, Zenon DEF PopWalk
  <2>2. DriverType'
    BY <1>0, <1>10, <2>1 DEF PopWalk, DriverType
  <2>3. CallType'
    BY <1>0, <1>10, <2>1, Zenon DEF PopWalk, CallType
  <2>4. HistoryType'
    BY <1>0, <1>10, <2>1 DEF PopWalk, HistoryType
  <2>5. QED
    BY <1>0, <1>10, <2>2, <2>3, <2>4, TypeFrame, Zenon DEF PopWalk, TypeOK
<1>11. CASE PopWalked
  <2>1. CallType'
    BY <1>0, <1>11, Zenon DEF PopWalked, CallType
  <2>2. HistoryType'
    BY <1>0, <1>11, EmptyTyped, ZenonT(30) DEF PopWalked, HistoryType
  <2>3. QED
    BY <1>0, <1>11, <2>1, <2>2, TypeFrame, Zenon DEF PopWalked, TypeOK
<1>12. CASE PopAdvance
  <2>1. last_seen_used' \in Idx
    BY <1>0, <1>12, SuccInIdx, Zenon DEF PopAdvance, DriverType
  <2>2. DriverType'
    BY <1>0, <1>12, <2>1, Zenon DEF PopAdvance, DriverType
  <2>3. SharedType'
    BY <1>0, <1>12, <2>1, Zenon DEF PopAdvance, SharedType
  <2>4. QED
    BY <1>0, <1>12, <2>2, <2>3, TypeFrame, Zenon DEF PopAdvance, TypeOK
<1>13. CASE PopReturn
  <2>1. CallType'
    BY <1>0, <1>13, Zenon DEF PopReturn, CallType
  <2>2. QED
    BY <1>0, <1>13, <2>1, TypeFrame, Zenon DEF PopReturn, TypeOK
<1>14. CASE DevFetch
  <2>1. last_avail' \in Idx /\ avail_ring[last_avail % SIZE] \in Desc
    BY <1>0, <1>14, SuccInIdx, SlotInRing DEF DevFetch, DeviceType, SharedType, Idx
  <2>2. DeviceType'
    BY <1>0, <1>14, <2>1 DEF DevFetch, DeviceType
  <2>3. QED
    BY <1>0, <1>14, <2>2, TypeFrame, Zenon DEF DevFetch, TypeOK
<1>15. CASE DevWalk
  <2>1. desc[dev_at].addr \in Buf \cup {NoBuf} /\ desc[dev_at].next \in Desc
    BY <1>0, Zenon DEF Descriptor, SharedType, DeviceType
  <2>2. Append(dev_seen, desc[dev_at].addr) \in Seq(Buf \cup {NoBuf})
    BY <1>0, <2>1 DEF DeviceType
  <2>3. /\ dev_at' \in Desc /\ dev_seen' \in Seq(Buf \cup {NoBuf})
        /\ taken' \in [Desc -> Seq(Buf \cup {NoBuf})]
        /\ dev_pc' \in {"ready", "walk"}
    BY <1>0, <1>15, <2>1, <2>2, EmptyTyped, ZenonT(30) DEF DevWalk, DeviceType
  <2>4. DeviceType'
    BY <1>0, <1>15, <2>3, Zenon DEF DevWalk, DeviceType
  <2>5. QED
    BY <1>0, <1>15, <2>4, TypeFrame, Zenon DEF DevWalk, TypeOK
<1>16. ASSUME NEW h \in Desc, NEW len \in Lens, DevWrite(h, len) PROVE TypeOK'
  <2>1. SharedType'
    BY <1>0, <1>16, LensAssumption, ZenonT(30) DEF DevWrite, SharedType
  <2>2. DeviceType'
    BY <1>0, <1>16, Zenon DEF DevWrite, DeviceType
  <2>3. QED
    BY <1>0, <1>16, <2>1, <2>2, TypeFrame, Zenon DEF DevWrite, TypeOK
<1>17. CASE DevPublish
  <2>1. used_idx % SIZE \in Desc
    BY <1>0, SlotInRing DEF Idx, SharedType
  <2>2. used_ring[used_idx % SIZE].id \in Desc /\ used_ring[used_idx % SIZE].len \in Nat
    BY <1>0, <2>1, Zenon DEF SharedType
  <2>3. SharedType'
    BY <1>0, <1>17, SuccInIdx, Zenon DEF DevPublish, SharedType
  <2>4. DeviceType'
    BY <1>0, <1>17, <2>2, EmptyTyped, ZenonT(30) DEF DevPublish, DeviceType
  <2>5. HistoryType'
    BY <1>0, <1>17, <2>2, Zenon DEF DevPublish, HistoryType
  <2>6. QED
    BY <1>0, <1>17, <2>3, <2>4, <2>5, TypeFrame, Zenon DEF DevPublish, TypeOK
<1>18. QED
  BY <1>1, <1>2, <1>3, <1>4, <1>5, <1>6, <1>7, <1>8, <1>10, <1>11, <1>12, Zenon,
     <1>13, <1>14, <1>15, <1>16, <1>17 DEF Next, DriverStep, DeviceStep

-----------------------------------------------------------------------------
(* Ownership of the descriptors *)

\* A new queue owns every descriptor through its free list.
LEMMA InitOwnership == Init => OwnershipInv
<1> SUFFICES ASSUME Init PROVE OwnershipInv
  BY Zenon
<1>1. /\ avail_desc_index = [i \in 1 .. SIZE |-> i - 1]
      /\ Len(avail_desc_index) = SIZE
      /\ built = <<>> /\ Len(built) = 0 /\ pc = "idle"
      /\ \A t \in Desc : chain[t] = <<>> /\ data[t] = <<>> /\ Len(chain[t]) = 0
                         /\ Held(t) = 0
  BY SizeAssumption DEF Init, Held
<1>2. FreeDistinct
  BY <1>1, SizeAssumption DEF FreeDistinct
<1>3. BuiltDistinct /\ ChainsDistinct /\ FreeNotBuilt /\ FreeNotHeld /\ BuiltNotHeld
  <2>1. BuiltDistinct /\ FreeNotBuilt /\ BuiltNotHeld
    BY <1>1 DEF BuiltDistinct, FreeNotBuilt, BuiltNotHeld
  <2>2. ChainsDistinct
    BY <1>1 DEF ChainsDistinct
  <2>3. FreeNotHeld
    BY <1>1 DEF FreeNotHeld
  <2>4. QED
    BY <2>1, <2>2, <2>3, Zenon
<1>4. NoneLost
  <2>1. \A d \in Desc : d + 1 \in 1 .. SIZE /\ avail_desc_index[d + 1] = d
    BY <1>1, SizeAssumption DEF Desc
  <2>2. QED
    BY <1>1, <2>1, Zenon DEF NoneLost
<1>5. ChainsLinked /\ TokensAreHeads
  BY <1>1 DEF ChainsLinked, Linked, TokensAreHeads
<1>6. CallInv
  BY <1>1, Zenon DEF CallInv
<1>7. QED
  BY <1>2, <1>3, <1>4, <1>5, <1>6, InitTypeOK, Zenon DEF OwnershipInv

\* A step that moves no descriptor keeps the ownership invariant.
LEMMA OwnershipFrame ==
  ASSUME OwnershipInv, TypeOK', TokensAreHeads', CallInv',
         UNCHANGED <<avail_desc_index, built, chain, desc>>,
         \A t \in Desc : Held(t)' = Held(t)
  PROVE  OwnershipInv'
<1>1. /\ FreeDistinct' /\ BuiltDistinct' /\ ChainsDistinct'
      /\ FreeNotBuilt' /\ BuiltNotHeld'
  BY DEF OwnershipInv, FreeDistinct, BuiltDistinct, ChainsDistinct,
         FreeNotBuilt, BuiltNotHeld
<1>2. FreeNotHeld'
  BY Zenon DEF OwnershipInv, FreeNotHeld
<1>3. NoneLost'
  BY Zenon DEF OwnershipInv, NoneLost
<1>4. ChainsLinked'
  BY Zenon DEF OwnershipInv, ChainsLinked, Linked
<1>5. QED
  BY <1>1, <1>2, <1>3, <1>4, Zenon DEF OwnershipInv

\* While no pop walks its chain, a chain is held whole.
LEMMA HeldWhole ==
  /\ pc # "walk" => \A t \in Desc : Held(t) = Len(chain[t])
  /\ pc' # "walk" => \A t \in Desc : Held(t)' = Len(chain'[t])
BY Zenon DEF Held

\* `add` moves the first free descriptor to the chain it builds.
LEMMA AddDescOwnership ==
  ASSUME OwnershipInv, AddDesc, TypeOK'
  PROVE  OwnershipInv'
<1> DEFINE x == avail_desc_index[1]
           k == Len(built)
<1>1. /\ pc = "add" /\ pc' # "walk" /\ pc' \in {"add", "push"}
      /\ x \in Desc /\ Len(avail_desc_index) > 0 /\ k \in Nat
      /\ Len(avail_desc_index) \in Nat
      /\ Len(avail_desc_index') = Len(avail_desc_index) - 1
      /\ \A i \in 1 .. Len(avail_desc_index') :
           avail_desc_index'[i] = avail_desc_index[i + 1]
      /\ 1 \in 1 .. Len(avail_desc_index)
      /\ chain' = chain /\ req' = req /\ data' = data /\ id' = id
  BY FreeHead DEF AddDesc, history, OwnershipInv, TypeOK, CallType, DriverType
<1>2. /\ Len(built') = k + 1 /\ built'[k + 1] = x
      /\ \A i \in 1 .. k : built'[i] = built[i]
  BY <1>1, FreeHead DEF AddDesc, OwnershipInv, TypeOK, CallType
<1>3. /\ desc'[x].more <=> k > 0
      /\ desc'[x].next = Link(k)
      /\ \A d \in Desc : d # x => desc'[d] = desc[d]
  <2>1. Head(avail_desc_index) % SIZE = x
    BY <1>1, FreeHead, DescMod, Zenon
  <2>2. desc \in [Desc -> Descriptor]
    BY Zenon DEF OwnershipInv, TypeOK, SharedType
  <2>3. desc' = [desc EXCEPT ![x] =
                   [addr |-> Buffer(k), more |-> k > 0, next |-> Link(k)]]
    BY <2>1, ZenonT(30) DEF AddDesc
  <2>4. QED
    BY <1>1, <2>2, <2>3, ZenonT(30)
<1>4. \A t \in Desc : Held(t) = Len(chain[t]) /\ Held(t)' = Len(chain[t])
                      /\ Len(chain[t]) \in Nat /\ chain[t] \in Seq(Desc)
  BY <1>1, HeldWhole DEF OwnershipInv, TypeOK, HistoryType
<1>5. \A t \in Desc : \A j \in 1 .. Len(chain[t]) : chain[t][j] # x /\ chain[t][j] \in Desc
  BY <1>1, <1>4 DEF OwnershipInv, FreeNotHeld
<1>6. \A j \in 1 .. k : built[j] # x /\ built[j] \in Desc
  BY <1>1 DEF OwnershipInv, FreeNotBuilt, TypeOK, CallType
<1>7. FreeDistinct'
  <2>1. FreeDistinct
    BY Zenon DEF OwnershipInv
  <2>2. ASSUME NEW i \in 1 .. Len(avail_desc_index'), NEW j \in 1 .. Len(avail_desc_index'),
               avail_desc_index'[i] = avail_desc_index'[j]
        PROVE  i = j
    <3>1. /\ i + 1 \in 1 .. Len(avail_desc_index) /\ j + 1 \in 1 .. Len(avail_desc_index)
          /\ avail_desc_index[i + 1] = avail_desc_index[j + 1]
      BY <1>1, <2>2, SMTT(30)
    <3>2. i + 1 = j + 1
      BY <2>1, <3>1, Zenon DEF FreeDistinct
    <3>3. QED
      BY <3>2
  <2>3. QED
    BY <2>2, Zenon DEF FreeDistinct
<1>8. BuiltDistinct'
  <2>1. BuiltDistinct
    BY Zenon DEF OwnershipInv
  <2>2. \A j \in 1 .. k : built'[j] = built[j] /\ built[j] # x
    BY <1>2, <1>6, Zenon
  <2>3. \A i, j \in 1 .. k : built'[i] = built'[j] => i = j
    BY <2>1, <2>2, Zenon DEF BuiltDistinct
  <2>4. \A j \in 1 .. Len(built') : j \in 1 .. k \/ j = k + 1
    BY <1>1, <1>2
  <2>5. QED
    BY <1>2, <2>2, <2>3, <2>4, Zenon DEF BuiltDistinct
<1>9. ChainsDistinct'
  BY <1>1 DEF OwnershipInv, ChainsDistinct
<1>10. FreeNotBuilt'
  <2>1. \A i \in 1 .. Len(avail_desc_index') : avail_desc_index'[i] # x
    BY <1>1 DEF OwnershipInv, FreeDistinct
  <2>2. \A i \in 1 .. Len(avail_desc_index'), j \in 1 .. k :
          avail_desc_index'[i] # built[j]
    BY <1>1 DEF OwnershipInv, FreeNotBuilt
  <2>3. ASSUME NEW i \in 1 .. Len(avail_desc_index'), NEW j \in 1 .. Len(built')
        PROVE  avail_desc_index'[i] # built'[j]
    <3>1. j \in 1 .. k \/ j = k + 1
      BY <1>1, <1>2
    <3>2. QED
      BY <1>2, <2>1, <2>2, <3>1, Zenon
  <2>4. QED
    BY <2>3, Zenon DEF FreeNotBuilt
<1>11. FreeNotHeld'
  <2>1. FreeNotHeld
    BY Zenon DEF OwnershipInv
  <2>2. ASSUME NEW i \in 1 .. Len(avail_desc_index'), NEW t \in Desc,
               NEW j \in 1 .. Len(chain[t])
        PROVE  avail_desc_index'[i] # chain[t][j]
    <3>1. i + 1 \in 1 .. Len(avail_desc_index) /\ avail_desc_index'[i] = avail_desc_index[i + 1]
      BY <1>1
    <3>2. QED
      BY <1>4, <2>1, <3>1, Zenon DEF FreeNotHeld
  <2>3. QED
    BY <1>1, <1>4, <2>2, Zenon DEF FreeNotHeld
<1>12. BuiltNotHeld'
  <2>1. BuiltNotHeld
    BY Zenon DEF OwnershipInv
  <2>2. ASSUME NEW i \in 1 .. Len(built'), NEW t \in Desc, NEW j \in 1 .. Len(chain[t])
        PROVE  built'[i] # chain[t][j]
    <3>1. CASE i \in 1 .. k
      BY <1>2, <2>1, <3>1 DEF BuiltNotHeld
    <3>2. CASE i = k + 1
      BY <1>2, <1>5, <3>2, Zenon
    <3>3. QED
      BY <1>1, <1>2, <3>1, <3>2
  <2>3. QED
    BY <1>1, <2>2, Zenon DEF BuiltNotHeld
<1>13. NoneLost'
  <2> SUFFICES ASSUME NEW d \in Desc
               PROVE  \/ \E i \in 1 .. Len(avail_desc_index') : avail_desc_index'[i] = d
                      \/ \E i \in 1 .. Len(built') : built'[i] = d
                      \/ \E t \in Desc : \E i \in 1 .. Held(t)' : chain'[t][i] = d
    BY SMTT(30) DEF NoneLost
  <2>1. CASE \E i \in 1 .. Len(avail_desc_index) : avail_desc_index[i] = d
    <3>1. PICK i \in 1 .. Len(avail_desc_index) : avail_desc_index[i] = d
      BY <2>1, Zenon
    <3>2. CASE i = 1
      BY <1>1, <1>2, <3>1, <3>2
    <3>3. CASE i # 1
      <4>1. i - 1 \in 1 .. Len(avail_desc_index') /\ avail_desc_index'[i - 1] = d
        BY <1>1, <3>1, <3>3
      <4>2. QED
        BY <4>1, Zenon
    <3>4. QED
      BY <3>2, <3>3, Zenon
  <2>2. CASE \E i \in 1 .. Len(built) : built[i] = d
    BY <1>1, <1>2, <2>2
  <2>3. CASE \E t \in Desc : \E i \in 1 .. Held(t) : chain[t][i] = d
    BY <1>1, <1>4, <2>3, Zenon
  <2>4. QED
    BY <2>1, <2>2, <2>3, Zenon DEF OwnershipInv, NoneLost
<1>14. ChainsLinked'
  <2>1. Linked(built)'
    <3>1. \A j \in 1 .. k : /\ desc'[built'[j]].more <=> j > 1
                            /\ j > 1 => desc'[built'[j]].next = built'[j - 1]
      <4>1. Linked(built)
        BY Zenon DEF OwnershipInv, ChainsLinked
      <4>2. \A j \in 1 .. k : desc'[built'[j]] = desc[built[j]]
        BY <1>2, <1>3, <1>6, Zenon
      <4>3. \A j \in 1 .. k : j > 1 => built'[j - 1] = built[j - 1]
        BY <1>1, <1>2
      <4>4. QED
        BY <4>1, <4>2, <4>3, Zenon DEF Linked
    <3>2. /\ desc'[built'[k + 1]].more <=> k + 1 > 1
          /\ k + 1 > 1 => desc'[built'[k + 1]].next = built'[k]
      BY <1>1, <1>2, <1>3 DEF Link
    <3>3. QED
      BY <1>1, <1>2, <3>1, <3>2 DEF Linked
  <2>2. ASSUME NEW t \in Desc PROVE Linked(chain[t])'
    <3>1. \A j \in 1 .. Len(chain[t]) : desc'[chain[t][j]] = desc[chain[t][j]]
      BY <1>3, <1>5, Zenon
    <3>2. Linked(chain[t]) /\ chain'[t] = chain[t]
      BY <1>1, Zenon DEF OwnershipInv, ChainsLinked
    <3>3. QED
      BY <3>1, <3>2 DEF Linked
  <2>3. QED
    BY <2>1, <2>2, Zenon DEF ChainsLinked
<1>15. TokensAreHeads'
  BY <1>1, Zenon DEF OwnershipInv, TokensAreHeads
<1>16. CallInv'
  <2>1. /\ Len(built) < Len(req) /\ Len(req) \in Nat
        /\ Len(req) - Len(built) <= Len(avail_desc_index)
    BY <1>1 DEF OwnershipInv, CallInv, TypeOK, CallType
  <2>2. pc' = IF k + 1 = Len(req) THEN "push" ELSE "add"
    BY Zenon DEF AddDesc
  <2>3. QED
    BY <1>1, <1>2, <2>1, <2>2 DEF CallInv
<1>17. QED
  BY <1>7, <1>8, <1>9, <1>10, <1>11, <1>12, <1>13, <1>14, <1>15, <1>16, Zenon
  DEF OwnershipInv

\* Publishing the chain files it under its head.
LEMMA AddPublishOwnership ==
  ASSUME OwnershipInv, AddPublish, TypeOK'
  PROVE  OwnershipInv'
<1> DEFINE h == built[Len(built)]
<1>1. /\ pc = "publish" /\ pc' = "idle" /\ built' = <<>> /\ Len(built') = 0
      /\ h \in Desc /\ Len(built) \in Nat /\ Len(built) > 0
      /\ Len(built) \in 1 .. Len(built)
      /\ avail_desc_index' = avail_desc_index /\ desc' = desc
  BY BuiltHead, EmptyTyped DEF AddPublish, driver
<1>2. /\ chain'[h] = built
      /\ \A t \in Desc : t # h => chain'[t] = chain[t] /\ data'[t] = data[t]
  BY <1>1, Zenon DEF AddPublish, OwnershipInv, TypeOK, HistoryType
<1>3. \A t \in Desc : Held(t) = Len(chain[t]) /\ Held(t)' = Len(chain'[t])
  BY <1>1, HeldWhole, Zenon
\* the head is not the head of another chain
<1>4. chain[h] = <<>> /\ Len(chain[h]) = 0
  <2>1. SUFFICES ASSUME chain[h] # <<>> PROVE FALSE
    BY EmptyTyped, Zenon
  <2>2. chain[h] \in Seq(Desc)
    BY <1>1, Zenon DEF OwnershipInv, TypeOK, HistoryType
  <2>3. Len(chain[h]) \in 1 .. Len(chain[h])
    BY <2>1, <2>2
  <2>4. chain[h][Len(chain[h])] = h
    BY <1>1, <2>1, Zenon DEF OwnershipInv, TokensAreHeads
  <2>5. QED
    BY <1>1, <2>3, <2>4, Zenon DEF OwnershipInv, BuiltNotHeld
<1>5. FreeDistinct'
  BY <1>1, Zenon DEF OwnershipInv, FreeDistinct
<1>6. BuiltDistinct' /\ FreeNotBuilt' /\ BuiltNotHeld'
  BY <1>1 DEF BuiltDistinct, FreeNotBuilt, BuiltNotHeld
<1>7. ChainsDistinct'
  <2> SUFFICES ASSUME NEW t \in Desc, NEW u \in Desc,
                      NEW i \in 1 .. Len(chain'[t]), NEW j \in 1 .. Len(chain'[u]),
                      chain'[t][i] = chain'[u][j]
               PROVE  t = u /\ i = j
    BY Zenon DEF ChainsDistinct
  <2>1. CASE t = h /\ u = h
    BY <1>2, <2>1, Zenon DEF OwnershipInv, BuiltDistinct
  <2>2. CASE t = h /\ u # h
    BY <1>2, <2>2 DEF OwnershipInv, BuiltNotHeld
  <2>3. CASE t # h /\ u = h
    BY <1>2, <2>3 DEF OwnershipInv, BuiltNotHeld
  <2>4. CASE t # h /\ u # h
    BY <1>2, <2>4, SMTT(30) DEF OwnershipInv, ChainsDistinct
  <2>5. QED
    BY <2>1, <2>2, <2>3, <2>4, Zenon
<1>8. FreeNotHeld'
  <2> SUFFICES ASSUME NEW i \in 1 .. Len(avail_desc_index), NEW t \in Desc,
                      NEW j \in 1 .. Len(chain'[t])
               PROVE  avail_desc_index[i] # chain'[t][j]
    BY <1>1, <1>3 DEF FreeNotHeld
  <2>1. CASE t = h
    BY <1>2, <2>1 DEF OwnershipInv, FreeNotBuilt
  <2>2. CASE t # h
    BY <1>2, <1>3, <2>2 DEF OwnershipInv, FreeNotHeld
  <2>3. QED
    BY <2>1, <2>2, Zenon
<1>9. NoneLost'
  <2> SUFFICES ASSUME NEW d \in Desc
               PROVE  \/ \E i \in 1 .. Len(avail_desc_index) : avail_desc_index[i] = d
                      \/ \E t \in Desc : \E i \in 1 .. Len(chain'[t]) : chain'[t][i] = d
    BY <1>1, <1>3, SMTT(30) DEF NoneLost
  <2>1. CASE \E i \in 1 .. Len(avail_desc_index) : avail_desc_index[i] = d
    BY <2>1, Zenon
  <2>2. CASE \E i \in 1 .. Len(built) : built[i] = d
    BY <1>1, <1>2, <2>2
  <2>3. CASE \E t \in Desc : \E i \in 1 .. Held(t) : chain[t][i] = d
    <3>1. PICK t \in Desc : \E i \in 1 .. Len(chain[t]) : chain[t][i] = d
      BY <1>3, <2>3, Zenon
    <3>2. t # h
      BY <1>4, <3>1
    <3>3. QED
      BY <1>2, <3>1, <3>2, Zenon
  <2>4. QED
    BY <2>1, <2>2, <2>3, SMTT(30) DEF OwnershipInv, NoneLost
<1>10. ChainsLinked'
  <2>1. Linked(built)'
    BY <1>1 DEF Linked
  <2>2. ASSUME NEW t \in Desc PROVE Linked(chain[t])'
    <3>1. CASE t = h
      <4>1. Linked(built) /\ chain'[t] = built /\ desc' = desc
        BY <1>1, <1>2, <3>1, Zenon DEF OwnershipInv, ChainsLinked
      <4> QED
        BY <4>1, Zenon DEF Linked
    <3>2. CASE t # h
      <4>1. Linked(chain[t]) /\ chain'[t] = chain[t] /\ desc' = desc
        BY <1>1, <1>2, <3>2, Zenon DEF OwnershipInv, ChainsLinked
      <4> QED
        BY <4>1, Zenon DEF Linked
    <3>3. QED
      BY <3>1, <3>2, Zenon
  <2>3. QED
    BY <2>1, <2>2, Zenon DEF ChainsLinked
<1>11. TokensAreHeads'
  <2>1. built # <<>>
    BY <1>1, EmptyTyped
  <2>2. QED
    BY <1>1, <1>2, <2>1, Zenon DEF OwnershipInv, TokensAreHeads
<1>12. CallInv'
  BY <1>1, Zenon DEF CallInv
<1>13. QED
  BY <1>5, <1>6, <1>7, <1>8, <1>9, <1>10, <1>11, <1>12, Zenon DEF OwnershipInv

\* What is held of a chain is a prefix of it.
LEMMA HeldAtMost ==
  ASSUME OwnershipInv, NEW t \in Desc
  PROVE  Held(t) \in Nat /\ Held(t) <= Len(chain[t]) /\ Len(chain[t]) \in Nat
<1>1. chain[t] \in Seq(Desc) /\ left \in Nat
  BY Zenon DEF OwnershipInv, TypeOK, HistoryType
<1>2. pc = "walk" => left < Len(chain[id])
  BY Zenon DEF OwnershipInv, CallInv
<1>3. Len(chain[t]) \in Nat
  BY <1>1
<1>4. CASE pc = "walk" /\ t = id
  BY <1>1, <1>2, <1>3, <1>4 DEF Held
<1>5. CASE ~(pc = "walk" /\ t = id)
  BY <1>3, <1>5 DEF Held
<1>6. QED
  BY <1>3, <1>4, <1>5, Zenon

\* Both pop_used steps that free a descriptor take it from the end of what is
\* still held of the chain being popped.
LEMMA FreeOneOwnership ==
  ASSUME OwnershipInv, TypeOK', TokensAreHeads', CallInv',
         UNCHANGED <<built, chain, desc, id>>, built = <<>>,
         Held(id) \in 1 .. Len(chain[id]), Held(id)' = Held(id) - 1,
         \A t \in Desc : t # id => Held(t)' = Held(t),
         avail_desc_index' = Append(avail_desc_index, chain[id][Held(id)])
  PROVE  OwnershipInv'
<1> DEFINE n == Held(id)
           x == chain[id][n]
           l == Len(avail_desc_index)
<1>1. /\ id \in Desc /\ chain[id] \in Seq(Desc) /\ avail_desc_index \in Seq(Desc)
      /\ l \in Nat /\ Len(chain[id]) \in Nat /\ n \in Nat
  <2>1. /\ id \in Desc /\ chain \in [Desc -> Seq(Desc)]
        /\ avail_desc_index \in Seq(Desc)
    BY Zenon DEF OwnershipInv, TypeOK, CallType, HistoryType, DriverType
  <2>2. QED
    BY <2>1
<1>2. x \in Desc
  BY <1>1
<1>3. /\ Len(avail_desc_index') = l + 1 /\ avail_desc_index'[l + 1] = x
      /\ \A i \in 1 .. l : avail_desc_index'[i] = avail_desc_index[i]
  BY <1>1, <1>2
<1>4. \A i \in 1 .. l : avail_desc_index[i] # x
  BY <1>1 DEF OwnershipInv, FreeNotHeld
<1>5. \A i \in 1 .. Len(avail_desc_index') : i \in 1 .. l \/ i = l + 1
  BY <1>1, <1>3
<1>6. FreeDistinct'
  BY <1>3, <1>4, <1>5 DEF OwnershipInv, FreeDistinct
<1>7. BuiltDistinct' /\ ChainsDistinct' /\ FreeNotBuilt' /\ BuiltNotHeld'
  BY EmptyTyped DEF OwnershipInv, BuiltDistinct, ChainsDistinct, FreeNotBuilt, BuiltNotHeld
<1>8. \A t \in Desc : \A j \in 1 .. Held(t)' :
        j \in 1 .. Held(t) /\ (t = id => j # n)
  <2> TAKE t \in Desc
  <2>1. CASE t = id
    BY <1>1, <2>1
  <2>2. CASE t # id
    BY <2>2, Zenon
  <2>3. QED
    BY <2>1, <2>2, Zenon
<1>9. FreeNotHeld'
  <2> SUFFICES ASSUME NEW i \in 1 .. Len(avail_desc_index'), NEW t \in Desc,
                      NEW j \in 1 .. Held(t)'
               PROVE  avail_desc_index'[i] # chain[t][j]
    BY SMTT(30) DEF FreeNotHeld
  <2>1. CASE i \in 1 .. l
    BY <1>3, <1>8, <2>1 DEF OwnershipInv, FreeNotHeld
  <2>2. CASE i = l + 1
    <3>1. j \in 1 .. Len(chain[t])
      <4>1. Held(t) \in Nat /\ Held(t) <= Len(chain[t]) /\ Len(chain[t]) \in Nat
        BY HeldAtMost, Zenon
      <4>2. QED
        BY <1>8, <4>1
    <3>2. t # id \/ j # n
      BY <1>8, Zenon
    <3>3. QED
      BY <1>1, <1>3, <2>2, <3>1, <3>2, SMTT(30) DEF OwnershipInv, ChainsDistinct
  <2>3. QED
    BY <1>5, <2>1, <2>2, Zenon
<1>10. NoneLost'
  <2> SUFFICES ASSUME NEW d \in Desc
               PROVE  \/ \E i \in 1 .. Len(avail_desc_index') : avail_desc_index'[i] = d
                      \/ \E t \in Desc : \E i \in 1 .. Held(t)' : chain[t][i] = d
    BY Zenon DEF NoneLost
  <2>1. CASE d = x
    <3>1. l + 1 \in 1 .. Len(avail_desc_index')
      BY <1>1, <1>3
    <3>2. QED
      BY <1>3, <2>1, <3>1, Zenon
  <2>2. CASE \E i \in 1 .. l : avail_desc_index[i] = d
    BY <1>1, <1>3, <2>2
  <2>3. CASE d # x /\ \E t \in Desc : \E i \in 1 .. Held(t) : chain[t][i] = d
    <3>0. PICK t \in Desc : \E i \in 1 .. Held(t) : chain[t][i] = d
      BY <2>3, Zenon
    <3>1. PICK i \in 1 .. Held(t) : chain[t][i] = d
      BY <3>0, Zenon
    <3>2. i \in 1 .. Held(t)'
      <4>1. CASE t = id
        <5>1. i # n
          BY <2>3, <3>1, <4>1, Zenon
        <5>2. QED
          BY <1>1, <4>1, <5>1
      <4>2. CASE t # id
        BY <4>2, Zenon
      <4>3. QED
        BY <4>1, <4>2, Zenon
    <3>3. QED
      BY <3>1, <3>2, Zenon
  <2>4. \A i \in 1 .. Len(built) : FALSE
    BY EmptyTyped
  <2>5. QED
    BY <2>1, <2>2, <2>3, <2>4, SMTT(30) DEF OwnershipInv, NoneLost
<1>11. ChainsLinked'
  BY Zenon DEF OwnershipInv, ChainsLinked, Linked
<1>12. QED
  BY <1>6, <1>7, <1>9, <1>10, <1>11, Zenon DEF OwnershipInv

\* pop_used frees the head of the chain first.
LEMMA PopFindOwnership ==
  ASSUME OwnershipInv, PopFind, TypeOK'
  PROVE  OwnershipInv'
<1>1. /\ pc = "find" /\ pc' = "walk" /\ id' = id /\ now' = id
      /\ left' = Len(chain[id]) - 1
      /\ avail_desc_index' = Append(avail_desc_index, id)
      /\ data' = [data EXCEPT ![id] = <<>>]
      /\ UNCHANGED <<built, chain, desc, id, req>>
  BY Zenon DEF PopFind, shared
<1>2. /\ id \in Desc /\ built = <<>> /\ chain[id] # <<>> /\ chain[id] \in Seq(Desc)
      /\ data \in [Desc -> Seq(Buf)]
  BY <1>1, Zenon DEF OwnershipInv, CallInv, TokensAreHeads, TypeOK, CallType, HistoryType
<1>3. /\ Len(chain[id]) \in 1 .. Len(chain[id]) /\ chain[id][Len(chain[id])] = id
  BY <1>2 DEF OwnershipInv, TokensAreHeads
<1>4. Held(id) = Len(chain[id]) /\ Held(id)' = Held(id) - 1
  BY <1>1, <1>2, Zenon DEF Held
<1>5. \A t \in Desc : t # id => Held(t)' = Held(t)
  BY <1>1, Zenon DEF Held
<1>6. TokensAreHeads'
  BY <1>1, <1>2, Zenon DEF OwnershipInv, TokensAreHeads
<1>7. CallInv'
  BY <1>1, <1>2, <1>3 DEF CallInv
<1>8. QED
  BY <1>1, <1>2, <1>3, <1>4, <1>5, <1>6, <1>7, FreeOneOwnership, SMTT(30)

\* The walk frees the next descriptor of the chain.
LEMMA PopWalkOwnership ==
  ASSUME OwnershipInv, PopWalk, TypeOK'
  PROVE  OwnershipInv'
<1>1. /\ pc = "walk" /\ pc' = "walk" /\ left > 0 /\ left' = left - 1
      /\ now' = chain[id][left]
      /\ avail_desc_index' = Append(avail_desc_index, chain[id][left])
      /\ UNCHANGED <<built, chain, desc, id, req, data>>
  BY WalkNext, Zenon DEF PopWalk, shared
<1>2. /\ id \in Desc /\ built = <<>> /\ left \in Nat /\ chain[id] \in Seq(Desc)
      /\ left < Len(chain[id]) /\ Len(chain[id]) \in Nat /\ data[id] = <<>>
  BY <1>1 DEF OwnershipInv, CallInv, TypeOK, CallType, HistoryType
<1>3. Held(id) = left /\ Held(id)' = Held(id) - 1 /\ Held(id) \in 1 .. Len(chain[id])
  BY <1>1, <1>2 DEF Held
<1>4. \A t \in Desc : t # id => Held(t)' = Held(t)
  BY <1>1, Zenon DEF Held
<1>5. TokensAreHeads'
  BY <1>1, Zenon DEF OwnershipInv, TokensAreHeads
<1>6. CallInv'
  BY <1>1, <1>2 DEF CallInv
<1>7. QED
  BY <1>1, <1>2, <1>3, <1>4, <1>5, <1>6, FreeOneOwnership, Zenon

\* When the walk ends the whole chain has been freed.
LEMMA PopWalkedOwnership ==
  ASSUME OwnershipInv, PopWalked, TypeOK'
  PROVE  OwnershipInv'
<1>1. /\ pc = "walk" /\ pc' = "advance" /\ left = 0
      /\ chain' = [chain EXCEPT ![id] = <<>>]
      /\ UNCHANGED <<avail_desc_index, built, desc, id, req, data>>
  <2>1. ~(left > 0) /\ left \in Nat
    BY WalkNext, SMTT(30) DEF PopWalked, OwnershipInv, TypeOK, HistoryType
  <2>2. QED
    BY <2>1 DEF PopWalked, driver, shared
<1>2. /\ id \in Desc /\ built = <<>> /\ data[id] = <<>>
      /\ chain \in [Desc -> Seq(Desc)]
  BY <1>1, Zenon DEF OwnershipInv, CallInv, TypeOK, CallType, HistoryType
<1>3. /\ chain'[id] = <<>> /\ Len(chain'[id]) = 0
      /\ \A t \in Desc : t # id => chain'[t] = chain[t]
  BY <1>1, <1>2, EmptyTyped, Zenon
<1>4. \A t \in Desc : Held(t)' = Held(t) /\ Held(t)' = Len(chain'[t])
  BY <1>1, <1>3 DEF Held
<1>5. FreeDistinct' /\ BuiltDistinct' /\ FreeNotBuilt'
  BY <1>1, Zenon DEF OwnershipInv, FreeDistinct, BuiltDistinct, FreeNotBuilt
<1>6. ChainsDistinct'
  BY <1>3, SMTT(30) DEF OwnershipInv, ChainsDistinct
<1>7. FreeNotHeld'
  <2>1. \A t \in Desc : \A j \in 1 .. Held(t) : chain'[t] = chain[t]
    BY <1>3, <1>4
  <2>2. QED
    BY <1>1, <1>4, <2>1 DEF OwnershipInv, FreeNotHeld
<1>8. BuiltNotHeld'
  BY <1>1, <1>2, EmptyTyped DEF BuiltNotHeld
<1>9. NoneLost'
  <2>1. \A t \in Desc : \A j \in 1 .. Held(t) : chain'[t] = chain[t]
    BY <1>3, <1>4
  <2>2. QED
    BY <1>1, <1>4, <2>1 DEF OwnershipInv, NoneLost
<1>10. ChainsLinked'
  <2>1. Linked(built)'
    BY <1>1, Zenon DEF OwnershipInv, ChainsLinked, Linked
  <2>2. Linked(chain[id])'
    BY <1>1, <1>3 DEF Linked
  <2>3. ASSUME NEW t \in Desc, t # id PROVE Linked(chain[t])'
    <3>1. Linked(chain[t]) /\ chain'[t] = chain[t] /\ desc' = desc
      BY <1>1, <1>3, <2>3, Zenon DEF OwnershipInv, ChainsLinked
    <3> QED
      BY <3>1, Zenon DEF Linked
  <2>4. QED
    BY <1>1, <2>1, <2>2, <2>3, Zenon DEF ChainsLinked
<1>11. TokensAreHeads'
  BY <1>1, <1>2, <1>3, Zenon DEF OwnershipInv, TokensAreHeads
<1>12. CallInv'
  BY <1>1, <1>2, Zenon DEF CallInv
<1>13. QED
  BY <1>5, <1>6, <1>7, <1>8, <1>9, <1>10, <1>11, <1>12, Zenon DEF OwnershipInv

\* Every step keeps the ownership invariant, for any client.
LEMMA NextOwnership ==
  ASSUME OwnershipInv, [Next]_vars
  PROVE  OwnershipInv'
<1>1. CASE UNCHANGED vars
  <2>1. UNCHANGED <<driver, shared, call, device, history>>
    BY <1>1, Zenon DEF vars
  <2>2. TypeOK'
    BY <2>1, TypeFrame, Zenon DEF OwnershipInv, TypeOK
  <2>3. UNCHANGED <<avail_desc_index, built, chain, desc, pc, id, left, req, data, now>>
    BY <2>1, Zenon DEF driver, shared, call, history
  <2>4. TokensAreHeads' /\ CallInv' /\ \A t \in Desc : Held(t)' = Held(t)
    BY <2>3, Zenon DEF OwnershipInv, TokensAreHeads, CallInv, Held
  <2>5. QED
    BY <2>2, <2>3, <2>4, OwnershipFrame, Zenon
<1>2. CASE Next
  <2>0. TypeOK' /\ CallInv /\ TokensAreHeads
    BY <1>2, NextTypeOK, Zenon DEF OwnershipInv
  <2>1. ASSUME NEW r \in Requests, AddBegin(r) PROVE OwnershipInv'
    <3>1. /\ pc = "idle" /\ pc' = "add" /\ built = <<>> /\ built' = <<>> /\ req' = r
          /\ UNCHANGED <<avail_desc_index, chain, desc, id, left, data>>
          /\ Len(r) <= Len(avail_desc_index)
      BY <2>0, <2>1, Zenon DEF AddBegin, MayAdd, driver, shared, history, CallInv
    <3>2. Len(r) \in Nat /\ Len(r) > 0
      BY RequestsAssumption
    <3>3. TokensAreHeads' /\ CallInv' /\ \A t \in Desc : Held(t)' = Held(t)
      BY <2>0, <3>1, <3>2, EmptyTyped DEF TokensAreHeads, CallInv, Held
    <3>4. QED
      BY <2>0, <3>1, <3>3, OwnershipFrame, Zenon
  <2>2. ASSUME NEW r \in Requests, AddFull(r) PROVE OwnershipInv'
    <3>1. UNCHANGED <<avail_desc_index, built, chain, desc, pc, id, left, req, data, now>>
      BY <2>2, Zenon DEF AddFull, driver, shared, history
    <3>2. TokensAreHeads' /\ CallInv' /\ \A t \in Desc : Held(t)' = Held(t)
      BY <2>0, <3>1, Zenon DEF TokensAreHeads, CallInv, Held
    <3>3. QED
      BY <2>0, <3>1, <3>2, OwnershipFrame, Zenon
  <2>3. ASSUME NEW t \in Desc, PopBegin(t) PROVE OwnershipInv'
    <3>1. /\ pc = "idle" /\ pc' = "find" /\ id' = t /\ data[t] # <<>>
          /\ UNCHANGED <<avail_desc_index, built, chain, desc, left, req, data, now>>
      BY <2>3, Zenon DEF PopBegin, driver, shared, history
    <3>2. TokensAreHeads' /\ CallInv' /\ \A u \in Desc : Held(u)' = Held(u)
      BY <2>0, <3>1, SMTT(30) DEF TokensAreHeads, CallInv, Held
    <3>3. OwnershipInv /\ TypeOK' /\ UNCHANGED <<avail_desc_index, built, chain, desc>>
      BY <2>0, <3>1, Zenon
    <3>4. QED
      BY <3>2, <3>3, OwnershipFrame, Zenon
  <2>4. ASSUME NEW t \in Desc, PopNotReady(t) PROVE OwnershipInv'
    <3>1. UNCHANGED <<avail_desc_index, built, chain, desc, pc, id, left, req, data, now>>
      BY <2>4, Zenon DEF PopNotReady, driver, shared, history
    <3>2. TokensAreHeads' /\ CallInv' /\ \A u \in Desc : Held(u)' = Held(u)
      BY <2>0, <3>1, Zenon DEF TokensAreHeads, CallInv, Held
    <3>3. QED
      BY <2>0, <3>1, <3>2, OwnershipFrame, Zenon
  <2>5. CASE AddDesc
    BY <2>0, <2>5, AddDescOwnership, Zenon
  <2>6. CASE AddPush
    <3>1. /\ pc = "push" /\ pc' = "publish"
          /\ UNCHANGED <<avail_desc_index, built, chain, desc, id, left, req, data, now>>
      BY <2>6, Zenon DEF AddPush, driver, history
    <3>2. TokensAreHeads' /\ CallInv' /\ \A t \in Desc : Held(t)' = Held(t)
      BY <2>0, <3>1, Zenon DEF TokensAreHeads, CallInv, Held
    <3>3. QED
      BY <2>0, <3>1, <3>2, OwnershipFrame, Zenon
  <2>7. CASE AddPublish
    BY <2>0, <2>7, AddPublishOwnership, Zenon
  <2>8. CASE PopFind
    BY <2>0, <2>8, PopFindOwnership, Zenon
  <2>10. CASE PopWalk
    BY <2>0, <2>10, PopWalkOwnership, Zenon
  <2>11. CASE PopWalked
    BY <2>0, <2>11, PopWalkedOwnership, Zenon
  <2>12. CASE PopAdvance
    <3>1. UNCHANGED <<avail_desc_index, built, chain, desc, pc, id, left, req, data, now>>
      BY <2>12, Zenon DEF PopAdvance, call, history
    <3>2. TokensAreHeads' /\ CallInv' /\ \A t \in Desc : Held(t)' = Held(t)
      BY <2>0, <3>1, Zenon DEF TokensAreHeads, CallInv, Held
    <3>3. QED
      BY <2>0, <3>1, <3>2, OwnershipFrame, Zenon
  <2>13. CASE PopReturn
    <3>1. /\ pc = "advance" /\ pc' = "idle"
          /\ UNCHANGED <<avail_desc_index, built, chain, desc, id, left, req, data, now>>
      BY <2>13, Zenon DEF PopReturn, driver, shared, history
    <3>2. TokensAreHeads' /\ CallInv' /\ \A t \in Desc : Held(t)' = Held(t)
      BY <2>0, <3>1, Zenon DEF TokensAreHeads, CallInv, Held
    <3>3. QED
      BY <2>0, <3>1, <3>2, OwnershipFrame, Zenon
  <2>14. CASE DeviceStep
    <3>1. UNCHANGED <<avail_desc_index, built, chain, desc, pc, id, left, req, data, now>>
      BY <2>14, ZenonT(30) DEF DeviceStep, DevFetch, DevWalk, DevWrite, DevPublish,
                   driver, shared, call, history
    <3>2. TokensAreHeads' /\ CallInv' /\ \A t \in Desc : Held(t)' = Held(t)
      BY <2>0, <3>1, Zenon DEF TokensAreHeads, CallInv, Held
    <3>3. QED
      BY <2>0, <3>1, <3>2, OwnershipFrame, Zenon
  <2>15. QED
    BY <1>2, <2>1, <2>2, <2>3, <2>4, <2>5, <2>6, <2>7, <2>8, <2>10, <2>11, Zenon,
       <2>12, <2>13, <2>14 DEF Next, DriverStep
<1>3. QED
  BY <1>1, <1>2, Zenon

\* The ownership invariant holds in every reachable state, for any client.
THEOREM OwnershipCorrect == Spec => []OwnershipInv
<1>1. Init => OwnershipInv
  BY InitOwnership, Zenon
<1>2. OwnershipInv /\ [Next]_vars => OwnershipInv'
  BY NextOwnership, Zenon
<1>3. QED
  BY <1>1, <1>2, PTL DEF Spec

\* The queue, its rings and the calls on it stay well typed.
THEOREM TypeCorrect == Spec => []TypeOK
<1>1. OwnershipInv => TypeOK
  BY Zenon DEF OwnershipInv
<1>2. QED
  BY <1>1, OwnershipCorrect, PTL

\* What the ownership invariant says of the places: no two hold the same
\* descriptor, and every descriptor is in one.
LEMMA OwnershipPartitions == OwnershipInv => DescriptorsPartitioned
<1> SUFFICES ASSUME OwnershipInv PROVE DescriptorsPartitioned
  BY Zenon
<1> DEFINE places == FreePlaces \cup BuiltPlaces \cup ChainPlaces
<1>0. /\ FreeDistinct /\ BuiltDistinct /\ ChainsDistinct
      /\ FreeNotBuilt /\ FreeNotHeld /\ BuiltNotHeld
  BY Zenon DEF OwnershipInv
<1>1. \A i \in 1 .. Len(avail_desc_index) :
        /\ <<"free", 0, i>> \in places
        /\ DescAt(<<"free", 0, i>>) = avail_desc_index[i]
  BY Zenon DEF FreePlaces, DescAt
<1>2. \A i \in 1 .. Len(built) :
        /\ <<"built", 0, i>> \in places
        /\ DescAt(<<"built", 0, i>>) = built[i]
  BY Zenon DEF BuiltPlaces, DescAt
<1>3. \A t \in Desc : \A i \in 1 .. Held(t) :
        /\ <<"chain", t, i>> \in places
        /\ DescAt(<<"chain", t, i>>) = chain[t][i]
        /\ i \in 1 .. Len(chain[t])
  <2>1. \A t \in Desc : \A i \in 1 .. Held(t) : <<"chain", t, i>> \in places
    BY DEF ChainPlaces
  <2>2. \A t \in Desc : \A i \in 1 .. Held(t) : DescAt(<<"chain", t, i>>) = chain[t][i]
    BY Zenon DEF DescAt
  <2>3. \A t \in Desc : \A i \in 1 .. Held(t) : i \in 1 .. Len(chain[t])
    BY HeldAtMost
  <2>4. QED
    BY <2>1, <2>2, <2>3, ZenonT(30)
<1>4. \A p \in places :
        \/ \E i \in 1 .. Len(avail_desc_index) : p = <<"free", 0, i>>
        \/ \E i \in 1 .. Len(built) : p = <<"built", 0, i>>
        \/ \E t \in Desc : \E i \in 1 .. Held(t) : p = <<"chain", t, i>>
  BY Zenon DEF FreePlaces, BuiltPlaces, ChainPlaces
<1>5. ASSUME NEW p \in places, NEW q \in places, DescAt(q) = DescAt(p)
      PROVE  q = p
  <2> DEFINE FP == \E i \in 1 .. Len(avail_desc_index) : p = <<"free", 0, i>>
             FQ == \E i \in 1 .. Len(avail_desc_index) : q = <<"free", 0, i>>
             BP == \E i \in 1 .. Len(built) : p = <<"built", 0, i>>
             BQ == \E i \in 1 .. Len(built) : q = <<"built", 0, i>>
             CP == \E t \in Desc : \E i \in 1 .. Held(t) : p = <<"chain", t, i>>
             CQ == \E t \in Desc : \E i \in 1 .. Held(t) : q = <<"chain", t, i>>
  <2> HIDE DEF places
  <2>1. CASE FP /\ FQ
    <3>1. PICK i \in 1 .. Len(avail_desc_index) : p = <<"free", 0, i>>
      BY <2>1, Zenon
    <3>2. PICK j \in 1 .. Len(avail_desc_index) : q = <<"free", 0, j>>
      BY <2>1, Zenon
    <3>3. i = j
      BY <1>0, <1>1, <1>5, <3>1, <3>2 DEF FreeDistinct
    <3>4. QED
      BY <3>1, <3>2, <3>3, Zenon
  <2>2. CASE BP /\ BQ
    <3>1. PICK i \in 1 .. Len(built) : p = <<"built", 0, i>>
      BY <2>2, Zenon
    <3>2. PICK j \in 1 .. Len(built) : q = <<"built", 0, j>>
      BY <2>2, Zenon
    <3>3. i = j
      BY <1>0, <1>2, <1>5, <3>1, <3>2 DEF BuiltDistinct
    <3>4. QED
      BY <3>1, <3>2, <3>3, Zenon
  <2>3. CASE CP /\ CQ
    <3>1. PICK t \in Desc : \E i \in 1 .. Held(t) : p = <<"chain", t, i>>
      BY <2>3, Zenon
    <3>2. PICK i \in 1 .. Held(t) : p = <<"chain", t, i>>
      BY <3>1, Zenon
    <3>3. PICK u \in Desc : \E j \in 1 .. Held(u) : q = <<"chain", u, j>>
      BY <2>3, Zenon
    <3>4. PICK j \in 1 .. Held(u) : q = <<"chain", u, j>>
      BY <3>3, Zenon
    <3>5. chain[t][i] = chain[u][j] /\ i \in 1 .. Len(chain[t]) /\ j \in 1 .. Len(chain[u])
      BY <1>3, <1>5, <3>2, <3>4, SMTT(30)
    <3>6. t = u /\ i = j
      BY <1>0, <3>5, Zenon DEF ChainsDistinct
    <3>7. QED
      BY <3>2, <3>4, <3>6, Zenon
  <2>4. ~(FP /\ BQ) /\ ~(FQ /\ BP)
    BY <1>0, <1>1, <1>2, <1>5, SMTT(30) DEF FreeNotBuilt
  <2>5. ~(FP /\ CQ) /\ ~(FQ /\ CP)
    BY <1>0, <1>1, <1>3, <1>5, SMTT(30) DEF FreeNotHeld
  <2>6. ~(BP /\ CQ) /\ ~(BQ /\ CP)
    BY <1>0, <1>2, <1>3, <1>5, SMTT(30) DEF BuiltNotHeld
  <2>7. (FP \/ BP \/ CP) /\ (FQ \/ BQ \/ CQ)
    BY <1>4, Zenon
  <2> HIDE DEF FP, FQ, BP, BQ, CP, CQ
  <2>8. QED
    BY <2>1, <2>2, <2>3, <2>4, <2>5, <2>6, <2>7, Zenon
<1>6. ASSUME NEW d \in Desc PROVE \E p \in places : DescAt(p) = d
  <2> HIDE DEF places
  <2>1. CASE \E i \in 1 .. Len(avail_desc_index) : avail_desc_index[i] = d
    BY <1>1, <2>1, ZenonT(30)
  <2>2. CASE \E i \in 1 .. Len(built) : built[i] = d
    BY <1>2, <2>2, ZenonT(30)
  <2>3. CASE \E t \in Desc : \E i \in 1 .. Held(t) : chain[t][i] = d
    BY <1>3, <2>3, ZenonT(30)
  <2>4. QED
    BY <2>1, <2>2, <2>3, Zenon DEF OwnershipInv, NoneLost
<1>7. ASSUME NEW d \in Desc
      PROVE  \E p \in places : /\ DescAt(p) = d
                               /\ \A q \in places : DescAt(q) = d => q = p
  <2>1. PICK p \in places : DescAt(p) = d
    BY <1>6, Zenon
  <2>2. \A q \in places : DescAt(q) = d => q = p
    BY <1>5, <2>1, Zenon
  <2>3. QED
    BY <2>1, <2>2, Zenon
<1>8. QED
  BY <1>7, Zenon DEF DescriptorsPartitioned

\* No descriptor is allocated twice and none is lost, for every queue size,
\* every index width and every client of `add` and `pop_used`.
THEOREM DescriptorsNeverSharedOrLost == Spec => []DescriptorsPartitioned
BY OwnershipCorrect, OwnershipPartitions, PTL

-----------------------------------------------------------------------------
(* Ring indices *)

\* The slot of a ring that is k behind index j.
Slot(j, k) == ((j + k) % IdxMod) % SIZE

\* Remainders of the sums and differences of two indices.
LEMMA Wraps ==
  ASSUME NEW n \in Int
  PROVE  /\ 0 <= n /\ n < IdxMod => n % IdxMod = n
         /\ IdxMod <= n /\ n < 2 * IdxMod => n % IdxMod = n - IdxMod
         /\ -IdxMod <= n /\ n < 0 => n % IdxMod = n + IdxMod
<1>1. IdxMod \in Nat /\ IdxMod > 0
  BY IdxModPositive, Zenon
<1>2. n % IdxMod \in 0 .. IdxMod - 1
  BY <1>1
<1>3. PICK q \in Int : n = IdxMod * q + (n % IdxMod)
  BY <1>1
<1>4. 0 <= n /\ n < IdxMod => q = 0
  BY <1>1, <1>2, <1>3
<1>5. IdxMod <= n /\ n < 2 * IdxMod => q = 1
  BY <1>1, <1>2, <1>3
<1>6. -IdxMod <= n /\ n < 0 => q = -1
  BY <1>1, <1>2, <1>3
<1>7. QED
  BY <1>1, <1>2, <1>3, <1>4, <1>5, <1>6

\* wrapping_add and wrapping_sub.
LEMMA WrappingFacts ==
  ASSUME NEW i \in Idx, NEW j \in Idx
  PROVE  /\ WrappingSub(i, j) \in 0 .. IdxMod - 1
         /\ WrappingSub(i, j) = 0 <=> i = j
         /\ WrappingSub(i, j) + 1 < IdxMod => WrappingSub(Succ(i), j) = WrappingSub(i, j) + 1
         /\ i # j => WrappingSub(i, Succ(j)) = WrappingSub(i, j) - 1
         /\ (j + WrappingSub(i, j)) % IdxMod = i
<1>1. IdxMod \in Nat /\ IdxMod > 0 /\ i \in 0 .. IdxMod - 1 /\ j \in 0 .. IdxMod - 1
  BY IdxModPositive, Zenon DEF Idx
<1>2. WrappingSub(i, j) = IF i >= j THEN i - j ELSE i - j + IdxMod
  BY <1>1, Wraps DEF WrappingSub
<1>3. \A n \in 0 .. IdxMod - 1 : Succ(n) = IF n + 1 = IdxMod THEN 0 ELSE n + 1
  BY <1>1, Wraps DEF Succ
<1>4. \A m, n \in 0 .. IdxMod - 1 :
        WrappingSub(m, n) = IF m >= n THEN m - n ELSE m - n + IdxMod
  BY <1>1, Wraps DEF WrappingSub
<1>5. Succ(i) \in 0 .. IdxMod - 1 /\ Succ(j) \in 0 .. IdxMod - 1
  BY <1>1, <1>3
<1>6. (j + WrappingSub(i, j)) % IdxMod = i
  BY <1>1, <1>2, Wraps
<1>7. QED
  BY <1>1, <1>2, <1>3, <1>4, <1>5, <1>6

\* The index counts at least twice round a ring, so that a full ring and an
\* empty one differ.
LEMMA TwoRings == SIZE \in Nat /\ SIZE > 0 /\ IdxMod \in Nat /\ 2 * SIZE <= IdxMod
<1>1. PICK k \in 2 .. IdxMod : IdxMod = k * SIZE
  BY IdxModAssumption, Zenon
<1>2. QED
  BY <1>1, SizeAssumption, IdxModAssumption

\* Multiples of SIZE that differ are at least SIZE apart.
LEMMA SmallMultiple ==
  ASSUME NEW d \in Int, SIZE * d < SIZE, -SIZE < SIZE * d
  PROVE  d = 0
BY SizeAssumption

\* Reducing an index before taking the slot changes nothing, because SIZE
\* divides IdxMod.
LEMMA SlotMod ==
  ASSUME NEW n \in Nat, n < 2 * IdxMod
  PROVE  (n % IdxMod) % SIZE = n % SIZE
<1>1. SIZE \in Nat /\ SIZE > 0 /\ IdxMod \in Nat /\ IdxMod > 0
  BY TwoRings
<1>2. PICK c \in 2 .. IdxMod : IdxMod = c * SIZE
  BY IdxModAssumption, Zenon
<1>3. n % IdxMod = n \/ n % IdxMod = n - IdxMod
  BY <1>1, Wraps
<1>4. ASSUME NEW m \in Nat, m = n - IdxMod PROVE m % SIZE = n % SIZE
  <2>1. PICK p \in Int : n = SIZE * p + (n % SIZE)
    BY <1>1
  <2>2. PICK q \in Int : m = SIZE * q + (m % SIZE)
    BY <1>1
  <2>3. n % SIZE \in 0 .. SIZE - 1 /\ m % SIZE \in 0 .. SIZE - 1
    BY <1>1, <1>4
  <2>4. SIZE * (p - c - q) = (m % SIZE) - (n % SIZE)
    BY <1>1, <1>2, <1>4, <2>1, <2>2, <2>3
  <2>5. p - c - q = 0
    BY <1>1, <1>2, <2>3, <2>4, SmallMultiple
  <2>6. QED
    BY <1>1, <2>3, <2>4, <2>5
<1>5. n % IdxMod \in Nat
  BY <1>1
<1>6. QED
  BY <1>3, <1>4, <1>5, Zenon

\* The slots of a window of at most SIZE indices are different.
LEMMA SlotFacts ==
  ASSUME NEW j \in Idx
  PROVE  /\ \A k \in Nat : Slot(j, k) \in Desc
         /\ \A m, n \in 0 .. SIZE - 1 : Slot(j, m) = Slot(j, n) => m = n
         /\ \A k \in 0 .. SIZE : Slot(Succ(j), k) = Slot(j, k + 1)
         /\ \A i \in Idx : Slot(j, WrappingSub(i, j)) = i % SIZE
<1>1. SIZE \in Nat /\ SIZE > 0 /\ IdxMod \in Nat /\ 2 * SIZE <= IdxMod
      /\ j \in 0 .. IdxMod - 1
  BY TwoRings, Zenon DEF Idx
<1>2. \A k \in Nat : Slot(j, k) \in Desc
  BY <1>1 DEF Slot, Desc
<1>3. ASSUME NEW m \in 0 .. SIZE - 1, NEW n \in 0 .. SIZE - 1, Slot(j, m) = Slot(j, n)
      PROVE  m = n
  <2>1. (j + m) % SIZE = (j + n) % SIZE
    BY <1>1, <1>3, SlotMod DEF Slot
  <2>2. PICK p \in Int : j + m = SIZE * p + ((j + m) % SIZE)
    BY <1>1
  <2>3. PICK q \in Int : j + n = SIZE * q + ((j + n) % SIZE)
    BY <1>1
  <2>4. (j + m) % SIZE \in Int
    BY <1>1
  <2>5. SIZE * (p - q) = m - n
    BY <1>1, <2>1, <2>2, <2>3, <2>4
  <2>6. p - q = 0
    BY <1>1, <2>5, SmallMultiple
  <2>7. QED
    BY <1>1, <2>5, <2>6
<1>4. ASSUME NEW k \in 0 .. SIZE PROVE Slot(Succ(j), k) = Slot(j, k + 1)
  <2>1. Succ(j) = IF j + 1 = IdxMod THEN 0 ELSE j + 1
    BY <1>1, Wraps DEF Succ
  <2>2. (Succ(j) + k) % IdxMod = (j + (k + 1)) % IdxMod
    BY <1>1, <2>1, Wraps
  <2>3. QED
    BY <2>2, Zenon DEF Slot
<1>5. \A i \in Idx : Slot(j, WrappingSub(i, j)) = i % SIZE
  BY WrappingFacts, Zenon DEF Slot
<1>6. QED
  BY <1>2, <1>3, <1>4, <1>5, Zenon

\* The indices of a window are different.
LEMMA IndexFacts ==
  ASSUME NEW j \in Idx
  PROVE  /\ j % IdxMod = j
         /\ \A m, n \in 0 .. SIZE : (j + m) % IdxMod = (j + n) % IdxMod => m = n
         /\ \A k \in 0 .. SIZE : (Succ(j) + k) % IdxMod = (j + (k + 1)) % IdxMod
<1>1. SIZE \in Nat /\ SIZE > 0 /\ IdxMod \in Nat /\ 2 * SIZE <= IdxMod
      /\ j \in 0 .. IdxMod - 1
  BY TwoRings, Zenon DEF Idx
<1>2. \A m, n \in 0 .. SIZE : (j + m) % IdxMod = (j + n) % IdxMod => m = n
  BY <1>1, Wraps
<1>3. Succ(j) = IF j + 1 = IdxMod THEN 0 ELSE j + 1
  BY <1>1, Wraps DEF Succ
<1>4. \A k \in 0 .. SIZE : (Succ(j) + k) % IdxMod = (j + (k + 1)) % IdxMod
  BY <1>1, <1>3, Wraps
<1>5. j % IdxMod = j
  BY <1>1, Wraps
<1>6. QED
  BY <1>2, <1>4, <1>5, Zenon

\* Different tokens, one of the SIZE not among them, are fewer than SIZE.
LEMMA FewerThanSize ==
  ASSUME NEW n \in Nat, NEW f, f \in [0 .. n - 1 -> Desc], NEW h \in Desc,
         \A i, j \in 0 .. n - 1 : f[i] = f[j] => i = j,
         \A i \in 0 .. n - 1 : f[i] # h
  PROVE  n < SIZE
<1>1. IsFiniteSet(Desc) /\ Cardinality(Desc) = SIZE
  BY SizeAssumption, FS_Interval DEF Desc
<1>2. IsFiniteSet(Desc \ {h}) /\ Cardinality(Desc \ {h}) = SIZE - 1
  BY <1>1, FS_RemoveElement, Zenon
<1>3. IsFiniteSet(0 .. n - 1) /\ Cardinality(0 .. n - 1) = n
  BY FS_Interval
<1>4. f \in [0 .. n - 1 -> Desc \ {h}]
  BY Zenon
<1>5. ~(SIZE - 1 < n)
  BY <1>2, <1>3, <1>4, FS_PigeonHole
<1>6. QED
  BY <1>5, SizeAssumption

-----------------------------------------------------------------------------
(* The invariant *)

\* The heads in the available ring that the device has not fetched.
Waiting == WrappingSub(avail_idx, last_avail)
AvailAt(k) == avail_ring[Slot(last_avail, k)]

\* The elements of the used ring that pop_used scans.
Unseen == WrappingSub(used_idx, last_seen_used)
UsedAt(k) == used_ring[Slot(last_seen_used, k)]

Adding == pc \in {"add", "push", "publish"}

\* Each head in the available ring is that of a request the device has not begun.
AvailInv ==
  /\ Waiting <= SIZE
  /\ \A i, j \in 0 .. Waiting - 1 : AvailAt(i) = AvailAt(j) => i = j
  /\ \A i \in 0 .. Waiting - 1 :
       /\ data[AvailAt(i)] # <<>> /\ done[AvailAt(i)] = NotDone
       /\ taken[AvailAt(i)] = <<>>
       /\ dev_pc = "walk" => dev_head # AvailAt(i)
  /\ pc = "publish" =>
       Waiting < SIZE /\ avail_ring[avail_idx % SIZE] = built[Len(built)]

\* The device has walked a part of the chain of a request and seen its buffers.
WalkInv ==
  dev_pc = "walk" =>
    /\ data[dev_head] # <<>> /\ done[dev_head] = NotDone /\ taken[dev_head] = <<>>
    /\ Len(dev_seen) < Len(chain[dev_head])
    /\ dev_at = chain[dev_head][Len(chain[dev_head]) - Len(dev_seen)]
    /\ \A i \in 1 .. Len(dev_seen) : dev_seen[i] = data[dev_head][i]

TakenInv ==
  \A t \in Desc : taken[t] # <<>> => taken[t] = data[t] /\ done[t] = NotDone

\* Each element of the used ring is that of a request the device has finished,
\* which is popped already or can be.
UsedInv ==
  /\ Unseen <= SIZE
  /\ \A i, j \in 0 .. Unseen - 1 : UsedAt(i).id = UsedAt(j).id => i = j
  /\ \A i \in 0 .. Unseen - 1 :
       /\ At(i) \in poped_used => data[UsedAt(i).id] = <<>>
       /\ At(i) \notin poped_used =>
            data[UsedAt(i).id] # <<>> /\ done[UsedAt(i).id] = UsedAt(i).len
  /\ \A p \in poped_used : \E i \in 0 .. Unseen - 1 : p = At(i)
  /\ writing => Unseen < SIZE /\ taken[used_ring[used_idx % SIZE].id] # <<>>

\* The descriptors of a chain, last to first, point to the buffers.
Holds(s, buffers) ==
  \A k \in 1 .. Len(s) : desc[s[k]].addr = buffers[Len(buffers) + 1 - k]

ContentInv ==
  /\ Adding => Holds(built, req)
  /\ \A t \in Desc :
       data[t] # <<>> => Len(chain[t]) = Len(data[t]) /\ Holds(chain[t], data[t])

\* What the calls know of the used ring.
OrderInv ==
  /\ Adding => poped_used = {}
  /\ pc \notin {"walk", "advance"} => last_seen_used \notin poped_used
  /\ pc = "find" => can_pop(id)

RingInv ==
  /\ OwnershipInv
  /\ AvailInv /\ WalkInv /\ TakenInv /\ UsedInv /\ ContentInv /\ OrderInv

-----------------------------------------------------------------------------
(* Frames *)

\* What a step must leave alone for each part of RingInv to stay true.
LEMMA AvailFrame ==
  ASSUME AvailInv,
         UNCHANGED <<avail_idx, avail_ring, last_avail, data, done, taken, dev_pc, dev_head>>,
         pc' = "publish" => pc = "publish" /\ built' = built
  PROVE  AvailInv'
<1>1. Waiting' = Waiting /\ \A i : AvailAt(i)' = AvailAt(i)
  BY Zenon DEF Waiting, AvailAt
<1> QED
  BY <1>1, Zenon DEF AvailInv

\* A step elsewhere leaves the walk of a chain alone.
LEMMA WalkFrame ==
  ASSUME WalkInv,
         UNCHANGED <<dev_pc, dev_head, dev_at, dev_seen, data, done, taken, chain>>
  PROVE  WalkInv'
BY Zenon DEF WalkInv

\* A step elsewhere leaves the taken chains alone.
LEMMA TakenFrame ==
  ASSUME TakenInv, UNCHANGED <<data, done, taken>>
  PROVE  TakenInv'
BY Zenon DEF TakenInv

\* A step elsewhere leaves the used ring alone.
LEMMA UsedFrame ==
  ASSUME UsedInv,
         UNCHANGED <<used_idx, used_ring, last_seen_used, poped_used, data, done, taken, writing>>
  PROVE  UsedInv'
BY Zenon DEF UsedInv, Unseen, UsedAt, At

\* A step elsewhere leaves the content of a chain alone.
LEMMA ContentFrame ==
  ASSUME ContentInv, UNCHANGED <<desc, chain, data>>,
         Adding' => Adding /\ UNCHANGED <<built, req>>
  PROVE  ContentInv'
BY Zenon DEF ContentInv, Holds

\* A step elsewhere leaves the order alone.
LEMMA OrderFrame ==
  ASSUME OrderInv, UNCHANGED <<last_seen_used, poped_used, used_idx, used_ring>>,
         UNCHANGED <<pc, id>> \/ (pc' \in {"push", "publish"} /\ Adding)
         \/ pc' \in {"walk", "advance"}
  PROVE  OrderInv'
BY Zenon DEF OrderInv, Adding, can_pop, Matches, Window, At

\* Types of what is read from the rings.
LEMMA RingTypes ==
  ASSUME OwnershipInv
  PROVE  /\ Waiting \in Nat /\ Unseen \in Nat
         /\ last_avail \in Idx /\ last_seen_used \in Idx /\ avail_idx \in Idx
         /\ used_idx \in Idx
         /\ \A k \in Nat : AvailAt(k) \in Desc /\ UsedAt(k).id \in Desc /\ UsedAt(k).len \in Nat
         /\ used_ring[used_idx % SIZE].id \in Desc /\ used_ring[used_idx % SIZE].len \in Nat
<1>1. /\ last_avail \in Idx /\ last_seen_used \in Idx /\ avail_idx \in Idx /\ used_idx \in Idx
      /\ avail_ring \in [Desc -> Desc] /\ used_ring \in [Desc -> [id : Desc, len : Nat]]
  BY Zenon DEF OwnershipInv, TypeOK, DriverType, SharedType, DeviceType
<1>2. Waiting \in Nat /\ Unseen \in Nat
  BY <1>1, WrappingFacts DEF Waiting, Unseen
<1>3. \A k \in Nat : Slot(last_avail, k) \in Desc /\ Slot(last_seen_used, k) \in Desc
  BY <1>1, SlotFacts, Zenon
<1>4. used_idx % SIZE \in Desc
  BY <1>1, SlotInRing DEF Idx
<1>5. QED
  BY <1>1, <1>2, <1>3, <1>4, Zenon DEF AvailAt, UsedAt

\* The entries that wait in the rings are descriptors.
LEMMA RingEntries ==
  ASSUME OwnershipInv
  PROVE  /\ \A i \in 0 .. Waiting - 1 : AvailAt(i) \in Desc
         /\ \A i \in 0 .. Unseen - 1 : UsedAt(i).id \in Desc /\ UsedAt(i).len \in Nat
<1>1. /\ Waiting \in Nat /\ Unseen \in Nat
      /\ \A k \in Nat : AvailAt(k) \in Desc /\ UsedAt(k).id \in Desc /\ UsedAt(k).len \in Nat
  BY RingTypes, Zenon
<1>2. \A i \in 0 .. Waiting - 1 : i \in Nat
  BY <1>1
<1>3. \A i \in 0 .. Unseen - 1 : i \in Nat
  BY <1>1
<1>4. QED
  BY <1>1, <1>2, <1>3, Zenon

\* The request that `add` builds has a token of its own.
LEMMA NewToken ==
  ASSUME OwnershipInv, pc \in {"push", "publish"}
  PROVE  built[Len(built)] \in Desc /\ data[built[Len(built)]] = <<>>
<1> DEFINE h == built[Len(built)]
<1>1. h \in Desc /\ Len(built) \in 1 .. Len(built)
  BY BuiltHead
<1>2. SUFFICES ASSUME data[h] # <<>> PROVE FALSE
  BY <1>1, Zenon
<1>3. chain[h] # <<>> /\ chain[h][Len(chain[h])] = h /\ chain[h] \in Seq(Desc)
  BY <1>1, <1>2, Zenon DEF OwnershipInv, TokensAreHeads, TypeOK, HistoryType
<1>4. Len(chain[h]) \in 1 .. Len(chain[h])
  BY <1>3
<1>5. QED
  BY <1>1, <1>3, <1>4, Zenon DEF OwnershipInv, BuiltNotHeld

\* There is room in the available ring for a request more ...
LEMMA AvailRoom ==
  ASSUME RingInv, pc = "push"
  PROVE  Waiting < SIZE
<1> DEFINE h == built[Len(built)]
           f == [i \in 0 .. Waiting - 1 |-> AvailAt(i)]
<1>1. Waiting \in Nat /\ \A k \in Nat : AvailAt(k) \in Desc
  BY RingTypes, Zenon DEF RingInv
<1>2. h \in Desc /\ data[h] = <<>>
  BY NewToken, Zenon DEF RingInv
<1>3. /\ \A i \in 0 .. Waiting - 1 : AvailAt(i) # h
      /\ \A i, j \in 0 .. Waiting - 1 : AvailAt(i) = AvailAt(j) => i = j
  BY <1>2, Zenon DEF RingInv, AvailInv
<1>4. /\ f \in [0 .. Waiting - 1 -> Desc]
      /\ \A i \in 0 .. Waiting - 1 : f[i] = AvailAt(i)
  BY <1>1
<1> HIDE DEF f
<1>5. QED
  BY <1>1, <1>2, <1>3, <1>4, FewerThanSize, SMTT(30)

\* ... and in the used ring for any request the device has taken.
LEMMA UsedRoom ==
  ASSUME RingInv, NEW h \in Desc, taken[h] # <<>>
  PROVE  /\ Unseen < SIZE
         /\ \A i \in 0 .. Unseen - 1 : UsedAt(i).id # h
<1> DEFINE f == [i \in 0 .. Unseen - 1 |-> UsedAt(i).id]
<1>1. Unseen \in Nat /\ \A k \in Nat : UsedAt(k).id \in Desc /\ UsedAt(k).len \in Nat
  BY RingTypes, Zenon DEF RingInv
<1>2. data[h] # <<>> /\ done[h] = NotDone
  BY Zenon DEF RingInv, TakenInv
<1>3. /\ \A i \in 0 .. Unseen - 1 : UsedAt(i).id # h
      /\ \A i, j \in 0 .. Unseen - 1 : UsedAt(i).id = UsedAt(j).id => i = j
  <2>1. ASSUME NEW i \in 0 .. Unseen - 1, UsedAt(i).id = h PROVE FALSE
    <3>1. data[UsedAt(i).id] = <<>> \/ done[UsedAt(i).id] = UsedAt(i).len
      BY Zenon DEF RingInv, UsedInv
    <3>2. UsedAt(i).len \in Nat
      BY <1>1
    <3>3. QED
      BY <1>2, <2>1, <3>1, <3>2 DEF NotDone
  <2>2. QED
    BY <2>1, Zenon DEF RingInv, UsedInv
<1>4. /\ f \in [0 .. Unseen - 1 -> Desc]
      /\ \A i \in 0 .. Unseen - 1 : f[i] = UsedAt(i).id
  BY <1>1
<1> HIDE DEF f
<1>5. \A i, j \in 0 .. Unseen - 1 : f[i] = f[j] => i = j
  BY <1>3, <1>4, Zenon
<1>6. \A i \in 0 .. Unseen - 1 : f[i] # h
  BY <1>3, <1>4, Zenon
<1>7. Unseen < SIZE
  BY <1>1, <1>4, <1>5, <1>6, FewerThanSize, Zenon
<1>8. QED
  BY <1>3, <1>7, Zenon

-----------------------------------------------------------------------------
(* `add` *)

\* `add` begins with no element popped out of order: DrainFirst.
LEMMA AddBeginRings ==
  ASSUME DrainFirst, RingInv, OwnershipInv', NEW r \in Requests, AddBegin(r)
  PROVE  RingInv'
<1>1. /\ pc' = "add" /\ built' = <<>> /\ poped_used = {}
      /\ UNCHANGED <<avail_idx, avail_ring, last_avail, data, done, taken, dev_pc, dev_head,
                     dev_at, dev_seen, chain, used_idx, used_ring, last_seen_used, poped_used,
                     writing, desc>>
  BY Zenon DEF AddBegin, MayAdd, driver, shared, device, history
<1>2. AvailInv' /\ WalkInv' /\ TakenInv' /\ UsedInv'
  BY <1>1, AvailFrame, WalkFrame, TakenFrame, UsedFrame, Zenon DEF RingInv
<1>3. ContentInv'
  <2>1. Holds(built, req)'
    BY <1>1, EmptyTyped DEF Holds
  <2>2. \A t \in Desc : data'[t] # <<>> =>
          Len(chain'[t]) = Len(data'[t]) /\ Holds(chain[t], data[t])'
    BY <1>1, Zenon DEF RingInv, ContentInv, Holds
  <2>3. QED
    BY <2>1, <2>2, Zenon DEF ContentInv
<1>4. OrderInv'
  BY <1>1, Zenon DEF OrderInv
<1>5. QED
  BY <1>2, <1>3, <1>4, Zenon DEF RingInv

\* A descriptor taken from the free list is in no chain the device can walk.
LEMMA AddDescRings ==
  ASSUME RingInv, OwnershipInv', AddDesc
  PROVE  RingInv'
<1> DEFINE x == avail_desc_index[1]
           k == Len(built)
<1>0. OwnershipInv /\ ContentInv
  BY Zenon DEF RingInv
<1>1. /\ pc = "add" /\ pc' \in {"add", "push"} /\ req' = req
      /\ UNCHANGED <<avail_idx, avail_ring, last_avail, data, done, taken, dev_pc, dev_head,
                     dev_at, dev_seen, chain, used_idx, used_ring, last_seen_used, poped_used,
                     writing, id>>
  BY Zenon DEF AddDesc, device, history
<1>2. AvailInv' /\ WalkInv' /\ TakenInv' /\ UsedInv'
  BY <1>1, AvailFrame, WalkFrame, TakenFrame, UsedFrame, Zenon DEF RingInv
<1>3. OrderInv'
  BY <1>1, Zenon DEF RingInv, OrderInv, Adding
<1>4. /\ x \in Desc /\ Head(avail_desc_index) = x /\ x % SIZE = x
      /\ 1 \in 1 .. Len(avail_desc_index)
      /\ built \in Seq(Desc) /\ req \in Seq(Buf) /\ k \in Nat /\ Len(req) \in Nat
      /\ Len(built') = k + 1 /\ built'[k + 1] = x
      /\ \A i \in 1 .. k : built'[i] = built[i]
  <2>1. x \in Desc /\ Head(avail_desc_index) = x /\ Len(avail_desc_index) > 0
    BY <1>0, <1>1, FreeHead, Zenon
  <2>2. /\ built \in Seq(Desc) /\ req \in Seq(Buf) /\ avail_desc_index \in Seq(Desc)
        /\ built' = Append(built, Head(avail_desc_index))
    BY <1>0, Zenon DEF OwnershipInv, TypeOK, CallType, DriverType, AddDesc
  <2>3. QED
    BY <2>1, <2>2, DescMod
<1>5. /\ desc'[x].addr = req[Len(req) - k]
      /\ \A d \in Desc : d # x => desc'[d] = desc[d]
  <2>1. desc \in [Desc -> Descriptor]
    BY <1>0, Zenon DEF OwnershipInv, TypeOK, SharedType
  <2>2. desc' = [desc EXCEPT ![x] =
                   [addr |-> Buffer(k), more |-> k > 0, next |-> Link(k)]]
    BY <1>4, ZenonT(30) DEF AddDesc
  <2>3. QED
    BY <1>4, <2>1, <2>2, ZenonT(30) DEF Buffer
<1>6. \A t \in Desc : \A j \in 1 .. Len(chain[t]) : chain[t][j] # x /\ chain[t][j] \in Desc
  <2>1. \A t \in Desc : Held(t) = Len(chain[t]) /\ chain[t] \in Seq(Desc)
    BY <1>0, <1>1, HeldWhole, Zenon DEF OwnershipInv, TypeOK, HistoryType
  <2>2. ASSUME NEW t \in Desc, NEW j \in 1 .. Len(chain[t])
        PROVE  chain[t][j] # x /\ chain[t][j] \in Desc
    <3>0. Len(chain[t]) = Held(t) /\ FreeNotHeld
      BY <1>0, <2>1, Zenon DEF OwnershipInv
    <3>1. chain[t][j] # x
      <4>1. j \in 1 .. Held(t)
        BY <3>0, Zenon
      <4>2. avail_desc_index[1] # chain[t][j]
        BY <1>4, <3>0, <4>1, Zenon DEF FreeNotHeld
      <4>3. QED
        BY <4>2, Zenon
    <3>2. chain[t] \in Seq(Desc)
      BY <2>1, Zenon
    <3>3. chain[t][j] \in Desc
      BY <3>2
    <3>4. QED
      BY <3>1, <3>3, Zenon
  <2>3. QED
    BY <2>2, Zenon
<1>7. \A j \in 1 .. k : built[j] # x /\ built[j] \in Desc
  BY <1>0, <1>4 DEF OwnershipInv, FreeNotBuilt
<1>8. Holds(built, req)'
  <2>1. \A j \in 1 .. k : desc'[built'[j]].addr = req[Len(req) + 1 - j]
    <3>1. \A j \in 1 .. k : desc[built[j]].addr = req[Len(req) + 1 - j]
      BY <1>0, <1>1, Zenon DEF ContentInv, Adding, Holds
    <3>2. \A j \in 1 .. k : desc'[built'[j]] = desc[built[j]]
      BY <1>4, <1>5, <1>7, Zenon
    <3>3. QED
      BY <3>1, <3>2, Zenon
  <2>2. desc'[built'[k + 1]].addr = req[Len(req) + 1 - (k + 1)]
    <3>1. k \in Nat /\ Len(req) \in Nat
      BY <1>4, Zenon
    <3>2. Len(req) + 1 - (k + 1) = Len(req) - k
      BY <3>1
    <3>3. QED
      BY <1>4, <1>5, <3>2, Zenon
  <2>3. \A j \in 1 .. Len(built') : j \in 1 .. k \/ j = k + 1
    BY <1>4
  <2>4. QED
    BY <1>1, <2>1, <2>2, <2>3, Zenon DEF Holds
<1>9. ContentInv'
  <2>1. ASSUME NEW t \in Desc, data[t] # <<>>
        PROVE  Len(chain[t]) = Len(data[t]) /\ Holds(chain[t], data[t])'
    <3>1. \A j \in 1 .. Len(chain[t]) : desc'[chain[t][j]] = desc[chain[t][j]]
      BY <1>5, <1>6, Zenon
    <3>2. Len(chain[t]) = Len(data[t]) /\ Holds(chain[t], data[t])
      BY <1>0, <2>1, Zenon DEF ContentInv
    <3>3. QED
      BY <1>1, <3>1, <3>2, Zenon DEF Holds
  <2>2. QED
    BY <1>1, <1>8, <2>1, Zenon DEF ContentInv
<1>10. QED
  BY <1>2, <1>3, <1>9, Zenon DEF RingInv

\* The slot written is none that the device has still to fetch.
LEMMA AddPushRings ==
  ASSUME RingInv, OwnershipInv', AddPush
  PROVE  RingInv'
<1>0. OwnershipInv /\ AvailInv /\ avail_ring \in [Desc -> Desc]
  BY Zenon DEF RingInv, OwnershipInv, TypeOK, SharedType
<1>1. /\ pc = "push" /\ pc' = "publish" /\ built' = built /\ req' = req
      /\ avail_ring' = [avail_ring EXCEPT ![avail_idx % SIZE] = built[Len(built)]]
      /\ UNCHANGED <<avail_idx, last_avail, data, done, taken, dev_pc, dev_head,
                     dev_at, dev_seen, chain, used_idx, used_ring, last_seen_used, poped_used,
                     writing, desc>>
  BY Zenon DEF AddPush, driver, device, history
<1>2. WalkInv' /\ TakenInv' /\ UsedInv'
  BY <1>1, WalkFrame, TakenFrame, UsedFrame, Zenon DEF RingInv
<1>3. ContentInv' /\ OrderInv'
  BY <1>1, ContentFrame, OrderFrame, Zenon DEF RingInv, Adding
<1>4. Waiting \in Nat /\ Waiting < SIZE /\ last_avail \in Idx /\ avail_idx \in Idx
  BY <1>0, <1>1, RingTypes, AvailRoom, Zenon
<1>5. avail_idx % SIZE = Slot(last_avail, Waiting) /\ avail_idx % SIZE \in Desc
  BY <1>4, SlotFacts, Zenon DEF Waiting
<1>6. \A i \in 0 .. Waiting - 1 : AvailAt(i)' = AvailAt(i)
  <2> TAKE i \in 0 .. Waiting - 1
  <2>1. Slot(last_avail, i) # avail_idx % SIZE /\ Slot(last_avail, i) \in Desc
    BY <1>4, <1>5, SlotFacts, SizeAssumption, SMTT(30)
  <2>2. QED
    BY <1>0, <1>1, <2>1, Zenon DEF AvailAt
<1>7. avail_ring'[avail_idx % SIZE] = built[Len(built)]
  BY <1>0, <1>1, <1>5, Zenon
<1>8. Waiting' = Waiting
  BY <1>1, Zenon DEF Waiting
<1>9. AvailInv'
  <2>1. \A i, j \in 0 .. Waiting' - 1 : AvailAt(i)' = AvailAt(j)' => i = j
    <3>1. \A i, j \in 0 .. Waiting - 1 : AvailAt(i) = AvailAt(j) => i = j
      BY <1>0, Zenon DEF AvailInv
    <3>2. ASSUME NEW i \in 0 .. Waiting - 1, NEW j \in 0 .. Waiting - 1,
                 AvailAt(i)' = AvailAt(j)'
          PROVE  i = j
      <4>1. AvailAt(i)' = AvailAt(i) /\ AvailAt(j)' = AvailAt(j)
        BY <1>6, Zenon
      <4>2. QED
        BY <3>1, <3>2, <4>1, Zenon
    <3>3. QED
      BY <1>8, <3>2, Zenon
  <2>2. \A i \in 0 .. Waiting' - 1 :
          /\ data'[AvailAt(i)'] # <<>> /\ done'[AvailAt(i)'] = NotDone
          /\ taken'[AvailAt(i)'] = <<>>
          /\ dev_pc' = "walk" => dev_head' # AvailAt(i)'
    BY <1>0, <1>1, <1>6, <1>8, Zenon DEF AvailInv
  <2>3. /\ Waiting' <= SIZE /\ Waiting' < SIZE
        /\ avail_ring'[avail_idx' % SIZE] = built'[Len(built')]
    BY <1>0, <1>1, <1>4, <1>7, <1>8, Zenon DEF AvailInv
  <2>4. QED
    BY <2>1, <2>2, <2>3, Zenon DEF AvailInv
<1>10. QED
  BY <1>2, <1>3, <1>9, Zenon DEF RingInv

\* The published head is new among those that wait.
LEMMA AddPublishRings ==
  ASSUME RingInv, OwnershipInv', AddPublish
  PROVE  RingInv'
<1> DEFINE h == built[Len(built)]
<1>0. /\ OwnershipInv /\ AvailInv /\ WalkInv /\ TakenInv /\ UsedInv /\ ContentInv /\ OrderInv
      /\ chain \in [Desc -> Seq(Desc)] /\ data \in [Desc -> Seq(Buf)]
      /\ done \in [Desc -> Nat \cup {NotDone}]
      /\ dev_head \in Desc /\ req \in Seq(Buf)
  BY Zenon DEF RingInv, OwnershipInv, TypeOK, HistoryType, DeviceType, CallType
<1>1. /\ pc = "publish" /\ pc' = "idle" /\ avail_idx' = Succ(avail_idx)
      /\ chain' = [chain EXCEPT ![h] = built]
      /\ data' = [data EXCEPT ![h] = req]
      /\ done' = [done EXCEPT ![h] = NotDone]
      /\ UNCHANGED <<avail_ring, last_avail, taken, dev_pc, dev_head, dev_at, dev_seen,
                     used_idx, used_ring, last_seen_used, poped_used, writing, desc>>
  BY Zenon DEF AddPublish, driver, device
<1>2. h \in Desc /\ data[h] = <<>> /\ Len(built) = Len(req) /\ req # <<>>
  BY <1>0, <1>1, NewToken, BuiltHead, EmptyTyped
<1>3. /\ chain'[h] = built /\ data'[h] = req /\ done'[h] = NotDone
      /\ \A t \in Desc : t # h => /\ chain'[t] = chain[t] /\ data'[t] = data[t]
                                  /\ done'[t] = done[t]
  BY <1>0, <1>1, <1>2, Zenon
<1>4. taken[h] = <<>>
  BY <1>0, <1>2, Zenon DEF TakenInv
<1>5. dev_pc = "walk" => dev_head # h
  BY <1>0, <1>2, Zenon DEF WalkInv
<1>6. WalkInv'
  BY <1>0, <1>1, <1>3, <1>5, Zenon DEF WalkInv
<1>7. TakenInv'
  BY <1>0, <1>1, <1>3, <1>4, Zenon DEF TakenInv
<1>8. UsedInv'
  <2>1. poped_used = {}
    BY <1>0, <1>1, Zenon DEF OrderInv, Adding
  <2>2. Unseen \in Nat /\ \A k \in Nat : UsedAt(k).id \in Desc
    BY <1>0, RingTypes, Zenon
  <2>3. Unseen' = Unseen /\ \A k : UsedAt(k)' = UsedAt(k) /\ At(k)' = At(k)
    BY <1>1, Zenon DEF Unseen, UsedAt, At
  <2>4. \A i \in 0 .. Unseen - 1 : /\ UsedAt(i).id # h /\ UsedAt(i).id \in Desc
                                   /\ data[UsedAt(i).id] # <<>>
                                   /\ done[UsedAt(i).id] = UsedAt(i).len
    <3> TAKE i \in 0 .. Unseen - 1
    <3>1. data[UsedAt(i).id] # <<>> /\ done[UsedAt(i).id] = UsedAt(i).len
      BY <1>0, <2>1, Zenon DEF UsedInv
    <3>2. UsedAt(i).id \in Desc
      BY <1>0, RingEntries, Zenon
    <3>3. QED
      BY <1>2, <3>1, <3>2, Zenon
  <2>5. QED
    BY <1>0, <1>1, <1>3, <2>1, <2>3, <2>4, Zenon DEF UsedInv
<1>9. AvailInv'
  <2>1. /\ Waiting \in Nat /\ Waiting < SIZE /\ last_avail \in Idx /\ avail_idx \in Idx
        /\ \A k \in Nat : AvailAt(k) \in Desc
    BY <1>0, <1>1, RingTypes, Zenon DEF AvailInv
  <2>2. Waiting' = Waiting + 1
    BY <1>1, <2>1, WrappingFacts, TwoRings DEF Waiting
  <2>3. \A k : AvailAt(k)' = AvailAt(k)
    BY <1>1, Zenon DEF AvailAt
  <2>4. AvailAt(Waiting) = h
    BY <1>0, <1>1, <2>1, SlotFacts, Zenon DEF AvailInv, AvailAt, Waiting
  <2>5. \A i \in 0 .. Waiting - 1 : AvailAt(i) # h
    BY <1>0, <1>2, Zenon DEF AvailInv
  <2>6. \A i \in 0 .. Waiting' - 1 : i \in 0 .. Waiting - 1 \/ i = Waiting
    BY <2>1, <2>2
  <2>7. \A i, j \in 0 .. Waiting' - 1 : AvailAt(i) = AvailAt(j) => i = j
    BY <1>0, <2>4, <2>5, <2>6, Zenon DEF AvailInv
  <2>8. ASSUME NEW i \in 0 .. Waiting' - 1
        PROVE  /\ data'[AvailAt(i)] # <<>> /\ done'[AvailAt(i)] = NotDone
               /\ taken[AvailAt(i)] = <<>>
               /\ dev_pc = "walk" => dev_head # AvailAt(i)
    <3>1. CASE i = Waiting
      BY <1>2, <1>3, <1>4, <1>5, <2>4, <3>1, Zenon
    <3>2. CASE i \in 0 .. Waiting - 1
      <4>1. AvailAt(i) \in Desc /\ AvailAt(i) # h
        BY <2>1, <2>5, <3>2
      <4>2. data'[AvailAt(i)] = data[AvailAt(i)] /\ done'[AvailAt(i)] = done[AvailAt(i)]
        BY <1>3, <4>1, Zenon
      <4>3. QED
        BY <1>0, <3>2, <4>2, Zenon DEF AvailInv
    <3>3. QED
      BY <2>6, <3>1, <3>2, Zenon
  <2>9. Waiting' <= SIZE /\ pc' # "publish"
    BY <1>1, <2>1, <2>2, SizeAssumption
  <2>10. \A i \in 0 .. Waiting' - 1 :
           /\ data'[AvailAt(i)'] # <<>> /\ done'[AvailAt(i)'] = NotDone
           /\ taken'[AvailAt(i)'] = <<>>
           /\ dev_pc' = "walk" => dev_head' # AvailAt(i)'
    BY <1>1, <2>3, <2>8, Zenon
  <2>11. \A i, j \in 0 .. Waiting' - 1 : AvailAt(i)' = AvailAt(j)' => i = j
    BY <2>3, <2>7, Zenon
  <2>12. QED
    BY <2>9, <2>10, <2>11, Zenon DEF AvailInv
<1>10. ContentInv'
  <2>1. Holds(built, req)
    BY <1>0, <1>1, Zenon DEF ContentInv, Adding
  <2>2. ~Adding'
    BY <1>1, Zenon DEF Adding
  <2>3. ASSUME NEW t \in Desc, data'[t] # <<>>
        PROVE  Len(chain'[t]) = Len(data'[t]) /\ Holds(chain[t], data[t])'
    <3>1. CASE t = h
      <4>1. chain'[t] = built /\ data'[t] = req /\ desc' = desc
        BY <1>1, <1>3, <3>1, Zenon
      <4>2. QED
        BY <1>2, <2>1, <4>1, Zenon DEF Holds
    <3>2. CASE t # h
      <4>1. chain'[t] = chain[t] /\ data'[t] = data[t] /\ desc' = desc
        BY <1>1, <1>3, <3>2, Zenon
      <4>2. Len(chain[t]) = Len(data[t]) /\ Holds(chain[t], data[t])
        BY <1>0, <2>3, <4>1, Zenon DEF ContentInv
      <4>3. QED
        BY <4>1, <4>2, Zenon DEF Holds
    <3>3. QED
      BY <3>1, <3>2, Zenon
  <2>4. QED
    BY <2>2, <2>3, Zenon DEF ContentInv
<1>11. OrderInv'
  BY <1>0, <1>1, Zenon DEF OrderInv, Adding
<1>12. QED
  BY <1>6, <1>7, <1>8, <1>9, <1>10, <1>11, Zenon DEF RingInv

-----------------------------------------------------------------------------
(* `pop_used` *)

\* can_pop has found the token, and the device only adds elements.
LEMMA PopBeginRings ==
  ASSUME RingInv, OwnershipInv', NEW t \in Desc, PopBegin(t)
  PROVE  RingInv'
<1>1. /\ pc = "idle" /\ pc' = "find" /\ id' = t /\ can_pop(t)
      /\ UNCHANGED <<avail_idx, avail_ring, last_avail, data, done, taken, dev_pc, dev_head,
                     dev_at, dev_seen, chain, used_idx, used_ring, last_seen_used, poped_used,
                     writing, desc>>
  BY Zenon DEF PopBegin, driver, shared, device, history
<1>2. AvailInv' /\ WalkInv' /\ TakenInv' /\ UsedInv'
  BY <1>1, AvailFrame, WalkFrame, TakenFrame, UsedFrame, Zenon DEF RingInv
<1>3. ContentInv'
  BY <1>1, ContentFrame, Zenon DEF RingInv, Adding
<1>4. can_pop(id)'
  BY <1>1, Zenon DEF can_pop, Matches, Window, At
<1>5. OrderInv'
  BY <1>1, <1>4, Zenon DEF RingInv, OrderInv, Adding
<1>6. QED
  BY <1>2, <1>3, <1>5, Zenon DEF RingInv

\* The element pop_used finds is the one of the request, not popped before.
LEMMA FoundElement ==
  ASSUME RingInv, pc = "find", NEW k \in Matches(id)
  PROVE  /\ k \in 0 .. Unseen - 1 /\ UsedAt(k).id = id
         /\ At(k) \notin poped_used
         /\ data[id] # <<>> /\ done[id] = UsedAt(k).len /\ done[id] \in Nat
         /\ UsedLen(At(k)) = UsedAt(k).len
<1>1. k \in 0 .. Unseen - 1 /\ UsedAt(k).id = id
  BY Zenon DEF Matches, Window, Unseen, UsedAt, Slot, At
<1>2. data[id] # <<>>
  BY Zenon DEF RingInv, OwnershipInv, CallInv
<1>3. At(k) \notin poped_used /\ done[id] = UsedAt(k).len
  BY <1>1, <1>2, Zenon DEF RingInv, UsedInv
<1>4. UsedAt(k).len \in Nat
  <2>1. Unseen \in Nat /\ \A j \in Nat : UsedAt(j).len \in Nat
    BY RingTypes, Zenon DEF RingInv
  <2>2. k \in Nat
    BY <1>1, <2>1
  <2>3. QED
    BY <2>1, <2>2, Zenon
<1>5. QED
  BY <1>1, <1>2, <1>3, <1>4, Zenon DEF UsedLen, UsedAt, Slot, At

\* pop_used marks the one element of the request it returns.
LEMMA PopFindRings ==
  ASSUME RingInv, OwnershipInv', PopFind
  PROVE  RingInv'
<1>0. /\ OwnershipInv /\ AvailInv /\ WalkInv /\ TakenInv /\ UsedInv /\ ContentInv /\ OrderInv
      /\ data \in [Desc -> Seq(Buf)] /\ id \in Desc /\ dev_head \in Desc
  BY Zenon DEF RingInv, OwnershipInv, TypeOK, HistoryType, DeviceType, CallType
<1>1. /\ pc = "find" /\ pc' = "walk"
      /\ data' = [data EXCEPT ![id] = <<>>]
      /\ UNCHANGED <<avail_idx, avail_ring, last_avail, done, taken, dev_pc, dev_head,
                     dev_at, dev_seen, chain, used_idx, used_ring, last_seen_used,
                     writing, desc>>
  BY Zenon DEF PopFind, shared, device
<1>2. PICK k \in Matches(id) : poped_used' = poped_used \cup {At(k)}
  BY Zenon DEF PopFind
<1>3. /\ k \in 0 .. Unseen - 1 /\ UsedAt(k).id = id /\ At(k) \notin poped_used
      /\ done[id] # NotDone
  <2>1. /\ k \in 0 .. Unseen - 1 /\ UsedAt(k).id = id /\ At(k) \notin poped_used
        /\ done[id] \in Nat
    BY <1>1, <1>2, FoundElement, Zenon
  <2>2. done[id] # NotDone
    BY <2>1 DEF NotDone
  <2>3. QED
    BY <2>1, <2>2, Zenon
<1>4. data'[id] = <<>> /\ \A t \in Desc : t # id => data'[t] = data[t]
  BY <1>0, <1>1, Zenon
<1>5. AvailInv'
  <2>1. Waiting' = Waiting /\ \A i : AvailAt(i)' = AvailAt(i)
    BY <1>1, Zenon DEF Waiting, AvailAt
  <2>2. \A i \in 0 .. Waiting - 1 : AvailAt(i) \in Desc /\ AvailAt(i) # id
    <3>1. \A i \in 0 .. Waiting - 1 : AvailAt(i) # id
      BY <1>0, <1>3, Zenon DEF AvailInv
    <3>2. \A i \in 0 .. Waiting - 1 : AvailAt(i) \in Desc
      BY <1>0, RingEntries, Zenon
    <3>3. QED
      BY <3>1, <3>2, Zenon
  <2>3. \A i \in 0 .. Waiting - 1 : data'[AvailAt(i)] = data[AvailAt(i)]
    BY <1>4, <2>2, Zenon
  <2>4. QED
    BY <1>0, <1>1, <2>1, <2>3, Zenon DEF AvailInv
<1>6. WalkInv'
  BY <1>0, <1>1, <1>3, <1>4, Zenon DEF WalkInv
<1>7. TakenInv'
  BY <1>0, <1>1, <1>3, <1>4, Zenon DEF TakenInv
<1>8. UsedInv'
  <2>1. Unseen' = Unseen /\ \A i : UsedAt(i)' = UsedAt(i) /\ At(i)' = At(i)
    BY <1>1, Zenon DEF Unseen, UsedAt, At
  <2>2. ASSUME NEW i \in 0 .. Unseen - 1
        PROVE  /\ At(i) \in poped_used' => data'[UsedAt(i).id] = <<>>
               /\ At(i) \notin poped_used' =>
                    data'[UsedAt(i).id] # <<>> /\ done[UsedAt(i).id] = UsedAt(i).len
    <3>1. CASE i = k
      BY <1>2, <1>3, <1>4, <3>1, Zenon
    <3>2. CASE i # k
      <4>1. UsedAt(i).id # id /\ UsedAt(i).id \in Desc
        <5>1. UsedAt(i).id # id
          BY <1>0, <1>3, <3>2, Zenon DEF UsedInv
        <5>2. UsedAt(i).id \in Desc
          BY <1>0, RingTypes
        <5>3. QED
          BY <5>1, <5>2, Zenon
      <4>2. data'[UsedAt(i).id] = data[UsedAt(i).id]
        BY <1>4, <4>1, Zenon
      <4>3. Unseen \in Nat /\ Unseen <= SIZE /\ last_seen_used \in Idx
        BY <1>0, RingTypes, Zenon DEF UsedInv
      <4>4. At(i) # At(k)
        BY <1>3, <3>2, <4>3, IndexFacts, SizeAssumption DEF At
      <4>5. At(i) \in poped_used' <=> At(i) \in poped_used
        BY <1>2, <4>4, Zenon
      <4>6. QED
        BY <1>0, <4>2, <4>5, Zenon DEF UsedInv
    <3>3. QED
      BY <3>1, <3>2, Zenon
  <2>3. \A p \in poped_used' : \E i \in 0 .. Unseen - 1 : p = At(i)
    BY <1>0, <1>2, <1>3, Zenon DEF UsedInv
  <2>4. QED
    BY <1>0, <1>1, <2>1, <2>2, <2>3, Zenon DEF UsedInv
<1>9. ContentInv'
  BY <1>0, <1>1, <1>4, Zenon DEF ContentInv, Holds, Adding
<1>10. OrderInv'
  BY <1>1, Zenon DEF OrderInv, Adding
<1>11. QED
  BY <1>5, <1>6, <1>7, <1>8, <1>9, <1>10, Zenon DEF RingInv

\* The chain that is free now is none the device can walk.
LEMMA PopWalkedRings ==
  ASSUME RingInv, OwnershipInv', PopWalked
  PROVE  RingInv'
<1>0. /\ OwnershipInv /\ WalkInv /\ ContentInv
      /\ chain \in [Desc -> Seq(Desc)] /\ id \in Desc /\ dev_head \in Desc
  BY Zenon DEF RingInv, OwnershipInv, TypeOK, HistoryType, DeviceType, CallType
<1>1. /\ pc = "walk" /\ pc' = "advance"
      /\ chain' = [chain EXCEPT ![id] = <<>>]
      /\ UNCHANGED <<avail_idx, avail_ring, last_avail, data, done, taken, dev_pc, dev_head,
                     dev_at, dev_seen, used_idx, used_ring, last_seen_used, poped_used,
                     writing, desc>>
  BY Zenon DEF PopWalked, driver, shared, device
<1>2. AvailInv' /\ TakenInv' /\ UsedInv' /\ OrderInv'
  BY <1>1, AvailFrame, TakenFrame, UsedFrame, OrderFrame, Zenon DEF RingInv
<1>3. data[id] = <<>>
  BY <1>0, <1>1, Zenon DEF OwnershipInv, CallInv
<1>4. \A t \in Desc : t # id => chain'[t] = chain[t]
  BY <1>0, <1>1, Zenon
<1>5. WalkInv'
  BY <1>0, <1>1, <1>3, <1>4, Zenon DEF WalkInv
<1>6. ContentInv'
  BY <1>0, <1>1, <1>3, <1>4, Zenon DEF ContentInv, Holds, Adding
<1>7. QED
  BY <1>2, <1>5, <1>6, Zenon DEF RingInv

\* Moving last_seen_used over a popped element leaves the rest of the window.
LEMMA AdvanceWindow ==
  ASSUME RingInv, PopAdvance
  PROVE  /\ Unseen \in Nat /\ Unseen > 0 /\ Unseen' = Unseen - 1
         /\ At(0) = last_seen_used
         /\ \A i \in 0 .. Unseen' - 1 :
              i + 1 \in 0 .. Unseen - 1 /\ UsedAt(i)' = UsedAt(i + 1) /\ At(i)' = At(i + 1)
         /\ \A i \in 1 .. Unseen - 1 : At(i) # last_seen_used
<1>0. OwnershipInv /\ UsedInv
  BY Zenon DEF RingInv
<1>1. /\ last_seen_used \in poped_used /\ last_seen_used' = Succ(last_seen_used)
      /\ UNCHANGED <<used_idx, used_ring>>
  BY Zenon DEF PopAdvance
<1>2. /\ Unseen \in Nat /\ Unseen <= SIZE /\ last_seen_used \in Idx /\ used_idx \in Idx
      /\ SIZE \in Nat
  BY <1>0, RingTypes, SizeAssumption, Zenon DEF UsedInv
<1>3. At(0) = last_seen_used
  BY <1>2, IndexFacts DEF At, Idx
<1>4. Unseen > 0
  BY <1>0, <1>1, <1>2 DEF UsedInv
<1>5. Unseen' = Unseen - 1
  BY <1>1, <1>2, <1>4, WrappingFacts DEF Unseen
<1>6. \A i \in 0 .. Unseen' - 1 :
        i + 1 \in 0 .. Unseen - 1 /\ UsedAt(i)' = UsedAt(i + 1) /\ At(i)' = At(i + 1)
  <2> TAKE i \in 0 .. Unseen' - 1
  <2>1. i + 1 \in 0 .. Unseen - 1 /\ i \in 0 .. SIZE
    BY <1>2, <1>5
  <2>2. Slot(Succ(last_seen_used), i) = Slot(last_seen_used, i + 1)
    BY <1>2, <2>1, SlotFacts, Zenon
  <2>3. (Succ(last_seen_used) + i) % IdxMod = (last_seen_used + (i + 1)) % IdxMod
    BY <1>2, <2>1, IndexFacts, Zenon
  <2>4. QED
    BY <1>1, <2>1, <2>2, <2>3, Zenon DEF UsedAt, At
<1>7. \A i \in 1 .. Unseen - 1 : At(i) # last_seen_used
  BY <1>2, <1>3, IndexFacts DEF At
<1>8. QED
  BY <1>2, <1>3, <1>4, <1>5, <1>6, <1>7, Zenon

\* last_seen_used moves over an element whose request has been popped.
LEMMA PopAdvanceRings ==
  ASSUME RingInv, OwnershipInv', PopAdvance
  PROVE  RingInv'
<1>0. OwnershipInv /\ UsedInv
  BY Zenon DEF RingInv
<1>1. /\ pc = "advance" /\ pc' = "advance"
      /\ last_seen_used \in poped_used /\ poped_used' = poped_used \ {last_seen_used}
      /\ UNCHANGED <<avail_idx, avail_ring, last_avail, data, done, taken, dev_pc, dev_head,
                     dev_at, dev_seen, chain, used_idx, used_ring, writing, desc>>
  BY Zenon DEF PopAdvance, call, device, history
<1>2. AvailInv' /\ WalkInv' /\ TakenInv' /\ ContentInv'
  BY <1>1, AvailFrame, WalkFrame, TakenFrame, ContentFrame, Zenon DEF RingInv, Adding
<1>3. OrderInv'
  BY <1>1, Zenon DEF OrderInv, Adding
<1>4. Unseen <= SIZE /\ SIZE \in Nat
  BY <1>0, SizeAssumption, Zenon DEF UsedInv
<1>5. Unseen \in Nat /\ Unseen' = Unseen - 1 /\ At(0) = last_seen_used
  BY AdvanceWindow, Zenon
<1>6. \A i \in 0 .. Unseen' - 1 :
        i + 1 \in 0 .. Unseen - 1 /\ UsedAt(i)' = UsedAt(i + 1) /\ At(i)' = At(i + 1)
  BY AdvanceWindow, Zenon
<1>7. \A i \in 1 .. Unseen - 1 : At(i) # last_seen_used
  BY AdvanceWindow, Zenon
<1>8. UsedInv'
  <2>1. Unseen' <= SIZE /\ (writing' => Unseen' < SIZE)
    BY <1>4, <1>5
  <2>2. ASSUME NEW i \in 0 .. Unseen' - 1, NEW j \in 0 .. Unseen' - 1,
               UsedAt(i)'.id = UsedAt(j)'.id
        PROVE  i = j
    <3>1. i + 1 = j + 1
      BY <1>0, <1>6, <2>2, Zenon DEF UsedInv
    <3>2. QED
      BY <3>1
  <2>3. ASSUME NEW i \in 0 .. Unseen' - 1
        PROVE  /\ At(i)' \in poped_used' => data'[UsedAt(i)'.id] = <<>>
               /\ At(i)' \notin poped_used' =>
                    data'[UsedAt(i)'.id] # <<>> /\ done'[UsedAt(i)'.id] = UsedAt(i)'.len
    <3>1. /\ i + 1 \in 0 .. Unseen - 1 /\ i + 1 \in 1 .. Unseen - 1
          /\ UsedAt(i)' = UsedAt(i + 1) /\ At(i)' = At(i + 1)
      BY <1>5, <1>6
    <3>2. At(i + 1) \in poped_used' <=> At(i + 1) \in poped_used
      BY <1>1, <1>7, <3>1, Zenon
    <3>3. QED
      BY <1>0, <1>1, <3>1, <3>2, Zenon DEF UsedInv
  <2>4. ASSUME NEW p \in poped_used' PROVE \E i \in 0 .. Unseen' - 1 : p = At(i)'
    <3>1. PICK i \in 0 .. Unseen - 1 : p = At(i)
      BY <1>0, <1>1, Zenon DEF UsedInv
    <3>2. i # 0
      BY <1>1, <1>5, <3>1, Zenon
    <3>3. i - 1 \in 0 .. Unseen' - 1 /\ (i - 1) + 1 = i
      BY <1>5, <3>2
    <3>4. At(i - 1)' = At(i)
      BY <1>6, <3>3, Zenon
    <3>5. QED
      BY <3>1, <3>3, <3>4, Zenon
  <2>5. writing' => taken'[used_ring'[used_idx' % SIZE].id] # <<>>
    BY <1>0, <1>1, Zenon DEF UsedInv
  <2>6. QED
    BY <2>1, <2>2, <2>3, <2>4, <2>5, Zenon DEF UsedInv
<1>9. QED
  BY <1>2, <1>3, <1>8, Zenon DEF RingInv

-----------------------------------------------------------------------------
(* The device *)

\* The head fetched becomes the one the device walks.
LEMMA DevFetchRings ==
  ASSUME RingInv, OwnershipInv', DevFetch
  PROVE  RingInv'
<1>0. /\ OwnershipInv /\ AvailInv /\ chain \in [Desc -> Seq(Desc)]
      /\ SIZE \in Nat
  BY SizeAssumption, Zenon DEF RingInv, OwnershipInv, TypeOK, HistoryType
<1>1. /\ dev_pc' = "walk" /\ last_avail # avail_idx /\ last_avail' = Succ(last_avail)
      /\ dev_head' = avail_ring[last_avail % SIZE] /\ dev_at' = dev_head'
      /\ dev_seen' = <<>>
      /\ UNCHANGED <<avail_idx, avail_ring, data, done, taken, chain, used_idx, used_ring,
                     last_seen_used, poped_used, writing, desc, pc, id, built, req>>
  BY Zenon DEF DevFetch, driver, shared, call, history
<1>2. TakenInv' /\ UsedInv' /\ OrderInv' /\ ContentInv'
  BY <1>1, TakenFrame, UsedFrame, OrderFrame, ContentFrame, Zenon DEF RingInv, Adding
<1>3. /\ Waiting \in Nat /\ Waiting <= SIZE /\ last_avail \in Idx /\ avail_idx \in Idx
  BY <1>0, RingTypes, Zenon DEF AvailInv
<1>4. Waiting > 0 /\ Waiting' = Waiting - 1
  BY <1>1, <1>3, WrappingFacts DEF Waiting
<1>5. dev_head' = AvailAt(0) /\ AvailAt(0) \in Desc /\ 0 \in 0 .. Waiting - 1
  <2>1. last_avail + 0 = last_avail /\ last_avail % IdxMod = last_avail
    BY <1>3, IndexFacts DEF Idx
  <2>2. QED
    <3>1. 0 \in Nat /\ 0 \in 0 .. Waiting - 1
      BY <1>3, <1>4
    <3>2. AvailAt(0) \in Desc
      BY <1>0, <3>1, RingTypes, Zenon
    <3>3. dev_head' = AvailAt(0)
      BY <1>1, <2>1, Zenon DEF AvailAt, Slot
    <3>4. QED
      BY <3>1, <3>2, <3>3, Zenon
<1>6. \A i \in 0 .. Waiting' - 1 :
        i + 1 \in 0 .. Waiting - 1 /\ AvailAt(i)' = AvailAt(i + 1)
  <2> TAKE i \in 0 .. Waiting' - 1
  <2>1. i + 1 \in 0 .. Waiting - 1 /\ i \in 0 .. SIZE
    BY <1>0, <1>3, <1>4
  <2>2. Slot(Succ(last_avail), i) = Slot(last_avail, i + 1)
    BY <1>3, <2>1, SlotFacts, Zenon
  <2>3. QED
    BY <1>1, <2>1, <2>2, Zenon DEF AvailAt
<1>7. AvailInv'
  <2>1. Waiting' <= SIZE /\ (pc' = "publish" => Waiting' < SIZE)
    <3>1. SIZE \in Nat
      BY <1>0, Zenon
    <3>2. QED
      BY <1>3, <1>4, <3>1
  <2>2. ASSUME NEW i \in 0 .. Waiting' - 1, NEW j \in 0 .. Waiting' - 1,
               AvailAt(i)' = AvailAt(j)'
        PROVE  i = j
    <3>1. i + 1 = j + 1
      BY <1>0, <1>6, <2>2, Zenon DEF AvailInv
    <3>2. QED
      BY <3>1
  <2>3. ASSUME NEW i \in 0 .. Waiting' - 1
        PROVE  /\ data'[AvailAt(i)'] # <<>> /\ done'[AvailAt(i)'] = NotDone
               /\ taken'[AvailAt(i)'] = <<>> /\ dev_head' # AvailAt(i)'
    <3>1. i + 1 \in 0 .. Waiting - 1 /\ AvailAt(i)' = AvailAt(i + 1) /\ i + 1 # 0
      BY <1>6
    <3>2. AvailAt(i + 1) # AvailAt(0)
      BY <1>0, <1>5, <3>1, Zenon DEF AvailInv
    <3>3. QED
      BY <1>0, <1>1, <1>5, <3>1, <3>2, Zenon DEF AvailInv
  <2>4. pc' = "publish" => avail_ring'[avail_idx' % SIZE] = built'[Len(built')]
    BY <1>0, <1>1, Zenon DEF AvailInv
  <2>5. QED
    BY <2>1, <2>2, <2>3, <2>4, Zenon DEF AvailInv
<1>8. WalkInv'
  <2> DEFINE t == AvailAt(0)
  <2>1. /\ data[t] # <<>> /\ done[t] = NotDone /\ taken[t] = <<>> /\ t \in Desc
    BY <1>0, <1>5, Zenon DEF AvailInv
  <2>2. chain[t] # <<>> /\ chain[t][Len(chain[t])] = t /\ chain[t] \in Seq(Desc)
    BY <1>0, <2>1, Zenon DEF OwnershipInv, TokensAreHeads
  <2>3. Len(dev_seen') = 0 /\ 0 < Len(chain[t]) /\ Len(chain[t]) - 0 = Len(chain[t])
    <3>1. Len(dev_seen') = 0
      BY <1>1, EmptyTyped, Zenon
    <3>2. 0 < Len(chain[t]) /\ Len(chain[t]) - 0 = Len(chain[t])
      BY <2>2
    <3>3. QED
      BY <3>1, <3>2, Zenon
  <2>4. dev_head' = t /\ chain' = chain /\ data' = data /\ done' = done /\ taken' = taken
        /\ dev_at' = t
    BY <1>1, <1>5, Zenon
  <2>5. \A i \in 1 .. Len(dev_seen') : FALSE
    BY <2>3
  <2> HIDE DEF t
  <2>6. QED
    BY <2>1, <2>2, <2>3, <2>4, <2>5, Zenon DEF WalkInv
<1>9. QED
  BY <1>2, <1>7, <1>8, Zenon DEF RingInv

\* The descriptor the device reads is the next one of the chain.
LEMMA WalkReads ==
  ASSUME RingInv, dev_pc = "walk"
  PROVE  LET t == dev_head
             n == Len(dev_seen)
         IN /\ t \in Desc /\ n \in Nat /\ Len(chain[t]) \in Nat
            /\ n < Len(chain[t]) /\ Len(chain[t]) = Len(data[t])
            /\ desc[dev_at].addr = data[t][n + 1]
            /\ desc[dev_at].more <=> n + 1 < Len(chain[t])
            /\ n + 1 < Len(chain[t]) =>
                 desc[dev_at].next = chain[t][Len(chain[t]) - (n + 1)]
<1> DEFINE t == dev_head
           n == Len(dev_seen)
           l == Len(chain[t])
<1>1. /\ t \in Desc /\ n \in Nat /\ chain[t] \in Seq(Desc) /\ l \in Nat
  BY DEF RingInv, OwnershipInv, TypeOK, DeviceType, HistoryType
<1>2. /\ data[t] # <<>> /\ n < l /\ dev_at = chain[t][l - n]
  BY Zenon DEF RingInv, WalkInv
<1>3. /\ l = Len(data[t]) /\ Holds(chain[t], data[t]) /\ Linked(chain[t])
  BY <1>1, <1>2, Zenon DEF RingInv, ContentInv, OwnershipInv, ChainsLinked
<1>4. l - n \in 1 .. l /\ l + 1 - (l - n) = n + 1 /\ (l - n) - 1 = l - (n + 1)
  BY <1>1, <1>2
<1>5. desc[dev_at].addr = data[t][n + 1]
  BY <1>2, <1>3, <1>4, Zenon DEF Holds
<1>6. /\ desc[dev_at].more <=> l - n > 1
      /\ l - n > 1 => desc[dev_at].next = chain[t][l - (n + 1)]
  BY <1>2, <1>3, <1>4, Zenon DEF Linked
<1>7. l - n > 1 <=> n + 1 < l
  BY <1>1
<1>8. QED
  BY <1>1, <1>2, <1>3, <1>5, <1>6, <1>7, Zenon

\* r is s with e after it, over S.
Longer(r, s, e, S) ==
  /\ r \in Seq(S) /\ Len(r) = Len(s) + 1 /\ r[Len(s) + 1] = e
  /\ \A i \in 1 .. Len(s) : r[i] = s[i]

\* Append makes a sequence one element longer.
LEMMA OneMore ==
  ASSUME NEW S, NEW s \in Seq(S), NEW e \in S
  PROVE  Longer(Append(s, e), s, e, S)
  BY DEF Longer

\* The device sees the next buffer of the request, or has seen them all.
LEMMA DevWalkRings ==
  ASSUME RingInv, OwnershipInv', DevWalk
  PROVE  RingInv'
<1> DEFINE t == dev_head
           n == Len(dev_seen)
           seen == Append(dev_seen, desc[dev_at].addr)
<1>0. /\ OwnershipInv /\ AvailInv /\ WalkInv /\ TakenInv /\ UsedInv
      /\ dev_seen \in Seq(Buf \cup {NoBuf}) /\ taken \in [Desc -> Seq(Buf \cup {NoBuf})]
      /\ desc[dev_at].addr \in Buf \cup {NoBuf}
      /\ data[t] \in Seq(Buf)
  BY Zenon DEF RingInv, OwnershipInv, TypeOK, DeviceType, SharedType, HistoryType, Descriptor
<1>1. /\ dev_pc = "walk" /\ dev_head' = dev_head
      /\ UNCHANGED <<avail_idx, avail_ring, last_avail, data, done, chain, used_idx, used_ring,
                     last_seen_used, poped_used, writing, desc, pc, id, built, req>>
  BY Zenon DEF DevWalk, driver, shared, call, history
<1>2. OrderInv' /\ ContentInv'
  BY <1>1, OrderFrame, ContentFrame, Zenon DEF RingInv, Adding
<1>3. /\ t \in Desc /\ n \in Nat /\ Len(chain[t]) \in Nat
      /\ n < Len(chain[t]) /\ Len(chain[t]) = Len(data[t])
      /\ desc[dev_at].addr = data[t][n + 1]
      /\ desc[dev_at].more <=> n + 1 < Len(chain[t])
      /\ n + 1 < Len(chain[t]) =>
           desc[dev_at].next = chain[t][Len(chain[t]) - (n + 1)]
  BY <1>1, WalkReads, Zenon
<1>4. /\ Len(seen) = n + 1 /\ seen[n + 1] = data[t][n + 1]
      /\ \A i \in 1 .. n : seen[i] = dev_seen[i]
      /\ seen \in Seq(Buf \cup {NoBuf})
  <2>0. Longer(seen, dev_seen, desc[dev_at].addr, Buf \cup {NoBuf})
    BY <1>0, OneMore, Zenon
  <2> HIDE DEF seen
  <2>1. /\ seen \in Seq(Buf \cup {NoBuf}) /\ Len(seen) = n + 1
        /\ seen[n + 1] = desc[dev_at].addr
        /\ \A i \in 1 .. n : seen[i] = dev_seen[i]
    BY <2>0, Zenon DEF Longer
  <2>2. QED
    BY <1>3, <2>1, Zenon
<1>5. \A i \in 1 .. n + 1 : seen[i] = data[t][i]
  <2>1. \A i \in 1 .. n : dev_seen[i] = data[t][i]
    BY <1>0, <1>1, Zenon DEF WalkInv
  <2>2. \A i \in 1 .. n + 1 : i \in 1 .. n \/ i = n + 1
    BY <1>3
  <2>3. QED
    BY <1>4, <2>1, <2>2, Zenon
<1>6. CASE desc[dev_at].more
  <2>1. /\ dev_at' = desc[dev_at].next /\ dev_seen' = seen /\ UNCHANGED <<dev_pc, taken>>
    BY <1>6, Zenon DEF DevWalk
  <2>2. AvailInv' /\ TakenInv' /\ UsedInv'
    BY <1>1, <2>1, AvailFrame, TakenFrame, UsedFrame, Zenon DEF RingInv
  <2>3. WalkInv'
    <3>1. /\ data'[t] # <<>> /\ done'[t] = NotDone /\ taken'[t] = <<>>
      BY <1>0, <1>1, <2>1, Zenon DEF WalkInv
    <3>2. Len(dev_seen') = n + 1 /\ n + 1 < Len(chain'[t])
          /\ dev_at' = chain'[t][Len(chain'[t]) - (n + 1)]
      BY <1>1, <1>3, <1>4, <1>6, <2>1, Zenon
    <3>3. \A i \in 1 .. Len(dev_seen') : dev_seen'[i] = data'[t][i]
      BY <1>1, <1>4, <1>5, <2>1, Zenon
    <3>4. QED
      BY <1>1, <3>1, <3>2, <3>3, Zenon DEF WalkInv
  <2>4. QED
    BY <1>2, <2>2, <2>3, Zenon DEF RingInv
<1>7. CASE ~desc[dev_at].more
  <2>1. /\ dev_pc' = "ready" /\ taken' = [taken EXCEPT ![t] = seen]
    BY <1>7, Zenon DEF DevWalk
  <2>2. n + 1 = Len(data[t])
    BY <1>3, <1>7
  <2>3. seen = data[t]
    BY <1>0, <1>4, <1>5, <2>2
  <2>4. taken'[t] = data[t] /\ \A u \in Desc : u # t => taken'[u] = taken[u]
    BY <1>0, <1>3, <2>1, <2>3, Zenon
  <2>5. data[t] # <<>> /\ done[t] = NotDone
    BY <1>0, <1>1, Zenon DEF WalkInv
  <2>6. WalkInv'
    BY <2>1, Zenon DEF WalkInv
  <2>7. TakenInv'
    BY <1>0, <1>1, <2>4, <2>5, Zenon DEF TakenInv
  <2>8. AvailInv'
    <3>1. Waiting' = Waiting /\ \A i : AvailAt(i)' = AvailAt(i)
      BY <1>1, Zenon DEF Waiting, AvailAt
    <3>2. \A i \in 0 .. Waiting - 1 : AvailAt(i) # t
      BY <1>0, <1>1, Zenon DEF AvailInv
    <3>3. \A i \in 0 .. Waiting - 1 : AvailAt(i) \in Desc
      BY <1>0, RingTypes
    <3>4. \A i \in 0 .. Waiting - 1 : taken'[AvailAt(i)] = taken[AvailAt(i)]
      BY <2>4, <3>2, <3>3, Zenon
    <3>5. QED
      BY <1>0, <1>1, <2>1, <3>1, <3>4, Zenon DEF AvailInv
  <2>9. UsedInv'
    <3>1. Unseen' = Unseen /\ \A i : UsedAt(i)' = UsedAt(i) /\ At(i)' = At(i)
      BY <1>1, Zenon DEF Unseen, UsedAt, At
    <3>2. used_ring[used_idx % SIZE].id \in Desc
      BY <1>0, RingTypes, Zenon
    <3>3. writing' => taken'[used_ring'[used_idx' % SIZE].id] # <<>>
      BY <1>0, <1>1, <2>4, <2>5, <3>2, Zenon DEF UsedInv
    <3>4. QED
      BY <1>0, <1>1, <3>1, <3>3, Zenon DEF UsedInv
  <2>10. QED
    BY <1>2, <2>6, <2>7, <2>8, <2>9, Zenon DEF RingInv
<1>8. QED
  BY <1>6, <1>7, Zenon

\* A new element goes to a slot that pop_used does not scan.
LEMMA WriteWindow ==
  ASSUME RingInv, NEW h \in Desc, NEW len \in Lens, DevWrite(h, len)
  PROVE  /\ Unseen \in Nat /\ Unseen < SIZE /\ Unseen' = Unseen
         /\ \A i : At(i)' = At(i)
         /\ \A i \in 0 .. Unseen - 1 : UsedAt(i)' = UsedAt(i)
         /\ used_ring'[used_idx' % SIZE].id = h /\ used_ring'[used_idx' % SIZE].len = len
<1>0. OwnershipInv /\ used_ring \in [Desc -> [id : Desc, len : Nat]] /\ SIZE \in Nat
  BY SizeAssumption, Zenon DEF RingInv, OwnershipInv, TypeOK, SharedType
<1>1. /\ taken[h] # <<>> /\ UNCHANGED <<used_idx, last_seen_used>>
      /\ used_ring' = [used_ring EXCEPT ![used_idx % SIZE] = [id |-> h, len |-> len]]
  BY Zenon DEF DevWrite, driver
<1>2. /\ Unseen \in Nat /\ Unseen < SIZE /\ last_seen_used \in Idx /\ used_idx \in Idx
  BY <1>0, <1>1, RingTypes, UsedRoom, Zenon
<1>3. used_idx % SIZE = Slot(last_seen_used, Unseen) /\ used_idx % SIZE \in Desc
  BY <1>2, SlotFacts, Zenon DEF Unseen
<1>4. \A i \in 0 .. Unseen - 1 : UsedAt(i)' = UsedAt(i)
  <2> TAKE i \in 0 .. Unseen - 1
  <2>1. Slot(last_seen_used, i) # used_idx % SIZE /\ Slot(last_seen_used, i) \in Desc
    BY <1>0, <1>2, <1>3, SlotFacts
  <2>2. QED
    BY <1>0, <1>1, <2>1, Zenon DEF UsedAt
<1>5. Unseen' = Unseen /\ \A i : At(i)' = At(i)
  BY <1>1, Zenon DEF Unseen, At
<1>6. used_ring'[used_idx' % SIZE].id = h /\ used_ring'[used_idx' % SIZE].len = len
  BY <1>0, <1>1, <1>3, Zenon
<1>7. QED
  BY <1>2, <1>4, <1>5, <1>6, Zenon

\* The element written takes no slot that pop_used scans.
LEMMA DevWriteRings ==
  ASSUME RingInv, OwnershipInv', NEW h \in Desc, NEW len \in Lens, DevWrite(h, len)
  PROVE  RingInv'
<1>0. UsedInv /\ OrderInv
  BY Zenon DEF RingInv
<1>1. /\ taken[h] # <<>>
      /\ UNCHANGED <<avail_idx, avail_ring, last_avail, data, done, taken, dev_pc, dev_head,
                     dev_at, dev_seen, chain, used_idx, last_seen_used, poped_used, desc,
                     pc, id, built, req>>
  BY Zenon DEF DevWrite, driver, call, history
<1>2. AvailInv' /\ WalkInv' /\ TakenInv' /\ ContentInv'
  BY <1>1, AvailFrame, WalkFrame, TakenFrame, ContentFrame, Zenon DEF RingInv, Adding
<1>3. Unseen \in Nat /\ Unseen < SIZE /\ Unseen' = Unseen /\ \A i : At(i)' = At(i)
  BY WriteWindow, Zenon
<1>4. \A i \in 0 .. Unseen - 1 : UsedAt(i)' = UsedAt(i)
  BY WriteWindow, Zenon
<1>5. used_ring'[used_idx' % SIZE].id = h
  BY WriteWindow, Zenon
<1>6. UsedInv'
  BY <1>0, <1>1, <1>3, <1>4, <1>5, Zenon DEF UsedInv
<1>7. OrderInv'
  <2>1. ASSUME can_pop(id) PROVE can_pop(id)'
    <3>1. PICK k \in 0 .. Unseen - 1 : UsedAt(k).id = id
      BY <2>1, Zenon DEF can_pop, Matches, Window, Unseen, UsedAt, Slot, At
    <3>2. k \in 0 .. Unseen' - 1 /\ UsedAt(k)'.id = id'
      BY <1>1, <1>3, <1>4, <3>1, Zenon
    <3>3. QED
      BY <3>2, Zenon DEF can_pop, Matches, Window, Unseen, UsedAt, Slot, At
  <2>2. QED
    BY <1>0, <1>1, <2>1, Zenon DEF OrderInv, Adding
<1>8. QED
  BY <1>2, <1>6, <1>7, Zenon DEF RingInv

\* Publishing adds the element that was written to what pop_used scans.
LEMMA PublishWindow ==
  ASSUME RingInv, DevPublish
  PROVE  LET elem == used_ring[used_idx % SIZE]
         IN /\ elem.id \in Desc /\ elem.len \in Nat
            /\ taken[elem.id] # <<>> /\ data[elem.id] # <<>> /\ done[elem.id] = NotDone
            /\ Unseen \in Nat /\ Unseen < SIZE /\ Unseen' = Unseen + 1
            /\ \A i : UsedAt(i)' = UsedAt(i) /\ At(i)' = At(i)
            /\ UsedAt(Unseen) = elem
            /\ \A i \in 0 .. Unseen - 1 : UsedAt(i).id # elem.id
<1> DEFINE e == used_ring[used_idx % SIZE].id
<1>0. OwnershipInv /\ TakenInv /\ UsedInv
  BY Zenon DEF RingInv
<1>1. /\ writing /\ used_idx' = Succ(used_idx) /\ UNCHANGED <<used_ring, last_seen_used>>
  BY Zenon DEF DevPublish, driver
<1>2. /\ e \in Desc /\ used_ring[used_idx % SIZE].len \in Nat
      /\ taken[e] # <<>> /\ data[e] # <<>> /\ done[e] = NotDone
  BY <1>0, <1>1, RingTypes, Zenon DEF UsedInv, TakenInv
<1>3. /\ Unseen \in Nat /\ Unseen < SIZE /\ last_seen_used \in Idx /\ used_idx \in Idx
      /\ \A i \in 0 .. Unseen - 1 : UsedAt(i).id # e
  BY <1>0, <1>2, RingTypes, UsedRoom, Zenon
<1>4. Unseen' = Unseen + 1
  <2>1. Unseen + 1 < IdxMod
    BY <1>3, TwoRings
  <2>2. QED
    BY <1>1, <1>3, <2>1, WrappingFacts, Zenon DEF Unseen
<1>5. \A i : UsedAt(i)' = UsedAt(i) /\ At(i)' = At(i)
  BY <1>1, Zenon DEF UsedAt, At
<1>6. UsedAt(Unseen) = used_ring[used_idx % SIZE]
  BY <1>3, SlotFacts, Zenon DEF UsedAt, Unseen
<1>7. QED
  BY <1>2, <1>3, <1>4, <1>5, <1>6, Zenon

\* The published element is that of a request that was not finished.
LEMMA DevPublishRings ==
  ASSUME RingInv, OwnershipInv', DevPublish
  PROVE  RingInv'
<1> DEFINE e == used_ring[used_idx % SIZE].id
           len == used_ring[used_idx % SIZE].len
<1>0. /\ OwnershipInv /\ AvailInv /\ WalkInv /\ TakenInv /\ UsedInv /\ OrderInv
      /\ SIZE \in Nat /\ taken \in [Desc -> Seq(Buf \cup {NoBuf})]
      /\ done \in [Desc -> Nat \cup {NotDone}] /\ dev_head \in Desc
  BY SizeAssumption, Zenon DEF RingInv, OwnershipInv, TypeOK, DeviceType, HistoryType
<1>1. /\ writing /\ ~writing' /\ used_idx' = Succ(used_idx)
      /\ taken' = [taken EXCEPT ![e] = <<>>]
      /\ done' = [done EXCEPT ![e] = len]
      /\ UNCHANGED <<avail_idx, avail_ring, last_avail, data, dev_pc, dev_head, dev_at,
                     dev_seen, chain, used_ring, last_seen_used, poped_used, desc,
                     pc, id, built, req>>
  BY Zenon DEF DevPublish, driver, call
<1>2. e \in Desc /\ len \in Nat /\ taken[e] # <<>> /\ data[e] # <<>> /\ done[e] = NotDone
  BY PublishWindow, Zenon
<1>3. /\ taken'[e] = <<>> /\ done'[e] = len
      /\ \A t \in Desc : t # e => taken'[t] = taken[t] /\ done'[t] = done[t]
  BY <1>0, <1>1, <1>2, Zenon
<1>4. ContentInv'
  BY <1>1, ContentFrame, Zenon DEF RingInv, Adding
<1>5. TakenInv'
  BY <1>0, <1>1, <1>3, Zenon DEF TakenInv
<1>6. WalkInv'
  BY <1>0, <1>1, <1>2, <1>3, Zenon DEF WalkInv
<1>7. AvailInv'
  <2>1. Waiting' = Waiting /\ \A i : AvailAt(i)' = AvailAt(i)
    BY <1>1, Zenon DEF Waiting, AvailAt
  <2>2. \A i \in 0 .. Waiting - 1 : AvailAt(i) # e
    BY <1>0, <1>2, Zenon DEF AvailInv
  <2>3. \A i \in 0 .. Waiting - 1 : AvailAt(i) \in Desc
    BY <1>0, RingEntries, Zenon
  <2>4. \A i \in 0 .. Waiting - 1 : /\ taken'[AvailAt(i)] = taken[AvailAt(i)]
                                    /\ done'[AvailAt(i)] = done[AvailAt(i)]
    BY <1>3, <2>2, <2>3, Zenon
  <2>5. QED
    BY <1>0, <1>1, <2>1, <2>4, Zenon DEF AvailInv
<1>8. /\ Unseen \in Nat /\ Unseen < SIZE /\ last_seen_used \in Idx
      /\ \A i \in 0 .. Unseen - 1 : UsedAt(i).id # e
  BY <1>0, RingTypes, PublishWindow, Zenon
<1>9. Unseen' = Unseen + 1
  BY PublishWindow, Zenon
<1>10. \A i : UsedAt(i)' = UsedAt(i) /\ At(i)' = At(i)
  BY PublishWindow, Zenon
<1>11. UsedAt(Unseen).id = e /\ UsedAt(Unseen).len = len
  BY PublishWindow, Zenon
<1>12. At(Unseen) \notin poped_used
  <2>1. \A i \in 0 .. Unseen - 1 : At(i) # At(Unseen)
    BY <1>0, <1>8, IndexFacts DEF At
  <2>2. \A p \in poped_used : \E i \in 0 .. Unseen - 1 : p = At(i)
    BY <1>0, Zenon DEF UsedInv
  <2>3. QED
    BY <2>1, <2>2, Zenon
<1>13. \A i \in 0 .. Unseen' - 1 : i \in 0 .. Unseen - 1 \/ i = Unseen
  BY <1>8, <1>9
<1>14. UsedInv'
  <2>1. Unseen' <= SIZE
    BY <1>8, <1>9, SizeAssumption
  <2>2. \A i, j \in 0 .. Unseen' - 1 : UsedAt(i)'.id = UsedAt(j)'.id => i = j
    BY <1>0, <1>8, <1>10, <1>11, <1>13, Zenon DEF UsedInv
  <2>3. ASSUME NEW i \in 0 .. Unseen' - 1
        PROVE  /\ At(i)' \in poped_used' => data'[UsedAt(i)'.id] = <<>>
               /\ At(i)' \notin poped_used' =>
                    data'[UsedAt(i)'.id] # <<>> /\ done'[UsedAt(i)'.id] = UsedAt(i)'.len
    <3>1. CASE i = Unseen
      BY <1>1, <1>2, <1>3, <1>10, <1>11, <1>12, <3>1, Zenon
    <3>2. CASE i \in 0 .. Unseen - 1
      <4>0. UsedAt(i).id \in Desc
        BY <1>0, <3>2, RingEntries, Zenon
      <4>1. UsedAt(i).id # e /\ UsedAt(i).id \in Desc
        BY <1>8, <3>2, <4>0, Zenon
      <4>2. done'[UsedAt(i).id] = done[UsedAt(i).id]
        BY <1>3, <4>1, Zenon
      <4>3. QED
        BY <1>0, <1>1, <1>10, <3>2, <4>2, Zenon DEF UsedInv
    <3>3. QED
      BY <1>13, <3>1, <3>2, Zenon
  <2>4. ASSUME NEW p \in poped_used' PROVE \E i \in 0 .. Unseen' - 1 : p = At(i)'
    <3>1. PICK i \in 0 .. Unseen - 1 : p = At(i)
      BY <1>0, <1>1, Zenon DEF UsedInv
    <3>2. i \in 0 .. Unseen' - 1
      BY <1>8, <1>9
    <3>3. QED
      BY <1>10, <3>1, <3>2, Zenon
  <2>5. QED
    BY <1>1, <2>1, <2>2, <2>3, <2>4, Zenon DEF UsedInv
<1>15. OrderInv'
  <2>1. ASSUME can_pop(id) PROVE can_pop(id)'
    <3>1. PICK k \in 0 .. Unseen - 1 : UsedAt(k).id = id
      BY <2>1, Zenon DEF can_pop, Matches, Window, Unseen, UsedAt, Slot, At
    <3>2. k \in 0 .. Unseen' - 1 /\ UsedAt(k)'.id = id'
      <4>1. k \in 0 .. Unseen' - 1
        BY <1>8, <1>9
      <4>2. QED
        BY <1>1, <1>10, <3>1, <4>1, Zenon
    <3>3. QED
      BY <3>2, Zenon DEF can_pop, Matches, Window, Unseen, UsedAt, Slot, At
  <2>2. QED
    BY <1>0, <1>1, <2>1, Zenon DEF OrderInv, Adding
<1>16. QED
  BY <1>4, <1>5, <1>6, <1>7, <1>14, <1>15, Zenon DEF RingInv

-----------------------------------------------------------------------------
(* All steps *)

\* Steps that touch neither the rings nor a request.
LEMMA RingFrame ==
  ASSUME RingInv, OwnershipInv',
         UNCHANGED <<avail_idx, avail_ring, last_avail, data, done, taken, dev_pc, dev_head,
                     dev_at, dev_seen, chain, used_idx, used_ring, last_seen_used, poped_used,
                     writing, desc, id, built, req>>,
         \/ pc' = pc
         \/ pc = "walk" /\ pc' = "walk"
         \/ pc = "advance" /\ pc' = "idle" /\ last_seen_used \notin poped_used
  PROVE  RingInv'
<1>1. WalkInv' /\ TakenInv' /\ UsedInv'
  BY WalkFrame, TakenFrame, UsedFrame, Zenon DEF RingInv
<1>2. AvailInv' /\ ContentInv'
  BY AvailFrame, ContentFrame, Zenon DEF RingInv, Adding
<1>3. OrderInv'
  BY OrderFrame, Zenon DEF RingInv, OrderInv, Adding
<1>4. QED
  BY <1>1, <1>2, <1>3, Zenon DEF RingInv

\* Both rings are empty in the zeroed queue page.
LEMMA InitRings == Init => RingInv
<1> SUFFICES ASSUME Init PROVE RingInv
  BY Zenon
<1>1. OwnershipInv
  BY InitOwnership, Zenon
<1>2. /\ pc = "idle" /\ poped_used = {} /\ dev_pc = "ready" /\ ~writing
      /\ avail_idx = last_avail /\ used_idx = last_seen_used
      /\ \A t \in Desc : data[t] = <<>> /\ taken[t] = <<>>
  BY Zenon DEF Init
<1>3. Waiting = 0 /\ Unseen = 0
  BY <1>1, <1>2, RingTypes, WrappingFacts, Zenon DEF Waiting, Unseen
<1>4. /\ 0 .. Waiting - 1 = {} /\ Waiting <= SIZE
      /\ 0 .. Unseen - 1 = {} /\ Unseen <= SIZE
  BY <1>3, SizeAssumption
<1>5. AvailInv /\ WalkInv /\ TakenInv
  BY <1>2, <1>4, Zenon DEF AvailInv, WalkInv, TakenInv
<1>6. UsedInv
  BY <1>2, <1>4, Zenon DEF UsedInv
<1>7. ContentInv /\ OrderInv
  BY <1>2, Zenon DEF ContentInv, OrderInv, Adding
<1>8. QED
  BY <1>1, <1>5, <1>6, <1>7, Zenon DEF RingInv

\* Every step of the driver and of the device preserves RingInv.
LEMMA NextRings ==
  ASSUME DrainFirst, RingInv, [Next]_vars
  PROVE  RingInv'
<1>0. OwnershipInv'
  BY NextOwnership, Zenon DEF RingInv
<1>1. ASSUME NEW r \in Requests, AddBegin(r) PROVE RingInv'
  BY <1>0, <1>1, AddBeginRings, Zenon
<1>2. ASSUME NEW r \in Requests, AddFull(r) PROVE RingInv'
  BY <1>0, <1>2, RingFrame, Zenon DEF AddFull, driver, shared, device, history
<1>3. ASSUME NEW t \in Desc, PopBegin(t) PROVE RingInv'
  BY <1>0, <1>3, PopBeginRings, Zenon
<1>4. ASSUME NEW t \in Desc, PopNotReady(t) PROVE RingInv'
  BY <1>0, <1>4, RingFrame, Zenon DEF PopNotReady, driver, shared, device, history
<1>5. CASE AddDesc
  BY <1>0, <1>5, AddDescRings, Zenon
<1>6. CASE AddPush
  BY <1>0, <1>6, AddPushRings, Zenon
<1>7. CASE AddPublish
  BY <1>0, <1>7, AddPublishRings, Zenon
<1>8. CASE PopFind
  BY <1>0, <1>8, PopFindRings, Zenon
<1>9. CASE PopWalk
  BY <1>0, <1>9, RingFrame, Zenon DEF PopWalk, shared, device
<1>10. CASE PopWalked
  BY <1>0, <1>10, PopWalkedRings, Zenon
<1>11. CASE PopAdvance
  BY <1>0, <1>11, PopAdvanceRings, Zenon
<1>12. CASE PopReturn
  BY <1>0, <1>12, RingFrame, Zenon DEF PopReturn, driver, shared, device, history
<1>13. CASE DevFetch
  BY <1>0, <1>13, DevFetchRings, Zenon
<1>14. CASE DevWalk
  BY <1>0, <1>14, DevWalkRings, Zenon
<1>15. ASSUME NEW h \in Desc, NEW len \in Lens, DevWrite(h, len) PROVE RingInv'
  BY <1>0, <1>15, DevWriteRings, Zenon
<1>16. CASE DevPublish
  BY <1>0, <1>16, DevPublishRings, Zenon
<1>17. CASE UNCHANGED vars
  BY <1>0, <1>17, RingFrame, Zenon DEF vars, driver, shared, call, device, history
<1>18. QED
  BY <1>1, <1>2, <1>3, <1>4, <1>5, <1>6, <1>7, <1>8, <1>9, <1>10, <1>11, <1>12, <1>13, Zenon,
     <1>14, <1>15, <1>16, <1>17 DEF Next, DriverStep, DeviceStep

\* What the rings hold is what the two sides take it for, whatever the client
\* submits and pops, and in whatever order the device finishes requests, as long
\* as the client submits only when nothing is popped out of order (DrainFirst).
THEOREM RingsCorrect == ASSUME DrainFirst PROVE Spec => []RingInv
<1>1. Init => RingInv
  BY InitRings, Zenon
<1>2. RingInv /\ [Next]_vars => RingInv'
  BY NextRings, Zenon
<1>3. QED
  BY <1>1, <1>2, PTL DEF Spec

\* RingInv implies what the runs check.
LEMMA RingInvImplies ==
  ASSUME RingInv
  PROVE  RingsNotOverrun /\ DeviceSeesRequest /\ SeenCanBePopped
<1>0. OwnershipInv /\ AvailInv /\ TakenInv /\ UsedInv /\ OrderInv /\ SIZE \in Nat
  BY SizeAssumption, Zenon DEF RingInv
<1>1. Waiting \in Nat /\ Unseen \in Nat /\ last_seen_used \in Idx /\ used_idx \in Idx
      /\ \A k \in Nat : UsedAt(k).len \in Nat
  BY <1>0, RingTypes, Zenon
<1>2. RingsNotOverrun
  <2>1. /\ Waiting <= SIZE /\ (pc = "publish" => Waiting < SIZE)
        /\ Unseen <= SIZE /\ (writing => Unseen < SIZE)
    BY <1>0, Zenon DEF AvailInv, UsedInv
  <2>2. Waiting + (IF pc = "publish" THEN 1 ELSE 0) <= SIZE
    BY <1>0, <1>1, <2>1
  <2>3. Unseen + (IF writing THEN 1 ELSE 0) <= SIZE
    BY <1>0, <1>1, <2>1
  <2>4. QED
    BY <2>2, <2>3, Zenon DEF RingsNotOverrun, Waiting, Unseen
<1>3. DeviceSeesRequest
  BY <1>0, Zenon DEF TakenInv, DeviceSeesRequest
<1>4. ASSUME pc = "idle", NEW t \in peek_used
      PROVE  data[t] # <<>> /\ done[t] # NotDone /\ can_pop(t)
  <2>1. last_seen_used # used_idx /\ t = used_ring[last_seen_used % SIZE].id
    BY <1>4, Zenon DEF peek_used
  <2>2. Unseen > 0
    BY <1>1, <2>1, WrappingFacts DEF Unseen
  <2>3. last_seen_used + 0 = last_seen_used /\ last_seen_used % IdxMod = last_seen_used
    BY <1>1, IndexFacts DEF Idx
  <2>4. At(0) = last_seen_used /\ UsedAt(0).id = t /\ 0 \in 0 .. Unseen - 1
    <3>1. 0 \in 0 .. Unseen - 1
      BY <1>1, <2>2
    <3>2. QED
      BY <2>1, <2>3, <3>1, Zenon DEF At, UsedAt, Slot
  <2>5. At(0) \notin poped_used
    BY <1>0, <1>4, <2>4, Zenon DEF OrderInv
  <2>6. data[t] # <<>> /\ done[t] = UsedAt(0).len
    BY <1>0, <2>4, <2>5, Zenon DEF UsedInv
  <2>7. done[t] # NotDone
    <3>1. UsedAt(0).len \in Nat
      BY <1>0, <2>4, RingEntries, Zenon
    <3>2. QED
      BY <2>6, <3>1 DEF NotDone
  <2>8. can_pop(t)
    BY <2>1, <2>4, Zenon DEF can_pop, Matches, Window, Unseen
  <2>9. QED
    BY <2>6, <2>7, <2>8, Zenon
<1>5. SeenCanBePopped
  BY <1>0, <1>4, Zenon DEF SeenCanBePopped, OrderInv
<1>6. QED
  BY <1>2, <1>3, <1>5, Zenon

\* Neither `add` nor the device writes a slot that the other side has still to
\* read: there is always room, as the comment in AvailRing::push claims.
THEOREM RingsNeverOverrun == ASSUME DrainFirst PROVE Spec => []RingsNotOverrun
BY RingsCorrect, RingInvImplies, PTL

\* The buffers that the device collects from the descriptor table while `add` and
\* `pop_used` change it are those that the client submitted under the token.
THEOREM DeviceAlwaysSeesRequest == ASSUME DrainFirst PROVE Spec => []DeviceSeesRequest
BY RingsCorrect, RingInvImplies, PTL

\* The asserts of pop_used hold after can_pop, and what peek_used returns between
\* two calls can be popped.
THEOREM SeenCanAlwaysBePopped == ASSUME DrainFirst PROVE Spec => []SeenCanBePopped
BY RingsCorrect, RingInvImplies, PTL

\* pop_used returns only for a request that the device has finished, with the
\* length it reported for that request.
THEOREM PopsOnlyWhatDeviceUsed == ASSUME DrainFirst PROVE Spec => PopsWhatDeviceUsed
<1>1. RingInv /\ [Next]_vars => [PopFind => done[id] # NotDone /\ ret'.val = done[id]]_vars
  <2> SUFFICES ASSUME RingInv, PopFind
               PROVE  done[id] # NotDone /\ ret'.val = done[id]
    BY Zenon
  <2>1. PICK k \in Matches(id) : ret' = Ok(UsedLen(At(k)))
    BY Zenon DEF PopFind
  <2>2. done[id] \in Nat /\ done[id] = UsedLen(At(k))
    BY FoundElement, Zenon DEF PopFind
  <2>3. QED
    BY <2>1, <2>2 DEF Ok, NotDone
<1>2. QED
  BY <1>1, RingsCorrect, PTL DEF Spec, PopsWhatDeviceUsed

-----------------------------------------------------------------------------
(* The refinement of RequestQueue *)

\* A request that is finished and not popped is in the used ring.
FinishedInv ==
  /\ \A t \in Desc :
       data[t] # <<>> /\ done[t] # NotDone => \E i \in 0 .. Unseen - 1 : UsedAt(i).id = t
  /\ writing => used_ring[used_idx % SIZE].len \in Lens

\* What is being added is a request, and a chain whose request has been popped
\* is being freed.
ClientInv ==
  /\ Adding => req \in Requests
  /\ \A t \in Desc : chain[t] # <<>> /\ data[t] = <<>> => pc = "walk" /\ t = id

RefInv == RingInv /\ FinishedInv /\ ClientInv

\* What a step must leave alone for FinishedInv to stay true.
LEMMA FinishedFrame ==
  ASSUME FinishedInv,
         UNCHANGED <<data, done, used_idx, used_ring, last_seen_used, writing>>
  PROVE  FinishedInv'
BY Zenon DEF FinishedInv, Unseen, UsedAt

\* An element leaves the scanned part of the used ring only when it is popped.
LEMMA NextFinished ==
  ASSUME RingInv, FinishedInv, Next
  PROVE  FinishedInv'
<1>0. /\ OwnershipInv /\ UsedInv /\ data \in [Desc -> Seq(Buf)] /\ id \in Desc
      /\ done \in [Desc -> Nat \cup {NotDone}]
  BY Zenon DEF RingInv, OwnershipInv, TypeOK, HistoryType, CallType
<1>1. ASSUME NEW r \in Requests, AddBegin(r) \/ AddFull(r) PROVE FinishedInv'
  BY <1>1, FinishedFrame, Zenon DEF AddBegin, AddFull, driver, shared, device, history
<1>2. ASSUME NEW t \in Desc, PopBegin(t) \/ PopNotReady(t) PROVE FinishedInv'
  BY <1>2, FinishedFrame, Zenon DEF PopBegin, PopNotReady, driver, shared, device, history
<1>3. CASE AddDesc \/ AddPush
  BY <1>3, FinishedFrame, Zenon DEF AddDesc, AddPush, driver, device, history
<1>4. CASE PopWalk \/ PopWalked \/ PopReturn
  BY <1>4, FinishedFrame, Zenon DEF PopWalk, PopWalked, PopReturn, driver, shared, device, history
<1>5. CASE DevFetch \/ DevWalk
  BY <1>5, FinishedFrame, Zenon DEF DevFetch, DevWalk, driver, shared, history
<1>6. CASE AddPublish
  <2> DEFINE h == built[Len(built)]
  <2>1. /\ data' = [data EXCEPT ![h] = req] /\ done' = [done EXCEPT ![h] = NotDone]
        /\ UNCHANGED <<used_idx, used_ring, last_seen_used, writing>>
    BY <1>6, Zenon DEF AddPublish, driver, device
  <2>2. h \in Desc
    BY <1>0, <1>6, NewToken, Zenon DEF AddPublish
  <2>3. Unseen' = Unseen /\ \A i : UsedAt(i)' = UsedAt(i)
    BY <2>1, Zenon DEF Unseen, UsedAt
  <2>4. QED
    BY <1>0, <2>1, <2>2, <2>3, Zenon DEF FinishedInv
<1>7. CASE PopFind
  <2>1. /\ data' = [data EXCEPT ![id] = <<>>]
        /\ UNCHANGED <<done, used_idx, used_ring, last_seen_used, writing>>
    BY <1>7, Zenon DEF PopFind, shared, device
  <2>2. Unseen' = Unseen /\ \A i : UsedAt(i)' = UsedAt(i)
    BY <2>1, Zenon DEF Unseen, UsedAt
  <2>3. QED
    BY <1>0, <2>1, <2>2, Zenon DEF FinishedInv
<1>8. CASE PopAdvance
  <2>1. last_seen_used \in poped_used /\ UNCHANGED <<data, done, used_idx, used_ring, writing>>
    BY <1>8, Zenon DEF PopAdvance, device, history
  <2>2. /\ Unseen \in Nat /\ Unseen > 0 /\ Unseen' = Unseen - 1 /\ At(0) = last_seen_used
        /\ \A i \in 0 .. Unseen' - 1 : UsedAt(i)' = UsedAt(i + 1)
    BY <1>8, AdvanceWindow, Zenon
  <2>3. data[UsedAt(0).id] = <<>>
    <3>1. 0 \in 0 .. Unseen - 1
      BY <2>2
    <3>2. QED
      BY <1>0, <2>1, <2>2, <3>1, Zenon DEF UsedInv
  <2>4. ASSUME NEW t \in Desc, data'[t] # <<>>, done'[t] # NotDone
        PROVE  \E i \in 0 .. Unseen' - 1 : UsedAt(i)'.id = t
    <3>1. PICK i \in 0 .. Unseen - 1 : UsedAt(i).id = t
      BY <2>1, <2>4, Zenon DEF FinishedInv
    <3>2. i # 0
      BY <2>1, <2>3, <2>4, <3>1, Zenon
    <3>3. i - 1 \in 0 .. Unseen' - 1 /\ (i - 1) + 1 = i
      BY <2>2, <3>2
    <3>4. UsedAt(i - 1)' = UsedAt(i)
      BY <2>2, <3>3, Zenon
    <3>5. QED
      BY <3>1, <3>3, <3>4, Zenon
  <2>5. QED
    BY <2>1, <2>4, Zenon DEF FinishedInv
<1>9. ASSUME NEW h \in Desc, NEW len \in Lens, DevWrite(h, len) PROVE FinishedInv'
  <2>1. UNCHANGED <<data, done>>
    BY <1>9, Zenon DEF DevWrite, history
  <2>2. /\ Unseen' = Unseen /\ used_ring'[used_idx' % SIZE].len = len
        /\ \A i \in 0 .. Unseen - 1 : UsedAt(i)' = UsedAt(i)
    BY <1>9, WriteWindow, Zenon
  <2>3. QED
    BY <2>1, <2>2, Zenon DEF FinishedInv
<1>10. CASE DevPublish
  <2> DEFINE e == used_ring[used_idx % SIZE].id
  <2>1. /\ ~writing' /\ data' = data
        /\ done' = [done EXCEPT ![e] = used_ring[used_idx % SIZE].len]
    BY <1>10, Zenon DEF DevPublish
  <2>2. /\ e \in Desc /\ Unseen \in Nat /\ Unseen' = Unseen + 1
        /\ \A i : UsedAt(i)' = UsedAt(i)
        /\ UsedAt(Unseen).id = e
    BY <1>10, PublishWindow, Zenon
  <2>3. ASSUME NEW t \in Desc, data'[t] # <<>>, done'[t] # NotDone
        PROVE  \E i \in 0 .. Unseen' - 1 : UsedAt(i)'.id = t
    <3>1. CASE t = e
      <4>1. Unseen \in 0 .. Unseen' - 1
        BY <2>2
      <4>2. QED
        BY <2>2, <3>1, <4>1, Zenon
    <3>2. CASE t # e
      <4>1. done'[t] = done[t]
        BY <1>0, <2>1, <2>2, <3>2, Zenon
      <4>2. PICK i \in 0 .. Unseen - 1 : UsedAt(i).id = t
        BY <2>1, <2>3, <4>1, Zenon DEF FinishedInv
      <4>3. i \in 0 .. Unseen' - 1
        BY <2>2
      <4>4. QED
        BY <2>2, <4>2, <4>3, Zenon
    <3>3. QED
      BY <3>1, <3>2, Zenon
  <2>4. QED
    BY <2>1, <2>3, Zenon DEF FinishedInv
<1>11. QED
  BY <1>1, <1>2, <1>3, <1>4, <1>5, <1>6, <1>7, <1>8, <1>9, <1>10, Zenon
  DEF Next, DriverStep, DeviceStep

\* What a step must leave alone for ClientInv to stay true.
LEMMA ClientFrame ==
  ASSUME ClientInv, UNCHANGED <<chain, data>>,
         \/ UNCHANGED <<pc, id, req>>
         \/ pc = pc' /\ pc # "walk" /\ ~Adding
         \/ pc # "walk" /\ ~Adding'
         \/ Adding /\ Adding' /\ req' = req
  PROVE  ClientInv'
BY Zenon DEF ClientInv, Adding

\* Chains are given up only by pop_used.
LEMMA NextClient ==
  ASSUME OwnershipInv, ClientInv, Next
  PROVE  ClientInv'
<1>0. /\ data \in [Desc -> Seq(Buf)] /\ id \in Desc /\ chain \in [Desc -> Seq(Desc)]
  BY Zenon DEF OwnershipInv, TypeOK, HistoryType, CallType
<1>1. ASSUME NEW r \in Requests, AddBegin(r) PROVE ClientInv'
  BY <1>1, Zenon DEF AddBegin, MayAdd, history, ClientInv, Adding
<1>2. ASSUME NEW r \in Requests, AddFull(r) PROVE ClientInv'
  BY <1>2, ClientFrame, Zenon DEF AddFull, history
<1>3. ASSUME NEW t \in Desc, PopBegin(t) \/ PopNotReady(t) PROVE ClientInv'
  BY <1>3, ClientFrame, Zenon DEF PopBegin, PopNotReady, history, Adding
<1>4. CASE AddDesc \/ AddPush
  BY <1>4, ClientFrame, Zenon DEF AddDesc, AddPush, history, Adding
<1>5. CASE AddPublish
  <2> DEFINE h == built[Len(built)]
  <2>1. /\ pc = "publish" /\ pc' = "idle" /\ data' = [data EXCEPT ![h] = req]
        /\ chain' = [chain EXCEPT ![h] = built]
    BY <1>5, Zenon DEF AddPublish
  <2>2. h \in Desc /\ req # <<>>
    BY <2>1, NewToken, BuiltHead, EmptyTyped
  <2>3. QED
    BY <1>0, <2>1, <2>2, Zenon DEF ClientInv, Adding
<1>6. CASE PopFind
  BY <1>0, <1>6, Zenon DEF PopFind, ClientInv, Adding
<1>7. CASE PopWalk
  BY <1>7, ClientFrame, Zenon DEF PopWalk
<1>8. CASE PopWalked
  BY <1>0, <1>8, Zenon DEF PopWalked, ClientInv, Adding
<1>9. CASE PopAdvance \/ PopReturn
  BY <1>9, ClientFrame, Zenon DEF PopAdvance, PopReturn, call, history, Adding
<1>10. CASE DeviceStep
  <2>1. UNCHANGED <<pc, id, req, chain, data>>
    BY <1>10, ZenonT(30) DEF DeviceStep, DevFetch, DevWalk, DevWrite, DevPublish, call, history
  <2>2. QED
    BY <2>1, ClientFrame, Zenon
<1>11. QED
  BY <1>1, <1>2, <1>3, <1>4, <1>5, <1>6, <1>7, <1>8, <1>9, <1>10, Zenon DEF Next, DriverStep

\* The invariant under which each step of VirtQueue is one of RequestQueue.
LEMMA RefInvCorrect == ASSUME DrainFirst PROVE Spec => []RefInv
<1>1. Init => RefInv
  <2> SUFFICES ASSUME Init PROVE RefInv
    BY Zenon
  <2>1. RingInv
    BY InitRings, Zenon
  <2>2. \A t \in Desc : data[t] = <<>> /\ chain[t] = <<>>
    BY Zenon DEF Init
  <2>3. FinishedInv /\ ClientInv
    BY <2>2, Zenon DEF Init, FinishedInv, ClientInv, Adding
  <2>4. QED
    BY <2>1, <2>3, Zenon DEF RefInv
<1>2. RefInv /\ [Next]_vars => RefInv'
  <2> SUFFICES ASSUME RefInv, [Next]_vars PROVE RefInv'
    BY Zenon
  <2>1. RingInv'
    BY NextRings, Zenon DEF RefInv
  <2>2. CASE Next
    BY <2>1, <2>2, NextFinished, NextClient, Zenon DEF RefInv, RingInv
  <2>3. CASE UNCHANGED vars
    <3>1. FinishedInv' /\ ClientInv'
      BY <2>3, FinishedFrame, ClientFrame, Zenon
      DEF RefInv, vars, driver, shared, call, device, history
    <3>2. QED
      BY <2>1, <3>1, Zenon DEF RefInv
  <2>4. QED
    BY <2>2, <2>3, Zenon
<1>3. QED
  BY <1>1, <1>2, PTL DEF Spec

\* What the used ring says of a request is what the device reported for it.
LEMMA CompletedIs ==
  RefInv => \A t \in Desc : CompletedLen(t) = IF data[t] # <<>> THEN done[t] ELSE -1
<1> SUFFICES ASSUME RefInv, NEW t \in Desc
             PROVE  CompletedLen(t) = IF data[t] # <<>> THEN done[t] ELSE -1
  BY Zenon
<1> DEFINE published == {At(k) : k \in 0 .. WrappingSub(used_idx, last_seen_used) - 1}
           waiting == {i \in published \ poped_used : used_ring[i % SIZE].id = t}
<1>1. OwnershipInv /\ UsedInv /\ FinishedInv
  BY Zenon DEF RefInv, RingInv
<1>2. \A k : used_ring[At(k) % SIZE] = UsedAt(k)
  BY Zenon DEF At, UsedAt, Slot
<1>3. \A k \in 0 .. Unseen - 1 : UsedAt(k).len \in Nat
  BY <1>1, RingTypes
<1>4. ASSUME NEW x \in waiting
      PROVE  data[t] # <<>> /\ done[t] # NotDone /\ used_ring[x % SIZE].len = done[t]
  <2>1. PICK k \in 0 .. Unseen - 1 : x = At(k)
    BY <1>4, Zenon DEF Unseen
  <2>2. UsedAt(k).id = t /\ At(k) \notin poped_used /\ used_ring[x % SIZE].len = UsedAt(k).len
    BY <1>2, <1>4, <2>1, Zenon
  <2>3. data[t] # <<>> /\ done[t] = UsedAt(k).len
    BY <1>1, <2>1, <2>2, Zenon DEF UsedInv
  <2>4. UsedAt(k).len # NotDone
    BY <1>3 DEF NotDone
  <2>5. QED
    BY <2>2, <2>3, <2>4, Zenon
<1>5. ASSUME data[t] # <<>>, done[t] # NotDone PROVE waiting # {}
  <2>1. PICK k \in 0 .. Unseen - 1 : UsedAt(k).id = t
    BY <1>1, <1>5, Zenon DEF FinishedInv
  <2>2. At(k) \notin poped_used
    BY <1>1, <1>5, <2>1, Zenon DEF UsedInv
  <2>3. At(k) \in waiting
    BY <1>2, <2>1, <2>2, Zenon DEF Unseen
  <2>4. QED
    BY <2>3, Zenon
<1>6. CompletedLen(t) =
        IF waiting = {} THEN -1 ELSE used_ring[(CHOOSE i \in waiting : TRUE) % SIZE].len
  BY Zenon DEF CompletedLen
<1> HIDE DEF waiting
<1>7. CASE waiting = {}
  BY <1>5, <1>6, <1>7, Zenon DEF NotDone
<1>8. CASE waiting # {}
  <2>1. (CHOOSE i \in waiting : TRUE) \in waiting
    BY <1>8, Zenon
  <2>2. QED
    BY <1>4, <1>6, <1>8, <2>1, Zenon
<1>9. QED
  BY <1>7, <1>8, Zenon

\* f pairs the elements of S with those of T.
Pairs(f, S, T) ==
  /\ f \in [S -> T]
  /\ \A x, y \in S : f[x] = f[y] => x = y
  /\ \A y \in T : \E x \in S : f[x] = y

\* Two sets between which a function is one to one are of one size.
LEMMA SameSize ==
  ASSUME NEW S, NEW T, IsFiniteSet(T), NEW f, Pairs(f, S, T)
  PROVE  IsFiniteSet(S) /\ Cardinality(S) = Cardinality(T)
<1>1. f \in Injection(S, T) /\ f \in Surjection(S, T)
  BY Zenon DEF Pairs, Injection, IsInjective, Surjection
<1>2. QED
  BY <1>1, FS_Injection, Zenon

\* A list without repetition has as many elements as positions.
LEMMA ListSize ==
  ASSUME NEW s \in Seq(Desc), \A i, j \in 1 .. Len(s) : s[i] = s[j] => i = j
  PROVE  LET T == {d \in Desc : \E i \in 1 .. Len(s) : s[i] = d}
         IN IsFiniteSet(T) /\ Cardinality(T) = Len(s)
<1> DEFINE T == {d \in Desc : \E i \in 1 .. Len(s) : s[i] = d}
           f == [i \in 1 .. Len(s) |-> s[i]]
<1>1. IsFiniteSet(Desc) /\ T \subseteq Desc
  BY SizeAssumption, FS_Interval DEF Desc
<1>2. IsFiniteSet(T)
  BY <1>1, FS_Subset, Zenon
<1>3. Len(s) \in Nat
  OBVIOUS
<1>4. Cardinality(1 .. Len(s)) = Len(s)
  <2>1. \A n \in Nat : Cardinality(1 .. n) = n
    BY FS_Interval
  <2>2. QED
    BY <1>3, <2>1, Zenon
<1>5. f \in [1 .. Len(s) -> T] /\ \A i \in 1 .. Len(s) : f[i] = s[i]
  OBVIOUS
<1>6. \A y \in T : \E x \in 1 .. Len(s) : f[x] = y
  BY <1>5, Zenon
<1>7. \A x, y \in 1 .. Len(s) : f[x] = f[y] => x = y
  BY <1>5, Zenon
<1> HIDE DEF T, f
<1>8. Cardinality(1 .. Len(s)) = Cardinality(T)
  <2>1. Pairs(f, 1 .. Len(s), T)
    BY <1>5, <1>6, <1>7, Zenon DEF Pairs
  <2>2. QED
    BY <1>2, <2>1, SameSize, Zenon
<1>9. QED
  BY <1>2, <1>4, <1>8, Zenon DEF T

\* What is not in use is free, when no chain is being built or freed.
LEMMA InUseCount ==
  ASSUME RefInv, pc \in {"idle", "publish"}
  PROVE  /\ Abstract!InUse \in Nat
         /\ Abstract!InUse + Len(avail_desc_index) + Len(built) = SIZE
<1> DEFINE P == UNION {{<<t, i>> : i \in 1 .. Len(data[t])} : t \in Desc}
           F == {d \in Desc : \E i \in 1 .. Len(avail_desc_index) : avail_desc_index[i] = d}
           B == {d \in Desc : \E i \in 1 .. Len(built) : built[i] = d}
           K == {d \in Desc : \E t \in Desc : \E i \in 1 .. Len(chain[t]) : chain[t][i] = d}
           g == [p \in P |-> chain[p[1]][p[2]]]
<1>0. /\ OwnershipInv /\ ContentInv /\ ClientInv
      /\ avail_desc_index \in Seq(Desc) /\ built \in Seq(Desc)
      /\ chain \in [Desc -> Seq(Desc)] /\ data \in [Desc -> Seq(Buf)]
  BY Zenon DEF RefInv, RingInv, OwnershipInv, TypeOK, DriverType, CallType, HistoryType
<1>1. \A t \in Desc : Len(chain[t]) = Len(data[t]) /\ Held(t) = Len(chain[t])
  <2>1. \A t \in Desc : Held(t) = Len(chain[t])
    BY HeldWhole, Zenon
  <2>2. \A t \in Desc : data[t] # <<>> => Len(chain[t]) = Len(data[t])
    BY <1>0, Zenon DEF ContentInv
  <2>3. \A t \in Desc : data[t] = <<>> => chain[t] = <<>>
    BY <1>0, Zenon DEF ClientInv
  <2>4. QED
    BY <2>1, <2>2, <2>3, Zenon
<1>2. IsFiniteSet(Desc) /\ Cardinality(Desc) = SIZE
  BY SizeAssumption, FS_Interval DEF Desc
<1>3. IsFiniteSet(F) /\ Cardinality(F) = Len(avail_desc_index)
  BY <1>0, ListSize, Zenon DEF OwnershipInv, FreeDistinct
<1>4. IsFiniteSet(B) /\ Cardinality(B) = Len(built)
  BY <1>0, ListSize, Zenon DEF OwnershipInv, BuiltDistinct
<1>5. IsFiniteSet(K)
  BY <1>2, FS_Subset, Zenon
<1>6. \A p : p \in P <=> \E t \in Desc : \E i \in 1 .. Len(chain[t]) : p = <<t, i>>
  BY <1>1
<1>7. Cardinality(P) = Cardinality(K)
  <2>1. \A p \in P : /\ p[1] \in Desc /\ p[2] \in 1 .. Len(chain[p[1]]) /\ p = <<p[1], p[2]>>
    BY <1>6
  <2>2. \A p \in P : chain[p[1]][p[2]] \in K
    BY <1>0, <2>1, SMTT(30)
  <2>3. g \in [P -> K] /\ \A p \in P : g[p] = chain[p[1]][p[2]]
    BY <2>2, Zenon
  <2>4. ASSUME NEW x \in P, NEW y \in P, g[x] = g[y] PROVE x = y
    <3>0. chain[x[1]][x[2]] = chain[y[1]][y[2]] /\ ChainsDistinct
      BY <1>0, <2>3, <2>4, Zenon DEF OwnershipInv
    <3>1. x[1] = y[1] /\ x[2] = y[2]
      BY <2>1, <3>0 DEF ChainsDistinct
    <3>2. QED
      BY <2>1, <3>1, Zenon
  <2>5. ASSUME NEW d \in K PROVE \E x \in P : g[x] = d
    <3>1. PICK t \in Desc : \E i \in 1 .. Len(chain[t]) : chain[t][i] = d
      BY Zenon
    <3>2. PICK i \in 1 .. Len(chain[t]) : chain[t][i] = d
      BY <3>1, Zenon
    <3>3. <<t, i>> \in P /\ g[<<t, i>>] = d
      BY <1>6, <2>3, <3>2, Zenon
    <3>4. QED
      BY <3>3, Zenon
  <2> HIDE DEF P, K, g
  <2>6. QED
    <3>1. \A x, y \in P : g[x] = g[y] => x = y
      BY <2>4, Zenon
    <3>2. \A d \in K : \E x \in P : g[x] = d
      BY <2>5, Zenon
    <3>3. Pairs(g, P, K)
      BY <2>3, <3>1, <3>2, Zenon DEF Pairs
    <3>4. QED
      BY <1>5, <3>3, SameSize, Zenon
<1>8. F \cap B = {} /\ (F \cup B) \cap K = {}
  <2>1. F \cap B = {}
    BY <1>0, Zenon DEF OwnershipInv, FreeNotBuilt
  <2>2. F \cap K = {}
    BY <1>0, <1>1, Zenon DEF OwnershipInv, FreeNotHeld
  <2>3. B \cap K = {}
    BY <1>0, Zenon DEF OwnershipInv, BuiltNotHeld
  <2>4. QED
    BY <2>1, <2>2, <2>3, Zenon
<1>9. (F \cup B) \cup K = Desc
  BY <1>0, <1>1, Zenon DEF OwnershipInv, NoneLost
<1>10. Abstract!InUse = Cardinality(P)
  BY Zenon DEF Abstract!InUse, Abstract!Cardinality, Cardinality
<1> HIDE DEF P, F, B, K, g
<1>11. IsFiniteSet(F \cup B) /\ Cardinality(F \cup B) = Cardinality(F) + Cardinality(B)
  <2>1. Cardinality(F \cap B) = 0
    BY <1>8, FS_EmptySet, Zenon
  <2>2. Cardinality(F) \in Nat /\ Cardinality(B) \in Nat
    BY <1>3, <1>4, FS_CardinalityType, Zenon
  <2>3. /\ IsFiniteSet(F \cup B)
        /\ Cardinality(F \cup B) = Cardinality(F) + Cardinality(B) - Cardinality(F \cap B)
    BY <1>3, <1>4, FS_Union, Zenon
  <2>4. QED
    BY <2>1, <2>2, <2>3
<1>12. Cardinality(Desc) = Cardinality(F \cup B) + Cardinality(K) /\ Cardinality(K) \in Nat
  <2>1. Cardinality((F \cup B) \cap K) = 0
    BY <1>8, FS_EmptySet, Zenon
  <2>2. Cardinality(F \cup B) \in Nat /\ Cardinality(K) \in Nat
    BY <1>5, <1>11, FS_CardinalityType, Zenon
  <2>3. Cardinality((F \cup B) \cup K)
          = Cardinality(F \cup B) + Cardinality(K) - Cardinality((F \cup B) \cap K)
    BY <1>5, <1>11, FS_Union, Zenon
  <2>4. Cardinality((F \cup B) \cup K) = Cardinality(Desc)
    BY <1>9, Zenon
  <2>5. QED
    BY <2>1, <2>2, <2>3, <2>4
<1>13. Len(avail_desc_index) \in Nat /\ Len(built) \in Nat /\ SIZE \in Nat
  BY <1>0, SizeAssumption
<1>14. QED
  BY <1>2, <1>3, <1>4, <1>7, <1>10, <1>11, <1>12, <1>13, SMTT(30)

\* The lengths that RequestQueue keeps, in terms of the history variables.
Completed == [t \in Desc |-> IF data[t] # <<>> THEN done[t] ELSE NotDone]

\* The refinement mapping, in these terms.
LEMMA CompletedFunction == RefInv => [t \in Desc |-> CompletedLen(t)] = Completed
BY CompletedIs, Zenon DEF Completed, NotDone

\* A step that changes none of what RequestQueue sees.
LEMMA StutterRefines ==
  ASSUME RefInv, RefInv', UNCHANGED <<data, done, ret>>
  PROVE  UNCHANGED Abstract!vars
<1>1. [t \in Desc |-> CompletedLen(t)] = Completed
  BY CompletedFunction, Zenon
<1>2. (RefInv => [t \in Desc |-> CompletedLen(t)] = Completed)'
  BY CompletedFunction, PTL
<1>3. Completed' = Completed
  BY Zenon DEF Completed
<1>4. QED
  BY <1>1, <1>2, <1>3, Zenon DEF Abstract!vars

\* A step of VirtQueue is one of RequestQueue or changes nothing there: the
\* publication of an available index submits, that of a used index completes,
\* the marking of an element pops, and the errors are the errors.
LEMMA StepRefines ==
  ASSUME RefInv, RefInv', Next
  PROVE  [Abstract!Next]_(Abstract!vars)
<1> DEFINE c == [t \in Desc |-> CompletedLen(t)]
<1>0. /\ OwnershipInv /\ FinishedInv /\ ClientInv /\ RingInv
      /\ data \in [Desc -> Seq(Buf)] /\ done \in [Desc -> Nat \cup {NotDone}]
      /\ id \in Desc /\ NotDone = -1 /\ SIZE \in Nat
      /\ avail_desc_index \in Seq(Desc) /\ built \in Seq(Desc)
  BY SizeAssumption, Zenon
  DEF RefInv, RingInv, OwnershipInv, TypeOK, HistoryType, CallType, DriverType, NotDone
<1>1. c = Completed
  BY CompletedFunction, Zenon
<1>2. c' = Completed'
  <2>1. (RefInv => [t \in Desc |-> CompletedLen(t)] = Completed)'
    BY CompletedFunction, PTL
  <2>2. QED
    BY <2>1, Zenon
<1> HIDE DEF c
<1>3. ASSUME NEW r \in Requests, AddFull(r) PROVE Abstract!SubmitFull(r)
  <2>1. /\ pc = "idle" /\ Len(r) > Len(avail_desc_index) /\ ret' = Err("QueueFull")
        /\ UNCHANGED <<data, done>>
    BY <1>3, Zenon DEF AddFull, MayAdd, history
  <2>2. Len(built) = 0
    BY <1>0, <2>1 DEF OwnershipInv, CallInv
  <2>3. Len(r) \in Nat
    BY RequestsAssumption
  <2>4. Abstract!InUse + Len(r) > SIZE
    BY <1>0, <2>1, <2>2, <2>3, InUseCount
  <2>5. Completed' = Completed
    BY <2>1, Zenon DEF Completed
  <2>6. QED
    BY <1>1, <1>2, <2>1, <2>4, <2>5, Zenon DEF Abstract!SubmitFull, Err, c
<1>4. CASE AddPublish
  <2> DEFINE h == built[Len(built)]
  <2>1. /\ pc = "publish" /\ ret' = Ok(h) /\ data' = [data EXCEPT ![h] = req]
        /\ done' = [done EXCEPT ![h] = NotDone]
    BY <1>4, Zenon DEF AddPublish
  <2>2. h \in Desc /\ data[h] = <<>> /\ req \in Requests /\ Len(req) = Len(built)
    BY <1>0, <2>1, NewToken, BuiltHead, Zenon DEF ClientInv, Adding
  <2>3. Len(built) \in Nat /\ Len(avail_desc_index) \in Nat
    BY <1>0
  <2>4. Abstract!InUse + Len(req) <= SIZE
    BY <1>0, <2>1, <2>2, <2>3, InUseCount
  <2>5. Completed' = Completed
    BY <1>0, <2>1, <2>2, Zenon DEF Completed
  <2> HIDE DEF h
  <2>6. Abstract!Submit(h, req)
    BY <1>1, <1>2, <2>1, <2>2, <2>4, <2>5, Zenon DEF Abstract!Submit, Ok, c
  <2>7. QED
    BY <2>2, <2>6, Zenon DEF Abstract!Next
<1>5. ASSUME NEW t \in Desc, PopNotReady(t) PROVE Abstract!PopNotReady(t)
  <2>1. data[t] # <<>> /\ ~can_pop(t) /\ ret' = Err("NotReady") /\ UNCHANGED <<data, done>>
    BY <1>5, Zenon DEF PopNotReady, history
  <2>2. done[t] = NotDone
    <3>1. SUFFICES ASSUME done[t] # NotDone PROVE FALSE
      BY Zenon
    <3>2. PICK i \in 0 .. Unseen - 1 : UsedAt(i).id = t
      BY <1>0, <2>1, <3>1, Zenon DEF FinishedInv
    <3>3. QED
      BY <2>1, <3>2, Zenon DEF can_pop, Matches, Window, Unseen, UsedAt, Slot, At
  <2>3. Completed' = Completed /\ Completed[t] = -1
    BY <1>0, <2>1, <2>2, Zenon DEF Completed
  <2>4. QED
    BY <1>1, <1>2, <2>1, <2>3, Zenon DEF Abstract!PopNotReady, Err, c
<1>6. CASE PopFind
  <2>1. /\ pc = "find" /\ data' = [data EXCEPT ![id] = <<>>] /\ UNCHANGED done
        /\ \E k \in Matches(id) : ret' = Ok(UsedLen(At(k)))
    BY <1>6, Zenon DEF PopFind
  <2>2. data[id] # <<>> /\ done[id] \in Nat /\ ret' = Ok(done[id])
    BY <1>0, <2>1, FoundElement, Zenon
  <2>3. Completed[id] = done[id] /\ Completed' = [Completed EXCEPT ![id] = -1]
    BY <1>0, <2>1, <2>2, Zenon DEF Completed
  <2>4. Abstract!Pop(id)
    <3>1. c[id] # -1
      BY <1>1, <2>2, <2>3
    <3>2. ret' = [kind |-> "Ok", val |-> c[id]] /\ c' = [c EXCEPT ![id] = -1]
      BY <1>1, <1>2, <2>2, <2>3, Zenon DEF Ok
    <3>3. QED
      BY <2>1, <2>2, <3>1, <3>2, Zenon DEF Abstract!Pop, c
  <2>5. QED
    BY <1>0, <2>4, Zenon DEF Abstract!Next
<1>7. CASE DevPublish
  <2> DEFINE e == used_ring[used_idx % SIZE].id
             len == used_ring[used_idx % SIZE].len
  <2>1. /\ writing /\ UNCHANGED <<data, ret>> /\ done' = [done EXCEPT ![e] = len]
    BY <1>7, Zenon DEF DevPublish, call
  <2>2. e \in Desc /\ data[e] # <<>> /\ done[e] = NotDone /\ len \in Lens
    BY <1>0, <1>7, <2>1, PublishWindow, Zenon DEF FinishedInv
  <2> HIDE DEF e, len
  <2>3. Completed[e] = -1 /\ Completed' = [Completed EXCEPT ![e] = len]
    BY <1>0, <2>1, <2>2, Zenon DEF Completed
  <2>4. Abstract!Complete(e, len)
    BY <1>1, <1>2, <2>1, <2>2, <2>3, Zenon DEF Abstract!Complete, c
  <2>5. QED
    BY <2>2, <2>4, Zenon DEF Abstract!Next
<1>8. ASSUME NEW r \in Requests, AddBegin(r) PROVE UNCHANGED Abstract!vars
  BY <1>8, StutterRefines, Zenon DEF AddBegin, history
<1>9. ASSUME NEW t \in Desc, PopBegin(t) PROVE UNCHANGED Abstract!vars
  BY <1>9, StutterRefines, Zenon DEF PopBegin, history
<1>10. CASE AddDesc \/ AddPush
  BY <1>10, StutterRefines, Zenon DEF AddDesc, AddPush, history
<1>11. CASE PopWalk \/ PopWalked \/ PopAdvance \/ PopReturn
  BY <1>11, StutterRefines, Zenon DEF PopWalk, PopWalked, PopAdvance, PopReturn, history, call
<1>12. CASE DevFetch \/ DevWalk
  BY <1>12, StutterRefines, Zenon DEF DevFetch, DevWalk, history, call
<1>13. ASSUME NEW h \in Desc, NEW len \in Lens, DevWrite(h, len) PROVE UNCHANGED Abstract!vars
  BY <1>13, StutterRefines, Zenon DEF DevWrite, history, call
<1>14. QED
  BY <1>3, <1>4, <1>5, <1>6, <1>7, <1>8, <1>9, <1>10, <1>11, <1>12, <1>13, Zenon
  DEF Next, DriverStep, DeviceStep, Abstract!Next

\* VirtIoQueue implements RequestQueue: `add` and `pop_used` over the shared rings
\* are the submission and the collection of requests by token, QueueFull is
\* returned only when the buffers do not fit and NotReady only when the device
\* has not finished.
THEOREM QueueImplemented == ASSUME DrainFirst PROVE Spec => ImplementsRequestQueue
<1>1. Init => Abstract!Init
  <2> SUFFICES ASSUME Init PROVE Abstract!Init
    BY Zenon
  <2>1. used_idx = 0 /\ last_seen_used = 0 /\ data = [d \in Desc |-> <<>>] /\ ret = Ok(0)
    BY Zenon DEF Init
  <2>2. WrappingSub(used_idx, last_seen_used) = 0
    BY <2>1, IdxModPositive DEF WrappingSub
  <2>3. 0 .. WrappingSub(used_idx, last_seen_used) - 1 = {}
    BY <2>2
  <2>4. \A t \in Desc : CompletedLen(t) = -1
    BY <2>3, Zenon DEF CompletedLen
  <2>5. QED
    BY <2>1, <2>4, Zenon DEF Abstract!Init, Ok
<1>2. RefInv /\ RefInv' /\ [Next]_vars => [Abstract!Next]_(Abstract!vars)
  <2>1. ASSUME RefInv, RefInv', UNCHANGED vars PROVE UNCHANGED Abstract!vars
    BY <2>1, StutterRefines, Zenon DEF vars, call, history
  <2>2. QED
    BY <2>1, StepRefines, Zenon
<1>3. QED
  BY <1>1, <1>2, RefInvCorrect, PTL DEF Spec, ImplementsRequestQueue, Abstract!Spec

=============================================================================
