----------------------------- MODULE NetIrqProof -----------------------------
(***************************************************************************)
(* Proofs about NetIrq, for every size of the receive queue and every      *)
(* number of packets: interrupts are masked while a lock is held, the      *)
(* handler finds its locks free and no unwrap fails.                       *)
(***************************************************************************)
EXTENDS NetIrq, FiniteSetTheorems, TLAPS

-----------------------------------------------------------------------------
(* Which locks the loop and the handler hold where, and how many. *)

LoopHolds(p) ==
  CASE p \in {"take_buf", "lock_net", "insert"} -> {"NET_BUF"}
    [] p = "take_res" -> {"NET_RES"}
    [] p \in {"send", "sending"} -> {"net"}
    [] p = "post" -> {"NET_BUF", "net"}
    [] OTHER -> {}

LoopDepth(p) ==
  CASE p \in {"take_buf", "lock_net", "insert", "take_res", "send", "sending"} -> 1
    [] p = "post" -> 2
    [] OTHER -> 0

IrqHolds(i) ==
  CASE i \in {"device", "complete_irq"} -> {"DEVICE_TABLE"}
    [] i \in {"buf", "device_done"} -> {"DEVICE_TABLE", "net"}
    [] i \in {"poll", "complete", "ack"} -> {"DEVICE_TABLE", "net", "NET_BUF"}
    [] i = "inserted" -> {"DEVICE_TABLE", "net", "NET_BUF", "NET_RES"}
    [] OTHER -> {}

IrqDepth(i) ==
  CASE i \in {"device", "complete_irq"} -> 1
    [] i \in {"buf", "device_done"} -> 2
    [] i \in {"poll", "complete", "ack"} -> 3
    [] i = "inserted" -> 4
    [] OTHER -> 0

(* The inductive invariant. *)

Types ==
  /\ pc \in {"load", "wfi", "asleep", "clear", "lock_buf", "take_buf", "lock_res", "take_res",
             "lock_send", "send", "sending", "lock_post", "lock_net", "post", "insert"}
  /\ irq \in {"none", "timer", "claim", "table", "device", "buf", "poll", "complete",
              "inserted", "ack", "device_done", "complete_irq", "sret"}
  /\ token \in Token /\ free \in Seq(Token)
  /\ sie \in BOOLEAN /\ interrupt_enable \in BOOLEAN /\ PACKAGE_IN \in BOOLEAN

\* Masking: the saved interrupt enable says who holds the locks.
LockInv ==
  /\ held = LoopHolds(pc) \cup IrqHolds(irq)
  /\ noff = LoopDepth(pc) + IrqDepth(irq)
  /\ sie <=> (noff = 0 /\ irq = "none")
  /\ irq # "none" => LoopDepth(pc) = 0
  /\ noff > 0 => (interrupt_enable <=> irq = "none")

\* One buffer circulates: it is with the device, or used and not yet popped ...
Outstanding ==
  /\ Len(free) = SIZE - 1
  /\ (posted = {token} /\ used = <<>>) \/ (posted = {} /\ used = <<token>>)

\* ... or not in the queue at all.
Idle == posted = {} /\ used = <<>> /\ Len(free) = SIZE

Waiting == ~PACKAGE_IN /\ netbuf = {token} /\ netres = {} /\ Outstanding
Arrived == PACKAGE_IN /\ netbuf = {token} /\ netres = {token} /\ Idle

BufferInv ==
  /\ pc \in {"lock_post", "lock_net", "post", "lock_send", "send", "sending"} =>
       ~PACKAGE_IN /\ netbuf = {} /\ netres = {} /\ Idle
  /\ pc = "insert" => ~PACKAGE_IN /\ netbuf = {} /\ netres = {} /\ Outstanding
  /\ pc \in {"load", "wfi", "asleep"} => Waiting \/ Arrived
  /\ pc = "clear" => Arrived
  /\ pc \in {"lock_buf", "take_buf"} =>
       ~PACKAGE_IN /\ netbuf = {token} /\ netres = {token} /\ Idle
  /\ pc \in {"lock_res", "take_res"} =>
       ~PACKAGE_IN /\ netbuf = {} /\ netres = {token} /\ Idle
  /\ irq = "complete" => Waiting /\ used = <<token>>

IrqInv == Types /\ LockInv /\ BufferInv

-----------------------------------------------------------------------------
\* No interrupt is pending at first.
LEMMA InitIrq == Init => IrqInv
<1> SUFFICES ASSUME Init PROVE IrqInv
  OBVIOUS
<1>1. free \in Seq(Token) /\ Len(free) = SIZE /\ token \in Token
  BY SizeAssumption DEF Init, AllFree, Token
<1>2. Types
  BY <1>1, ZenonT(30) DEF Init, Types
<1>3. LockInv
  BY DEF Init, LockInv, LoopHolds, LoopDepth, IrqHolds, IrqDepth
<1>4. BufferInv
  BY <1>1 DEF Init, BufferInv, Idle
<1> QED
  BY <1>2, <1>3, <1>4 DEF IrqInv

\* What an unlock makes of the interrupt enable, once the pop_off of a lock that
\* is held does not panic.
LEMMA UnlockEnable ==
  ASSUME IrqInv, noff > 0, pop_off
  PROVE  /\ ~PopOffPanics
         /\ noff \in Nat /\ noff' = noff - 1
         /\ sie' \in BOOLEAN
         /\ sie' <=> (noff = 1 /\ irq = "none")
         /\ interrupt_enable' = interrupt_enable
<1>1. noff \in Nat
  BY DEF IrqInv, LockInv, LoopDepth, IrqDepth
<1>2. ~PopOffPanics
  BY <1>1 DEF IrqInv, Types, LockInv, PopOffPanics
<1>3. noff' = noff - 1 /\ interrupt_enable' = interrupt_enable
  BY DEF pop_off
<1>4. sie' \in BOOLEAN /\ (sie' <=> (noff - 1 = 0 /\ interrupt_enable))
  BY Zenon DEF pop_off
<1>5. interrupt_enable <=> irq = "none"
  BY DEF IrqInv, LockInv
<1>6. noff - 1 = 0 <=> noff = 1
  BY <1>1
<1> QED
  BY <1>1, <1>2, <1>3, <1>4, <1>5, <1>6

\* A step of the loop preserves the invariant.
LEMMA LoopIrq == ASSUME IrqInv, LoopStep PROVE IrqInv'
<1>1. CASE Load
  <2>1. Types'
    BY <1>1 DEF Load, cpu, Loop, maps, rx, IrqInv, Types
  <2>2. LockInv'
    BY <1>1 DEF Load, cpu, Loop, IrqInv, Types, LockInv, LoopHolds, LoopDepth, IrqHolds,
                IrqDepth
  <2>3. BufferInv'
    BY <1>1 DEF Load, cpu, Loop, maps, rx, IrqInv, Types, LockInv, BufferInv, Waiting,
                Arrived, Outstanding, Idle
  <2> QED
    BY <2>1, <2>2, <2>3 DEF IrqInv
<1>2. CASE Wfi
  <2>1. Types'
    BY <1>2 DEF Wfi, cpu, Loop, maps, rx, IrqInv, Types
  <2>2. LockInv'
    BY <1>2 DEF Wfi, cpu, Loop, IrqInv, Types, LockInv, LoopHolds, LoopDepth, IrqHolds,
                IrqDepth
  <2>3. BufferInv'
    BY <1>2 DEF Wfi, cpu, Loop, maps, rx, IrqInv, Types, LockInv, BufferInv, Waiting,
                Arrived, Outstanding, Idle
  <2> QED
    BY <2>1, <2>2, <2>3 DEF IrqInv
<1>3. CASE Clear
  <2>1. Types'
    BY <1>3, ZenonT(30) DEF Clear, cpu, Loop, maps, rx, IrqInv, Types
  <2>2. LockInv'
    BY <1>3 DEF Clear, cpu, Loop, IrqInv, Types, LockInv, LoopHolds, LoopDepth,
                IrqHolds, IrqDepth
  <2>3. BufferInv'
    BY <1>3 DEF Clear, cpu, Loop, maps, rx, IrqInv, Types, LockInv, BufferInv, Waiting,
                Arrived, Outstanding, Idle
  <2> QED
    BY <2>1, <2>2, <2>3 DEF IrqInv
<1>4. CASE LockBuf
  <2>1. Types'
    BY <1>4, ZenonT(30) DEF LockBuf, Take, Lock, push_off, Loop, maps, rx, IrqInv, Types
  <2>2. LockInv'
    BY <1>4 DEF LockBuf, Take, Lock, push_off, Loop, IrqInv, Types, LockInv, LoopHolds,
                LoopDepth, IrqHolds, IrqDepth
  <2>3. BufferInv'
    BY <1>4 DEF LockBuf, Take, Lock, push_off, Loop, maps, rx, IrqInv, Types, LockInv,
                BufferInv, Waiting, Arrived, Outstanding, Idle
  <2> QED
    BY <2>1, <2>2, <2>3 DEF IrqInv
<1>5. CASE TakeBuf
  <2> /\ ~PopOffPanics
      /\ noff \in Nat /\ noff' = noff - 1
      /\ sie' \in BOOLEAN
      /\ sie' <=> (noff = 1 /\ irq = "none")
      /\ interrupt_enable' = interrupt_enable
    <3>1. noff > 0
      BY <1>5 DEF TakeBuf, Loop, IrqInv, LockInv, LoopDepth, IrqDepth, Types
    <3> QED
      BY <1>5, <3>1, UnlockEnable DEF TakeBuf, Unlock
  <2>1. Types'
    BY <1>5 DEF TakeBuf, Unlock, Loop, maps, rx, IrqInv, Types, BufferInv
  <2>2. LockInv'
    BY <1>5 DEF TakeBuf, Unlock, Loop, IrqInv, Types, LockInv, BufferInv, LoopHolds,
                LoopDepth, IrqHolds, IrqDepth
  <2>3. BufferInv'
    BY <1>5 DEF TakeBuf, Unlock, Loop, maps, rx, IrqInv, Types, LockInv, BufferInv,
                Waiting, Arrived, Outstanding, Idle
  <2> QED
    BY <2>1, <2>2, <2>3 DEF IrqInv
<1>6. CASE LockRes
  <2>1. Types'
    BY <1>6, ZenonT(30) DEF LockRes, Take, Lock, push_off, Loop, maps, rx, IrqInv, Types
  <2>2. LockInv'
    BY <1>6 DEF LockRes, Take, Lock, push_off, Loop, IrqInv, Types, LockInv, LoopHolds,
                LoopDepth, IrqHolds, IrqDepth
  <2>3. BufferInv'
    BY <1>6 DEF LockRes, Take, Lock, push_off, Loop, maps, rx, IrqInv, Types, LockInv,
                BufferInv, Waiting, Arrived, Outstanding, Idle
  <2> QED
    BY <2>1, <2>2, <2>3 DEF IrqInv
<1>7. CASE TakeRes
  <2> /\ ~PopOffPanics
      /\ noff \in Nat /\ noff' = noff - 1
      /\ sie' \in BOOLEAN
      /\ sie' <=> (noff = 1 /\ irq = "none")
      /\ interrupt_enable' = interrupt_enable
    <3>1. noff > 0
      BY <1>7 DEF TakeRes, Loop, IrqInv, LockInv, LoopDepth, IrqDepth, Types
    <3> QED
      BY <1>7, <3>1, UnlockEnable DEF TakeRes, Unlock
  <2>1. Types'
    BY <1>7 DEF TakeRes, Unlock, Loop, maps, rx, IrqInv, Types, BufferInv
  <2>2. LockInv'
    BY <1>7 DEF TakeRes, Unlock, Loop, IrqInv, Types, LockInv, BufferInv, LoopHolds,
                LoopDepth, IrqHolds, IrqDepth
  <2>3. BufferInv'
    BY <1>7 DEF TakeRes, Unlock, Loop, maps, rx, IrqInv, Types, LockInv, BufferInv,
                Waiting, Arrived, Outstanding, Idle
  <2> QED
    BY <2>1, <2>2, <2>3 DEF IrqInv
<1>8. CASE LockSend
  <2>1. Types'
    BY <1>8, ZenonT(30) DEF LockSend, Take, Lock, push_off, Loop, maps, rx, IrqInv, Types
  <2>2. LockInv'
    BY <1>8 DEF LockSend, Take, Lock, push_off, Loop, IrqInv, Types, LockInv, LoopHolds,
                LoopDepth, IrqHolds, IrqDepth
  <2>3. BufferInv'
    BY <1>8 DEF LockSend, Take, Lock, push_off, Loop, maps, rx, IrqInv, Types, LockInv,
                BufferInv, Waiting, Arrived, Outstanding, Idle
  <2> QED
    BY <2>1, <2>2, <2>3 DEF IrqInv
<1>9. CASE Send
  <2>1. Types'
    BY <1>9 DEF Send, cpu, Loop, maps, rx, IrqInv, Types
  <2>2. LockInv'
    BY <1>9 DEF Send, cpu, Loop, IrqInv, Types, LockInv, LoopHolds, LoopDepth, IrqHolds,
                IrqDepth
  <2>3. BufferInv'
    BY <1>9 DEF Send, cpu, Loop, maps, rx, IrqInv, Types, LockInv, BufferInv, Waiting,
                Arrived, Outstanding, Idle
  <2> QED
    BY <2>1, <2>2, <2>3 DEF IrqInv
<1>10. CASE Sent
  <2> /\ ~PopOffPanics
      /\ noff \in Nat /\ noff' = noff - 1
      /\ sie' \in BOOLEAN
      /\ sie' <=> (noff = 1 /\ irq = "none")
      /\ interrupt_enable' = interrupt_enable
    <3>1. noff > 0
      BY <1>10 DEF Sent, Loop, IrqInv, LockInv, LoopDepth, IrqDepth, Types
    <3> QED
      BY <1>10, <3>1, UnlockEnable DEF Sent, Unlock
  <2>1. Types'
    BY <1>10 DEF Sent, Unlock, Loop, maps, rx, IrqInv, Types
  <2>2. LockInv'
    BY <1>10 DEF Sent, Unlock, Loop, IrqInv, Types, LockInv, LoopHolds, LoopDepth,
                 IrqHolds, IrqDepth
  <2>3. BufferInv'
    BY <1>10 DEF Sent, Unlock, Loop, maps, rx, IrqInv, Types, LockInv, BufferInv,
                 Waiting, Arrived, Outstanding, Idle
  <2> QED
    BY <2>1, <2>2, <2>3 DEF IrqInv
<1>11. CASE LockPost
  <2>1. Types'
    BY <1>11, ZenonT(30) DEF LockPost, Take, Lock, push_off, Loop, maps, rx, IrqInv, Types
  <2>2. LockInv'
    BY <1>11 DEF LockPost, Take, Lock, push_off, Loop, IrqInv, Types, LockInv,
                 LoopHolds, LoopDepth, IrqHolds, IrqDepth
  <2>3. BufferInv'
    BY <1>11 DEF LockPost, Take, Lock, push_off, Loop, maps, rx, IrqInv, Types, LockInv,
                 BufferInv, Waiting, Arrived, Outstanding, Idle
  <2> QED
    BY <2>1, <2>2, <2>3 DEF IrqInv
<1>12. CASE LockNet
  <2>1. Types'
    BY <1>12, ZenonT(30) DEF LockNet, Take, Lock, push_off, Loop, maps, rx, IrqInv, Types
  <2>2. LockInv'
    BY <1>12 DEF LockNet, Take, Lock, push_off, Loop, IrqInv, Types, LockInv, LoopHolds,
                 LoopDepth, IrqHolds, IrqDepth
  <2>3. BufferInv'
    BY <1>12 DEF LockNet, Take, Lock, push_off, Loop, maps, rx, IrqInv, Types, LockInv,
                 BufferInv, Waiting, Arrived, Outstanding, Idle
  <2> QED
    BY <2>1, <2>2, <2>3 DEF IrqInv
<1>13. CASE Post
  <2>1. /\ noff = 2 /\ irq = "none" /\ pc = "post" /\ held = {"NET_BUF", "net"}
        /\ Idle /\ free \in Seq(Token) /\ ~PACKAGE_IN /\ netbuf = {} /\ netres = {}
    BY <1>13 DEF Post, Loop, IrqInv, Types, LockInv, BufferInv, LoopHolds, LoopDepth,
                 IrqHolds, IrqDepth
  <2>2. /\ ~PopOffPanics /\ noff' = 1 /\ sie' \in BOOLEAN /\ ~sie'
        /\ interrupt_enable' = interrupt_enable
    BY <1>13, <2>1, UnlockEnable DEF Post, Unlock
  <2>3. /\ free # <<>> /\ Head(free) \in Token
        /\ Tail(free) \in Seq(Token) /\ Len(Tail(free)) = SIZE - 1
    BY <2>1, SizeAssumption DEF Idle
  <2>4. /\ pc' = "insert" /\ irq' = "none" /\ held' = {"NET_BUF"}
        /\ token' = Head(free) /\ free' = Tail(free)
        /\ posted' = {token'} /\ used' = <<>>
        /\ PACKAGE_IN' = PACKAGE_IN /\ netbuf' = {} /\ netres' = {}
    BY <1>13, <2>1, <2>2, <2>3 DEF Post, Unlock, Idle
  <2>5. Types'
    BY <2>2, <2>3, <2>4 DEF IrqInv, Types
  <2>6. LockInv'
    BY <2>1, <2>2, <2>4 DEF IrqInv, LockInv, LoopHolds, LoopDepth, IrqHolds, IrqDepth
  <2>7. BufferInv'
    BY <2>1, <2>3, <2>4 DEF BufferInv, Outstanding
  <2> QED
    BY <2>5, <2>6, <2>7 DEF IrqInv
<1>14. CASE Insert
  <2> /\ ~PopOffPanics
      /\ noff \in Nat /\ noff' = noff - 1
      /\ sie' \in BOOLEAN
      /\ sie' <=> (noff = 1 /\ irq = "none")
      /\ interrupt_enable' = interrupt_enable
    <3>1. noff > 0
      BY <1>14 DEF Insert, Loop, IrqInv, LockInv, LoopDepth, IrqDepth, Types
    <3> QED
      BY <1>14, <3>1, UnlockEnable DEF Insert, Unlock
  <2>1. Types'
    BY <1>14 DEF Insert, Unlock, Loop, maps, rx, IrqInv, Types
  <2>2. LockInv'
    BY <1>14 DEF Insert, Unlock, Loop, IrqInv, Types, LockInv, LoopHolds, LoopDepth,
                 IrqHolds, IrqDepth
  <2>3. BufferInv'
    BY <1>14 DEF Insert, Unlock, Loop, maps, rx, IrqInv, Types, LockInv, BufferInv,
                 Waiting, Arrived, Outstanding, Idle
  <2> QED
    BY <2>1, <2>2, <2>3 DEF IrqInv
<1> QED
  BY <1>1, <1>2, <1>3, <1>4, <1>5, <1>6, <1>7, <1>8, <1>9, <1>10, <1>11, <1>12, <1>13,
     <1>14 DEF LoopStep

\* A step of the handler preserves the invariant.
LEMMA HandlerIrq == ASSUME IrqInv, IrqStep PROVE IrqInv'
<1>1. CASE Trap
  <2>1. Types'
    BY <1>1, ZenonT(30) DEF Trap, maps, rx, IrqInv, Types
  <2>2. LockInv'
    BY <1>1 DEF Trap, IrqInv, Types, LockInv, LoopHolds, LoopDepth, IrqHolds, IrqDepth
  <2>3. BufferInv'
    BY <1>1 DEF Trap, maps, rx, IrqInv, Types, LockInv, BufferInv, Waiting, Arrived,
                Outstanding, Idle
  <2> QED
    BY <2>1, <2>2, <2>3 DEF IrqInv
<1>2. CASE TimerTrap
  <2>1. Types'
    BY <1>2 DEF TimerTrap, cpu, maps, rx, IrqInv, Types
  <2>2. LockInv'
    BY <1>2 DEF TimerTrap, cpu, IrqInv, Types, LockInv, LoopHolds, LoopDepth, IrqHolds,
                IrqDepth
  <2>3. BufferInv'
    BY <1>2 DEF TimerTrap, cpu, maps, rx, IrqInv, Types, LockInv, BufferInv, Waiting,
                Arrived, Outstanding, Idle
  <2> QED
    BY <2>1, <2>2, <2>3 DEF IrqInv
<1>3. CASE Claim
  <2>1. Types'
    BY <1>3 DEF Claim, cpu, maps, rx, IrqInv, Types
  <2>2. LockInv'
    BY <1>3 DEF Claim, cpu, IrqInv, Types, LockInv, LoopHolds, LoopDepth, IrqHolds,
                IrqDepth
  <2>3. BufferInv'
    BY <1>3 DEF Claim, cpu, maps, rx, IrqInv, Types, LockInv, BufferInv, Waiting,
                Arrived, Outstanding, Idle
  <2> QED
    BY <2>1, <2>2, <2>3 DEF IrqInv
<1>4. CASE LockTable
  <2>1. Types'
    BY <1>4, ZenonT(30) DEF LockTable, IrqTake, Lock, push_off, maps, rx, IrqInv, Types
  <2>2. LockInv'
    BY <1>4 DEF LockTable, IrqTake, Lock, push_off, IrqInv, Types, LockInv, LoopHolds,
                LoopDepth, IrqHolds, IrqDepth
  <2>3. BufferInv'
    BY <1>4 DEF LockTable, IrqTake, Lock, push_off, maps, rx, IrqInv, Types, LockInv,
                BufferInv, Waiting, Arrived, Outstanding, Idle
  <2> QED
    BY <2>1, <2>2, <2>3 DEF IrqInv
<1>5. CASE LockDevice
  <2>1. Types'
    BY <1>5, ZenonT(30) DEF LockDevice, IrqTake, Lock, push_off, maps, rx, IrqInv, Types
  <2>2. LockInv'
    BY <1>5 DEF LockDevice, IrqTake, Lock, push_off, IrqInv, Types, LockInv, LoopHolds,
                LoopDepth, IrqHolds, IrqDepth
  <2>3. BufferInv'
    BY <1>5 DEF LockDevice, IrqTake, Lock, push_off, maps, rx, IrqInv, Types, LockInv,
                BufferInv, Waiting, Arrived, Outstanding, Idle
  <2> QED
    BY <2>1, <2>2, <2>3 DEF IrqInv
<1>6. CASE LockNetBuf
  <2>1. Types'
    BY <1>6, ZenonT(30) DEF LockNetBuf, IrqTake, Lock, push_off, maps, rx, IrqInv, Types
  <2>2. LockInv'
    BY <1>6 DEF LockNetBuf, IrqTake, Lock, push_off, IrqInv, Types, LockInv, LoopHolds,
                LoopDepth, IrqHolds, IrqDepth
  <2>3. BufferInv'
    BY <1>6 DEF LockNetBuf, IrqTake, Lock, push_off, maps, rx, IrqInv, Types, LockInv,
                BufferInv, Waiting, Arrived, Outstanding, Idle
  <2> QED
    BY <2>1, <2>2, <2>3 DEF IrqInv
<1>7. CASE Poll
  <2>1. Types'
    BY <1>7 DEF Poll, can_pop, cpu, maps, rx, IrqInv, Types
  <2>2. LockInv'
    BY <1>7 DEF Poll, can_pop, cpu, IrqInv, Types, LockInv, LoopHolds, LoopDepth,
                IrqHolds, IrqDepth
  <2>3. BufferInv'
    BY <1>7 DEF Poll, can_pop, cpu, maps, rx, IrqInv, Types, LockInv, BufferInv,
                Waiting, Arrived, Outstanding, Idle
  <2> QED
    BY <2>1, <2>2, <2>3 DEF IrqInv
<1>8. CASE ReceiveComplete
  <2>1. /\ Waiting /\ used = <<token>> /\ token \in Token /\ free \in Seq(Token)
        /\ pc \in {"load", "wfi", "asleep"}
    <3>1. Waiting /\ used = <<token>> /\ token \in Token /\ free \in Seq(Token)
      BY <1>8 DEF ReceiveComplete, pop_used, IrqInv, Types, BufferInv
    <3>2. used # <<>> /\ netbuf # {} /\ ~PACKAGE_IN
      BY <3>1 DEF Waiting
    <3>3. pc \in {"load", "wfi", "asleep"}
      BY <3>2 DEF IrqInv, Types, BufferInv, Arrived, Idle
    <3> QED
      BY <3>1, <3>3
  <2>2. \A k \in DOMAIN used : SubSeq(used, 1, k - 1) \o SubSeq(used, k + 1, Len(used)) = <<>>
    BY <2>1
  <2>3. /\ used' = <<>> /\ free' = Append(free, token) /\ netres' = {token}
        /\ netbuf' = {token} /\ posted' = {} /\ token' = token /\ PACKAGE_IN' = TRUE
        /\ pc' = pc /\ irq' = "inserted"
    BY <1>8, <2>1, <2>2 DEF ReceiveComplete, pop_used, Waiting, Outstanding
  <2>4. free' \in Seq(Token) /\ Len(free') = SIZE
    BY <2>1, <2>3, SizeAssumption DEF Waiting, Outstanding
  <2>5. Types'
    BY <1>8, <2>1, <2>3, <2>4, ZenonT(30)
    DEF ReceiveComplete, pop_used, Lock, push_off, IrqInv, Types
  <2>6. LockInv'
    BY <1>8 DEF ReceiveComplete, pop_used, can_pop, Lock, push_off, IrqInv, Types, LockInv,
                LoopHolds, LoopDepth, IrqHolds, IrqDepth
  <2>7. BufferInv'
    BY <2>1, <2>3, <2>4 DEF BufferInv, Arrived, Idle
  <2> QED
    BY <2>5, <2>6, <2>7 DEF IrqInv
<1>9. CASE Inserted
  <2> /\ ~PopOffPanics
      /\ noff \in Nat /\ noff' = noff - 1
      /\ sie' \in BOOLEAN
      /\ sie' <=> (noff = 1 /\ irq = "none")
      /\ interrupt_enable' = interrupt_enable
    <3>1. noff > 0
      BY <1>9 DEF Inserted, IrqDrop, IrqInv, LockInv, LoopDepth, IrqDepth, Types
    <3> QED
      BY <1>9, <3>1, UnlockEnable DEF Inserted, IrqDrop, Unlock
  <2>1. Types'
    BY <1>9 DEF Inserted, IrqDrop, Unlock, maps, rx, IrqInv, Types
  <2>2. LockInv'
    BY <1>9 DEF Inserted, IrqDrop, Unlock, IrqInv, Types, LockInv, LoopHolds, LoopDepth,
                IrqHolds, IrqDepth
  <2>3. BufferInv'
    BY <1>9 DEF Inserted, IrqDrop, Unlock, maps, rx, IrqInv, Types, LockInv, BufferInv,
                Waiting, Arrived, Outstanding, Idle
  <2> QED
    BY <2>1, <2>2, <2>3 DEF IrqInv
<1>10. CASE Ack
  <2> /\ ~PopOffPanics
      /\ noff \in Nat /\ noff' = noff - 1
      /\ sie' \in BOOLEAN
      /\ sie' <=> (noff = 1 /\ irq = "none")
      /\ interrupt_enable' = interrupt_enable
    <3>1. noff > 0
      BY <1>10 DEF Ack, IrqDrop, IrqInv, LockInv, LoopDepth, IrqDepth, Types
    <3> QED
      BY <1>10, <3>1, UnlockEnable DEF Ack, IrqDrop, Unlock
  <2>1. Types'
    BY <1>10 DEF Ack, IrqDrop, Unlock, maps, rx, IrqInv, Types
  <2>2. LockInv'
    BY <1>10 DEF Ack, IrqDrop, Unlock, IrqInv, Types, LockInv, LoopHolds, LoopDepth,
                 IrqHolds, IrqDepth
  <2>3. BufferInv'
    BY <1>10 DEF Ack, IrqDrop, Unlock, maps, rx, IrqInv, Types, LockInv, BufferInv,
                 Waiting, Arrived, Outstanding, Idle
  <2> QED
    BY <2>1, <2>2, <2>3 DEF IrqInv
<1>11. CASE DeviceDone
  <2> /\ ~PopOffPanics
      /\ noff \in Nat /\ noff' = noff - 1
      /\ sie' \in BOOLEAN
      /\ sie' <=> (noff = 1 /\ irq = "none")
      /\ interrupt_enable' = interrupt_enable
    <3>1. noff > 0
      BY <1>11 DEF DeviceDone, IrqDrop, IrqInv, LockInv, LoopDepth, IrqDepth, Types
    <3> QED
      BY <1>11, <3>1, UnlockEnable DEF DeviceDone, IrqDrop, Unlock
  <2>1. Types'
    BY <1>11 DEF DeviceDone, IrqDrop, Unlock, maps, rx, IrqInv, Types
  <2>2. LockInv'
    BY <1>11 DEF DeviceDone, IrqDrop, Unlock, IrqInv, Types, LockInv, LoopHolds,
                 LoopDepth, IrqHolds, IrqDepth
  <2>3. BufferInv'
    BY <1>11 DEF DeviceDone, IrqDrop, Unlock, maps, rx, IrqInv, Types, LockInv,
                 BufferInv, Waiting, Arrived, Outstanding, Idle
  <2> QED
    BY <2>1, <2>2, <2>3 DEF IrqInv
<1>12. CASE Complete
  <2> /\ ~PopOffPanics
      /\ noff \in Nat /\ noff' = noff - 1
      /\ sie' \in BOOLEAN
      /\ sie' <=> (noff = 1 /\ irq = "none")
      /\ interrupt_enable' = interrupt_enable
    <3>1. noff > 0
      BY <1>12 DEF Complete, IrqDrop, IrqInv, LockInv, LoopDepth, IrqDepth, Types
    <3> QED
      BY <1>12, <3>1, UnlockEnable DEF Complete, IrqDrop, Unlock
  <2>1. Types'
    BY <1>12 DEF Complete, IrqDrop, Unlock, maps, rx, IrqInv, Types
  <2>2. LockInv'
    BY <1>12 DEF Complete, IrqDrop, Unlock, IrqInv, Types, LockInv, LoopHolds,
                 LoopDepth, IrqHolds, IrqDepth
  <2>3. BufferInv'
    BY <1>12 DEF Complete, IrqDrop, Unlock, maps, rx, IrqInv, Types, LockInv, BufferInv,
                 Waiting, Arrived, Outstanding, Idle
  <2> QED
    BY <2>1, <2>2, <2>3 DEF IrqInv
<1>13. CASE Sret
  <2>1. Types'
    BY <1>13 DEF Sret, maps, rx, IrqInv, Types
  <2>2. LockInv'
    BY <1>13 DEF Sret, IrqInv, Types, LockInv, LoopHolds, LoopDepth, IrqHolds, IrqDepth
  <2>3. BufferInv'
    BY <1>13 DEF Sret, maps, rx, IrqInv, Types, LockInv, BufferInv, Waiting, Arrived,
                 Outstanding, Idle
  <2> QED
    BY <2>1, <2>2, <2>3 DEF IrqInv
<1> QED
  BY <1>1, <1>2, <1>3, <1>4, <1>5, <1>6, <1>7, <1>8, <1>9, <1>10, <1>11, <1>12, <1>13
     DEF IrqStep

\* A step beside the receive queue, the locks and the maps preserves the invariant.
LEMMA BesideIrq == ASSUME IrqInv, UNCHANGED <<pc, irq, cpu, held, maps, rx>> PROVE IrqInv'
<1>1. /\ UNCHANGED <<pc, irq, held, sie, noff, interrupt_enable, free, posted, used>>
      /\ UNCHANGED <<PACKAGE_IN, netbuf, netres, token>>
  BY Zenon DEF cpu, maps, rx
<1>2. Idle' = Idle /\ Outstanding' = Outstanding
  BY <1>1, Zenon DEF Idle, Outstanding
<1>3. Waiting' = Waiting /\ Arrived' = Arrived
  BY <1>1, <1>2, Zenon DEF Waiting, Arrived
<1>4. Types' /\ LockInv'
  BY <1>1, Zenon DEF IrqInv, Types, LockInv
<1>5. BufferInv'
  BY <1>1, <1>2, <1>3, Zenon DEF IrqInv, BufferInv
<1> QED
  BY <1>4, <1>5, Zenon DEF IrqInv

\* A step of the device or of the clock preserves the invariant.
LEMMA OutsideIrq ==
  ASSUME IrqInv, (\E t \in Token : DevReceive(t)) \/ DevSend \/ DevInterrupt \/ TimerExpires
  PROVE  IrqInv'
<1>1. ASSUME NEW t \in Token, DevReceive(t) PROVE IrqInv'
  <2>1. /\ Outstanding /\ posted = {token} /\ used = <<>> /\ t = token
        /\ used' = <<token>> /\ posted' = {}
    <3>1. t \in posted /\ used' = Append(used, t) /\ posted' = posted \ {t}
      BY <1>1 DEF DevReceive
    <3>2. ~Idle
      BY <3>1 DEF Idle
    <3>3. Outstanding
      BY <3>2 DEF IrqInv, Types, BufferInv, Waiting, Arrived
    <3>4. posted = {token} /\ used = <<>> /\ t = token
      BY <3>1, <3>3 DEF Outstanding
    <3>5. used' = Append(<<>>, token) /\ Append(<<>>, token) = <<token>> /\ posted' = {}
      BY <3>1, <3>4
    <3> QED
      BY <3>3, <3>4, <3>5
  <2>2. Types'
    BY <1>1 DEF DevReceive, cpu, maps, IrqInv, Types
  <2>3. LockInv'
    BY <1>1 DEF DevReceive, cpu, IrqInv, LockInv
  <2>4. Outstanding' /\ ~Idle
    BY <1>1, <2>1 DEF DevReceive, maps, Outstanding, Idle
  <2>5. BufferInv'
    BY <1>1, <2>1, <2>4 DEF DevReceive, maps, IrqInv, Types, BufferInv, Waiting, Arrived
  <2> QED
    BY <2>2, <2>3, <2>5 DEF IrqInv
<1>2. ASSUME DevSend \/ DevInterrupt \/ TimerExpires PROVE IrqInv'
  <2>1. UNCHANGED <<pc, irq, cpu, held, maps, rx>>
    BY <1>2 DEF DevSend, DevInterrupt, TimerExpires
  <2> QED
    BY <2>1, BesideIrq, Zenon
<1> QED
  BY <1>1, <1>2

\* Every step keeps the invariant.
LEMMA NextIrq == IrqInv /\ [Next]_vars => IrqInv'
<1> SUFFICES ASSUME IrqInv, [Next]_vars PROVE IrqInv'
  OBVIOUS
<1>1. CASE UNCHANGED vars
  <2>1. UNCHANGED <<pc, irq, cpu, held, maps, rx>>
    BY <1>1, Zenon DEF vars
  <2> QED
    BY <2>1, BesideIrq, Zenon
<1> QED
  BY <1>1, LoopIrq, HandlerIrq, OutsideIrq DEF Next

\* The invariant, always.
LEMMA AlwaysIrq == Spec => []IrqInv
  BY InitIrq, NextIrq, PTL DEF Spec

-----------------------------------------------------------------------------
\* Nothing panics, and the handler finds every lock it takes free, for every
\* queue size and number of packets.
THEOREM NeverStuckAlways == Spec => []NeverStuck
<1>1. IrqInv => NeverStuck
  BY DEF IrqInv, Types, LockInv, NeverStuck, LoopHolds, LoopDepth, IrqHolds
<1> QED
  BY <1>1, AlwaysIrq, PTL

\* The locks of the handler, and those of the loop, counted.
LEMMA LocksCounted ==
  /\ Cardinality({}) = 0
  /\ \A l : Cardinality({l}) = 1
  /\ Cardinality({"NET_BUF", "net"}) = 2
  /\ Cardinality({"DEVICE_TABLE", "net"}) = 2
  /\ Cardinality({"DEVICE_TABLE", "net", "NET_BUF"}) = 3
  /\ Cardinality({"DEVICE_TABLE", "net", "NET_BUF", "NET_RES"}) = 4
<1>1. Cardinality({}) = 0 /\ \A l : IsFiniteSet({l}) /\ Cardinality({l}) = 1
  BY FS_EmptySet, FS_Singleton
<1>2. ASSUME NEW S, NEW x, IsFiniteSet(S), x \notin S
      PROVE  IsFiniteSet(S \cup {x}) /\ Cardinality(S \cup {x}) = Cardinality(S) + 1
  <2>1. /\ IsFiniteSet(S \cup {x})
        /\ Cardinality(S \cup {x}) = IF x \in S THEN Cardinality(S) ELSE Cardinality(S) + 1
    BY <1>2, FS_AddElement, Zenon
  <2> QED
    BY <1>2, <2>1
<1> "net" \notin {"NET_BUF"} /\ "net" \notin {"DEVICE_TABLE"}
  OBVIOUS
<1>3. Cardinality({"NET_BUF"} \cup {"net"}) = 1 + 1
  BY <1>1, <1>2, Zenon
<1>4. /\ IsFiniteSet({"DEVICE_TABLE"} \cup {"net"})
      /\ Cardinality({"DEVICE_TABLE"} \cup {"net"}) = 1 + 1
  BY <1>1, <1>2, Zenon
<1>5. /\ {"DEVICE_TABLE"} \cup {"net"} = {"DEVICE_TABLE", "net"}
      /\ "NET_BUF" \notin {"DEVICE_TABLE", "net"}
  OBVIOUS
<1>6. /\ IsFiniteSet({"DEVICE_TABLE", "net"} \cup {"NET_BUF"})
      /\ Cardinality({"DEVICE_TABLE", "net"} \cup {"NET_BUF"}) = 1 + 1 + 1
  BY <1>2, <1>4, <1>5, Zenon
<1>7. /\ {"DEVICE_TABLE", "net"} \cup {"NET_BUF"} = {"DEVICE_TABLE", "net", "NET_BUF"}
      /\ "NET_RES" \notin {"DEVICE_TABLE", "net", "NET_BUF"}
  OBVIOUS
<1>8. Cardinality({"DEVICE_TABLE", "net", "NET_BUF"} \cup {"NET_RES"}) = 1 + 1 + 1 + 1
  BY <1>2, <1>6, <1>7, Zenon
<1>9. /\ {"DEVICE_TABLE", "net", "NET_BUF"} \cup {"NET_RES"}
           = {"DEVICE_TABLE", "net", "NET_BUF", "NET_RES"}
      /\ {"NET_BUF"} \cup {"net"} = {"NET_BUF", "net"}
  OBVIOUS
<1> QED
  BY <1>1, <1>3, <1>4, <1>5, <1>6, <1>7, <1>8, <1>9

\* push_off and pop_off keep interrupts masked while a lock is held, and noff
\* counts the locks.
THEOREM MaskedAlways == Spec => []MaskedWhileLocked
<1>1. IrqInv => MaskedWhileLocked
  <2> SUFFICES ASSUME IrqInv PROVE MaskedWhileLocked
    OBVIOUS
  <2>1. /\ LoopHolds(pc) = {} /\ LoopDepth(pc) = 0
        \/ irq = "none"
    BY DEF IrqInv, Types, LockInv, LoopHolds, LoopDepth
  <2>2. Cardinality(LoopHolds(pc)) = LoopDepth(pc) /\ LoopDepth(pc) \in Nat
    BY LocksCounted, ZenonT(30) DEF IrqInv, Types, LoopHolds, LoopDepth
  <2>3. Cardinality(IrqHolds(irq)) = IrqDepth(irq) /\ IrqDepth(irq) \in Nat
    BY LocksCounted, ZenonT(30) DEF IrqInv, Types, IrqHolds, IrqDepth
  <2>4. noff = Cardinality(held)
    <3>1. CASE LoopHolds(pc) = {} /\ LoopDepth(pc) = 0
      <4>1. held = IrqHolds(irq) /\ noff = IrqDepth(irq)
        BY <2>3, <3>1 DEF IrqInv, LockInv
      <4> QED
        BY <2>3, <4>1
    <3>2. CASE irq = "none"
      <4>1. IrqHolds(irq) = {} /\ IrqDepth(irq) = 0
        BY <3>2 DEF IrqHolds, IrqDepth
      <4>2. held = LoopHolds(pc) /\ noff = LoopDepth(pc)
        BY <2>2, <4>1 DEF IrqInv, LockInv
      <4> QED
        BY <2>2, <4>2
    <3> QED
      BY <2>1, <3>1, <3>2
  <2>5. held # {} => noff # 0
    BY DEF IrqInv, Types, LockInv, LoopHolds, LoopDepth, IrqHolds, IrqDepth
  <2> QED
    BY <2>4, <2>5 DEF IrqInv, LockInv, MaskedWhileLocked
<1> QED
  BY <1>1, AlwaysIrq, PTL

\* The packet that the loop sends is never in a buffer of the device.
THEOREM LoopOwnsBufferAlways == Spec => []LoopOwnsBuffer
<1>1. IrqInv => LoopOwnsBuffer
  BY DEF IrqInv, BufferInv, Idle, LoopOwnsBuffer
<1> QED
  BY <1>1, AlwaysIrq, PTL

=============================================================================
