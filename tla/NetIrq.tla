------------------------------- MODULE NetIrq -------------------------------
(***************************************************************************)
(* The echo loop of the test kernel (virtio_net), the interrupt handler    *)
(* that feeds it (external_interrupt_handler and VirtIONetRaw::handle_irq) *)
(* and the locks they share, on one hart.  A lock masks interrupts while   *)
(* it is held (push_off and pop_off), since a handler that waited for the  *)
(* code it interrupted would wait for ever.                                *)
(*                                                                         *)
(* The loop's steps and the handler's steps are the statements of the two; *)
(* the handler runs between any two steps of the loop at which interrupts  *)
(* are enabled, and the device acts between any two steps.                 *)
(***************************************************************************)
EXTENDS Integers, Sequences, FiniteSets

CONSTANTS
  SIZE,        \* NET_QUEUE_SIZE
  MaxPackets   \* bound on the packets the device delivers

ASSUME SizeAssumption == SIZE \in Nat \ {0}
ASSUME MaxPacketsAssumption == MaxPackets \in Nat

VARIABLES
  pc,          \* where the loop is
  irq,         \* where the handler is
  sie,         \* sstatus.SIE
  noff, interrupt_enable,   \* struct Cpu
  held,        \* locks that are held
  PACKAGE_IN,
  netbuf,      \* keys of NET_BUF
  netres,      \* keys of NET_RES
  token,       \* t_token
  free,        \* avail_desc_index of the receive queue
  posted,      \* receive buffers the device has
  used,        \* the used ring of the receive queue from last_seen_used on
  tx,          \* the packet being sent
  due,         \* the device has used a buffer and not yet interrupted
  isr,         \* InterruptStatus, which drives the interrupt line
  claimed,     \* the PLIC waits for `complete`
  timer,       \* the timer: "off", "armed", or "due" and interrupting
  delivered, echoed   \* history: packets received and sent back

cpu == <<sie, noff, interrupt_enable>>
maps == <<PACKAGE_IN, netbuf, netres, token>>
rx == <<free, posted, used>>
dev == <<due, isr>>
hist == <<delivered, echoed>>
vars == <<pc, irq, cpu, held, maps, rx, tx, dev, claimed, timer, hist>>

Token == 0 .. SIZE - 1

\* avail_desc_index of a new queue
AllFree == [i \in 1 .. SIZE |-> i - 1]

\* After init_trap_subsystem, at the start of virtio_net.  It enables the timer
\* interrupt; whether the timer is armed is up to the firmware.
Init ==
  /\ pc = "lock_post" /\ irq = "none"
  /\ sie = TRUE /\ noff = 0 /\ interrupt_enable = FALSE
  /\ held = {}
  /\ PACKAGE_IN = FALSE /\ netbuf = {} /\ netres = {} /\ token = 0
  /\ free = AllFree /\ posted = {} /\ used = <<>>
  /\ tx = "none"
  /\ due = FALSE /\ isr = FALSE /\ claimed = FALSE
  /\ timer \in {"off", "armed"}
  /\ delivered = 0 /\ echoed = 0

-----------------------------------------------------------------------------
(* mutex.rs *)

push_off ==
  /\ sie' = FALSE
  /\ interrupt_enable' = IF noff = 0 THEN sie ELSE interrupt_enable
  /\ noff' = noff + 1

\* Mutant of pop_off: the nesting depth is not reduced.
pop_off_keep ==
  /\ sie' = (noff - 1 = 0 /\ interrupt_enable)
  /\ UNCHANGED <<noff, interrupt_enable>>

\* Mutant of pop_off: the state before push_off is forgotten.
pop_off_always ==
  /\ noff' = noff - 1
  /\ sie' = (noff - 1 = 0)
  /\ UNCHANGED interrupt_enable

pop_off ==
  /\ noff' = noff - 1
  /\ sie' = (noff - 1 = 0 /\ interrupt_enable)
  /\ UNCHANGED interrupt_enable

\* The check of pop_off, which panics.
PopOffPanics == sie \/ noff < 1

\* before_lock and the ticket lock, whose queue is empty but for its holder.
Lock(l) == l \notin held /\ held' = held \cup {l} /\ push_off

\* The ticket lock and after_lock.
Unlock(l) == held' = held \ {l} /\ pop_off

-----------------------------------------------------------------------------
(* virtio_net *)

\* The hart executes the loop, and not the handler.
Loop(here) == irq = "none" /\ pc = here

Take(here, l, next) ==
  /\ Loop(here)
  /\ Lock(l)
  /\ pc' = next
  /\ UNCHANGED <<irq, maps, rx, tx, dev, claimed, timer, hist>>

\* Mutant of Load: a packet is assumed to be there.
LoadAlways ==
  /\ Loop("load")
  /\ pc' = "clear"
  /\ UNCHANGED <<irq, cpu, held, maps, rx, tx, dev, claimed, timer, hist>>

\* if PACKAGE_IN.load(..)
Load ==
  /\ Loop("load")
  /\ pc' = IF PACKAGE_IN THEN "clear" ELSE "wfi"
  /\ UNCHANGED <<irq, cpu, held, maps, rx, tx, dev, claimed, timer, hist>>

\* The PLIC signals an interrupt, or the timer does.
External == isr /\ ~claimed
Pending == External \/ timer = "due"

\* wfi stalls the hart unless an interrupt is pending.
Wfi ==
  /\ Loop("wfi")
  /\ pc' = IF Pending THEN "load" ELSE "asleep"
  /\ UNCHANGED <<irq, cpu, held, maps, rx, tx, dev, claimed, timer, hist>>

\* PACKAGE_IN.store(false)
Clear ==
  /\ Loop("clear")
  /\ PACKAGE_IN' = FALSE
  /\ pc' = "lock_buf"
  /\ UNCHANGED <<irq, cpu, held, netbuf, netres, token, rx, tx, dev, claimed, timer, hist>>

\* NET_BUF.lock().remove(&t_token).unwrap()
LockBuf == Take("lock_buf", "NET_BUF", "take_buf")
TakeBuf ==
  /\ Loop("take_buf")
  /\ netbuf' = netbuf \ {token}
  /\ pc' = IF token \in netbuf /\ ~PopOffPanics THEN "lock_res" ELSE "panicked"
  /\ Unlock("NET_BUF")
  /\ UNCHANGED <<irq, PACKAGE_IN, netres, token, rx, tx, dev, claimed, timer, hist>>

\* NET_RES.lock().remove(&t_token).unwrap()
LockRes == Take("lock_res", "NET_RES", "take_res")
TakeRes ==
  /\ Loop("take_res")
  /\ netres' = netres \ {token}
  /\ pc' = IF token \in netres /\ ~PopOffPanics THEN "lock_send" ELSE "panicked"
  /\ Unlock("NET_RES")
  /\ UNCHANGED <<irq, PACKAGE_IN, netbuf, token, rx, tx, dev, claimed, timer, hist>>

\* net.lock().send(..) adds the packet to the send queue and waits for it.
LockSend == Take("lock_send", "net", "send")
Send ==
  /\ Loop("send") /\ tx = "none"
  /\ tx' = "out" /\ pc' = "sending"
  /\ UNCHANGED <<irq, cpu, held, maps, rx, dev, claimed, timer, hist>>
Sent ==
  /\ Loop("sending") /\ tx = "done"
  /\ tx' = "none" /\ echoed' = echoed + 1
  /\ pc' = IF PopOffPanics THEN "panicked" ELSE "lock_post"
  /\ Unlock("net")
  /\ UNCHANGED <<irq, maps, rx, dev, claimed, timer, delivered>>

\* NET_BUF is locked until the buffer is in it, net for receive_begin only.
LockPost == Take("lock_post", "NET_BUF", "lock_net")
LockNet == Take("lock_net", "net", "post")
Post ==
  /\ Loop("post")
  /\ IF free = <<>> \/ PopOffPanics
     THEN pc' = "panicked" /\ UNCHANGED <<token, rx>>
     ELSE /\ token' = Head(free)
          /\ free' = Tail(free) /\ posted' = posted \cup {Head(free)}
          /\ pc' = "insert" /\ UNCHANGED used
  /\ Unlock("net")
  /\ UNCHANGED <<irq, PACKAGE_IN, netbuf, netres, tx, dev, claimed, timer, hist>>
Insert ==
  /\ Loop("insert")
  /\ netbuf' = netbuf \cup {token}
  /\ pc' = IF PopOffPanics THEN "panicked" ELSE "load"
  /\ Unlock("NET_BUF")
  /\ UNCHANGED <<irq, PACKAGE_IN, netres, token, rx, tx, dev, claimed, timer, hist>>

LoopStep ==
  \/ Load \/ Wfi \/ Clear \/ LockBuf \/ TakeBuf \/ LockRes \/ TakeRes
  \/ LockSend \/ Send \/ Sent \/ LockPost \/ LockNet \/ Post \/ Insert

-----------------------------------------------------------------------------
(* kernel_trap_vector, external_interrupt_handler and handle_irq *)

\* Mutant of Trap: the handler returns to the wfi.
TrapAtWfi ==
  /\ irq = "none" /\ sie /\ Pending
  /\ pc # "panicked"
  /\ irq' = IF External THEN "claim" ELSE "timer"
  /\ sie' = FALSE
  /\ pc' = IF pc = "asleep" THEN "wfi" ELSE pc
  /\ UNCHANGED <<noff, interrupt_enable, held, maps, rx, tx, dev, claimed, timer, hist>>

\* The hart traps, which masks interrupts and ends a wfi.  Of two interrupts the
\* external one is taken first.
Trap ==
  /\ irq = "none" /\ sie /\ Pending
  /\ pc # "panicked"
  /\ irq' = IF External THEN "claim" ELSE "timer"
  /\ sie' = FALSE
  /\ pc' = IF pc = "asleep" THEN "load" ELSE pc
  /\ UNCHANGED <<noff, interrupt_enable, held, maps, rx, tx, dev, claimed, timer, hist>>

\* sbi_call passes on 32 bits of the deadline: from 2^31 ticks on, the timer may
\* not interrupt again, or at once.
set_timer == timer' \in {"armed", "off", "due"}

\* set_next_trigger
TimerTrap ==
  /\ irq = "timer"
  /\ set_timer
  /\ irq' = "sret"
  /\ UNCHANGED <<pc, cpu, held, maps, rx, tx, dev, claimed, hist>>

Claim ==
  /\ irq = "claim"
  /\ claimed' = TRUE /\ irq' = "table"
  /\ UNCHANGED <<pc, cpu, held, maps, rx, tx, dev, timer, hist>>

IrqTake(here, l, next) ==
  /\ irq = here
  /\ Lock(l)
  /\ irq' = next
  /\ UNCHANGED <<pc, maps, rx, tx, dev, claimed, timer, hist>>

LockTable == IrqTake("table", "DEVICE_TABLE", "device")
LockDevice == IrqTake("device", "net", "buf")
LockNetBuf == IrqTake("buf", "NET_BUF", "poll")

can_pop(t) == \E k \in DOMAIN used : used[k] = t

\* The loop over NET_BUF, up to the first token that poll_receive finds used.
Poll ==
  /\ irq = "poll"
  /\ irq' = IF \E t \in netbuf : can_pop(t) THEN "complete" ELSE "ack"
  /\ UNCHANGED <<pc, cpu, held, maps, rx, tx, dev, claimed, timer, hist>>

\* Mutant of pop_used: the chain is freed, and last_seen_used stays.
pop_used_stuck(t, k) == free' = Append(free, t) /\ UNCHANGED used

\* The element that can_pop has found goes, and its descriptor is free.
pop_used(t, k) ==
  /\ used' = SubSeq(used, 1, k - 1) \o SubSeq(used, k + 1, Len(used))
  /\ free' = Append(free, t)

\* receive_complete, PACKAGE_IN.store(true), and NET_RES.lock()
ReceiveComplete ==
  /\ irq = "complete"
  /\ \E t \in netbuf, k \in DOMAIN used :
       /\ used[k] = t /\ \A s \in netbuf : can_pop(s) => t <= s
       /\ pop_used(t, k)
       /\ netres' = netres \cup {t}
  /\ PACKAGE_IN' = TRUE
  /\ Lock("NET_RES")
  /\ irq' = "inserted"
  /\ UNCHANGED <<pc, netbuf, token, posted, tx, dev, claimed, timer, hist>>

IrqDrop(here, l, next) ==
  /\ irq = here
  /\ Unlock(l)
  /\ irq' = IF PopOffPanics THEN "panicked" ELSE next
  /\ UNCHANGED <<pc, maps, rx, tx, due, timer, hist>>

\* The end of the statement that inserts into NET_RES, and ack_interrupt.
Inserted ==
  /\ IrqDrop("inserted", "NET_RES", "ack")
  /\ isr' = FALSE /\ UNCHANGED claimed

\* ack_interrupt, and the guard of NET_BUF goes at the end of handle_irq.
Ack ==
  /\ IrqDrop("ack", "NET_BUF", "device_done")
  /\ isr' = FALSE /\ UNCHANGED claimed

DeviceDone ==
  /\ IrqDrop("device_done", "net", "complete_irq")
  /\ UNCHANGED <<isr, claimed>>

\* plic.complete; then the guard of DEVICE_TABLE goes.
Complete ==
  /\ IrqDrop("complete_irq", "DEVICE_TABLE", "sret")
  /\ claimed' = FALSE /\ UNCHANGED isr

\* sret restores SIE, which was set.
Sret ==
  /\ irq = "sret"
  /\ sie' = TRUE /\ irq' = "none"
  /\ UNCHANGED <<pc, noff, interrupt_enable, held, maps, rx, tx, dev, claimed, timer, hist>>

IrqStep ==
  \/ Trap \/ TimerTrap \/ Claim \/ LockTable \/ LockDevice \/ LockNetBuf \/ Poll
  \/ ReceiveComplete \/ Inserted \/ Ack \/ DeviceDone \/ Complete \/ Sret

-----------------------------------------------------------------------------
(* The device (external), which interrupts after it has used a buffer, and   *)
(* the clock.                                                                *)

DevReceive(t) ==
  /\ t \in posted /\ delivered < MaxPackets
  /\ posted' = posted \ {t} /\ used' = Append(used, t)
  /\ delivered' = delivered + 1 /\ due' = TRUE
  /\ UNCHANGED <<pc, irq, cpu, held, maps, free, tx, isr, claimed, timer, echoed>>

DevSend ==
  /\ tx = "out"
  /\ tx' = "done" /\ due' = TRUE
  /\ UNCHANGED <<pc, irq, cpu, held, maps, rx, isr, claimed, timer, hist>>

DevInterrupt ==
  /\ due
  /\ due' = FALSE /\ isr' = TRUE
  /\ UNCHANGED <<pc, irq, cpu, held, maps, rx, tx, claimed, timer, hist>>

TimerExpires ==
  /\ timer = "armed"
  /\ timer' = "due"
  /\ UNCHANGED <<pc, irq, cpu, held, maps, rx, tx, dev, claimed, hist>>

Next ==
  \/ LoopStep
  \/ IrqStep
  \/ \E t \in Token : DevReceive(t)
  \/ DevSend \/ DevInterrupt \/ TimerExpires

Spec == Init /\ [][Next]_vars

\* The hart runs, takes a pending interrupt, and the device sends what it is
\* given and interrupts.  The loop goes on between interrupts, however many
\* there are: the timer's are a tenth of a second apart.  Packets need not
\* arrive.
FairSpec ==
  /\ Spec
  /\ SF_vars(LoopStep) /\ WF_vars(IrqStep)
  /\ WF_vars(DevSend) /\ WF_vars(DevInterrupt) /\ WF_vars(TimerExpires)

-----------------------------------------------------------------------------
(* Properties *)

\* Nothing panics: none of the unwraps of the loop fails, nor the check of
\* pop_off, so that when the loop sees PACKAGE_IN its buffer and its result are
\* both there, and the handler never waits for a lock of the code it interrupted.
NeverStuck ==
  /\ pc # "panicked" /\ irq # "panicked"
  /\ irq = "table" => "DEVICE_TABLE" \notin held
  /\ irq = "device" => "net" \notin held
  /\ irq = "buf" => "NET_BUF" \notin held
  /\ irq = "complete" => "NET_RES" \notin held

\* "it takes two pop_off()s to undo two push_off()s", and "if interrupts are
\* initially off, then push_off, pop_off leaves them off": interrupts are masked
\* as long as any lock is held and throughout the handler, and noff counts the
\* locks.
MaskedWhileLocked ==
  noff = Cardinality(held) /\ (held # {} \/ irq # "none" => ~sie)

\* The buffer the loop reads and sends is not with the device.
LoopOwnsBuffer ==
  pc \in {"lock_send", "send", "sending"} =>
    posted = {} /\ used = <<>> /\ Len(free) = SIZE

\* Interrupts do not stay masked: every critical section ends, send's wait for
\* the device included, and every handler returns.
InterruptsComeBack == ~sie ~> sie

\* A packet that the handler has taken from the queue is sent back if the timer
\* keeps interrupting: it ends the wfi that slept through the packet's interrupt.
TimerEndsWfi ==
  []<>(timer = "armed") =>
    \A n \in 1 .. MaxPackets : (netres # {} /\ echoed = n - 1) ~> echoed = n

\* Every packet that arrives is sent back, which ping.py waits for.
EveryPacketEchoed ==
  \A n \in 1 .. MaxPackets : delivered >= n ~> echoed >= n

=============================================================================
