------------------------------ MODULE Lifecycle ------------------------------
(***************************************************************************)
(* The life of a driver on the MMIO or the PCI transport: `new`            *)
(* (begin_init, VirtIoQueue::new for each queue, finish_init), its error   *)
(* paths, and drop.  The drivers differ only in the order of what they do  *)
(* to the registers and to memory, so each is a sequence of accesses,      *)
(* taken from its `new` and Drop, that the actions below carry out one at  *)
(* a time.  Any access through VirtIoDeviceIo may fail, and a failed       *)
(* access does nothing; the PCI transport uses pointers.  DriverSetup      *)
(* composes this with the allocator.                                       *)
(***************************************************************************)
EXTENDS Integers, Sequences

CONSTANTS
  Drivers,   \* which drivers: a subset of AllDrivers
  Faulty     \* the drivers whose register accesses may return an error

AllDrivers == {"blk", "console", "gpu", "input", "net_raw", "net"}

VARIABLES
  driver, version,   \* the driver and the MmioVersion of its device, or "Pci"
  pc,                \* the call in progress
  todo,              \* the accesses it has left
  err,               \* the last error it met
  mem,               \* what became of the memory the device is given
  \* the device's registers
  status, features, queue_sel, reg,
  posted             \* the device has been given the receive or event buffers

vars == <<driver, version, pc, todo, err, mem, status, features,
          queue_sel, reg, posted>>

Queue == {0, 1}

\* Memory the device may be given: the page of each queue, and the buffers of
\* VirtIOInput and VirtIONet.  An address is a region, or one of two others.
Buffers == 2
Region == Queue \cup {Buffers}
Size == 2       \* QUEUE_SIZE
Null == -1
Foreign == -2   \* what a boot loader left behind

\* The registers behind queue_sel.
Unset == [num |-> 0, desc |-> Null, drv |-> Null, dev |-> Null, ready |-> "off"]
Firmware == [num |-> 1, desc |-> Foreign, drv |-> Foreign, dev |-> Foreign, ready |-> "on"]

\* queue_used: pfn is not zero, or the device reads queue_ready as 1.
Live(q) == IF version = "Legacy" THEN reg[q].desc # Null ELSE reg[q].ready # "off"

-----------------------------------------------------------------------------
(* The accesses.  `part` says where in the call an access is, and q which    *)
(* queue a register behind queue_sel is meant to be of; the one that is      *)
(* selected is accessed.                                                     *)

Status(part, bits) == <<[op |-> "status", part |-> part, v |-> bits]>>
Touch(part) == <<[op |-> "touch", part |-> part]>>
Feature(part, word) == <<[op |-> "features", part |-> part, v |-> word]>>
Sel(part, q) == <<[op |-> "sel", part |-> part, v |-> q]>>
CheckUsed(q) == <<[op |-> "used", part |-> "new", q |-> q]>>
Check(part) == <<[op |-> "check", part |-> part]>>
Reg(part, q, f, v) == <<[op |-> "reg", part |-> part, q |-> q, f |-> f, v |-> v]>>
WaitOff(q) == <<[op |-> "wait", part |-> "drop", q |-> q]>>
WaitReset == <<[op |-> "wait_reset", part |-> "drop"]>>
Alloc(part, r) == <<[op |-> "alloc", part |-> part, v |-> r]>>
Post(part) == <<[op |-> "post", part |-> part]>>
Free(r) == <<[op |-> "free", part |-> "drop", v |-> r]>>

Ack == {"ACKNOWLEDGE", "DRIVER"}

\* MmioTransport::new: magic, device id and version.  PciTransport::new is in
\* the module Pci.
TransportNew ==
  IF version = "Pci" THEN <<>> ELSE Check("probe") \o Check("probe") \o Check("probe")

\* Mutant of BeginInit: the device is not reset first.
BeginInitNoReset ==
  Status("begin", Ack) \o Touch("begin") \o Feature("begin", 0) \o Feature("begin", 1)
  \o Status("begin", Ack \cup {"FEATURES_OK"})

\* Transport::begin_init with read_device_features, write_driver_features and
\* set_guest_page_size.  Each half of the features goes through its selector.
BeginInit ==
  Status("begin", {})
  \o Status("begin", Ack)
  \o Touch("begin") \o Touch("begin") \o Touch("begin") \o Touch("begin")
  \o Touch("begin") \o Feature("begin", 0)
  \o Touch("begin") \o Feature("begin", 1)
  \o Status("begin", Ack \cup {"FEATURES_OK"})
  \o (IF version = "Legacy" THEN Touch("begin") ELSE <<>>)

FinishInit == Status("new", Ack \cup {"FEATURES_OK", "DRIVER_OK"})

\* queue_set; the legacy page number is the `desc` register, and queue_enable of
\* PCI the `ready` register.
queue_set(q) ==
  Sel("new", q) \o Reg("new", q, "num", Size)
  \o IF version = "Legacy" THEN Touch("new") \o Reg("new", q, "desc", q)
     ELSE Reg("new", q, "desc", q) \o Reg("new", q, "drv", q) \o Reg("new", q, "dev", q)
          \o Reg("new", q, "ready", "on")

\* VirtIoQueue::new: queue_used, max_queue_size, dma_alloc, queue_set.
QueueNew(q) ==
  Sel("new", q) \o CheckUsed(q)
  \o Sel("new", q) \o Check("new")
  \o Alloc("new", q)
  \o queue_set(q)

\* Mutant of queue_unset: nothing waits for queue_ready to read 0.
queue_unset_hasty(q) ==
  Sel("drop", q)
  \o IF version = "Legacy"
     THEN Reg("drop", q, "num", 0) \o Touch("drop") \o Reg("drop", q, "desc", Null)
     ELSE Reg("drop", q, "ready", "stopping") \o Reg("drop", q, "num", 0)
          \o Reg("drop", q, "desc", Null) \o Reg("drop", q, "drv", Null) \o Reg("drop", q, "dev", Null)

\* Mutant of queue_unset: queue_ready is waited for and never written.
queue_unset_nowrite(q) == Sel("drop", q) \o WaitOff(q)

\* MmioTransport::queue_unset; that of PciTransport does nothing.
queue_unset(q) ==
  CASE version = "Pci" -> <<>>
    [] version = "Legacy" ->
         Sel("drop", q)
         \o Reg("drop", q, "num", 0) \o Touch("drop") \o Reg("drop", q, "desc", Null)
    [] version = "Modern" ->
         Sel("drop", q)
         \o Reg("drop", q, "ready", "stopping") \o WaitOff(q) \o Reg("drop", q, "num", 0)
         \o Reg("drop", q, "desc", Null) \o Reg("drop", q, "drv", Null) \o Reg("drop", q, "dev", Null)

\* notify; with PCI it looks the doorbell up.
NotifyQueue(part) ==
  IF version = "Pci" THEN Sel(part, 0) \o Touch(part) \o Touch(part) ELSE Touch(part)

\* What happens to the configuration space between begin_init and the queues.
ConfigReads ==
  CASE driver \in {"blk", "gpu"} -> Touch("new") \o Touch("new")
    [] driver \in {"net_raw", "net"} -> Touch("new")
    [] driver \in {"console", "input"} -> <<>>

HasQueue(q) == q = 0 \/ driver # "blk"
Queues == {q \in Queue : HasQueue(q)}

\* Mutant of New: finish_init is called before the queues exist.
NewEarly ==
  TransportNew \o BeginInit \o FinishInit \o ConfigReads \o QueueNew(0)
  \o (IF HasQueue(1) THEN QueueNew(1) ELSE <<>>)

\* `new` of the drivers.  VirtIOInput hands out its buffers and notifies before
\* finish_init, VirtIONet after VirtIONetRaw::new has returned.
New ==
  TransportNew
  \o BeginInit
  \o ConfigReads
  \o (IF driver = "input" THEN Alloc("new", Buffers) ELSE <<>>)
  \o QueueNew(0)
  \o (IF HasQueue(1) THEN QueueNew(1) ELSE <<>>)
  \o (IF driver = "input" THEN Post("new") \o NotifyQueue("new") ELSE <<>>)
  \o FinishInit
  \o (IF driver = "net" THEN Alloc("fill", Buffers) \o Post("fill") \o NotifyQueue("fill")
      ELSE <<>>)

\* Mutant of ResetDevice: PciTransport::drop does not wait.
ResetDeviceHasty == Status("drop", {})

\* Drop of the transport
ResetDevice == Status("drop", {}) \o IF version = "Pci" THEN WaitReset ELSE <<>>

\* The fields of every driver are dropped in this order.
DropFields == ResetDevice \o Free(0) \o Free(1) \o Free(Buffers)

\* Drop of the driver, and then of its fields.  The network drivers have no
\* Drop of their own.
DropDriver ==
  (IF driver \in {"net_raw", "net"} THEN <<>>
   ELSE queue_unset(0) \o IF HasQueue(1) THEN queue_unset(1) ELSE <<>>)
  \o DropFields

\* What `?` drops.  In `new` of a driver the locals go in the reverse order of
\* their declaration, and the argument `transport` goes last.  In
\* VirtIONet::new the buffers go before `inner`.
Unwind ==
  IF Head(todo).part = "fill" THEN Free(Buffers) \o ResetDevice \o Free(0) \o Free(1)
  ELSE Free(1) \o Free(0) \o Free(Buffers) \o ResetDevice

-----------------------------------------------------------------------------
Init ==
  /\ driver \in Drivers /\ version \in {"Legacy", "Modern", "Pci"}
  /\ pc = "none" /\ todo = <<>> /\ err = "none"
  /\ mem = [r \in Region |-> "none"]
  /\ status = {} /\ features = {} /\ queue_sel = 0
  /\ reg \in {[q \in Queue |-> Unset], [q \in Queue |-> Firmware]}
  /\ posted = FALSE

device == <<status, features, queue_sel, reg, posted>>

\* A transport is made for the device and passed to `new`.
CallNew ==
  /\ pc = "none"
  /\ pc' = "new" /\ todo' = New /\ err' = "none"
  /\ mem' = [r \in Region |-> "none"]
  /\ UNCHANGED <<driver, version, device>>

\* The owner drops the driver.
CallDrop ==
  /\ pc = "running"
  /\ pc' = "drop" /\ todo' = DropDriver
  /\ UNCHANGED <<driver, version, err, mem, device>>

Return ==
  /\ pc \in {"new", "drop", "unwind"} /\ todo = <<>>
  /\ pc' = IF pc = "new" THEN "running" ELSE "none"
  /\ UNCHANGED <<driver, version, todo, err, mem, device>>

-----------------------------------------------------------------------------
(* One access.  At(op) is its guard and Done its effect on the call. *)

At(op) == todo # <<>> /\ Head(todo).op = op
Arg == Head(todo).v
Done == todo' = Tail(todo) /\ UNCHANGED <<driver, version, pc, err>>

\* The call meets error e.  Without a transport there is nothing to drop.
\* VirtIONetRaw::new ignores what begin_init returns;
\* every other error of `new` is passed on, and drop panics on any error.
Fail(e) ==
  /\ err' = e
  /\ IF pc # "new" THEN pc' = "panicked" /\ todo' = <<>>
     ELSE IF Head(todo).part = "probe" THEN pc' = "none" /\ todo' = <<>>
     ELSE IF Head(todo).part = "begin" /\ driver \in {"net_raw", "net"}
     THEN pc' = pc /\ todo' = SelectSeq(todo, LAMBDA o : o.part # "begin")
     ELSE pc' = "unwind" /\ todo' = Unwind
  /\ UNCHANGED <<driver, version, mem, device>>

IoError ==
  /\ driver \in Faulty /\ version # "Pci"
  /\ todo # <<>> /\ Head(todo).op \notin {"alloc", "free", "post"}
  /\ Fail("Io")

\* set_status.  Writing 0 resets the device, with PCI not at once: the status
\* does not read 0, and the device goes on, until the reset is complete, which
\* it is before another status is taken.  FEATURES_OK is not read back.
SetStatus ==
  /\ At("status") /\ Done
  /\ status' = IF Arg = {} /\ version = "Pci" THEN status \cup {"RESET"} ELSE Arg
  /\ IF (Arg = {} /\ version # "Pci") \/ (Arg # {} /\ "RESET" \in status)
     THEN features' = {} /\ posted' = FALSE /\ reg' = [q \in Queue |-> Unset]
     ELSE UNCHANGED <<features, posted, reg>>
  /\ UNCHANGED <<mem, queue_sel>>

\* A register whose value decides nothing: configuration space, selectors of
\* the features, guest page size, queue alignment, queue_notify.
TouchRegister == At("touch") /\ Done /\ UNCHANGED <<mem, device>>

WriteFeatures ==
  /\ At("features") /\ Done
  /\ features' = features \cup {Arg}
  /\ UNCHANGED <<mem, status, queue_sel, reg, posted>>

WriteSel ==
  /\ At("sel") /\ Done
  /\ queue_sel' = Arg
  /\ UNCHANGED <<mem, status, features, reg, posted>>

WriteReg ==
  /\ At("reg") /\ Done
  /\ reg' = [reg EXCEPT ![queue_sel] = [@ EXCEPT ![Head(todo).f] = Arg]]
  /\ UNCHANGED <<mem, status, features, queue_sel, posted>>

\* queue_used, in VirtIoQueue::new
ReadUsed ==
  /\ At("used")
  /\ IF Live(queue_sel) THEN Fail("AlreadyUsed") ELSE Done /\ UNCHANGED <<mem, device>>

\* A value of the device that `new` may reject: the magic, the device id and
\* the version of MmioTransport::new, and max_queue_size in VirtIoQueue::new.
ReadChecked ==
  /\ At("check")
  /\ Fail("InvalidParam") \/ (Done /\ UNCHANGED <<mem, device>>)

\* The loop of queue_unset: a turn that reads 1, and the turn that reads 0.
ReadReady ==
  /\ At("wait")
  /\ IF reg[queue_sel].ready = "off" THEN Done /\ UNCHANGED <<mem, device>>
     ELSE UNCHANGED vars

\* The loop of PciTransport::drop.
ReadStatus ==
  /\ At("wait_reset")
  /\ IF status = {} THEN Done /\ UNCHANGED <<mem, device>> ELSE UNCHANGED vars

AllocRegion ==
  /\ At("alloc") /\ Done
  /\ mem' = [mem EXCEPT ![Arg] = "owned"]
  /\ UNCHANGED device

\* Dropping memory that was never allocated does nothing.
FreeRegion ==
  /\ At("free") /\ Done
  /\ mem' = [mem EXCEPT ![Arg] = IF @ = "owned" THEN "freed" ELSE @]
  /\ UNCHANGED device

\* VirtIoQueue::add of the buffers to queue 0.
PostBuffers ==
  /\ At("post") /\ Done
  /\ posted' = TRUE
  /\ UNCHANGED <<mem, status, features, queue_sel, reg>>

\* The device (external) has finished with a queue and shows queue_ready as 0.
DeviceQuiesces(q) ==
  /\ reg[q].ready = "stopping"
  /\ reg' = [reg EXCEPT ![q].ready = "off"]
  /\ UNCHANGED <<driver, version, pc, todo, err, mem, status, features,
                 queue_sel, posted>>

\* The device (external) has completed a reset.
DeviceResets ==
  /\ "RESET" \in status
  /\ status' = {} /\ features' = {} /\ posted' = FALSE /\ reg' = [q \in Queue |-> Unset]
  /\ UNCHANGED <<driver, version, pc, todo, err, mem, queue_sel>>

DeviceStep == DeviceResets \/ \E q \in Queue : DeviceQuiesces(q)

\* A step of a call, but for the allocation of memory.
DriverAccess ==
  \/ SetStatus \/ TouchRegister \/ WriteFeatures \/ WriteSel \/ WriteReg
  \/ ReadUsed \/ ReadChecked \/ ReadReady \/ ReadStatus \/ FreeRegion \/ PostBuffers
  \/ Return

Next ==
  \/ CallNew \/ CallDrop
  \/ DriverAccess \/ AllocRegion \/ IoError
  \/ DeviceStep

Spec == Init /\ [][Next]_vars

-----------------------------------------------------------------------------
(* Properties *)

\* Memory that a running device may still reach.
Reaches(r) ==
  /\ "DRIVER_OK" \in status
  /\ IF r = Buffers THEN posted /\ Live(0) ELSE \E q \in Queue : Live(q) /\ reg[q].desc = r

\* A device that has been told to run never reaches memory the driver has
\* freed, on any path through `new`, its errors and drop.
NoAccessAfterFree == \A r \in Region : mem[r] = "freed" => ~Reaches(r)

\* The device is told to run only when the features are negotiated and every
\* queue of the driver is set up: FEATURES_OK says that "feature negotiation is
\* complete" and DRIVER_OK that "the driver is set up".
RunsOnlyWhenSetUp ==
  ("DRIVER_OK" \in status /\ pc \in {"new", "running"}) =>
    /\ features = {0, 1}
    /\ \A q \in Queues : Live(q) /\ mem[q] = "owned" /\ reg[q].num # 0

\* A queue the device may use is completely set up, with the addresses of its
\* own page: queue_set makes it live last, and queue_unset clears nothing
\* before the device has let go of it.  (The legacy interface has one address,
\* and its queue_unset does clear the size first.)
LiveQueueIsComplete ==
  \A q \in Queue : (Live(q) /\ reg[q].desc # Foreign /\ version # "Legacy") =>
    /\ reg[q].num # 0
    /\ reg[q].desc = q /\ reg[q].drv = q /\ reg[q].dev = q

\* A device is handed over clean.  When a driver is gone, or could not be
\* created, its device is reset; and VirtIoQueue::new never fails with
\* AlreadyUsed, because begin_init has reset the device, whether a boot loader
\* or an earlier driver has used it.
CleanHandover ==
  /\ err # "AlreadyUsed"
  /\ (pc = "none" /\ \E r \in Region : mem[r] = "freed") =>
       status = {} /\ ~posted /\ \A q \in Queue : ~Live(q)

=============================================================================
