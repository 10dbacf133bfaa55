-------------------------- MODULE DriverSetupProof --------------------------
(***************************************************************************)
(* Proofs about Lifecycle, DmaLayout and DriverSetup, which composes them, *)
(* in this order:                                                          *)
(*                                                                         *)
(*  - the inductive invariant of Lifecycle, for every driver, MMIO version *)
(*    and PCI: what the accesses that a call has left say of the device    *)
(*    and of memory.  Each access keeps it, and so do the end of a call    *)
(*    and the device;                                                      *)
(*  - which accesses `new`, drop and the error paths of each driver are    *)
(*    made of and in which order, and with it that calls and errors keep   *)
(*    the invariant;                                                       *)
(*  - DmaLayout, for every page-aligned start of DMA memory, every even    *)
(*    queue size and every buffer length, and that drivers that come and   *)
(*    go do to memory only what DmaLayout describes;                       *)
(*  - what follows for drivers that come and go on this memory.            *)
(***************************************************************************)
EXTENDS DriverSetup, TLAPS

-----------------------------------------------------------------------------
(* The accesses a call has left *)

IsSeq(t) == \E S : t \in Seq(S)
In(t) == {t[i] : i \in 1 .. Len(t)}

FieldName == {"num", "desc", "drv", "dev", "ready"}
Val == {Null, Foreign, 0, 1, 2} \cup {"on", "off", "stopping"}

\* What queue_set writes, and the register that makes a queue live.
Fields == IF version = "Legacy" THEN {"num", "desc"} ELSE FieldName
Value(q, f) == IF f = "num" THEN Size ELSE IF f = "ready" THEN "on" ELSE q
LiveField == IF version = "Legacy" THEN "desc" ELSE "ready"

IsReset(o) == o.op = "status" /\ o.v = {}
IsAck(o) == o.op = "status" /\ o.v = Ack
IsFinish(o) == o.op = "status" /\ "DRIVER_OK" \in o.v
IsBarrier(o) == IF version = "Pci" THEN o.op = "wait_reset" ELSE IsReset(o)
OfQueue(o, q) == o.op \in {"used", "reg"} /\ o.q = q
Sets(o, q, f) == o.op = "reg" /\ o.q = q /\ o.f = f
Waits(o, q) == o.op = "wait" /\ o.q = q

\* An access that counts only once the device has been reset.
IsWork(o) == o.op \in {"features", "reg", "used"} \/ (o.op = "alloc" /\ o.v \in Queue)

\* x comes before y.
MayNew(x, y) ==
  /\ IsFinish(x) => y.part = "fill"
  /\ IsAck(x) => ~IsReset(y)
  /\ IsWork(x) /\ x.part # "drop" => ~IsAck(y) /\ ~IsReset(y)
  /\ x.op = "reg" /\ x.f = LiveField /\ x.part = "new" => ~OfQueue(y, x.q)
  /\ x.part # "probe" => y.part # "probe"
MayDrop(x, y, p) ==
  /\ IsReset(x) /\ x.part = "drop" => y.op \in {"free", "wait_reset"}
  /\ x.op = "wait_reset" => ~IsReset(y)
  /\ x.op = "free" /\ p = "drop" => ~IsReset(y) /\ y.op # "wait_reset"
  /\ x.op = "wait" => ~Sets(y, x.q, "ready")
  /\ x.op = "reg" /\ x.part = "drop" /\ x.f # "ready" => ~Sets(y, x.q, "ready") /\ ~Waits(y, x.q)
May(x, y, p) == MayNew(x, y) /\ MayDrop(x, y, p)
Ordered(t, p) == \A i, j \in 1 .. Len(t) : i < j => May(t[i], t[j], p)

\* A register behind queue_sel is accessed with its queue selected.
Banked(o) == o.op \in {"reg", "used", "wait"}
Selects(o, q) == o.op = "sel" /\ o.v = q
Selected(t, sel) ==
  \A i \in 1 .. Len(t) : Banked(t[i]) =>
    /\ sel = t[i].q \/ \E k \in 1 .. i - 1 : Selects(t[k], t[i].q)
    /\ \A j \in 1 .. i - 1 : t[j].op = "sel" /\ t[j].v # t[i].q =>
         \E k \in j + 1 .. i - 1 : Selects(t[k], t[i].q)

NewAccess(o) ==
  /\ o.op \in {"status", "touch", "features", "sel", "used", "check", "reg", "alloc", "post"}
  /\ o.part \in {"probe", "begin", "new", "fill"}
  /\ o.op = "status" => o.v \in {{}, Ack} \/ (o.v # {} /\ o.v # Ack /\ "RESET" \notin o.v)
  /\ o.op = "features" => o.v \in {0, 1}
  /\ o.op = "sel" => o.v \in Queue
  /\ o.op = "used" => o.q \in Queues
  /\ o.op = "check" => o.part \in {"probe", "new"}
  /\ o.op = "reg" => o.q \in Queues /\ o.f \in Fields /\ o.v = Value(o.q, o.f) /\ o.part = "new"
  /\ o.op = "alloc" => o.v \in Region
  /\ o.part = "fill" => /\ driver = "net" /\ o.op \in {"alloc", "post", "touch", "sel"}
                        /\ o.op = "alloc" => o.v = Buffers
  /\ o.part = "probe" => o.op = "check"

DropAccess(o) ==
  /\ o.op \in {"status", "touch", "sel", "reg", "wait", "wait_reset", "free"}
  /\ o.part = "drop"
  /\ o.op = "status" => o.v = {}
  /\ o.op = "sel" => o.v \in Queue
  /\ o.op \in {"reg", "wait"} => o.q \in Queue
  /\ o.op = "reg" => /\ o.f \in FieldName /\ o.v \in Val /\ version # "Pci"
                     /\ o.f = "ready" => o.v = "stopping" /\ version = "Modern"
  /\ o.op = "wait_reset" => version = "Pci"
  /\ o.op = "free" => o.v \in Region

-----------------------------------------------------------------------------
(* The inductive invariant *)

Banks(r) == [q \in Queue |-> r]
Untouched == reg = Banks(Unset) \/ reg = Banks(Firmware)
Clean == status = {} /\ ~posted /\ reg = Banks(Unset)

HasReset == \E o \in In(todo) : IsReset(o)
HasAck == \E o \in In(todo) : IsAck(o)

\* Nothing that has to be done before the device may run is forgotten.
Will(t) ==
  /\ \A w \in {0, 1} : \E o \in In(t) : o.op = "features" /\ o.v = w
  /\ \A q \in Queues : \E o \in In(t) : o.op = "alloc" /\ o.v = q
  /\ \A q \in Queues, f \in Fields : \E o \in In(t) : Sets(o, q, f)
WillBe ==
  /\ \A w \in {0, 1} : w \in features \/ \E o \in In(todo) : o.op = "features" /\ o.v = w
  /\ \A q \in Queues : mem[q] = "owned" \/ \E o \in In(todo) : o.op = "alloc" /\ o.v = q
  /\ \A q \in Queues, f \in Fields : reg[q][f] = Value(q, f) \/ \E o \in In(todo) : Sets(o, q, f)

Early(o, q) == OfQueue(o, q) /\ ~Sets(o, q, LiveField)

NewInv ==
  /\ \A o \in In(todo) : NewAccess(o)
  /\ HasAck => Will(todo) /\ Untouched
  /\ HasReset \/ "RESET" \in status => HasAck
  /\ WillBe
  /\ "DRIVER_OK" \in status => \A o \in In(todo) : o.part = "fill"
  /\ ~HasReset /\ "RESET" \notin status =>
       \A q \in Queue : q \notin Queues \/ (\E o \in In(todo) : Early(o, q)) => ~Live(q)
  /\ \A r \in Region : mem[r] # "freed"
  /\ \A q \in Queue : reg[q]["ready"] # "stopping"
  /\ (\E o \in In(todo) : o.part = "probe") =>
       status = {} /\ ~posted /\ Untouched /\ \A r \in Region : mem[r] = "none"

DropInv ==
  /\ \A o \in In(todo) : DropAccess(o)
  /\ "DRIVER_OK" \in status => pc = "drop" /\ \E o \in In(todo) : IsBarrier(o)
  /\ (Clean /\ ~HasReset) \/ \E o \in In(todo) : IsBarrier(o)
  /\ ~HasReset => \A o \in In(todo) : o.op \in {"free", "wait_reset"}
  /\ version = "Pci" /\ ~HasReset => "RESET" \in status \/ Clean
  /\ version = "Modern" => \A q \in Queue :
       /\ (\E o \in In(todo) : Sets(o, q, "ready")) =>
            reg[q]["num"] # 0 /\ \A f \in {"desc", "drv", "dev"} : reg[q][f] = q
       /\ (\E o \in In(todo) : o.op = "reg" /\ o.q = q) =>
            \/ \E o \in In(todo) : Waits(o, q)
            \/ reg[q]["ready"] = "off" /\ \A o \in In(todo) : ~Sets(o, q, "ready")

TypeInv ==
  /\ driver \in AllDrivers /\ version \in {"Legacy", "Modern", "Pci"}
  /\ pc \in {"none", "new", "running", "drop", "unwind", "panicked"}
  /\ IsSeq(todo)
  /\ mem \in [Region -> {"none", "owned", "freed"}]
  /\ reg \in [Queue -> [FieldName -> Val]]
  /\ features \subseteq {0, 1} /\ queue_sel \in Queue

NoneInv ==
  /\ status = {} /\ ~posted
  /\ reg = Banks(Unset) \/ (reg = Banks(Firmware) /\ \A r \in Region : mem[r] = "none")

LifeInv ==
  /\ TypeInv
  /\ Ordered(todo, pc) /\ Selected(todo, queue_sel)
  /\ pc \in {"none", "running", "panicked"} => todo = <<>>
  /\ version # "Pci" => "RESET" \notin status
  /\ err # "AlreadyUsed"
  /\ (\E r \in Region : mem[r] = "freed") /\ "DRIVER_OK" \in status => FALSE
  /\ LiveQueueIsComplete
  /\ pc = "none" => NoneInv
  /\ pc \in {"new", "running"} => NewInv
  /\ pc \in {"drop", "unwind"} => DropInv

-----------------------------------------------------------------------------
(* Sequences of accesses *)

\* A call with nothing left to do.
LEMMA EmptySeq ==
  ASSUME NEW p, NEW c
  PROVE  IsSeq(<<>>) /\ In(<<>>) = {} /\ Ordered(<<>>, p) /\ Selected(<<>>, c)
<1>1. <<>> \in Seq({}) /\ Len(<<>>) = 0
  OBVIOUS
<1>2. In(<<>>) = {}
  BY <1>1 DEF In
<1> QED
  BY <1>1, <1>2 DEF IsSeq, Ordered, Selected

\* What is left once the first access is done.
LEMMA TailSeq ==
  ASSUME NEW t, IsSeq(t), t # <<>>
  PROVE  /\ IsSeq(Tail(t)) /\ Len(t) \in Nat \ {0} /\ Len(Tail(t)) = Len(t) - 1
         /\ Head(t) = t[1] /\ \A i \in 1 .. Len(t) - 1 : Tail(t)[i] = t[i + 1]
         /\ Head(t) \in In(t)
         /\ \A o \in In(Tail(t)) : o \in In(t)
         /\ \A o \in In(t) : o = Head(t) \/ o \in In(Tail(t))
<1>1. PICK S : t \in Seq(S)
  BY Zenon DEF IsSeq
<1>2. /\ Tail(t) \in Seq(S) /\ Len(t) \in Nat \ {0} /\ Len(Tail(t)) = Len(t) - 1
      /\ Head(t) = t[1] /\ \A i \in 1 .. Len(t) - 1 : Tail(t)[i] = t[i + 1]
  BY <1>1
<1>3. Head(t) \in In(t)
  BY <1>2 DEF In
<1>4. ASSUME NEW o \in In(Tail(t)) PROVE o \in In(t)
  <2>1. PICK i \in 1 .. Len(t) - 1 : o = Tail(t)[i]
    BY <1>2, <1>4, Zenon DEF In
  <2>2. i + 1 \in 1 .. Len(t) /\ o = t[i + 1]
    BY <1>2, <2>1
  <2> QED
    BY <2>2, Zenon DEF In
<1>5. ASSUME NEW o \in In(t), o # Head(t) PROVE o \in In(Tail(t))
  <2>1. PICK i \in 1 .. Len(t) : o = t[i]
    BY <1>5, Zenon DEF In
  <2>2. i - 1 \in 1 .. Len(Tail(t)) /\ o = Tail(t)[i - 1]
    BY <1>2, <1>5, <2>1
  <2> QED
    BY <2>2, Zenon DEF In
<1> QED
  BY <1>2, <1>3, <1>4, <1>5, Zenon DEF IsSeq

\* The order of the accesses outlasts each of them.
LEMMA OrderedTail ==
  ASSUME NEW p, NEW t, IsSeq(t), t # <<>>, Ordered(t, p)
  PROVE  Ordered(Tail(t), p) /\ \A y \in In(Tail(t)) : May(Head(t), y, p)
<1>1. /\ Len(t) \in Nat \ {0} /\ Len(Tail(t)) = Len(t) - 1
      /\ Head(t) = t[1] /\ \A i \in 1 .. Len(t) - 1 : Tail(t)[i] = t[i + 1]
  BY TailSeq, Zenon
<1>2. ASSUME NEW i \in 1 .. Len(Tail(t)), NEW j \in 1 .. Len(Tail(t)), i < j
      PROVE  May(Tail(t)[i], Tail(t)[j], p)
  <2>1. i + 1 \in 1 .. Len(t) /\ j + 1 \in 1 .. Len(t) /\ i + 1 < j + 1
    BY <1>1, <1>2
  <2>2. May(t[i + 1], t[j + 1], p)
    BY <2>1, Zenon DEF Ordered
  <2> QED
    BY <1>1, <2>2, Zenon
<1>3. ASSUME NEW y \in In(Tail(t)) PROVE May(Head(t), y, p)
  <2>1. PICK j \in 1 .. Len(Tail(t)) : y = Tail(t)[j]
    BY Zenon DEF In
  <2>2. j + 1 \in 1 .. Len(t) /\ 1 \in 1 .. Len(t) /\ 1 < j + 1 /\ y = t[j + 1]
    BY <1>1, <2>1
  <2>3. May(t[1], t[j + 1], p)
    BY <2>2, Zenon DEF Ordered
  <2> QED
    BY <1>1, <2>2, <2>3, Zenon
<1> QED
  BY <1>2, <1>3, Zenon DEF Ordered

\* The right queue stays selected for what is left.
LEMMA SelectedTail ==
  ASSUME NEW t, IsSeq(t), t # <<>>, NEW c, Selected(t, c),
         NEW d, d = IF Head(t).op = "sel" THEN Head(t).v ELSE c
  PROVE  Selected(Tail(t), d) /\ (Banked(Head(t)) => c = Head(t).q)
<1>1. /\ Len(t) \in Nat \ {0} /\ Len(Tail(t)) = Len(t) - 1
      /\ Head(t) = t[1] /\ \A i \in 1 .. Len(t) - 1 : Tail(t)[i] = t[i + 1]
  BY TailSeq, Zenon
<1>2. ASSUME Banked(t[1]) PROVE c = t[1].q
  <2>1. 1 \in 1 .. Len(t) /\ 1 .. 1 - 1 = {}
    BY <1>1
  <2> QED
    BY <1>2, <2>1, Zenon DEF Selected
<1>3. ASSUME NEW i \in 1 .. Len(Tail(t)), Banked(Tail(t)[i])
      PROVE  /\ d = Tail(t)[i].q \/ \E k \in 1 .. i - 1 : Selects(Tail(t)[k], Tail(t)[i].q)
             /\ \A j \in 1 .. i - 1 : Tail(t)[j].op = "sel" /\ Tail(t)[j].v # Tail(t)[i].q =>
                  \E k \in j + 1 .. i - 1 : Selects(Tail(t)[k], Tail(t)[i].q)
  <2> DEFINE q == Tail(t)[i].q
  <2>1. i + 1 \in 1 .. Len(t) /\ Tail(t)[i] = t[i + 1]
    BY <1>1, <1>3
  <2>2. \A k \in 2 .. (i + 1) - 1 : k - 1 \in 1 .. i - 1 /\ t[k] = Tail(t)[k - 1]
    BY <1>1, <1>3
  <2>3. /\ c = q \/ \E k \in 1 .. (i + 1) - 1 : Selects(t[k], q)
        /\ \A j \in 1 .. (i + 1) - 1 : t[j].op = "sel" /\ t[j].v # q =>
             \E k \in j + 1 .. (i + 1) - 1 : Selects(t[k], q)
    BY <1>3, <2>1, Zenon DEF Selected
  <2> HIDE DEF q
  <2>4. ASSUME NEW j \in 1 .. i - 1, Tail(t)[j].op = "sel", Tail(t)[j].v # q
        PROVE  \E k \in j + 1 .. i - 1 : Selects(Tail(t)[k], q)
    <3>1. j + 1 \in 1 .. (i + 1) - 1 /\ t[j + 1] = Tail(t)[j]
      BY <1>1, <1>3, <2>4
    <3>2. PICK k \in (j + 1) + 1 .. (i + 1) - 1 : Selects(t[k], q)
      BY <2>3, <2>4, <3>1, Zenon
    <3>3. k - 1 \in j + 1 .. i - 1 /\ k \in 2 .. (i + 1) - 1
      BY <1>3, <3>2
    <3> QED
      BY <2>2, <3>2, <3>3, Zenon
  <2>5. d = q \/ \E k \in 1 .. i - 1 : Selects(Tail(t)[k], q)
    <3>1. 1 \in 1 .. (i + 1) - 1
      BY <1>3
    <3>2. CASE t[1].op = "sel" /\ t[1].v # q
      <4>1. PICK k \in 1 + 1 .. (i + 1) - 1 : Selects(t[k], q)
        BY <2>3, <3>1, <3>2, Zenon
      <4>2. k \in 2 .. (i + 1) - 1
        BY <4>1
      <4>3. k - 1 \in 1 .. i - 1 /\ t[k] = Tail(t)[k - 1]
        BY <2>2, <4>2, Zenon
      <4> QED
        BY <4>1, <4>3, Zenon
    <3>3. CASE t[1].op = "sel" /\ t[1].v = q
      BY <1>1, <3>3, Zenon
    <3>4. CASE t[1].op # "sel"
      <4>1. d = c
        BY <1>1, <3>4, Zenon
      <4>2. ASSUME NEW k \in 1 .. (i + 1) - 1, Selects(t[k], q)
            PROVE  k \in 2 .. (i + 1) - 1
        BY <1>3, <3>4, <4>2 DEF Selects
      <4> QED
        BY <2>2, <2>3, <4>1, <4>2, Zenon
    <3> QED
      BY <3>2, <3>3, <3>4, Zenon
  <2> QED
    BY <2>4, <2>5, Zenon DEF q
<1> QED
  BY <1>1, <1>2, <1>3, Zenon DEF Selected

-----------------------------------------------------------------------------
(* Steps *)

\* What an access is does not change while a driver lives.
LEMMA Stays ==
  ASSUME driver' = driver, version' = version
  PROVE  /\ Queues' = Queues /\ Fields' = Fields /\ LiveField' = LiveField
         /\ \A o : (NewAccess(o)' <=> NewAccess(o)) /\ (DropAccess(o)' <=> DropAccess(o))
         /\ \A o : IsBarrier(o)' <=> IsBarrier(o)
         /\ \A o, q : Early(o, q)' <=> Early(o, q)
         /\ \A t : Will(t)' <=> Will(t)
         /\ \A t, p : Ordered(t, p)' <=> Ordered(t, p)
<1>1. Queues' = Queues /\ Fields' = Fields /\ LiveField' = LiveField
  BY Zenon DEF Queues, HasQueue, Fields, LiveField
<1>2. \A o : NewAccess(o)' <=> NewAccess(o)
  BY <1>1 DEF NewAccess
<1>3. \A o : DropAccess(o)' <=> DropAccess(o)
  BY Zenon DEF DropAccess
<1>4. \A o : IsBarrier(o)' <=> IsBarrier(o)
  BY Zenon DEF IsBarrier
<1>5. \A o, q : Early(o, q)' <=> Early(o, q)
  BY <1>1, Zenon DEF Early
<1>6. \A t : Will(t)' <=> Will(t)
  BY <1>1, Zenon DEF Will
<1>7. \A x, y, p : May(x, y, p)' <=> May(x, y, p)
  BY <1>1 DEF May, MayNew
<1>8. \A t, p : Ordered(t, p)' <=> Ordered(t, p)
  BY <1>7, Zenon DEF Ordered
<1> QED
  BY <1>1, <1>2, <1>3, <1>4, <1>5, <1>6, <1>8, Zenon

\* The registers.
LEMMA BankValues ==
  ASSUME NEW q \in Queue
  PROVE  /\ Banks(Unset) \in [Queue -> [FieldName -> Val]]
         /\ Banks(Firmware) \in [Queue -> [FieldName -> Val]]
         /\ Banks(Unset)[q]["num"] = 0 /\ Banks(Unset)[q]["desc"] = Null
         /\ Banks(Unset)[q]["ready"] = "off"
         /\ Banks(Firmware)[q]["desc"] = Foreign /\ Banks(Firmware)[q]["ready"] = "on"
<1>1. Unset \in [FieldName -> Val] /\ Firmware \in [FieldName -> Val]
  BY DEF Unset, Firmware, FieldName, Val
<1>2. /\ Unset["num"] = 0 /\ Unset["desc"] = Null /\ Unset["ready"] = "off"
      /\ Firmware["desc"] = Foreign /\ Firmware["ready"] = "on"
  BY Zenon DEF Unset, Firmware
<1> QED
  BY <1>1, <1>2, Zenon DEF Banks

\* Live in terms of the registers of the queue.
LEMMA LiveValues ==
  ASSUME reg \in [Queue -> [FieldName -> Val]], NEW q \in Queue
  PROVE  /\ Live(q) <=> IF version = "Legacy" THEN reg[q]["desc"] # Null ELSE reg[q]["ready"] # "off"
         /\ reg[q].num = reg[q]["num"] /\ reg[q].desc = reg[q]["desc"]
         /\ reg[q].drv = reg[q]["drv"] /\ reg[q].dev = reg[q]["dev"]
         /\ reg[q].ready = reg[q]["ready"]
  BY Zenon DEF Live

\* A write to one register of one queue changes nothing else.
LEMMA RegWritten ==
  ASSUME reg \in [Queue -> [FieldName -> Val]], NEW q \in Queue, NEW f \in FieldName, NEW v \in Val,
         reg' = [reg EXCEPT ![q] = [@ EXCEPT ![f] = v]]
  PROVE  /\ reg' \in [Queue -> [FieldName -> Val]]
         /\ \A p \in Queue, g \in FieldName :
              reg'[p][g] = IF p = q /\ g = f THEN v ELSE reg[p][g]
<1>1. reg[q] \in [FieldName -> Val]
  BY Zenon
<1>2. [reg[q] EXCEPT ![f] = v] \in [FieldName -> Val]
  BY <1>1, Zenon
<1>3. reg'[q] = [reg[q] EXCEPT ![f] = v] /\ \A p \in Queue : p # q => reg'[p] = reg[p]
  BY Zenon
<1>4. reg' \in [Queue -> [FieldName -> Val]]
  BY <1>2, Zenon
<1>5. \A g \in FieldName : reg'[q][g] = IF g = f THEN v ELSE reg[q][g]
  BY <1>1, <1>3, Zenon
<1> QED
  BY <1>3, <1>4, <1>5, Zenon

\* An access is done and leaves the queue of t selected.
LEMMA Pop ==
  ASSUME TypeInv, Ordered(todo, pc), Selected(todo, queue_sel),
         todo # <<>>, Done, queue_sel' = IF Head(todo).op = "sel" THEN Head(todo).v ELSE queue_sel
  PROVE  /\ IsSeq(todo') /\ Ordered(todo, pc)' /\ Selected(todo, queue_sel)'
         /\ Head(todo) \in In(todo) /\ \A o \in In(todo') : o \in In(todo)
         /\ \A o \in In(todo) : o = Head(todo) \/ o \in In(todo')
         /\ \A y \in In(todo') : May(Head(todo), y, pc)
         /\ Banked(Head(todo)) => queue_sel = Head(todo).q
<1>1. IsSeq(todo) /\ todo' = Tail(todo) /\ driver' = driver /\ version' = version /\ pc' = pc
  BY Zenon DEF TypeInv, Done
<1> DEFINE t == Tail(todo)
<1>2. /\ IsSeq(t) /\ Head(todo) \in In(todo) /\ \A o \in In(t) : o \in In(todo)
      /\ \A o \in In(todo) : o = Head(todo) \/ o \in In(t)
  BY <1>1, TailSeq, Zenon
<1>3. Ordered(t, pc) /\ \A y \in In(t) : May(Head(todo), y, pc)
  BY <1>1, OrderedTail, Zenon
<1>4. Selected(t, queue_sel') /\ (Banked(Head(todo)) => queue_sel = Head(todo).q)
  BY <1>1, SelectedTail, Zenon
<1>5. Ordered(todo, pc)'
  <2>1. PICK u : u = todo'
    BY Zenon
  <2>2. PICK p : p = pc'
    BY Zenon
  <2>3. Ordered(u, p)
    BY <1>1, <1>3, <2>1, <2>2, Zenon
  <2>4. Ordered(u, p)'
    BY <1>1, <2>3, Stays, Zenon
  <2> QED
    BY <2>1, <2>2, <2>4, Zenon
<1>6. Selected(todo, queue_sel)'
  BY <1>1, <1>4, Zenon DEF Selected
<1> QED
  BY <1>1, <1>2, <1>3, <1>4, <1>5, <1>6, Zenon

\* What new has still to do stays to be done, except for what the step does.
StillDue(h, u) ==
  /\ \A w \in {0, 1} : \/ w \in features \/ (h.op = "features" /\ h.v = w)
                      \/ \E o \in In(u) : o.op = "features" /\ o.v = w
  /\ \A q \in Queues : \/ mem[q] = "owned" \/ (h.op = "alloc" /\ h.v = q)
                      \/ \E o \in In(u) : o.op = "alloc" /\ o.v = q
  /\ \A q \in Queues, f \in Fields : \/ reg[q][f] = Value(q, f) \/ Sets(h, q, f)
                                   \/ \E o \in In(u) : Sets(o, q, f)

\* Nothing else is forgotten by a step of `new`.
LEMMA Due ==
  ASSUME NewInv, NEW h, NEW u, \A o \in In(todo) : o = h \/ o \in In(u)
  PROVE  StillDue(h, u)
<1>1. WillBe
  BY Zenon DEF NewInv
<1>2. \A w \in {0, 1} : \/ w \in features \/ (h.op = "features" /\ h.v = w)
                       \/ \E o \in In(u) : o.op = "features" /\ o.v = w
  BY <1>1, Zenon DEF WillBe
<1>3. \A q \in Queues : \/ mem[q] = "owned" \/ (h.op = "alloc" /\ h.v = q)
                       \/ \E o \in In(u) : o.op = "alloc" /\ o.v = q
  BY <1>1, Zenon DEF WillBe
<1>4. \A q \in Queues, f \in Fields : \/ reg[q][f] = Value(q, f) \/ Sets(h, q, f)
                                    \/ \E o \in In(u) : Sets(o, q, f)
  BY <1>1, Zenon DEF WillBe
<1> QED
  BY <1>2, <1>3, <1>4, Zenon DEF StillDue

\* An access of `new` other than a write to the status, the features or a queue.
LEMMA NewQuiet ==
  ASSUME LifeInv, pc = "new", todo # <<>>, Done,
         Head(todo).op \notin {"status", "features", "reg"},
         UNCHANGED <<status, features, reg>>,
         queue_sel' = IF Head(todo).op = "sel" THEN Head(todo).v ELSE queue_sel,
         mem' = IF Head(todo).op = "alloc" THEN [mem EXCEPT ![Head(todo).v] = "owned"] ELSE mem,
         Head(todo).op # "post" => posted' = posted
  PROVE  NewInv'
<1>0. TypeInv /\ NewInv /\ Ordered(todo, pc) /\ Selected(todo, queue_sel)
  BY Zenon DEF LifeInv
<1>1. PICK h : h = Head(todo)
  BY Zenon
<1>2. /\ h \in In(todo) /\ \A o \in In(todo') : o \in In(todo)
      /\ \A o \in In(todo) : o = h \/ o \in In(todo')
      /\ \A y \in In(todo') : May(h, y, pc)
  BY <1>0, <1>1, Pop, Zenon
<1>3. driver' = driver /\ version' = version /\ NewAccess(h)
  BY <1>0, <1>2, Zenon DEF Done, NewInv
<1>4. /\ ~IsReset(h) /\ ~IsAck(h) /\ h.op \notin {"features", "reg"}
  BY <1>1, Zenon DEF IsReset, IsAck
<1>5. (HasAck' <=> HasAck) /\ (HasReset' <=> HasReset)
  BY <1>2, <1>4, Zenon DEF HasAck, HasReset
<1>6. \A o \in In(todo') : NewAccess(o)'
  BY <1>0, <1>2, <1>3, Stays, Zenon DEF NewInv
<1>7. HasAck' => Will(todo') /\ Untouched
  <2> SUFFICES ASSUME HasAck' PROVE Will(todo') /\ Untouched
    BY Zenon
  <2>1. Will(todo) /\ Untouched
    BY <1>0, <1>5, Zenon DEF NewInv
  <2>2. ~IsWork(h)
    BY <1>2, <1>3, Zenon DEF HasAck, May, MayNew, NewAccess
  <2>3. \A w \in {0, 1} : \E o \in In(todo') : o.op = "features" /\ o.v = w
    BY <1>2, <1>4, <2>1 DEF Will
  <2>4. \A q \in Queues : \E o \in In(todo') : o.op = "alloc" /\ o.v = q
    <3>1. \A q \in Queues : ~(h.op = "alloc" /\ h.v = q)
      BY <2>2, Zenon DEF IsWork, Queues
    <3> QED
      BY <1>2, <2>1, <3>1 DEF Will
  <2>5. \A q \in Queues, f \in Fields : \E o \in In(todo') : Sets(o, q, f)
    BY <1>2, <1>4, <2>1 DEF Will, Sets
  <2> QED
    BY <2>1, <2>3, <2>4, <2>5, Zenon DEF Will
<1>8. HasAck' => Will(todo)' /\ Untouched'
  <2>1. Untouched' <=> Untouched
    BY Zenon DEF Untouched
  <2>2. PICK u : u = todo'
    BY Zenon
  <2>3. Will(u)' <=> Will(u)
    BY <1>3, Stays, Zenon
  <2> QED
    BY <1>7, <2>1, <2>2, <2>3, Zenon
<1>9. (HasReset \/ "RESET" \in status => HasAck)'
  BY <1>0, <1>5, Zenon DEF NewInv
<1>10. WillBe'
  <2>0. StillDue(h, todo')
    BY <1>0, <1>2, Due, Zenon
  <2>1. Queues' = Queues /\ Fields' = Fields
    BY <1>3, Stays, Zenon
  <2>2. \A w \in {0, 1} : w \in features \/ \E o \in In(todo') : o.op = "features" /\ o.v = w
    BY <1>4, <2>0, Zenon DEF StillDue
  <2>3. ASSUME NEW q \in Queues
        PROVE  mem'[q] = "owned" \/ \E o \in In(todo') : o.op = "alloc" /\ o.v = q
    <3>1. q \in Region /\ mem \in [Region -> {"none", "owned", "freed"}]
      BY <1>0, Zenon DEF Queues, Region, TypeInv
    <3>2. CASE mem[q] = "owned"
      BY <1>1, <3>1, <3>2, Zenon
    <3>3. CASE h.op = "alloc" /\ h.v = q
      BY <1>1, <3>1, <3>3, Zenon
    <3>4. CASE mem[q] # "owned" /\ ~(h.op = "alloc" /\ h.v = q)
      BY <2>0, <2>3, <3>4, Zenon DEF StillDue
    <3> QED
      BY <3>2, <3>3, <3>4, Zenon
  <2>4. \A q \in Queues, f \in Fields :
          reg[q][f] = Value(q, f) \/ \E o \in In(todo') : Sets(o, q, f)
    BY <1>4, <2>0 DEF StillDue, Sets
  <2> QED
    BY <2>1, <2>2, <2>3, <2>4, Zenon DEF WillBe
<1>11. ("DRIVER_OK" \in status => \A o \in In(todo) : o.part = "fill")'
  BY <1>0, <1>2, Zenon DEF NewInv
<1>12. (~HasReset /\ "RESET" \notin status =>
         \A q \in Queue : q \notin Queues \/ (\E o \in In(todo) : Early(o, q)) => ~Live(q))'
  <2>1. \A q : Live(q)' <=> Live(q)
    BY <1>3, Zenon DEF Live
  <2>2. Queues' = Queues /\ \A o, q : Early(o, q)' <=> Early(o, q)
    BY <1>3, Stays, Zenon
  <2> QED
    BY <1>0, <1>2, <1>5, <2>1, <2>2, Zenon DEF NewInv
<1>13. \A r \in Region : mem'[r] # "freed"
  <2>1. mem \in [Region -> {"none", "owned", "freed"}] /\ \A r \in Region : mem[r] # "freed"
    BY <1>0, Zenon DEF TypeInv, NewInv
  <2> QED
    BY <2>1, Zenon
<1>14. (\A q \in Queue : reg[q]["ready"] # "stopping")'
  BY <1>0, Zenon DEF NewInv
<1>15. ((\E o \in In(todo) : o.part = "probe") =>
         status = {} /\ ~posted /\ Untouched /\ \A r \in Region : mem[r] = "none")'
  <2> SUFFICES ASSUME \E o \in In(todo') : o.part = "probe"
               PROVE  status = {} /\ ~posted' /\ Untouched' /\ \A r \in Region : mem'[r] = "none"
    BY Zenon DEF Region
  <2>1. h.part = "probe" /\ h.op = "check"
    BY <1>2, <1>3, Zenon DEF May, MayNew, NewAccess
  <2>2. status = {} /\ ~posted /\ Untouched /\ \A r \in Region : mem[r] = "none"
    BY <1>0, <1>2, <2>1, Zenon DEF NewInv
  <2> QED
    BY <1>1, <2>1, <2>2 DEF Untouched
<1> QED
  BY <1>6, <1>8, <1>9, <1>10, <1>11, <1>12, <1>13, <1>14, <1>15, Zenon DEF NewInv, Region

\* Once something is done that a reset would undo, no reset is left.
LEMMA NoResetLeft ==
  ASSUME NewInv, NEW h \in In(todo), IsWork(h), \A y \in In(todo') : May(h, y, pc),
         \A o \in In(todo) : o = h \/ o \in In(todo')
  PROVE  ~HasAck /\ ~HasReset /\ "RESET" \notin status /\ ~HasAck' /\ ~HasReset'
<1>1. h.part # "drop" /\ ~IsAck(h) /\ ~IsReset(h)
  BY Zenon DEF NewInv, NewAccess, IsWork, IsAck, IsReset
<1>2. ~HasAck' /\ ~HasReset'
  BY <1>1, Zenon DEF HasAck, HasReset, May, MayNew
<1>3. ~HasAck
  BY <1>1, <1>2, Zenon DEF HasAck
<1> QED
  BY <1>2, <1>3, Zenon DEF NewInv

\* write_driver_features.
LEMMA NewFeatures ==
  ASSUME LifeInv, pc = "new", WriteFeatures
  PROVE  NewInv'
<1>0. TypeInv /\ NewInv /\ Ordered(todo, pc) /\ Selected(todo, queue_sel)
  BY Zenon DEF LifeInv
<1>1. PICK h : h = Head(todo)
  BY Zenon
<1>a. /\ todo # <<>> /\ Done /\ h.op = "features" /\ features' = features \cup {h.v}
      /\ UNCHANGED <<mem, status, queue_sel, reg, posted>>
  BY <1>1, Zenon DEF WriteFeatures, At, Arg
<1>2. /\ h \in In(todo) /\ \A o \in In(todo') : o \in In(todo)
      /\ \A o \in In(todo) : o = h \/ o \in In(todo')
      /\ \A y \in In(todo') : May(h, y, pc)
  BY <1>0, <1>1, <1>a, Pop, Zenon
<1>3. driver' = driver /\ version' = version /\ NewAccess(h) /\ h.part # "probe" /\ IsWork(h)
  BY <1>0, <1>2, <1>a, Zenon DEF Done, NewInv, NewAccess, IsWork
<1>4. ~HasAck /\ ~HasReset /\ "RESET" \notin status /\ ~HasAck' /\ ~HasReset'
  BY <1>0, <1>2, <1>3, NoResetLeft, Zenon
<1>5. Queues' = Queues /\ Fields' = Fields /\ \A o, q : Early(o, q)' <=> Early(o, q)
  BY <1>3, Stays, Zenon
<1>6. \A o \in In(todo') : NewAccess(o)'
  BY <1>0, <1>2, <1>3, Stays, Zenon DEF NewInv
<1>7. WillBe'
  <2>0. StillDue(h, todo')
    BY <1>0, <1>2, Due, Zenon
  <2>1. \A w \in {0, 1} : w \in features' \/ \E o \in In(todo') : o.op = "features" /\ o.v = w
    BY <1>a, <2>0, Zenon DEF StillDue
  <2>2. \A q \in Queues : mem[q] = "owned" \/ \E o \in In(todo') : o.op = "alloc" /\ o.v = q
    BY <1>a, <2>0, Zenon DEF StillDue
  <2>3. \A q \in Queues, f \in Fields :
          reg[q][f] = Value(q, f) \/ \E o \in In(todo') : Sets(o, q, f)
    BY <1>a, <2>0 DEF StillDue, Sets
  <2> QED
    BY <1>5, <1>a, <2>1, <2>2, <2>3, Zenon DEF WillBe
<1>8. ("DRIVER_OK" \in status => \A o \in In(todo) : o.part = "fill")'
  BY <1>0, <1>2, <1>a, Zenon DEF NewInv
<1>9. \A q \in Queue : q \notin Queues' \/ (\E o \in In(todo') : Early(o, q)') => ~Live(q)'
  <2>1. \A q : Live(q)' <=> Live(q)
    BY <1>3, <1>a, Zenon DEF Live
  <2> QED
    BY <1>0, <1>2, <1>4, <1>5, <2>1, Zenon DEF NewInv
<1>10. \A o \in In(todo') : o.part # "probe"
  BY <1>2, <1>3, Zenon DEF May, MayNew
<1>11. (\A r \in Region : mem[r] # "freed")' /\ (\A q \in Queue : reg[q]["ready"] # "stopping")'
  BY <1>0, <1>a, Zenon DEF NewInv
<1>12. (~HasReset /\ "RESET" \notin status =>
         \A q \in Queue : q \notin Queues \/ (\E o \in In(todo) : Early(o, q)) => ~Live(q))'
  BY <1>9, Zenon
<1> QED
  BY <1>4, <1>6, <1>7, <1>8, <1>10, <1>11, <1>12, <1>a, Zenon DEF NewInv

\* queue_set, one register at a time: a queue becomes live with its last register.
LEMMA NewReg ==
  ASSUME LifeInv, pc = "new", WriteReg
  PROVE  NewInv' /\ LiveQueueIsComplete' /\ TypeInv'
<1>0. TypeInv /\ NewInv /\ Ordered(todo, pc) /\ Selected(todo, queue_sel) /\ LiveQueueIsComplete
  BY Zenon DEF LifeInv
<1>1. PICK h : h = Head(todo)
  BY Zenon
<1>a. /\ todo # <<>> /\ Done /\ h.op = "reg"
      /\ reg' = [reg EXCEPT ![queue_sel] = [@ EXCEPT ![h.f] = h.v]]
      /\ UNCHANGED <<mem, status, features, queue_sel, posted>>
  BY <1>1, Zenon DEF WriteReg, At, Arg
<1>2. /\ h \in In(todo) /\ \A o \in In(todo') : o \in In(todo)
      /\ \A o \in In(todo) : o = h \/ o \in In(todo')
      /\ \A y \in In(todo') : May(h, y, pc)
      /\ queue_sel = h.q /\ IsSeq(todo')
  BY <1>0, <1>1, <1>a, Pop, Zenon DEF Banked
<1>3. driver' = driver /\ version' = version /\ pc' = pc /\ NewAccess(h) /\ IsWork(h)
  BY <1>0, <1>2, <1>a, Zenon DEF Done, NewInv, IsWork
<1>4. ~HasAck /\ ~HasReset /\ "RESET" \notin status /\ ~HasAck' /\ ~HasReset'
  BY <1>0, <1>2, <1>3, NoResetLeft, Zenon
<1>5. /\ Queues' = Queues /\ Fields' = Fields /\ LiveField' = LiveField
      /\ \A o, q : Early(o, q)' <=> Early(o, q)
  BY <1>3, Stays, Zenon
<1>6. \A o \in In(todo') : NewAccess(o)'
  BY <1>0, <1>2, <1>3, Stays, Zenon DEF NewInv
<1>b. /\ h.q \in Queues /\ h.q \in Queue /\ h.f \in Fields /\ h.f \in FieldName
      /\ h.v = Value(h.q, h.f) /\ h.part = "new" /\ h.v \in Val
  <2>1. h.q \in Queues /\ h.f \in Fields /\ h.v = Value(h.q, h.f) /\ h.part = "new"
    BY <1>3, <1>a, Zenon DEF NewAccess
  <2>2. h.q \in Queue /\ h.f \in FieldName
    BY <2>1, Zenon DEF Queues, Fields, FieldName
  <2>3. h.v \in Val
    BY <2>1, <2>2, Zenon DEF Value, Val, Queue, Size
  <2> QED
    BY <2>1, <2>2, <2>3, Zenon
<1>c. /\ reg' \in [Queue -> [FieldName -> Val]]
      /\ \A q \in Queue, g \in FieldName :
           reg'[q][g] = IF q = h.q /\ g = h.f THEN h.v ELSE reg[q][g]
  <2>1. reg \in [Queue -> [FieldName -> Val]] /\ reg' = [reg EXCEPT ![h.q] = [@ EXCEPT ![h.f] = h.v]]
    BY <1>0, <1>2, <1>a, Zenon DEF TypeInv
  <2> QED
    BY <1>b, <2>1, RegWritten
<1>7. WillBe'
  <2>0. StillDue(h, todo')
    BY <1>0, <1>2, Due, Zenon
  <2>1. \A w \in {0, 1} : w \in features \/ \E o \in In(todo') : o.op = "features" /\ o.v = w
    BY <1>a, <2>0, Zenon DEF StillDue
  <2>2. \A q \in Queues : mem[q] = "owned" \/ \E o \in In(todo') : o.op = "alloc" /\ o.v = q
    BY <1>a, <2>0, Zenon DEF StillDue
  <2>3. ASSUME NEW q \in Queues, NEW f \in Fields
        PROVE  reg'[q][f] = Value(q, f) \/ \E o \in In(todo') : Sets(o, q, f)
    <3>1. q \in Queue /\ f \in FieldName
      BY Zenon DEF Queues, Fields, FieldName
    <3>2. CASE q = h.q /\ f = h.f
      BY <1>b, <1>c, <3>1, <3>2, Zenon
    <3>3. CASE ~(q = h.q /\ f = h.f)
      <4>1. reg'[q][f] = reg[q][f] /\ ~Sets(h, q, f)
        BY <1>c, <3>1, <3>3, Zenon DEF Sets
      <4> QED
        BY <2>0, <4>1, Zenon DEF StillDue
    <3> QED
      BY <3>2, <3>3, Zenon
  <2> QED
    BY <1>5, <1>a, <2>1, <2>2, <2>3, Zenon DEF WillBe
<1>8. ("DRIVER_OK" \in status => \A o \in In(todo) : o.part = "fill")'
  BY <1>0, <1>2, <1>a, Zenon DEF NewInv
<1>d. \A q \in Queue : /\ Live(q) <=> reg[q][LiveField] # (IF version = "Legacy" THEN Null ELSE "off")
                       /\ Live(q)' <=> reg'[q][LiveField] # (IF version = "Legacy" THEN Null ELSE "off")
  BY <1>0, <1>3, <1>c, LiveValues, Zenon DEF LiveField, TypeInv, Live
<1>e. LiveField \in FieldName
  BY Zenon DEF LiveField, FieldName
<1>f. ASSUME h.f # LiveField PROVE ~Live(h.q) /\ ~Live(h.q)'
  <2>1. Early(h, h.q)
    BY <1>a, <1>f, Zenon DEF Early, OfQueue, Sets
  <2>2. ~Live(h.q)
    BY <1>0, <1>2, <1>4, <1>b, <2>1, Zenon DEF NewInv
  <2> QED
    BY <1>b, <1>c, <1>d, <1>e, <1>f, <2>2, Zenon
<1>g. ASSUME NEW q \in Queue, q # h.q PROVE Live(q)' <=> Live(q)
  BY <1>c, <1>d, <1>e, <1>g, Zenon
<1>9. ASSUME NEW q \in Queue, q \notin Queues \/ \E o \in In(todo') : Early(o, q) PROVE ~Live(q)'
  <2>1. CASE q # h.q
    BY <1>0, <1>2, <1>4, <1>9, <1>g, <2>1, Zenon DEF NewInv
  <2>2. CASE q = h.q
    <3>1. PICK o \in In(todo') : Early(o, h.q)
      BY <1>9, <1>b, <2>2, Zenon
    <3>2. h.f # LiveField
      BY <1>2, <1>a, <1>b, <3>1, Zenon DEF May, MayNew, Early
    <3> QED
      BY <1>f, <2>2, <3>2, Zenon
  <2> QED
    BY <2>1, <2>2, Zenon
<1>10. \A o \in In(todo') : o.part # "probe"
  BY <1>2, <1>b, Zenon DEF May, MayNew
<1>11. (\A r \in Region : mem[r] # "freed")'
  BY <1>0, <1>a, Zenon DEF NewInv
<1>h. \A q \in Queue : reg'[q]["ready"] # "stopping"
  <2>1. "ready" \in FieldName /\ (h.f = "ready" => h.v # "stopping")
    BY <1>b, Zenon DEF FieldName, Value
  <2> QED
    BY <1>0, <1>c, <2>1, Zenon DEF NewInv
<1>12. (~HasReset /\ "RESET" \notin status =>
         \A q \in Queue : q \notin Queues \/ (\E o \in In(todo) : Early(o, q)) => ~Live(q))'
  BY <1>5, <1>9, Zenon
<1>13. NewInv'
  BY <1>4, <1>6, <1>7, <1>8, <1>10, <1>11, <1>12, <1>a, <1>h, Zenon DEF NewInv
<1>14. TypeInv'
  BY <1>0, <1>2, <1>3, <1>a, <1>c, Zenon DEF TypeInv
<1>15. LiveQueueIsComplete'
  <2> SUFFICES ASSUME NEW q \in Queue, Live(q)', reg'[q].desc # Foreign, version # "Legacy"
               PROVE  reg'[q].num # 0 /\ reg'[q].desc = q /\ reg'[q].drv = q /\ reg'[q].dev = q
    BY <1>3, Zenon DEF LiveQueueIsComplete
  <2>1. CASE q # h.q
    <3>1. \A g \in FieldName : reg'[q][g] = reg[q][g]
      BY <1>c, <2>1, Zenon
    <3>2. Live(q) /\ reg[q].desc # Foreign
      BY <1>g, <2>1, <3>1, Zenon DEF FieldName
    <3>3. reg[q].num # 0 /\ reg[q].desc = q /\ reg[q].drv = q /\ reg[q].dev = q
      BY <1>0, <3>2, Zenon DEF LiveQueueIsComplete
    <3> QED
      BY <3>1, <3>3, Zenon DEF FieldName
  <2>2. CASE q = h.q
    <3>1. h.f = LiveField /\ LiveField = "ready" /\ Fields = FieldName
      BY <1>f, <2>2, Zenon DEF LiveField, Fields
    <3>2. ASSUME NEW f \in {"num", "desc", "drv", "dev"} PROVE reg'[q][f] = Value(q, f)
      <4>1. f \in FieldName /\ f # "ready" /\ q \in Queues
        BY <1>b, <2>2, Zenon DEF FieldName
      <4>2. ~Sets(h, q, f) /\ \A o \in In(todo') : ~Sets(o, q, f)
        BY <1>2, <1>a, <1>b, <2>2, <3>1, <4>1, Zenon DEF Sets, May, MayNew, OfQueue
      <4>3. reg[q][f] = Value(q, f)
        BY <1>0, <1>2, <3>1, <4>1, <4>2 DEF NewInv, WillBe
      <4> QED
        BY <1>c, <3>1, <4>1, <4>3, Zenon
    <3>3. reg'[q]["num"] = Size /\ reg'[q]["desc"] = q /\ reg'[q]["drv"] = q /\ reg'[q]["dev"] = q
      BY <3>2, Zenon DEF Value
    <3> QED
      BY <3>3 DEF Size
  <2> QED
    BY <2>1, <2>2, Zenon
<1> QED
  BY <1>13, <1>14, <1>15, Zenon

\* set_status in `new`: a reset, the acknowledgement, FEATURES_OK or DRIVER_OK.
LEMMA NewStatus ==
  ASSUME LifeInv, pc = "new", SetStatus
  PROVE  NewInv'
<1>0. TypeInv /\ NewInv /\ Ordered(todo, pc) /\ Selected(todo, queue_sel)
      /\ (version # "Pci" => "RESET" \notin status)
  BY Zenon DEF LifeInv
<1>1. PICK h : h = Head(todo)
  BY Zenon
<1>a. /\ todo # <<>> /\ Done /\ h.op = "status" /\ UNCHANGED <<mem, queue_sel>>
      /\ status' = IF h.v = {} /\ version = "Pci" THEN status \cup {"RESET"} ELSE h.v
      /\ IF (h.v = {} /\ version # "Pci") \/ (h.v # {} /\ "RESET" \in status)
         THEN features' = {} /\ posted' = FALSE /\ reg' = Banks(Unset)
         ELSE UNCHANGED <<features, posted, reg>>
  BY <1>1, Zenon DEF SetStatus, At, Arg, Banks
<1>2. /\ h \in In(todo) /\ \A o \in In(todo') : o \in In(todo)
      /\ \A o \in In(todo) : o = h \/ o \in In(todo')
      /\ \A y \in In(todo') : May(h, y, pc)
  BY <1>0, <1>1, <1>a, Pop, Zenon
<1>3. driver' = driver /\ version' = version /\ NewAccess(h) /\ h.part \notin {"probe", "fill"}
  BY <1>0, <1>2, <1>a, Zenon DEF Done, NewInv, NewAccess
<1>4. "RESET" \notin Ack /\ Ack # {}
  BY Zenon DEF Ack
<1>5. "DRIVER_OK" \notin status
  BY <1>0, <1>2, <1>3, Zenon DEF NewInv
<1>6. \A o \in In(todo') : NewAccess(o)'
  BY <1>0, <1>2, <1>3, Stays, Zenon DEF NewInv
<1>7. (HasReset \/ "RESET" \in status => HasAck)'
  <2>1. CASE IsReset(h)
    <3>1. HasAck /\ ~IsAck(h)
      BY <1>0, <1>2, <1>4, <2>1, Zenon DEF NewInv, HasReset, IsReset, IsAck
    <3>2. HasAck'
      BY <1>2, <3>1, Zenon DEF HasAck
    <3> QED
      BY <3>2, Zenon
  <2>2. CASE ~IsReset(h)
    <3>1. h.v # {} /\ status' = h.v /\ "RESET" \notin h.v
      BY <1>3, <1>4, <1>a, <2>2, Zenon DEF IsReset, NewAccess
    <3>2. ASSUME HasReset' PROVE HasAck'
      <4>1. HasReset /\ ~IsAck(h)
        BY <1>2, <3>2, Zenon DEF HasReset, May, MayNew
      <4>2. HasAck
        BY <1>0, <4>1, Zenon DEF NewInv
      <4> QED
        BY <1>2, <4>1, <4>2, Zenon DEF HasAck
    <3> QED
      BY <3>1, <3>2, Zenon
  <2> QED
    BY <2>1, <2>2, Zenon
<1>8. HasAck => Will(todo')
  <2> SUFFICES ASSUME HasAck PROVE Will(todo')
    BY Zenon
  <2>1. Will(todo)
    BY <1>0, Zenon DEF NewInv
  <2>2. \A w \in {0, 1} : \E o \in In(todo') : o.op = "features" /\ o.v = w
    BY <1>2, <1>a, <2>1 DEF Will
  <2>3. \A q \in Queues : \E o \in In(todo') : o.op = "alloc" /\ o.v = q
    BY <1>2, <1>a, <2>1, Zenon DEF Will
  <2>4. \A q \in Queues, f \in Fields : \E o \in In(todo') : Sets(o, q, f)
    BY <1>2, <1>a, <2>1 DEF Will, Sets
  <2> QED
    BY <2>2, <2>3, <2>4, Zenon DEF Will
<1>b. HasAck' => HasAck
  BY <1>2, Zenon DEF HasAck
<1>c. Will(todo)' <=> Will(todo')
  <2>1. PICK u : u = todo'
    BY Zenon
  <2>2. Will(u)' <=> Will(u)
    BY <1>3, Stays, Zenon
  <2> QED
    BY <2>1, <2>2, Zenon
<1>9. HasAck' => Will(todo)' /\ Untouched'
  <2>1. HasAck' => Untouched'
    BY <1>0, <1>a, <1>b, Zenon DEF NewInv, Untouched
  <2> QED
    BY <1>8, <1>b, <1>c, <2>1, Zenon
<1>10. WillBe'
  <2>1. Queues' = Queues /\ Fields' = Fields
    BY <1>3, Stays, Zenon
  <2>2. CASE HasAck
    <3>1. Will(todo')
      BY <1>8, <2>2, Zenon
    <3>2. \A w \in {0, 1} : \E o \in In(todo') : o.op = "features" /\ o.v = w
      BY <3>1, Zenon DEF Will
    <3>3. \A q \in Queues : \E o \in In(todo') : o.op = "alloc" /\ o.v = q
      BY <3>1, Zenon DEF Will
    <3>4. \A q \in Queues, f \in Fields : \E o \in In(todo') : Sets(o, q, f)
      BY <3>1, Zenon DEF Will
    <3> QED
      BY <2>1, <3>2, <3>3, <3>4, Zenon DEF WillBe
  <2>3. CASE ~HasAck
    <3>0. StillDue(h, todo')
      BY <1>0, <1>2, Due, Zenon
    <3>1. ~HasReset /\ "RESET" \notin status
      BY <1>0, <2>3, Zenon DEF NewInv
    <3>2. UNCHANGED <<features, posted, reg>>
      BY <1>2, <1>a, <3>1, Zenon DEF HasReset, IsReset
    <3>3. \A w \in {0, 1} : w \in features \/ \E o \in In(todo') : o.op = "features" /\ o.v = w
      BY <1>a, <3>0, Zenon DEF StillDue
    <3>4. \A q \in Queues : mem[q] = "owned" \/ \E o \in In(todo') : o.op = "alloc" /\ o.v = q
      BY <1>a, <3>0, Zenon DEF StillDue
    <3>5. \A q \in Queues, f \in Fields :
            reg[q][f] = Value(q, f) \/ \E o \in In(todo') : Sets(o, q, f)
      BY <1>a, <3>0 DEF StillDue, Sets
    <3> QED
      BY <1>a, <2>1, <3>2, <3>3, <3>4, <3>5, Zenon DEF WillBe
  <2> QED
    BY <2>2, <2>3, Zenon
<1>11. ("DRIVER_OK" \in status => \A o \in In(todo) : o.part = "fill")'
  <2> SUFFICES ASSUME "DRIVER_OK" \in status' PROVE \A o \in In(todo') : o.part = "fill"
    BY Zenon
  <2>1. IsFinish(h)
    BY <1>5, <1>a, Zenon DEF IsFinish
  <2> QED
    BY <1>2, <2>1, Zenon DEF May, MayNew
<1>12. (~HasReset /\ "RESET" \notin status =>
         \A q \in Queue : q \notin Queues \/ (\E o \in In(todo) : Early(o, q)) => ~Live(q))'
  <2> SUFFICES ASSUME ~HasReset', "RESET" \notin status',
                      NEW q \in Queue, q \notin Queues' \/ (\E o \in In(todo') : Early(o, q)')
               PROVE  ~Live(q)'
    BY Zenon
  <2>1. CASE reg' = Banks(Unset)
    <3>1. Banks(Unset)[q]["desc"] = Null /\ Banks(Unset)[q]["ready"] = "off"
      BY BankValues, Zenon
    <3> QED
      BY <1>3, <2>1, <3>1, Zenon DEF Live
  <2>2. CASE UNCHANGED reg /\ ~(reg' = Banks(Unset))
    <3>1. h.v # {} /\ "RESET" \notin status
      BY <1>a, <2>2, Zenon
    <3>2. ~HasReset
      BY <1>2, <3>1, Zenon DEF HasReset, IsReset
    <3>3. Queues' = Queues /\ \A o : Early(o, q)' <=> Early(o, q)
      BY <1>3, Stays, Zenon
    <3>4. ~Live(q)
      BY <1>0, <1>2, <3>1, <3>2, <3>3, Zenon DEF NewInv
    <3> QED
      BY <1>3, <2>2, <3>4, Zenon DEF Live
  <2> QED
    BY <1>a, <2>1, <2>2, Zenon
<1>13. (\A r \in Region : mem[r] # "freed")'
  BY <1>0, <1>a, Zenon DEF NewInv
<1>14. (\A q \in Queue : reg[q]["ready"] # "stopping")'
  <2>1. \A q \in Queue : Banks(Unset)[q]["ready"] = "off"
    BY BankValues, Zenon
  <2> QED
    BY <1>0, <1>a, <2>1, Zenon DEF NewInv
<1>15. \A o \in In(todo') : o.part # "probe"
  BY <1>2, <1>3, Zenon DEF May, MayNew
<1> QED
  BY <1>6, <1>7, <1>9, <1>10, <1>11, <1>12, <1>13, <1>14, <1>15, Zenon DEF NewInv

\* An access of a drop that leaves the device alone, the waits included.
LEMMA DropQuiet ==
  ASSUME LifeInv, pc \in {"drop", "unwind"}, todo # <<>>, Done,
         Head(todo).op \in {"touch", "sel", "wait", "wait_reset", "free"},
         UNCHANGED <<status, features, reg, posted>>,
         queue_sel' = IF Head(todo).op = "sel" THEN Head(todo).v ELSE queue_sel,
         Head(todo).op = "wait" => reg[queue_sel]["ready"] = "off",
         Head(todo).op = "wait_reset" => status = {}
  PROVE  DropInv'
<1>0. TypeInv /\ DropInv /\ Ordered(todo, pc) /\ Selected(todo, queue_sel)
  BY Zenon DEF LifeInv
<1>1. PICK h : h = Head(todo)
  BY Zenon
<1>2. /\ h \in In(todo) /\ \A o \in In(todo') : o \in In(todo)
      /\ \A o \in In(todo) : o = h \/ o \in In(todo')
      /\ \A y \in In(todo') : May(h, y, pc)
      /\ Banked(h) => queue_sel = h.q
  BY <1>0, <1>1, Pop, Zenon
<1>3. driver' = driver /\ version' = version /\ pc' = pc /\ DropAccess(h)
  BY <1>0, <1>2, Zenon DEF Done, DropInv
<1>4. HasReset' <=> HasReset
  BY <1>1, <1>2, Zenon DEF HasReset, IsReset
<1>5. Clean' <=> Clean
  BY Zenon DEF Clean
<1>6. \A o \in In(todo') : DropAccess(o)'
  BY <1>0, <1>2, <1>3, Stays, Zenon DEF DropInv
<1>7. \A o : IsBarrier(o)' <=> IsBarrier(o)
  BY <1>3, Stays, Zenon
<1>8. ASSUME IsBarrier(h) PROVE status = {} /\ Clean /\ ~HasReset
  <2>1. h.op = "wait_reset" /\ version = "Pci" /\ status = {}
    BY <1>1, <1>8, Zenon DEF IsBarrier, IsReset
  <2>2. ~HasReset'
    BY <1>2, <2>1, Zenon DEF HasReset, May, MayDrop
  <2>3. Clean
    BY <1>0, <1>4, <2>1, <2>2, Zenon DEF DropInv
  <2> QED
    BY <1>4, <2>1, <2>2, <2>3, Zenon
<1>9. ("DRIVER_OK" \in status => pc = "drop" /\ \E o \in In(todo) : IsBarrier(o))'
  <2> SUFFICES ASSUME "DRIVER_OK" \in status
               PROVE  pc = "drop" /\ \E o \in In(todo') : IsBarrier(o)
    BY <1>3, <1>7, Zenon
  <2>1. ~IsBarrier(h)
    BY <1>8, Zenon
  <2> QED
    BY <1>0, <1>2, <2>1, Zenon DEF DropInv
<1>10. ((Clean /\ ~HasReset) \/ \E o \in In(todo) : IsBarrier(o))'
  <2>1. CASE IsBarrier(h)
    BY <1>4, <1>5, <1>8, <2>1, Zenon
  <2>2. CASE ~IsBarrier(h)
    BY <1>0, <1>2, <1>4, <1>5, <1>7, <2>2, Zenon DEF DropInv
  <2> QED
    BY <2>1, <2>2, Zenon
<1>11. (~HasReset => \A o \in In(todo) : o.op \in {"free", "wait_reset"})'
  BY <1>0, <1>2, <1>4, Zenon DEF DropInv
<1>12. (version = "Pci" /\ ~HasReset => "RESET" \in status \/ Clean)'
  BY <1>0, <1>3, <1>4, <1>5, Zenon DEF DropInv
<1>13. (version = "Modern" => \A q \in Queue :
          /\ (\E o \in In(todo) : Sets(o, q, "ready")) =>
               reg[q]["num"] # 0 /\ \A f \in {"desc", "drv", "dev"} : reg[q][f] = q
          /\ (\E o \in In(todo) : o.op = "reg" /\ o.q = q) =>
               \/ \E o \in In(todo) : Waits(o, q)
               \/ reg[q]["ready"] = "off" /\ \A o \in In(todo) : ~Sets(o, q, "ready"))'
  <2> SUFFICES ASSUME version = "Modern", NEW q \in Queue
               PROVE  /\ (\E o \in In(todo') : Sets(o, q, "ready")) =>
                           reg[q]["num"] # 0 /\ \A f \in {"desc", "drv", "dev"} : reg[q][f] = q
                      /\ (\E o \in In(todo') : o.op = "reg" /\ o.q = q) =>
                           \/ \E o \in In(todo') : Waits(o, q)
                           \/ reg[q]["ready"] = "off" /\ \A o \in In(todo') : ~Sets(o, q, "ready")
    BY <1>3, Zenon
  <2>1. (\E o \in In(todo') : Sets(o, q, "ready")) =>
          reg[q]["num"] # 0 /\ \A f \in {"desc", "drv", "dev"} : reg[q][f] = q
    BY <1>0, <1>2, Zenon DEF DropInv
  <2>2. ASSUME \E o \in In(todo') : o.op = "reg" /\ o.q = q
        PROVE  \/ \E o \in In(todo') : Waits(o, q)
               \/ reg[q]["ready"] = "off" /\ \A o \in In(todo') : ~Sets(o, q, "ready")
    <3>1. CASE Waits(h, q)
      <4>1. reg[q]["ready"] = "off"
        BY <1>1, <1>2, <3>1, Zenon DEF Waits, Banked
      <4>2. \A o \in In(todo') : ~Sets(o, q, "ready")
        BY <1>2, <3>1, Zenon DEF Waits, May, MayDrop
      <4> QED
        BY <4>1, <4>2, Zenon
    <3>2. CASE ~Waits(h, q)
      <4>1. \/ \E o \in In(todo) : Waits(o, q)
            \/ reg[q]["ready"] = "off" /\ \A o \in In(todo) : ~Sets(o, q, "ready")
        BY <1>0, <1>2, <2>2, Zenon DEF DropInv
      <4> QED
        BY <1>2, <3>2, <4>1, Zenon
    <3> QED
      BY <3>1, <3>2, Zenon
  <2> QED
    BY <2>1, <2>2, Zenon
<1> QED
  BY <1>6, <1>9, <1>10, <1>11, <1>12, <1>13, Zenon DEF DropInv

\* The reset of a drop.
LEMMA DropStatus ==
  ASSUME LifeInv, pc \in {"drop", "unwind"}, SetStatus
  PROVE  DropInv'
<1>0. TypeInv /\ DropInv /\ Ordered(todo, pc) /\ Selected(todo, queue_sel)
  BY Zenon DEF LifeInv
<1>1. PICK h : h = Head(todo)
  BY Zenon
<1>a. /\ todo # <<>> /\ Done /\ h.op = "status" /\ UNCHANGED <<mem, queue_sel>>
      /\ status' = IF h.v = {} /\ version = "Pci" THEN status \cup {"RESET"} ELSE h.v
      /\ IF (h.v = {} /\ version # "Pci") \/ (h.v # {} /\ "RESET" \in status)
         THEN features' = {} /\ posted' = FALSE /\ reg' = Banks(Unset)
         ELSE UNCHANGED <<features, posted, reg>>
  BY <1>1, Zenon DEF SetStatus, At, Arg, Banks
<1>2. /\ h \in In(todo) /\ \A o \in In(todo') : o \in In(todo)
      /\ \A o \in In(todo) : o = h \/ o \in In(todo')
      /\ \A y \in In(todo') : May(h, y, pc)
  BY <1>0, <1>1, <1>a, Pop, Zenon
<1>3. driver' = driver /\ version' = version /\ pc' = pc /\ h.v = {} /\ IsReset(h) /\ h.part = "drop"
  BY <1>0, <1>2, <1>a, Zenon DEF Done, DropInv, DropAccess, IsReset
<1>4. \A o \in In(todo') : o.op \in {"free", "wait_reset"}
  BY <1>2, <1>3, Zenon DEF May, MayDrop
<1>5. ~HasReset' /\ HasReset
  BY <1>2, <1>3, <1>4, Zenon DEF HasReset, IsReset
<1>6. \A o \in In(todo') : DropAccess(o)'
  BY <1>0, <1>2, <1>3, Stays, Zenon DEF DropInv
<1>7. \A o : IsBarrier(o)' <=> IsBarrier(o)
  BY <1>3, Stays, Zenon
<1>8. \A q, f : \A o \in In(todo') : ~Sets(o, q, f) /\ o.op # "reg"
  BY <1>4, Zenon DEF Sets
<1>9. CASE version # "Pci"
  <2>1. status' = {} /\ Clean'
    BY <1>3, <1>9, <1>a, Zenon DEF Clean
  <2> QED
    BY <1>3, <1>4, <1>5, <1>6, <1>8, <1>9, <2>1, Zenon DEF DropInv
<1>10. CASE version = "Pci"
  <2>1. status' = status \cup {"RESET"}
    BY <1>3, <1>10, <1>a, Zenon
  <2>2. PICK o \in In(todo) : IsBarrier(o)
    BY <1>0, <1>5, Zenon DEF DropInv
  <2>3. \E b \in In(todo') : IsBarrier(b)'
    BY <1>2, <1>7, <1>10, <1>a, <2>2, Zenon DEF IsBarrier
  <2>4. "DRIVER_OK" \in status' => pc' = "drop"
    BY <1>0, <1>3, <2>1, Zenon DEF DropInv
  <2> QED
    BY <1>3, <1>4, <1>5, <1>6, <1>10, <2>1, <2>3, <2>4, Zenon DEF DropInv
<1> QED
  BY <1>9, <1>10, Zenon

\* queue_unset, one register at a time: a modern queue is stopped before it is cleared.
LEMMA DropReg ==
  ASSUME LifeInv, pc \in {"drop", "unwind"}, WriteReg
  PROVE  DropInv' /\ LiveQueueIsComplete' /\ TypeInv'
<1>0. TypeInv /\ DropInv /\ Ordered(todo, pc) /\ Selected(todo, queue_sel) /\ LiveQueueIsComplete
  BY Zenon DEF LifeInv
<1>1. PICK h : h = Head(todo)
  BY Zenon
<1>a. /\ todo # <<>> /\ Done /\ h.op = "reg"
      /\ reg' = [reg EXCEPT ![queue_sel] = [@ EXCEPT ![h.f] = h.v]]
      /\ UNCHANGED <<mem, status, features, queue_sel, posted>>
  BY <1>1, Zenon DEF WriteReg, At, Arg
<1>2. /\ h \in In(todo) /\ \A o \in In(todo') : o \in In(todo)
      /\ \A o \in In(todo) : o = h \/ o \in In(todo')
      /\ \A y \in In(todo') : May(h, y, pc)
      /\ queue_sel = h.q /\ IsSeq(todo')
  BY <1>0, <1>1, <1>a, Pop, Zenon DEF Banked
<1>3. driver' = driver /\ version' = version /\ pc' = pc /\ DropAccess(h)
  BY <1>0, <1>2, <1>a, Zenon DEF Done, DropInv
<1>4. HasReset' /\ HasReset
  <2>1. HasReset /\ ~IsReset(h)
    BY <1>0, <1>2, <1>a, Zenon DEF DropInv, IsReset
  <2> QED
    BY <1>2, <2>1, Zenon DEF HasReset
<1>b. /\ h.q \in Queue /\ h.f \in FieldName /\ h.v \in Val /\ h.part = "drop" /\ version # "Pci"
      /\ h.f = "ready" => h.v = "stopping"
  BY <1>3, <1>a, Zenon DEF DropAccess
<1>c. /\ reg' \in [Queue -> [FieldName -> Val]]
      /\ \A q \in Queue, g \in FieldName :
           reg'[q][g] = IF q = h.q /\ g = h.f THEN h.v ELSE reg[q][g]
  <2>1. reg \in [Queue -> [FieldName -> Val]] /\ reg' = [reg EXCEPT ![h.q] = [@ EXCEPT ![h.f] = h.v]]
    BY <1>0, <1>2, <1>a, Zenon DEF TypeInv
  <2> QED
    BY <1>b, <2>1, RegWritten
<1>6. \A o \in In(todo') : DropAccess(o)'
  BY <1>0, <1>2, <1>3, Stays, Zenon DEF DropInv
<1>7. \E o \in In(todo') : IsBarrier(o)'
  <2>1. \E o \in In(todo) : IsBarrier(o)
    BY <1>0, <1>4, Zenon DEF DropInv
  <2>2. ~IsBarrier(h)
    BY <1>a, Zenon DEF IsBarrier, IsReset
  <2> QED
    BY <1>2, <1>3, <2>1, <2>2, Stays, Zenon
<1>8. ("DRIVER_OK" \in status => pc = "drop")'
  BY <1>0, <1>3, <1>a, Zenon DEF DropInv
<1>9. ASSUME version = "Modern", h.f # "ready" PROVE reg[h.q]["ready"] = "off"
  <2>1. ~Waits(h, h.q) /\ \A o \in In(todo') : ~Waits(o, h.q)
    BY <1>2, <1>9, <1>a, <1>b, Zenon DEF Waits, May, MayDrop
  <2> QED
    BY <1>0, <1>2, <1>9, <1>a, <1>b, <2>1, Zenon DEF DropInv
<1>10. ASSUME version = "Modern", NEW q \in Queue, \E o \in In(todo') : Sets(o, q, "ready")
       PROVE  reg'[q]["num"] # 0 /\ \A f \in {"desc", "drv", "dev"} : reg'[q][f] = q
  <2>1. reg[q]["num"] # 0 /\ \A f \in {"desc", "drv", "dev"} : reg[q][f] = q
    BY <1>0, <1>2, <1>10, Zenon DEF DropInv
  <2>2. ~(q = h.q /\ h.f # "ready")
    BY <1>2, <1>10, <1>a, <1>b, Zenon DEF May, MayDrop
  <2>3. \A f \in {"num", "desc", "drv", "dev"} : reg'[q][f] = reg[q][f]
    BY <1>c, <2>2 DEF FieldName
  <2> QED
    BY <2>1, <2>3, Zenon
<1>11. ASSUME version = "Modern", NEW q \in Queue, \E o \in In(todo') : o.op = "reg" /\ o.q = q
       PROVE  \/ \E o \in In(todo') : Waits(o, q)
              \/ reg'[q]["ready"] = "off" /\ \A o \in In(todo') : ~Sets(o, q, "ready")
  <2>1. \/ \E o \in In(todo) : Waits(o, q)
        \/ reg[q]["ready"] = "off" /\ \A o \in In(todo) : ~Sets(o, q, "ready")
    BY <1>0, <1>2, <1>11, Zenon DEF DropInv
  <2>2. CASE \E o \in In(todo) : Waits(o, q)
    BY <1>2, <1>a, <2>2, Zenon DEF Waits
  <2>3. CASE reg[q]["ready"] = "off" /\ \A o \in In(todo) : ~Sets(o, q, "ready")
    <3>1. ~(q = h.q /\ h.f = "ready")
      BY <1>2, <1>a, <2>3, Zenon DEF Sets
    <3>2. reg'[q]["ready"] = reg[q]["ready"]
      BY <1>c, <3>1, Zenon DEF FieldName
    <3> QED
      BY <1>2, <2>3, <3>2, Zenon
  <2> QED
    BY <2>1, <2>2, <2>3, Zenon
<1>12. DropInv'
  BY <1>3, <1>4, <1>6, <1>7, <1>8, <1>10, <1>11, Zenon DEF DropInv
<1>13. TypeInv'
  BY <1>0, <1>2, <1>3, <1>a, <1>c, Zenon DEF TypeInv
<1>14. LiveQueueIsComplete'
  <2> SUFFICES ASSUME NEW q \in Queue, Live(q)', reg'[q].desc # Foreign, version # "Legacy"
               PROVE  reg'[q].num # 0 /\ reg'[q].desc = q /\ reg'[q].drv = q /\ reg'[q].dev = q
    BY <1>3, Zenon DEF LiveQueueIsComplete
  <2>0. version = "Modern" /\ reg'[q]["ready"] # "off"
    BY <1>0, <1>3, <1>b, Zenon DEF TypeInv, Live
  <2>1. CASE q # h.q
    <3>1. \A g \in FieldName : reg'[q][g] = reg[q][g]
      BY <1>c, <2>1, Zenon
    <3>2. Live(q) /\ reg[q].desc # Foreign
      BY <2>0, <3>1, Zenon DEF FieldName, Live
    <3>3. reg[q].num # 0 /\ reg[q].desc = q /\ reg[q].drv = q /\ reg[q].dev = q
      BY <1>0, <3>2, Zenon DEF LiveQueueIsComplete
    <3> QED
      BY <3>1, <3>3, Zenon DEF FieldName
  <2>2. CASE q = h.q
    <3>1. h.f = "ready"
      BY <1>9, <1>c, <2>0, <2>2, Zenon DEF FieldName
    <3>2. Sets(h, q, "ready")
      BY <1>a, <2>2, <3>1, Zenon DEF Sets
    <3>3. reg[q]["num"] # 0 /\ \A f \in {"desc", "drv", "dev"} : reg[q][f] = q
      BY <1>0, <1>2, <2>0, <3>2, Zenon DEF DropInv
    <3>4. \A f \in {"num", "desc", "drv", "dev"} : reg'[q][f] = reg[q][f]
      BY <1>c, <3>1 DEF FieldName
    <3> QED
      BY <3>3, <3>4, Zenon
  <2> QED
    BY <2>1, <2>2, Zenon
<1> QED
  BY <1>12, <1>13, <1>14, Zenon

-----------------------------------------------------------------------------
(* The steps *)

\* A step that leaves the registers alone leaves the live queues alone.
LEMMA LiveKept ==
  ASSUME LiveQueueIsComplete, version' = version, reg' = reg
  PROVE  LiveQueueIsComplete'
  BY Zenon DEF LiveQueueIsComplete, Live

\* After a reset no queue is live.
LEMMA LiveReset ==
  ASSUME version' = version, reg' = Banks(Unset)
  PROVE  LiveQueueIsComplete' /\ reg' \in [Queue -> [FieldName -> Val]] /\ \A q \in Queue : ~Live(q)'
<1>1. reg' \in [Queue -> [FieldName -> Val]]
  BY BankValues, Zenon DEF Queue
<1>2. ASSUME NEW q \in Queue PROVE ~Live(q)'
  <2>1. reg'[q]["desc"] = Null /\ reg'[q]["ready"] = "off"
    BY BankValues, Zenon
  <2> QED
    BY <2>1, Zenon DEF Live
<1> QED
  BY <1>1, <1>2, Zenon DEF LiveQueueIsComplete

\* Memory is allocated or freed one region at a time.
LEMMA MemWritten ==
  ASSUME mem \in [Region -> {"none", "owned", "freed"}], NEW r \in Region,
         NEW v \in {"none", "owned", "freed"}
  PROVE  [mem EXCEPT ![r] = v] \in [Region -> {"none", "owned", "freed"}]
  BY Zenon

\* What is left to show of an access.
LEMMA Access ==
  ASSUME LifeInv, todo # <<>>, Done,
         queue_sel' = IF Head(todo).op = "sel" THEN Head(todo).v ELSE queue_sel,
         mem' \in [Region -> {"none", "owned", "freed"}],
         reg' \in [Queue -> [FieldName -> Val]], features' \subseteq {0, 1}, queue_sel' \in Queue,
         version # "Pci" => "RESET" \notin status',
         ~(\E r \in Region : mem'[r] = "freed") \/ "DRIVER_OK" \notin status',
         LiveQueueIsComplete', pc = "new" => NewInv', pc \in {"drop", "unwind"} => DropInv'
  PROVE  LifeInv'
<1>0. TypeInv /\ Ordered(todo, pc) /\ Selected(todo, queue_sel) /\ err # "AlreadyUsed"
      /\ pc \notin {"none", "running", "panicked"}
  BY Zenon DEF LifeInv
<1>1. driver' = driver /\ version' = version /\ pc' = pc /\ err' = err
  BY Zenon DEF Done
<1>2. IsSeq(todo') /\ Ordered(todo, pc)' /\ Selected(todo, queue_sel)'
  BY <1>0, Pop, Zenon
<1>3. TypeInv'
  BY <1>0, <1>1, <1>2, Zenon DEF TypeInv
<1> QED
  BY <1>0, <1>1, <1>2, <1>3, Zenon DEF LifeInv

\* An access that leaves the registers alone.
LEMMA Quiet ==
  ASSUME LifeInv, todo # <<>>, Done,
         Head(todo).op \notin {"status", "features", "reg"},
         UNCHANGED <<status, features, reg>>,
         queue_sel' = IF Head(todo).op = "sel" THEN Head(todo).v ELSE queue_sel,
         mem' = CASE Head(todo).op = "alloc" -> [mem EXCEPT ![Head(todo).v] = "owned"]
                  [] Head(todo).op = "free" ->
                       [mem EXCEPT ![Head(todo).v] = IF @ = "owned" THEN "freed" ELSE @]
                  [] OTHER -> mem,
         Head(todo).op # "post" => posted' = posted,
         Head(todo).op = "wait" => reg[queue_sel]["ready"] = "off",
         Head(todo).op = "wait_reset" => status = {}
  PROVE  LifeInv'
<1>0. /\ TypeInv /\ Ordered(todo, pc) /\ Selected(todo, queue_sel) /\ LiveQueueIsComplete
      /\ pc \in {"new", "drop", "unwind"}
      /\ pc = "new" => NewInv
      /\ pc \in {"drop", "unwind"} => DropInv
      /\ version # "Pci" => "RESET" \notin status
      /\ ~(\E r \in Region : mem[r] = "freed") \/ "DRIVER_OK" \notin status
  BY Zenon DEF LifeInv, TypeInv
<1>1. PICK h : h = Head(todo)
  BY Zenon
<1>2. /\ h \in In(todo) /\ \A o \in In(todo) : o = h \/ o \in In(todo')
      /\ \A y \in In(todo') : May(h, y, pc)
  BY <1>0, <1>1, Pop, Zenon
<1>3. version' = version
  BY Zenon DEF Done
<1>4. LiveQueueIsComplete'
  BY <1>0, <1>3, LiveKept, Zenon
<1>5. CASE pc = "new"
  <2>1. NewAccess(h) /\ h.op # "free"
    BY <1>0, <1>2, <1>5, Zenon DEF NewInv, NewAccess
  <2>2. mem' = IF h.op = "alloc" THEN [mem EXCEPT ![h.v] = "owned"] ELSE mem
    BY <1>1, <2>1, Zenon
  <2>3. NewInv'
    BY <1>1, <1>5, <2>2, NewQuiet, Zenon
  <2>4. queue_sel' \in Queue
    BY <1>0, <1>1, <2>1, Zenon DEF TypeInv, NewAccess
  <2>5. mem' \in [Region -> {"none", "owned", "freed"}]
    <3>1. (h.op = "alloc" => h.v \in Region) /\ mem \in [Region -> {"none", "owned", "freed"}]
      BY <1>0, <2>1, Zenon DEF TypeInv, NewAccess
    <3> QED
      BY <2>2, <3>1, MemWritten, Zenon
  <2>6. ~(\E r \in Region : mem'[r] = "freed")
    BY <2>3, Zenon DEF NewInv
  <2> QED
    BY <1>0, <1>4, <1>5, <2>3, <2>4, <2>5, <2>6, Access, Zenon DEF TypeInv
<1>6. CASE pc \in {"drop", "unwind"}
  <2>1. DropAccess(h) /\ h.op \in {"touch", "sel", "wait", "wait_reset", "free"}
    BY <1>0, <1>1, <1>2, <1>6, Zenon DEF DropInv, DropAccess
  <2>2. mem' = IF h.op = "free" THEN [mem EXCEPT ![h.v] = IF @ = "owned" THEN "freed" ELSE @] ELSE mem
    BY <1>1, <2>1, Zenon
  <2>3. DropInv'
    BY <1>1, <1>6, <2>1, DropQuiet, Zenon
  <2>4. queue_sel' \in Queue
    BY <1>0, <1>1, <2>1, Zenon DEF TypeInv, DropAccess
  <2>5. mem' \in [Region -> {"none", "owned", "freed"}]
    <3>1. (h.op = "free" => h.v \in Region) /\ mem \in [Region -> {"none", "owned", "freed"}]
      BY <1>0, <2>1, Zenon DEF TypeInv, DropAccess
    <3> QED
      <4>1. CASE h.op = "free"
        <5>1. PICK v \in {"none", "owned", "freed"} :
                v = IF mem[h.v] = "owned" THEN "freed" ELSE mem[h.v]
          BY <3>1, <4>1, Zenon
        <5>2. mem' = [mem EXCEPT ![h.v] = v]
          BY <2>2, <4>1, <5>1, Zenon
        <5> QED
          BY <3>1, <4>1, <5>2, MemWritten, Zenon
      <4>2. CASE h.op # "free"
        BY <2>2, <3>1, <4>2, Zenon
      <4> QED
        BY <4>1, <4>2, Zenon
  <2>6. ~(\E r \in Region : mem'[r] = "freed") \/ "DRIVER_OK" \notin status
    <3>1. CASE h.op # "free"
      BY <1>0, <2>2, <3>1, Zenon
    <3>2. CASE h.op = "free"
      <4> SUFFICES ASSUME "DRIVER_OK" \in status PROVE FALSE
        BY Zenon
      <4>1. PICK o \in In(todo) : IsBarrier(o) /\ pc = "drop"
        BY <1>0, <1>6, Zenon DEF DropInv
      <4>2. o # h
        BY <3>2, <4>1, Zenon DEF IsBarrier, IsReset
      <4> QED
        BY <1>2, <3>2, <4>1, <4>2, Zenon DEF May, MayDrop, IsBarrier
    <3> QED
      BY <3>1, <3>2, Zenon
  <2> QED
    BY <1>0, <1>4, <1>6, <2>3, <2>4, <2>5, <2>6, Access, Zenon DEF TypeInv
<1> QED
  BY <1>0, <1>5, <1>6, Zenon

\* set_status keeps the invariant.
LEMMA StatusStep ==
  ASSUME LifeInv, SetStatus
  PROVE  LifeInv'
<1>0. /\ TypeInv /\ Ordered(todo, pc) /\ Selected(todo, queue_sel) /\ LiveQueueIsComplete
      /\ pc = "new" => NewInv
      /\ pc \in {"drop", "unwind"} => DropInv
      /\ version # "Pci" => "RESET" \notin status
      /\ ~(\E r \in Region : mem[r] = "freed") \/ "DRIVER_OK" \notin status
      /\ pc \in {"none", "running", "panicked"} => todo = <<>>
  BY Zenon DEF LifeInv
<1>1. PICK h : h = Head(todo)
  BY Zenon
<1>a. /\ todo # <<>> /\ Done /\ h.op = "status" /\ UNCHANGED <<mem, queue_sel>>
      /\ status' = IF h.v = {} /\ version = "Pci" THEN status \cup {"RESET"} ELSE h.v
      /\ IF (h.v = {} /\ version # "Pci") \/ (h.v # {} /\ "RESET" \in status)
         THEN features' = {} /\ posted' = FALSE /\ reg' = Banks(Unset)
         ELSE UNCHANGED <<features, posted, reg>>
  BY <1>1, Zenon DEF SetStatus, At, Arg, Banks
<1>2. h \in In(todo) /\ version' = version
  BY <1>0, <1>1, <1>a, Pop, Zenon DEF Done
<1>3. LiveQueueIsComplete' /\ reg' \in [Queue -> [FieldName -> Val]] /\ features' \subseteq {0, 1}
  <2>1. CASE reg' = Banks(Unset) /\ features' = {}
    BY <1>2, <2>1, LiveReset, Zenon
  <2>2. CASE reg' = reg /\ features' = features
    BY <1>0, <1>2, <2>2, LiveKept, Zenon DEF TypeInv
  <2> QED
    BY <1>a, <2>1, <2>2, Zenon
<1>4. pc = "new" => NewInv'
  BY NewStatus, Zenon
<1>5. pc \in {"drop", "unwind"} => DropInv'
  BY DropStatus, Zenon
<1>6. pc \in {"new", "drop", "unwind"}
  BY <1>0, <1>a, Zenon DEF TypeInv
<1>7. "RESET" \notin h.v /\ (pc \in {"drop", "unwind"} => h.v = {})
  <2>1. CASE pc = "new"
    <3>1. NewAccess(h)
      BY <1>0, <1>2, <2>1, Zenon DEF NewInv
    <3> QED
      BY <1>a, <2>1, <3>1, Zenon DEF NewAccess, Ack
  <2>2. CASE pc \in {"drop", "unwind"}
    BY <1>0, <1>2, <1>a, <2>2, Zenon DEF DropInv, DropAccess
  <2> QED
    BY <1>6, <2>1, <2>2, Zenon
<1>8. version # "Pci" => "RESET" \notin status'
  BY <1>a, <1>7, Zenon
<1>9. ~(\E r \in Region : mem'[r] = "freed") \/ "DRIVER_OK" \notin status'
  <2>1. CASE pc = "new"
    BY <1>4, <2>1, Zenon DEF NewInv
  <2>2. CASE pc # "new"
    BY <1>0, <1>6, <1>7, <1>a, <2>2, Zenon
  <2> QED
    BY <2>1, <2>2, Zenon
<1>10. /\ mem' \in [Region -> {"none", "owned", "freed"}] /\ queue_sel' \in Queue
       /\ queue_sel' = IF Head(todo).op = "sel" THEN Head(todo).v ELSE queue_sel
  BY <1>0, <1>1, <1>a, Zenon DEF TypeInv
<1> QED
  BY <1>3, <1>4, <1>5, <1>8, <1>9, <1>10, <1>a, Access, Zenon

\* A write to a register of a queue keeps it.
LEMMA RegStep ==
  ASSUME LifeInv, WriteReg
  PROVE  LifeInv'
<1>0. /\ TypeInv /\ (version # "Pci" => "RESET" \notin status)
      /\ ~(\E r \in Region : mem[r] = "freed") \/ "DRIVER_OK" \notin status
      /\ pc \in {"none", "running", "panicked"} => todo = <<>>
  BY Zenon DEF LifeInv
<1>1. /\ todo # <<>> /\ Done /\ UNCHANGED <<mem, status, features, queue_sel, posted>>
      /\ queue_sel' = IF Head(todo).op = "sel" THEN Head(todo).v ELSE queue_sel
  BY Zenon DEF WriteReg, At
<1>2. pc \in {"new", "drop", "unwind"}
  BY <1>0, <1>1, Zenon DEF TypeInv
<1>3. /\ TypeInv' /\ LiveQueueIsComplete'
      /\ (pc = "new" => NewInv') /\ (pc \in {"drop", "unwind"} => DropInv')
  BY <1>2, NewReg, DropReg, Zenon
<1>4. /\ mem' \in [Region -> {"none", "owned", "freed"}] /\ queue_sel' \in Queue
      /\ reg' \in [Queue -> [FieldName -> Val]] /\ features' \subseteq {0, 1}
  BY <1>3, Zenon DEF TypeInv
<1> QED
  BY <1>0, <1>1, <1>3, <1>4, Access, Zenon

\* write_driver_features keeps it.
LEMMA FeaturesStep ==
  ASSUME LifeInv, WriteFeatures
  PROVE  LifeInv'
<1>0. /\ TypeInv /\ Ordered(todo, pc) /\ Selected(todo, queue_sel) /\ LiveQueueIsComplete
      /\ (version # "Pci" => "RESET" \notin status)
      /\ ~(\E r \in Region : mem[r] = "freed") \/ "DRIVER_OK" \notin status
      /\ pc \in {"none", "running", "panicked"} => todo = <<>>
      /\ pc = "new" => NewInv
      /\ pc \in {"drop", "unwind"} => DropInv
  BY Zenon DEF LifeInv
<1>1. PICK h : h = Head(todo)
  BY Zenon
<1>a. /\ todo # <<>> /\ Done /\ h.op = "features" /\ features' = features \cup {h.v}
      /\ UNCHANGED <<mem, status, queue_sel, reg, posted>>
      /\ queue_sel' = IF Head(todo).op = "sel" THEN Head(todo).v ELSE queue_sel
  BY <1>1, Zenon DEF WriteFeatures, At, Arg
<1>2. h \in In(todo) /\ version' = version
  BY <1>0, <1>1, <1>a, Pop, Zenon DEF Done
<1>3. pc \in {"new", "drop", "unwind"}
  BY <1>0, <1>a, Zenon DEF TypeInv
<1>4. pc = "new"
  BY <1>0, <1>2, <1>3, <1>a, Zenon DEF DropInv, DropAccess
<1>5. NewInv' /\ LiveQueueIsComplete'
  BY <1>0, <1>2, <1>4, <1>a, NewFeatures, LiveKept, Zenon
<1>6. h.v \in {0, 1}
  BY <1>0, <1>2, <1>4, <1>a, Zenon DEF NewInv, NewAccess
<1>7. /\ mem' \in [Region -> {"none", "owned", "freed"}] /\ queue_sel' \in Queue
      /\ reg' \in [Queue -> [FieldName -> Val]] /\ features' \subseteq {0, 1}
  BY <1>0, <1>6, <1>a, Zenon DEF TypeInv
<1> QED
  BY <1>0, <1>4, <1>5, <1>7, <1>a, Access, Zenon

-----------------------------------------------------------------------------
(* The end of a call, the device and the loops that wait for it *)

\* A call has done its last access and returns.
LEMMA ReturnStep ==
  ASSUME LifeInv, Return
  PROVE  LifeInv'
<1>0. /\ TypeInv /\ LiveQueueIsComplete /\ todo = <<>> /\ err # "AlreadyUsed"
      /\ (version # "Pci" => "RESET" \notin status)
      /\ ~(\E r \in Region : mem[r] = "freed") \/ "DRIVER_OK" \notin status
      /\ (pc = "new" => NewInv) /\ (pc # "new" => DropInv)
  BY Zenon DEF LifeInv, Return
<1>1. /\ pc \in {"new", "drop", "unwind"} /\ pc' = IF pc = "new" THEN "running" ELSE "none"
      /\ todo' = todo /\ err' = err /\ mem' = mem
      /\ driver' = driver /\ version' = version /\ queue_sel' = queue_sel
      /\ UNCHANGED <<status, features, reg, posted>>
  BY Zenon DEF Return, device
<1>2. Ordered(todo, pc)' /\ Selected(todo, queue_sel)' /\ In(todo) = {} /\ In(todo') = {}
  <2>1. todo' = <<>>
    BY <1>0, <1>1, Zenon
  <2> QED
    BY <1>0, <1>1, <2>1, EmptySeq, Zenon DEF Ordered, Selected, In
<1>3. TypeInv'
  BY <1>0, <1>1, Zenon DEF TypeInv
<1>4. LiveQueueIsComplete'
  BY <1>0, <1>1, LiveKept, Zenon
<1>5. CASE pc = "new"
  <2>1. Queues' = Queues /\ Fields' = Fields
    BY <1>1, Stays, Zenon
  <2>2. NewInv'
    BY <1>0, <1>1, <1>2, <1>5, <2>1, Zenon DEF NewInv, WillBe, HasAck, HasReset, Live
  <2> QED
    BY <1>0, <1>1, <1>2, <1>3, <1>4, <1>5, <2>2, Zenon DEF LifeInv
<1>6. CASE pc # "new"
  <2>1. Clean
    BY <1>0, <1>2, <1>6, Zenon DEF DropInv
  <2>2. NoneInv'
    BY <1>1, <2>1, Zenon DEF NoneInv, Clean
  <2> QED
    BY <1>0, <1>1, <1>2, <1>3, <1>4, <1>6, <2>2, Zenon DEF LifeInv
<1> QED
  BY <1>5, <1>6, Zenon

\* queue_used never finds a queue in use: the device has been reset.
LEMMA NeverUsed ==
  ASSUME LifeInv, At("used")
  PROVE  pc = "new" /\ ~Live(queue_sel)
<1>0. /\ TypeInv /\ Ordered(todo, pc) /\ Selected(todo, queue_sel)
      /\ pc \in {"none", "running", "panicked"} => todo = <<>>
      /\ pc = "new" => NewInv
      /\ pc \in {"drop", "unwind"} => DropInv
  BY Zenon DEF LifeInv
<1>1. PICK h : h = Head(todo)
  BY Zenon
<1>2. todo # <<>> /\ h.op = "used" /\ IsSeq(todo)
  BY <1>0, <1>1, Zenon DEF At, TypeInv
<1>3. h \in In(todo) /\ \A o \in In(todo) : o = h \/ o \in In(Tail(todo))
  BY <1>1, <1>2, TailSeq, Zenon
<1>4. (\A y \in In(Tail(todo)) : May(h, y, pc)) /\ queue_sel = h.q
  <2>1. \A y \in In(Tail(todo)) : May(h, y, pc)
    BY <1>0, <1>1, <1>2, OrderedTail, Zenon
  <2>2. PICK d : d = IF Head(todo).op = "sel" THEN Head(todo).v ELSE queue_sel
    BY Zenon
  <2>3. queue_sel = h.q
    BY <1>0, <1>1, <1>2, <2>2, SelectedTail, Zenon DEF Banked
  <2> QED
    BY <2>1, <2>3, Zenon
<1>5. pc = "new"
  BY <1>0, <1>2, <1>3, Zenon DEF TypeInv, DropInv, DropAccess
<1>6. NewInv /\ NewAccess(h)
  BY <1>0, <1>3, <1>5, Zenon DEF NewInv
<1>7. IsWork(h) /\ h.part # "drop" /\ ~IsAck(h) /\ ~IsReset(h) /\ h.q \in Queue
  BY <1>2, <1>6, Zenon DEF IsWork, NewAccess, IsAck, IsReset, Queues
<1>8. ~HasAck /\ ~HasReset
  BY <1>3, <1>4, <1>7, Zenon DEF HasAck, HasReset, May, MayNew
<1>9. "RESET" \notin status
  BY <1>6, <1>8, Zenon DEF NewInv
<1>10. Early(h, h.q)
  BY <1>2, Zenon DEF Early, OfQueue, Sets
<1> QED
  BY <1>3, <1>4, <1>5, <1>6, <1>7, <1>8, <1>9, <1>10, Zenon DEF NewInv

\* The PCI device completes its reset.
LEMMA ResetStep ==
  ASSUME LifeInv, DeviceResets
  PROVE  LifeInv'
<1>0. /\ TypeInv /\ LiveQueueIsComplete /\ Ordered(todo, pc) /\ Selected(todo, queue_sel)
      /\ err # "AlreadyUsed" /\ (version # "Pci" => "RESET" \notin status)
      /\ (pc \in {"none", "running", "panicked"} => todo = <<>>)
      /\ (pc = "none" => NoneInv) /\ (pc \in {"new", "running"} => NewInv)
      /\ (pc \in {"drop", "unwind"} => DropInv)
  BY Zenon DEF LifeInv
<1>1. /\ "RESET" \in status /\ status' = {} /\ features' = {} /\ posted' = FALSE
      /\ reg' = Banks(Unset) /\ driver' = driver /\ version' = version /\ pc' = pc
      /\ todo' = todo /\ err' = err /\ mem' = mem /\ queue_sel' = queue_sel
  BY Zenon DEF DeviceResets, Banks
<1>2. version = "Pci" /\ pc # "none"
  BY <1>0, <1>1, Zenon DEF NoneInv
<1>3. /\ LiveQueueIsComplete' /\ reg' \in [Queue -> [FieldName -> Val]]
      /\ \A q \in Queue : ~Live(q)'
  BY <1>1, LiveReset, Zenon
<1>4. TypeInv'
  BY <1>0, <1>1, <1>3, Zenon DEF TypeInv
<1>5. Ordered(todo, pc)' /\ Selected(todo, queue_sel)'
  BY <1>0, <1>1, Stays, Zenon DEF Selected
<1>6. (HasReset' <=> HasReset) /\ (HasAck' <=> HasAck)
  BY <1>1, Zenon DEF HasReset, HasAck
<1>7. ASSUME pc \in {"new", "running"} PROVE NewInv'
  <2>1. HasAck /\ Will(todo) /\ NewInv
    BY <1>0, <1>1, <1>7, Zenon DEF NewInv
  <2>2. Queues' = Queues /\ Fields' = Fields
    BY <1>1, Stays, Zenon
  <2>3. Will(todo)' /\ WillBe'
    BY <1>1, <2>1, <2>2, Zenon DEF Will, WillBe
  <2>4. (\A o \in In(todo) : NewAccess(o))'
    BY <1>1, <2>1, Stays, Zenon DEF NewInv
  <2>5. ~\E o \in In(todo) : o.part = "probe"
    BY <1>1, <2>1, Zenon DEF NewInv
  <2>6. Untouched' /\ \A q \in Queue : reg'[q]["ready"] # "stopping"
    BY <1>1, BankValues, Zenon DEF Untouched
  <2>7. \A r \in Region : mem'[r] # "freed"
    BY <1>1, <2>1, Zenon DEF NewInv
  <2> QED
    BY <1>1, <1>3, <1>6, <2>1, <2>3, <2>4, <2>5, <2>6, <2>7, Zenon DEF NewInv
<1>8. ASSUME pc \in {"drop", "unwind"} PROVE DropInv'
  <2>1. Clean' /\ ~Clean /\ DropInv
    BY <1>0, <1>1, <1>8, Zenon DEF Clean
  <2>2. \E o \in In(todo') : IsBarrier(o)'
    BY <1>1, <2>1, Stays, Zenon DEF DropInv
  <2>3. (\A o \in In(todo) : DropAccess(o))'
    BY <1>1, <2>1, Stays, Zenon DEF DropInv
  <2> QED
    BY <1>1, <1>2, <1>6, <2>1, <2>2, <2>3, Zenon DEF DropInv
<1> QED
  BY <1>0, <1>1, <1>2, <1>3, <1>4, <1>5, <1>7, <1>8, Zenon DEF LifeInv

\* The MMIO device completes the stop of a queue.
LEMMA QuiesceStep ==
  ASSUME LifeInv, NEW q \in Queue, DeviceQuiesces(q)
  PROVE  LifeInv'
<1>0. /\ TypeInv /\ LiveQueueIsComplete /\ Ordered(todo, pc) /\ Selected(todo, queue_sel)
      /\ err # "AlreadyUsed" /\ (version # "Pci" => "RESET" \notin status)
      /\ (pc \in {"none", "running", "panicked"} => todo = <<>>)
      /\ (pc = "none" => NoneInv) /\ (pc \in {"new", "running"} => NewInv)
      /\ (pc \in {"drop", "unwind"} => DropInv)
      /\ ~(\E r \in Region : mem[r] = "freed") \/ "DRIVER_OK" \notin status
  BY Zenon DEF LifeInv
<1>1. /\ reg[q]["ready"] = "stopping" /\ driver' = driver /\ version' = version /\ pc' = pc
      /\ todo' = todo /\ err' = err /\ mem' = mem /\ queue_sel' = queue_sel
      /\ UNCHANGED <<status, features, posted>>
  BY Zenon DEF DeviceQuiesces
<1>2. /\ reg' \in [Queue -> [FieldName -> Val]]
      /\ \A p \in Queue, g \in FieldName :
           reg'[p][g] = IF p = q /\ g = "ready" THEN "off" ELSE reg[p][g]
  <2>1. reg \in [Queue -> [FieldName -> Val]] /\ "ready" \in FieldName /\ "off" \in Val
    BY <1>0, Zenon DEF TypeInv, FieldName, Val
  <2>2. reg' = [reg EXCEPT ![q] = [@ EXCEPT !["ready"] = "off"]]
    BY Zenon DEF DeviceQuiesces
  <2> QED
    BY <2>1, <2>2, RegWritten
<1>3. ~Clean /\ ~Untouched /\ pc \notin {"none", "new", "running"}
  <2>1. reg # Banks(Unset) /\ reg # Banks(Firmware)
    BY <1>1, BankValues, Zenon
  <2> QED
    BY <1>0, <1>1, <2>1, Zenon DEF Clean, Untouched, NoneInv, NewInv
<1>4. TypeInv'
  BY <1>0, <1>1, <1>2, Zenon DEF TypeInv
<1>5. Ordered(todo, pc)' /\ Selected(todo, queue_sel)'
  BY <1>0, <1>1, Stays, Zenon DEF Selected
<1>6. LiveQueueIsComplete'
  <2> SUFFICES ASSUME NEW p \in Queue, Live(p)', reg'[p].desc # Foreign, version # "Legacy"
               PROVE  reg'[p].num # 0 /\ reg'[p].desc = p /\ reg'[p].drv = p /\ reg'[p].dev = p
    BY <1>1, Zenon DEF LiveQueueIsComplete
  <2>1. reg'[p]["ready"] # "off"
    BY <1>1, Zenon DEF Live
  <2>2. p # q
    BY <1>2, <2>1, Zenon DEF FieldName
  <2>3. \A g \in FieldName : reg'[p][g] = reg[p][g]
    BY <1>2, <2>2, Zenon
  <2>4. Live(p) /\ reg[p].desc # Foreign
    BY <2>1, <2>3, Zenon DEF FieldName, Live
  <2>5. reg[p].num # 0 /\ reg[p].desc = p /\ reg[p].drv = p /\ reg[p].dev = p
    BY <1>0, <2>4, Zenon DEF LiveQueueIsComplete
  <2> QED
    BY <2>3, <2>5, Zenon DEF FieldName
<1>7. ASSUME pc \in {"drop", "unwind"} PROVE DropInv'
  <2>1. DropInv /\ (HasReset' <=> HasReset)
    BY <1>0, <1>1, <1>7, Zenon DEF HasReset
  <2>2. \E o \in In(todo') : IsBarrier(o)'
    BY <1>1, <1>3, <2>1, Stays, Zenon DEF DropInv
  <2>3. (\A o \in In(todo) : DropAccess(o))'
    BY <1>1, <2>1, Stays, Zenon DEF DropInv
  <2>4. ASSUME version = "Modern", NEW p \in Queue, \E o \in In(todo) : Sets(o, p, "ready")
        PROVE  reg'[p]["num"] # 0 /\ \A f \in {"desc", "drv", "dev"} : reg'[p][f] = p
    <3>1. reg[p]["num"] # 0 /\ \A f \in {"desc", "drv", "dev"} : reg[p][f] = p
      BY <2>1, <2>4, Zenon DEF DropInv
    <3>2. \A f \in {"num", "desc", "drv", "dev"} : reg'[p][f] = reg[p][f]
      BY <1>2, Zenon DEF FieldName
    <3> QED
      BY <3>1, <3>2, Zenon
  <2>5. ASSUME version = "Modern", NEW p \in Queue, \E o \in In(todo) : o.op = "reg" /\ o.q = p
        PROVE  \/ \E o \in In(todo) : Waits(o, p)
               \/ reg'[p]["ready"] = "off" /\ \A o \in In(todo) : ~Sets(o, p, "ready")
    <3>1. \/ \E o \in In(todo) : Waits(o, p)
          \/ reg[p]["ready"] = "off" /\ \A o \in In(todo) : ~Sets(o, p, "ready")
      BY <2>1, <2>5, Zenon DEF DropInv
    <3>2. reg[p]["ready"] = "off" => reg'[p]["ready"] = "off"
      BY <1>2, Zenon DEF FieldName
    <3> QED
      BY <3>1, <3>2, Zenon
  <2> QED
    BY <1>1, <1>3, <2>1, <2>2, <2>3, <2>4, <2>5, Zenon DEF DropInv
<1> QED
  BY <1>0, <1>1, <1>3, <1>4, <1>5, <1>6, <1>7, Zenon DEF LifeInv

\* Nothing happens.
LEMMA StutterStep ==
  ASSUME LifeInv, UNCHANGED vars
  PROVE  LifeInv'
<1>1. /\ driver' = driver /\ version' = version /\ pc' = pc /\ todo' = todo /\ err' = err
      /\ mem' = mem /\ queue_sel' = queue_sel /\ UNCHANGED <<status, features, reg, posted>>
  BY Zenon DEF vars
<1>2. TypeInv' <=> TypeInv
  BY <1>1, Zenon DEF TypeInv
<1>3. Ordered(todo, pc)' <=> Ordered(todo, pc)
  BY <1>1, Stays, Zenon
<1>4. Selected(todo, queue_sel)' <=> Selected(todo, queue_sel)
  BY <1>1, Zenon DEF Selected
<1>5. LiveQueueIsComplete' <=> LiveQueueIsComplete
  BY <1>1, Zenon DEF LiveQueueIsComplete, Live
<1>6. NoneInv' <=> NoneInv
  BY <1>1, Zenon DEF NoneInv
<1>7. NewInv' <=> NewInv
  <2>1. (HasAck' <=> HasAck) /\ (HasReset' <=> HasReset) /\ (Untouched' <=> Untouched)
    BY <1>1, Zenon DEF HasAck, HasReset, Untouched
  <2>2. /\ Queues' = Queues /\ Fields' = Fields /\ (Will(todo)' <=> Will(todo))
        /\ \A o : NewAccess(o)' <=> NewAccess(o)
        /\ \A o, p : Early(o, p)' <=> Early(o, p)
    BY <1>1, Stays, Zenon
  <2>3. (WillBe' <=> WillBe) /\ \A p : Live(p)' <=> Live(p)
    BY <1>1, <2>2, Zenon DEF WillBe, Live
  <2> QED
    BY <1>1, <2>1, <2>2, <2>3, Zenon DEF NewInv
<1>8. DropInv' <=> DropInv
  <2>1. (HasReset' <=> HasReset) /\ (Clean' <=> Clean)
    BY <1>1, Zenon DEF HasReset, Clean
  <2>2. \A o : (IsBarrier(o)' <=> IsBarrier(o)) /\ (DropAccess(o)' <=> DropAccess(o))
    BY <1>1, Stays, Zenon
  <2> QED
    BY <1>1, <2>1, <2>2 DEF DropInv
<1> QED
  BY <1>1, <1>2, <1>3, <1>4, <1>5, <1>6, <1>7, <1>8, Zenon DEF LifeInv

\* A loop that waits for the device ends.
LEMMA LoopStep ==
  ASSUME LifeInv, ReadReady \/ ReadStatus
  PROVE  LifeInv'
<1>1. CASE UNCHANGED vars
  BY <1>1, StutterStep, Zenon
<1>2. CASE ~UNCHANGED vars
  <2>1. /\ todo # <<>> /\ Done /\ UNCHANGED <<mem, device>>
        /\ Head(todo).op \in {"wait", "wait_reset"}
        /\ Head(todo).op = "wait" => reg[queue_sel]["ready"] = "off"
        /\ Head(todo).op = "wait_reset" => status = {}
    BY <1>2, Zenon DEF ReadReady, ReadStatus, At
  <2>2. UNCHANGED <<mem, status, features, queue_sel, reg, posted>>
    BY <2>1, Zenon DEF device
  <2> QED
    BY <2>1, <2>2, Quiet, Zenon
<1> QED
  BY <1>1, <1>2, Zenon

\* The accesses that do not write a register of a queue.
LEMMA QuietStep ==
  ASSUME LifeInv, TouchRegister \/ WriteSel \/ FreeRegion \/ AllocRegion \/ PostBuffers
  PROVE  LifeInv'
<1>1. CASE TouchRegister
  BY <1>1, Quiet, Zenon DEF TouchRegister, At, device
<1>2. CASE WriteSel
  BY <1>2, Quiet, Zenon DEF WriteSel, At, Arg
<1>3. CASE FreeRegion
  BY <1>3, Quiet, Zenon DEF FreeRegion, At, Arg, device
<1>4. CASE AllocRegion
  BY <1>4, Quiet, Zenon DEF AllocRegion, At, Arg, device
<1>5. CASE PostBuffers
  <2>1. /\ todo # <<>> /\ Done /\ Head(todo).op = "post"
        /\ UNCHANGED <<mem, status, features, queue_sel, reg>>
    BY <1>5, Zenon DEF PostBuffers, At
  <2> QED
    BY <2>1, Quiet, Zenon
<1> QED
  BY <1>1, <1>2, <1>3, <1>4, <1>5, Zenon

\* The first driver finds what a boot loader may have left.
LEMMA InitInv ==
  ASSUME Drivers \subseteq AllDrivers, Init
  PROVE  LifeInv
<1>1. /\ pc = "none" /\ todo = <<>> /\ err = "none" /\ mem = [r \in Region |-> "none"]
      /\ status = {} /\ features = {} /\ queue_sel = 0 /\ posted = FALSE
      /\ driver \in AllDrivers /\ version \in {"Legacy", "Modern", "Pci"}
      /\ reg = Banks(Unset) \/ reg = Banks(Firmware)
  BY Zenon DEF Init, Banks
<1>2. TypeInv
  <2>1. reg \in [Queue -> [FieldName -> Val]]
    BY <1>1, BankValues, Zenon DEF Queue
  <2> QED
    BY <1>1, <2>1, EmptySeq, Zenon DEF TypeInv, Queue
<1>3. Ordered(todo, pc) /\ Selected(todo, queue_sel)
  BY <1>1, EmptySeq, Zenon
<1>4. LiveQueueIsComplete
  <2> SUFFICES ASSUME NEW q \in Queue, Live(q), reg[q].desc # Foreign, version # "Legacy"
               PROVE  FALSE
    BY Zenon DEF LiveQueueIsComplete
  <2>1. reg = Banks(Unset)
    BY <1>1, BankValues, Zenon
  <2> QED
    BY <2>1, BankValues, Zenon DEF Live
<1>5. NoneInv
  BY <1>1, Zenon DEF NoneInv
<1> QED
  BY <1>1, <1>2, <1>3, <1>4, <1>5, Zenon DEF LifeInv

\* The invariant says what the properties say.
LEMMA LifeInvImplies ==
  ASSUME LifeInv
  PROVE  NoAccessAfterFree /\ RunsOnlyWhenSetUp /\ LiveQueueIsComplete /\ CleanHandover
<1>0. /\ TypeInv /\ LiveQueueIsComplete /\ err # "AlreadyUsed"
      /\ (version # "Pci" => "RESET" \notin status)
      /\ (pc = "none" => NoneInv) /\ (pc \in {"new", "running"} => NewInv)
      /\ ~(\E r \in Region : mem[r] = "freed") \/ "DRIVER_OK" \notin status
  BY Zenon DEF LifeInv
<1>1. NoAccessAfterFree
  BY <1>0, Zenon DEF NoAccessAfterFree, Reaches
<1>2. RunsOnlyWhenSetUp
  <2> SUFFICES ASSUME "DRIVER_OK" \in status, pc \in {"new", "running"}
               PROVE  /\ features = {0, 1}
                      /\ \A q \in Queues : Live(q) /\ mem[q] = "owned" /\ reg[q].num # 0
    BY Zenon DEF RunsOnlyWhenSetUp
  <2>1. /\ WillBe /\ \A o \in In(todo) : /\ o.op \notin {"features", "reg"}
                                         /\ o.op = "alloc" => o.v = Buffers
    BY <1>0, Zenon DEF NewInv, NewAccess
  <2>2. features = {0, 1}
    <3>1. features \subseteq {0, 1}
      BY <1>0, Zenon DEF TypeInv
    <3>2. 0 \in features /\ 1 \in features
      BY <2>1, Zenon DEF WillBe
    <3> QED
      BY <3>1, <3>2, Zenon
  <2>3. ASSUME NEW q \in Queues PROVE mem[q] = "owned" /\ \A f \in Fields : reg[q][f] = Value(q, f)
    <3>1. mem[q] = "owned"
      <4>1. q # Buffers
        BY DEF Queues, Queue, Buffers
      <4> QED
        BY <2>1, <4>1, Zenon DEF WillBe
    <3>2. \A f \in Fields : reg[q][f] = Value(q, f)
      BY <2>1 DEF WillBe, Sets
    <3> QED
      BY <3>1, <3>2, Zenon
  <2>4. ASSUME NEW q \in Queues PROVE Live(q) /\ reg[q].num # 0
    <3>1. reg[q]["num"] = 2 /\ (version = "Legacy" => reg[q]["desc"] = q)
          /\ (version # "Legacy" => reg[q]["ready"] = "on")
      BY <2>3, Zenon DEF Fields, FieldName, Value, Size
    <3>2. q # Null
      BY DEF Queues, Queue, Null
    <3> QED
      BY <3>1, <3>2 DEF Live
  <2> QED
    BY <2>2, <2>3, <2>4, Zenon
<1>3. CleanHandover
  <2> SUFFICES ASSUME pc = "none", NEW r \in Region, mem[r] = "freed"
               PROVE  status = {} /\ ~posted /\ \A q \in Queue : ~Live(q)
    BY <1>0, Zenon DEF CleanHandover
  <2>1. status = {} /\ ~posted /\ reg = Banks(Unset)
    BY <1>0, Zenon DEF NoneInv
  <2> QED
    BY <2>1, BankValues, Zenon DEF Live
<1> QED
  BY <1>0, <1>1, <1>2, <1>3, Zenon

-----------------------------------------------------------------------------
(* One run of accesses after another *)

\* One access, with its queue selected.
LEMMA SingleSeq ==
  ASSUME NEW p, NEW o, NEW c, ~Banked(o) \/ c = o.q
  PROVE  IsSeq(<<o>>) /\ In(<<o>>) = {o} /\ Ordered(<<o>>, p) /\ Selected(<<o>>, c)
<1>1. <<o>> \in Seq({o}) /\ Len(<<o>>) = 1 /\ <<o>>[1] = o
  OBVIOUS
<1>2. In(<<o>>) = {o}
  BY <1>1 DEF In
<1>3. Ordered(<<o>>, p)
  BY <1>1 DEF Ordered
<1>4. Selected(<<o>>, c)
  <2> SUFFICES ASSUME Banked(<<o>>[1])
               PROVE  c = <<o>>[1].q
    BY <1>1 DEF Selected
  <2> QED
    BY <1>1, Zenon
<1> QED
  BY <1>1, <1>2, <1>3, <1>4, Zenon DEF IsSeq

\* Two runs of accesses, one after the other.
LEMMA CatSeq ==
  ASSUME NEW s, IsSeq(s), NEW t, IsSeq(t)
  PROVE  /\ IsSeq(s \o t) /\ Len(s) \in Nat /\ Len(t) \in Nat /\ Len(s \o t) = Len(s) + Len(t)
         /\ \A i \in 1 .. Len(s) + Len(t) :
              (s \o t)[i] = IF i <= Len(s) THEN s[i] ELSE t[i - Len(s)]
         /\ In(s \o t) = In(s) \cup In(t)
<1>1. PICK S : s \in Seq(S)
  BY Zenon DEF IsSeq
<1>2. PICK T : t \in Seq(T)
  BY Zenon DEF IsSeq
<1>3. s \in Seq(S \cup T) /\ t \in Seq(S \cup T)
  BY <1>1, <1>2
<1>4. /\ s \o t \in Seq(S \cup T) /\ Len(s) \in Nat /\ Len(t) \in Nat
      /\ Len(s \o t) = Len(s) + Len(t)
      /\ \A i \in 1 .. Len(s) + Len(t) :
           (s \o t)[i] = IF i <= Len(s) THEN s[i] ELSE t[i - Len(s)]
  BY <1>3
<1>5. ASSUME NEW o \in In(s \o t) PROVE o \in In(s) \/ o \in In(t)
  <2>1. PICK i \in 1 .. Len(s) + Len(t) : o = (s \o t)[i]
    BY <1>4, <1>5, Zenon DEF In
  <2>2. CASE i <= Len(s)
    <3>1. i \in 1 .. Len(s) /\ o = s[i]
      BY <1>4, <2>1, <2>2
    <3> QED
      BY <3>1, Zenon DEF In
  <2>3. CASE ~(i <= Len(s))
    <3>1. i - Len(s) \in 1 .. Len(t) /\ o = t[i - Len(s)]
      BY <1>4, <2>1, <2>3
    <3> QED
      BY <3>1, Zenon DEF In
  <2> QED
    BY <2>2, <2>3, Zenon
<1>6. ASSUME NEW o \in In(s) PROVE o \in In(s \o t)
  <2>1. PICK i \in 1 .. Len(s) : o = s[i]
    BY Zenon DEF In
  <2>2. i \in 1 .. Len(s \o t) /\ o = (s \o t)[i]
    BY <1>4, <2>1
  <2> QED
    BY <2>2, Zenon DEF In
<1>7. ASSUME NEW o \in In(t) PROVE o \in In(s \o t)
  <2>1. PICK i \in 1 .. Len(t) : o = t[i]
    BY Zenon DEF In
  <2>2. /\ i + Len(s) \in 1 .. Len(s \o t) /\ (i + Len(s)) - Len(s) = i
        /\ ~(i + Len(s) <= Len(s))
    BY <1>4, <2>1
  <2>3. o = (s \o t)[i + Len(s)]
    BY <1>4, <2>1, <2>2, Zenon
  <2> QED
    BY <2>2, <2>3, Zenon DEF In
<1> QED
  BY <1>4, <1>5, <1>6, <1>7, Zenon DEF IsSeq

\* Two ordered runs make one when each access of the first may precede those of the second.
LEMMA CatOrdered ==
  ASSUME NEW p, NEW s, IsSeq(s), NEW t, IsSeq(t), Ordered(s, p), Ordered(t, p),
         \A x \in In(s), y \in In(t) : May(x, y, p)
  PROVE  Ordered(s \o t, p)
<1>1. /\ Len(s) \in Nat /\ Len(t) \in Nat /\ Len(s \o t) = Len(s) + Len(t)
      /\ \A i \in 1 .. Len(s) + Len(t) :
           (s \o t)[i] = IF i <= Len(s) THEN s[i] ELSE t[i - Len(s)]
  BY CatSeq, Zenon
<1> SUFFICES ASSUME NEW i \in 1 .. Len(s) + Len(t), NEW j \in 1 .. Len(s) + Len(t), i < j
             PROVE  May((s \o t)[i], (s \o t)[j], p)
  BY <1>1, Zenon DEF Ordered
<1>2. CASE j <= Len(s)
  <2>1. i \in 1 .. Len(s) /\ j \in 1 .. Len(s) /\ (s \o t)[i] = s[i] /\ (s \o t)[j] = s[j]
    BY <1>1, <1>2
  <2> QED
    BY <2>1, Zenon DEF Ordered
<1>3. CASE i <= Len(s) /\ ~(j <= Len(s))
  <2>1. /\ i \in 1 .. Len(s) /\ j - Len(s) \in 1 .. Len(t)
        /\ (s \o t)[i] = s[i] /\ (s \o t)[j] = t[j - Len(s)]
    BY <1>1, <1>3
  <2> QED
    BY <2>1, Zenon DEF In
<1>4. CASE ~(i <= Len(s))
  <2>1. /\ i - Len(s) \in 1 .. Len(t) /\ j - Len(s) \in 1 .. Len(t) /\ i - Len(s) < j - Len(s)
        /\ (s \o t)[i] = t[i - Len(s)] /\ (s \o t)[j] = t[j - Len(s)]
    BY <1>1, <1>4
  <2> QED
    BY <2>1, Zenon DEF Ordered
<1> QED
  BY <1>1, <1>2, <1>3, <1>4, Zenon

\* t makes its own selections.
LEMMA CatSelected ==
  ASSUME NEW s, IsSeq(s), NEW t, IsSeq(t), NEW c, Selected(s, c), Selected(t, Null),
         \A o \in In(t) : Banked(o) => o.q # Null
  PROVE  Selected(s \o t, c)
<1>1. /\ Len(s) \in Nat /\ Len(t) \in Nat /\ Len(s \o t) = Len(s) + Len(t)
      /\ \A i \in 1 .. Len(s) + Len(t) :
           (s \o t)[i] = IF i <= Len(s) THEN s[i] ELSE t[i - Len(s)]
  BY CatSeq, Zenon
<1> DEFINE u == s \o t
<1>2. \A i \in 1 .. Len(s) : u[i] = s[i]
  BY <1>1
<1>3. \A i \in 1 .. Len(t) : u[i + Len(s)] = t[i]
  <2> TAKE i \in 1 .. Len(t)
  <2>1. i + Len(s) \in 1 .. Len(s) + Len(t) /\ ~(i + Len(s) <= Len(s)) /\ (i + Len(s)) - Len(s) = i
    BY <1>1
  <2> QED
    BY <1>1, <2>1, Zenon
<1> HIDE DEF u
<1> SUFFICES ASSUME NEW i \in 1 .. Len(s) + Len(t), Banked(u[i])
             PROVE  /\ c = u[i].q \/ \E k \in 1 .. i - 1 : Selects(u[k], u[i].q)
                    /\ \A j \in 1 .. i - 1 : u[j].op = "sel" /\ u[j].v # u[i].q =>
                         \E k \in j + 1 .. i - 1 : Selects(u[k], u[i].q)
  BY <1>1, Zenon DEF Selected, u
<1>4. CASE i <= Len(s)
  <2>1. i \in 1 .. Len(s) /\ \A k \in 1 .. i - 1 : k \in 1 .. Len(s)
    BY <1>1, <1>4
  <2>2. \A j \in 1 .. i - 1 : \A k \in j + 1 .. i - 1 : k \in 1 .. Len(s)
    BY <1>1, <1>4
  <2>3. u[i] = s[i] /\ (\A k \in 1 .. i - 1 : u[k] = s[k])
    BY <1>2, <2>1, Zenon
  <2>4. \A j \in 1 .. i - 1 : \A k \in j + 1 .. i - 1 : u[k] = s[k]
    BY <1>2, <2>2, Zenon
  <2>5. /\ c = s[i].q \/ \E k \in 1 .. i - 1 : Selects(s[k], s[i].q)
        /\ \A j \in 1 .. i - 1 : s[j].op = "sel" /\ s[j].v # s[i].q =>
             \E k \in j + 1 .. i - 1 : Selects(s[k], s[i].q)
    BY <2>1, <2>3, Zenon DEF Selected
  <2> QED
    BY <2>3, <2>4, <2>5, Zenon
<1>5. CASE ~(i <= Len(s))
  <2>1. PICK m \in 1 .. Len(t) : i = m + Len(s)
    <3>1. i - Len(s) \in 1 .. Len(t) /\ i = (i - Len(s)) + Len(s)
      BY <1>1, <1>5
    <3> QED
      BY <3>1, Zenon
  <2> DEFINE q == u[i].q
  <2>2. u[i] = t[m] /\ t[m] \in In(t) /\ q # Null
    BY <1>3, <2>1, Zenon DEF In
  <2>3. /\ Null = q \/ \E k \in 1 .. m - 1 : Selects(t[k], q)
        /\ \A j \in 1 .. m - 1 : t[j].op = "sel" /\ t[j].v # q =>
             \E k \in j + 1 .. m - 1 : Selects(t[k], q)
    BY <2>2, Zenon DEF Selected
  <2> HIDE DEF q
  <2>4. PICK k \in 1 .. m - 1 : Selects(t[k], q)
    BY <2>2, <2>3, Zenon
  <2>5. k + Len(s) \in 1 .. i - 1 /\ k \in 1 .. Len(t)
    BY <1>1, <2>1, <2>4
  <2>6. Selects(u[k + Len(s)], q)
    BY <1>3, <2>4, <2>5, Zenon
  <2>7. ASSUME NEW j \in 1 .. i - 1, u[j].op = "sel", u[j].v # q
        PROVE  \E l \in j + 1 .. i - 1 : Selects(u[l], q)
    <3>1. CASE j <= Len(s)
      <4>1. k + Len(s) \in j + 1 .. i - 1
        BY <1>1, <2>1, <2>4, <3>1
      <4> QED
        BY <2>6, <4>1, Zenon
    <3>2. CASE ~(j <= Len(s))
      <4>1. PICK n \in 1 .. m - 1 : j = n + Len(s)
        <5>1. j - Len(s) \in 1 .. m - 1 /\ j = (j - Len(s)) + Len(s)
          BY <1>1, <2>1, <3>2
        <5> QED
          BY <5>1, Zenon
      <4>2. n \in 1 .. Len(t)
        BY <1>1, <2>1, <4>1
      <4>3. t[n].op = "sel" /\ t[n].v # q
        BY <1>3, <2>7, <4>1, <4>2, Zenon
      <4>4. PICK l \in n + 1 .. m - 1 : Selects(t[l], q)
        BY <2>3, <4>3, Zenon
      <4>5. l \in 1 .. Len(t) /\ l + Len(s) \in j + 1 .. i - 1
        BY <1>1, <2>1, <4>1, <4>4
      <4> QED
        BY <1>3, <4>4, <4>5, Zenon
    <3> QED
      BY <3>1, <3>2, Zenon
  <2> QED
    BY <2>5, <2>6, <2>7, Zenon DEF q
<1> QED
  BY <1>4, <1>5, Zenon

\* The accesses of one queue, after its selection.
OneQueue(t, q) ==
  /\ IsSeq(t) /\ Len(t) > 0 /\ Selects(t[1], q)
  /\ \A o \in In(t) : (o.op = "sel" => o.v = q) /\ (Banked(o) => o.q = q)

\* A run that begins by selecting its queue works whatever was selected before.
LEMMA OneQueueSelected ==
  ASSUME NEW t, NEW q, OneQueue(t, q), NEW c
  PROVE  Selected(t, c)
<1> SUFFICES ASSUME NEW i \in 1 .. Len(t), Banked(t[i])
             PROVE  /\ c = t[i].q \/ \E k \in 1 .. i - 1 : Selects(t[k], t[i].q)
                    /\ \A j \in 1 .. i - 1 : t[j].op = "sel" /\ t[j].v # t[i].q =>
                         \E k \in j + 1 .. i - 1 : Selects(t[k], t[i].q)
  BY Zenon DEF Selected
<1>1. Len(t) \in Nat
  <2>1. PICK S : t \in Seq(S)
    BY Zenon DEF OneQueue, IsSeq
  <2> QED
    BY <2>1
<1>2. t[i].q = q
  BY Zenon DEF OneQueue, In
<1>3. i # 1
  BY Zenon DEF OneQueue, Selects, Banked
<1>4. 1 \in 1 .. i - 1
  BY <1>1, <1>3
<1>5. ASSUME NEW j \in 1 .. i - 1, t[j].op = "sel" PROVE t[j].v = q
  <2>1. j \in 1 .. Len(t)
    BY <1>1
  <2> QED
    BY <1>5, <2>1, Zenon DEF OneQueue, In
<1> QED
  BY <1>2, <1>4, <1>5, Zenon DEF OneQueue

\* Such a run may go on with its queue.
LEMMA OneQueueCat ==
  ASSUME NEW s, NEW q, OneQueue(s, q), NEW t, IsSeq(t),
         \A o \in In(t) : (o.op = "sel" => o.v = q) /\ (Banked(o) => o.q = q)
  PROVE  OneQueue(s \o t, q)
<1>1. /\ IsSeq(s \o t) /\ Len(s) \in Nat /\ Len(t) \in Nat /\ Len(s \o t) = Len(s) + Len(t)
      /\ \A i \in 1 .. Len(s) + Len(t) :
           (s \o t)[i] = IF i <= Len(s) THEN s[i] ELSE t[i - Len(s)]
      /\ In(s \o t) = In(s) \cup In(t)
  BY CatSeq, Zenon DEF OneQueue
<1>2. Len(s \o t) > 0 /\ (s \o t)[1] = s[1]
  BY <1>1 DEF OneQueue
<1> QED
  BY <1>1, <1>2, Zenon DEF OneQueue

-----------------------------------------------------------------------------
(* What `new` is made of *)

Row(t) == IsSeq(t) /\ (\A o \in In(t) : NewAccess(o)) /\ Ordered(t, "new")

\* x may come before, and y after, what belongs to the queues from n on.
Before(x, n) == ~IsFinish(x) /\ (x.op = "reg" /\ x.f = LiveField => x.q < n)
After(y, n) ==
  /\ ~IsAck(y) /\ ~IsReset(y) /\ y.part # "probe"
  /\ y.op \in {"used", "reg"} => y.q >= n

\* Neither a status nor a register of a queue, nor work.
Easy(o) ==
  /\ NewAccess(o) /\ o.part # "probe"
  /\ o.op \in {"touch", "sel", "check", "alloc", "post"} /\ (o.op = "alloc" => o.v = Buffers)
EasySeq(t) == IsSeq(t) /\ \A o \in In(t) : Easy(o)

\* The queues are set up in their order: what is done for one comes before the next.
LEMMA BeforeAfter ==
  ASSUME NEW n \in Nat, NEW x, NewAccess(x), Before(x, n), NEW y, NewAccess(y), After(y, n)
  PROVE  May(x, y, "new")
<1>1. x.op = "reg" => x.q \in Nat
  BY DEF NewAccess, Queues, Queue
<1>2. y.op \in {"used", "reg"} => y.q \in Nat
  BY DEF NewAccess, Queues, Queue
<1>3. x.op = "reg" /\ x.f = LiveField => ~OfQueue(y, x.q)
  BY <1>1, <1>2 DEF Before, After, OfQueue
<1>4. MayNew(x, y)
  BY <1>3, Zenon DEF MayNew, Before, After
<1>5. MayDrop(x, y, "new")
  BY Zenon DEF MayDrop, NewAccess
<1> QED
  BY <1>4, <1>5, Zenon DEF May

\* Accesses that may come anywhere in `new`.
LEMMA EasyFacts ==
  ASSUME NEW o, Easy(o), NEW n
  PROVE  NewAccess(o) /\ ~Banked(o) /\ Before(o, n) /\ After(o, n)
  BY Zenon DEF Easy, Banked, Before, After, IsFinish, IsAck, IsReset

\* Two parts of `new` in a row.
LEMMA RowCat ==
  ASSUME NEW n \in Nat, NEW s, Row(s), \A x \in In(s) : Before(x, n),
         NEW t, Row(t), \A y \in In(t) : After(y, n)
  PROVE  Row(s \o t) /\ In(s \o t) = In(s) \cup In(t)
<1>1. IsSeq(s \o t) /\ In(s \o t) = In(s) \cup In(t)
  BY CatSeq, Zenon DEF Row
<1>2. \A x \in In(s), y \in In(t) : May(x, y, "new")
  BY BeforeAfter, Zenon DEF Row
<1>3. Ordered(s \o t, "new")
  BY <1>2, CatOrdered, Zenon DEF Row
<1> QED
  BY <1>1, <1>3, Zenon DEF Row

\* One access of `new`.
LEMMA RowOne ==
  ASSUME NEW o, NewAccess(o)
  PROVE  Row(<<o>>) /\ In(<<o>>) = {o}
<1>1. IsSeq(<<o>>) /\ In(<<o>>) = {o} /\ Ordered(<<o>>, "new")
  BY SingleSeq, Zenon
<1> QED
  BY <1>1, Zenon DEF Row

\* Accesses of no queue need none selected.
LEMMA Unbanked ==
  ASSUME NEW t, IsSeq(t), \A o \in In(t) : ~Banked(o), NEW c
  PROVE  Selected(t, c)
  BY Zenon DEF Selected, In

\* A run of accesses that may come anywhere.
LEMMA EasyRow ==
  ASSUME NEW t, EasySeq(t)
  PROVE  Row(t) /\ Selected(t, Null)
<1>1. \A o \in In(t) : NewAccess(o) /\ ~Banked(o) /\ Before(o, 0) /\ After(o, 0)
  BY EasyFacts, Zenon DEF EasySeq
<1>2. ASSUME NEW i \in 1 .. Len(t), NEW j \in 1 .. Len(t), i < j PROVE May(t[i], t[j], "new")
  <2>1. t[i] \in In(t) /\ t[j] \in In(t)
    BY Zenon DEF In
  <2> QED
    BY <1>1, <2>1, BeforeAfter, Zenon
<1> QED
  BY <1>1, <1>2, Unbanked, Zenon DEF Row, Ordered, EasySeq

\* No access at all.
LEMMA EasyEmpty == EasySeq(<<>>)
  BY EmptySeq, Zenon DEF EasySeq

\* Two such runs.
LEMMA EasyCat ==
  ASSUME NEW s, EasySeq(s), NEW t, EasySeq(t)
  PROVE  EasySeq(s \o t)
  BY CatSeq, Zenon DEF EasySeq

\* One such access.
LEMMA EasyOne ==
  ASSUME NEW o, Easy(o)
  PROVE  EasySeq(<<o>>)
<1>1. IsSeq(<<o>>) /\ In(<<o>>) = {o}
  BY EasyFacts, SingleSeq, Zenon
<1> QED
  BY <1>1, Zenon DEF EasySeq

Known == driver \in AllDrivers /\ version \in {"Legacy", "Modern", "Pci"}

\* The accesses of `new` that may come anywhere: reads, allocations of buffers, notifications.
LEMMA EasyAccesses ==
  ASSUME Known, NEW part \in {"begin", "new", "fill"}, part = "fill" => driver = "net"
  PROVE  /\ EasySeq(Touch(part)) /\ EasySeq(Alloc(part, Buffers)) /\ EasySeq(Post(part))
         /\ part = "new" => EasySeq(Check(part))
         /\ \A q \in Queue : EasySeq(Sel(part, q))
         /\ EasySeq(NotifyQueue(part))
<1>1. EasySeq(Touch(part))
  <2>1. Easy([op |-> "touch", part |-> part])
    BY Zenon DEF Easy, NewAccess
  <2> QED
    BY <2>1, EasyOne, Zenon DEF Touch
<1>2. EasySeq(Alloc(part, Buffers))
  <2>1. Easy([op |-> "alloc", part |-> part, v |-> Buffers])
    BY Zenon DEF Easy, NewAccess, Region
  <2> QED
    BY <2>1, EasyOne, Zenon DEF Alloc
<1>3. EasySeq(Post(part))
  <2>1. Easy([op |-> "post", part |-> part])
    BY Zenon DEF Easy, NewAccess
  <2> QED
    BY <2>1, EasyOne, Zenon DEF Post
<1>4. ASSUME part = "new" PROVE EasySeq(Check(part))
  <2>1. Easy([op |-> "check", part |-> part])
    BY <1>4, Zenon DEF Easy, NewAccess
  <2> QED
    BY <2>1, EasyOne, Zenon DEF Check
<1>5. ASSUME NEW q \in Queue PROVE EasySeq(Sel(part, q))
  <2>1. Easy([op |-> "sel", part |-> part, v |-> q])
    BY Zenon DEF Easy, NewAccess
  <2> QED
    BY <2>1, EasyOne, Zenon DEF Sel
<1>6. EasySeq(NotifyQueue(part))
  <2>1. EasySeq(Sel(part, 0))
    BY <1>5, Zenon DEF Queue
  <2>2. EasySeq(Sel(part, 0) \o Touch(part))
    BY <1>1, <2>1, EasyCat, Zenon
  <2>3. EasySeq(Sel(part, 0) \o Touch(part) \o Touch(part))
    BY <1>1, <2>2, EasyCat, Zenon
  <2> QED
    BY <1>1, <2>3, Zenon DEF NotifyQueue
<1> QED
  BY <1>1, <1>2, <1>3, <1>4, <1>5, <1>6, Zenon

\* A row to which accesses are added that come after the reset.
Begun(t) == Row(t) /\ \A x \in In(t) : Before(x, 0) /\ ~Banked(x) /\ x.part # "probe"

\* Two parts of begin_init in a row.
LEMMA BegunCat ==
  ASSUME NEW s, Begun(s), NEW t, Begun(t), \A y \in In(t) : After(y, 0)
  PROVE  Begun(s \o t) /\ In(s \o t) = In(s) \cup In(t)
<1>0. 0 \in Nat /\ Row(s) /\ Row(t) /\ \A x \in In(s) : Before(x, 0)
  BY Zenon DEF Begun
<1>1. Row(s \o t) /\ In(s \o t) = In(s) \cup In(t)
  BY <1>0, RowCat
<1> QED
  BY <1>1, Zenon DEF Begun

\* Such accesses in begin_init.
LEMMA EasyBegun ==
  ASSUME NEW t, EasySeq(t)
  PROVE  Begun(t) /\ \A y \in In(t) : After(y, 0)
<1>1. \A o \in In(t) : Before(o, 0) /\ After(o, 0) /\ ~Banked(o)
  BY EasyFacts, Zenon DEF EasySeq
<1> QED
  BY <1>1, EasyRow, Zenon DEF Begun, After

\* The writes of begin_init to the status and the features.
LEMMA BeginAccesses ==
  /\ Begun(Status("begin", {})) /\ \A o \in In(Status("begin", {})) : IsReset(o)
  /\ Begun(Status("begin", Ack)) /\ \A o \in In(Status("begin", Ack)) : IsAck(o)
  /\ \E o \in In(Status("begin", Ack)) : IsAck(o)
  /\ \E o \in In(Status("begin", {})) : IsReset(o)
  /\ Begun(Status("begin", Ack \cup {"FEATURES_OK"}))
  /\ \A o \in In(Status("begin", Ack \cup {"FEATURES_OK"})) : After(o, 0)
  /\ \A w \in {0, 1} : /\ Begun(Feature("begin", w))
                       /\ \A o \in In(Feature("begin", w)) : After(o, 0)
                       /\ \E o \in In(Feature("begin", w)) : o.op = "features" /\ o.v = w
<1> DEFINE S(b) == [op |-> "status", part |-> "begin", v |-> b]
<1> DEFINE F(w) == [op |-> "features", part |-> "begin", v |-> w]
<1>1. "DRIVER_OK" \notin Ack /\ "RESET" \notin Ack /\ Ack # {} /\ Ack # Ack \cup {"FEATURES_OK"}
  BY DEF Ack
<1>2. Row(Status("begin", {})) /\ In(Status("begin", {})) = {S({})}
  <2>1. NewAccess(S({}))
    BY Zenon DEF NewAccess
  <2> QED
    BY <2>1, RowOne, Zenon DEF Status
<1>3. Row(Status("begin", Ack)) /\ In(Status("begin", Ack)) = {S(Ack)}
  <2>1. NewAccess(S(Ack))
    BY <1>1, Zenon DEF NewAccess
  <2> QED
    BY <2>1, RowOne, Zenon DEF Status
<1>4. /\ Row(Status("begin", Ack \cup {"FEATURES_OK"}))
      /\ In(Status("begin", Ack \cup {"FEATURES_OK"})) = {S(Ack \cup {"FEATURES_OK"})}
  <2>1. NewAccess(S(Ack \cup {"FEATURES_OK"}))
    BY <1>1, Zenon DEF NewAccess
  <2> QED
    BY <2>1, RowOne, Zenon DEF Status
<1>5. ASSUME NEW w \in {0, 1}
      PROVE  Row(Feature("begin", w)) /\ In(Feature("begin", w)) = {F(w)}
  <2>1. NewAccess(F(w))
    BY Zenon DEF NewAccess
  <2> QED
    BY <2>1, RowOne, Zenon DEF Feature
<1>6. /\ Begun(Status("begin", {})) /\ \A o \in In(Status("begin", {})) : IsReset(o)
  BY <1>2 DEF Begun, Before, Banked, IsReset, IsFinish
<1>7. Begun(Status("begin", Ack)) /\ \A o \in In(Status("begin", Ack)) : IsAck(o)
  BY <1>1, <1>3 DEF Begun, Before, Banked, IsAck, IsFinish
<1>8. /\ \E o \in In(Status("begin", Ack)) : IsAck(o)
      /\ \E o \in In(Status("begin", {})) : IsReset(o)
  BY <1>2, <1>3, <1>6, <1>7, Zenon
<1>9. /\ Begun(Status("begin", Ack \cup {"FEATURES_OK"}))
      /\ \A o \in In(Status("begin", Ack \cup {"FEATURES_OK"})) : After(o, 0)
  <2> DEFINE o == S(Ack \cup {"FEATURES_OK"})
  <2>1. /\ o.op = "status" /\ o.part = "begin" /\ "DRIVER_OK" \notin o.v
        /\ o.v # {} /\ o.v # Ack
    BY <1>1, Zenon
  <2>2. /\ Row(Status("begin", Ack \cup {"FEATURES_OK"}))
        /\ In(Status("begin", Ack \cup {"FEATURES_OK"})) = {o}
    BY <1>4, Zenon
  <2> HIDE DEF o
  <2>3. Before(o, 0) /\ After(o, 0) /\ ~Banked(o) /\ o.part # "probe"
    BY <2>1, Zenon DEF Before, After, Banked, IsAck, IsReset, IsFinish
  <2> QED
    BY <2>2, <2>3, Zenon DEF Begun
<1>10. ASSUME NEW w \in {0, 1}
       PROVE  /\ Begun(Feature("begin", w)) /\ \A o \in In(Feature("begin", w)) : After(o, 0)
              /\ \E o \in In(Feature("begin", w)) : o.op = "features" /\ o.v = w
  <2> DEFINE o == F(w)
  <2>1. o.op = "features" /\ o.part = "begin" /\ o.v = w
    BY Zenon
  <2>2. Row(Feature("begin", w)) /\ In(Feature("begin", w)) = {o}
    BY <1>5, Zenon
  <2> HIDE DEF o
  <2>3. Before(o, 0) /\ After(o, 0) /\ ~Banked(o) /\ o.part # "probe"
    BY <2>1, Zenon DEF Before, After, Banked, IsAck, IsReset, IsFinish
  <2> QED
    BY <2>1, <2>2, <2>3, Zenon DEF Begun
<1> QED
  BY <1>6, <1>7, <1>8, <1>9, <1>10, Zenon

\* begin_init resets the device, acknowledges it and writes both words of the features.
LEMMA BeginFacts ==
  ASSUME Known
  PROVE  /\ Begun(BeginInit)
         /\ (\E o \in In(BeginInit) : IsAck(o)) /\ \E o \in In(BeginInit) : IsReset(o)
         /\ \A w \in {0, 1} : \E o \in In(BeginInit) : o.op = "features" /\ o.v = w
<1> DEFINE t == Touch("begin")
           b1 == Status("begin", {}) \o Status("begin", Ack)
           b2 == b1 \o t \o t \o t \o t
           b3 == b2 \o t \o Feature("begin", 0)
           b4 == b3 \o t \o Feature("begin", 1)
           b5 == b4 \o Status("begin", Ack \cup {"FEATURES_OK"})
           last == IF version = "Legacy" THEN Touch("begin") ELSE <<>>
<1>0. BeginInit = b5 \o last
  BY Zenon DEF BeginInit
<1>1. EasySeq(t) /\ EasySeq(last)
  BY EasyAccesses, EasyEmpty, Zenon
<1>2. /\ Begun(t) /\ \A y \in In(t) : After(y, 0)
      /\ Begun(last) /\ \A y \in In(last) : After(y, 0)
  BY <1>1, EasyBegun, Zenon
<1> HIDE DEF t, last
<1>3. Begun(b1) /\ In(b1) = In(Status("begin", {})) \cup In(Status("begin", Ack))
  <2> DEFINE s0 == Status("begin", {})
             s1 == Status("begin", Ack)
  <2>1. /\ Begun(s0) /\ \A o \in In(s0) : IsReset(o)
        /\ Begun(s1) /\ \A o \in In(s1) : IsAck(o)
    BY BeginAccesses, Zenon
  <2> HIDE DEF s0, s1
  <2>2. IsSeq(s0) /\ IsSeq(s1) /\ Ordered(s0, "new") /\ Ordered(s1, "new")
    BY <2>1, Zenon DEF Begun, Row
  <2>3. IsSeq(s0 \o s1) /\ In(s0 \o s1) = In(s0) \cup In(s1)
    BY <2>2, CatSeq, Zenon
  <2>4. ASSUME NEW x \in In(s0), NEW y \in In(s1) PROVE May(x, y, "new")
    <3>1. IsReset(x) /\ ~IsFinish(x) /\ NewAccess(x) /\ IsAck(y) /\ y.part # "probe"
      BY <2>1, Zenon DEF Begun, Row, Before
    <3>2. ~IsAck(x)
      BY <3>1, Zenon DEF IsReset, IsAck, Ack
    <3> QED
      BY <3>1, <3>2, Zenon DEF May, MayNew, MayDrop, IsReset, IsWork, NewAccess
  <2>5. Ordered(s0 \o s1, "new")
    BY <2>2, <2>4, CatOrdered, Zenon
  <2> QED
    BY <2>1, <2>3, <2>5, Zenon DEF Begun, Row, s0, s1
<1> HIDE DEF b1
<1>4. Begun(b2) /\ In(b1) \subseteq In(b2)
  <2>1. Begun(b1 \o t) /\ In(b1) \subseteq In(b1 \o t)
    BY <1>2, <1>3, BegunCat
  <2>2. Begun(b1 \o t \o t) /\ In(b1) \subseteq In(b1 \o t \o t)
    BY <1>2, <2>1, BegunCat, Zenon
  <2>3. Begun(b1 \o t \o t \o t) /\ In(b1) \subseteq In(b1 \o t \o t \o t)
    BY <1>2, <2>2, BegunCat, Zenon
  <2> QED
    BY <1>2, <2>3, BegunCat, Zenon
<1> HIDE DEF b2
<1>5. Begun(b3) /\ In(b2) \subseteq In(b3) /\ In(Feature("begin", 0)) \subseteq In(b3)
  <2>1. Begun(b2 \o t) /\ In(b2) \subseteq In(b2 \o t)
    BY <1>2, <1>4, BegunCat, Zenon
  <2> QED
    BY <2>1, BegunCat, BeginAccesses
<1> HIDE DEF b3
<1>6. Begun(b4) /\ In(b3) \subseteq In(b4) /\ In(Feature("begin", 1)) \subseteq In(b4)
  <2>1. Begun(b3 \o t) /\ In(b3) \subseteq In(b3 \o t)
    BY <1>2, <1>5, BegunCat, Zenon
  <2> QED
    BY <2>1, BegunCat, BeginAccesses
<1> HIDE DEF b4
<1>7. Begun(b5) /\ In(b4) \subseteq In(b5)
  BY <1>6, BegunCat, BeginAccesses, Zenon
<1> HIDE DEF b5
<1>8. Begun(BeginInit) /\ In(b5) \subseteq In(BeginInit)
  BY <1>0, <1>2, <1>7, BegunCat, Zenon
<1>9. (\E o \in In(BeginInit) : IsAck(o)) /\ \E o \in In(BeginInit) : IsReset(o)
  <2>1. /\ In(Status("begin", Ack)) \subseteq In(BeginInit)
        /\ In(Status("begin", {})) \subseteq In(BeginInit)
    BY <1>3, <1>4, <1>5, <1>6, <1>7, <1>8, Zenon
  <2> QED
    BY <2>1, BeginAccesses, Zenon
<1>10. \A w \in {0, 1} : In(Feature("begin", w)) \subseteq In(BeginInit)
  BY <1>5, <1>6, <1>7, <1>8, Zenon
<1> QED
  BY <1>8, <1>9, <1>10, BeginAccesses, Zenon

\* An access of VirtIoQueue::new for queue q.
QueueAccess(o, q) ==
  /\ NewAccess(o) /\ After(o, q) /\ Before(o, q + 1)
  /\ o.op = "sel" => o.v = q
  /\ Banked(o) => o.q = q
QueueRow(t, q) == Row(t) /\ \A o \in In(t) : QueueAccess(o, q)

\* Two parts of the set-up of a queue in a row.
LEMMA QueueRowCat ==
  ASSUME NEW q \in Queue, NEW s, QueueRow(s, q), \A x \in In(s) : Before(x, q),
         NEW t, QueueRow(t, q)
  PROVE  QueueRow(s \o t, q) /\ In(s \o t) = In(s) \cup In(t)
<1>0. q \in Nat /\ Row(s) /\ Row(t) /\ \A y \in In(t) : After(y, q)
  BY DEF QueueRow, QueueAccess, Queue
<1>1. Row(s \o t) /\ In(s \o t) = In(s) \cup In(t)
  BY <1>0, RowCat
<1> QED
  BY <1>1, Zenon DEF QueueRow

\* One access of the set-up of a queue.
LEMMA QueueRowOne ==
  ASSUME NEW q \in Queue, NEW o, QueueAccess(o, q)
  PROVE  QueueRow(<<o>>, q) /\ In(<<o>>) = {o}
  BY RowOne DEF QueueRow, QueueAccess

\* The accesses of VirtQueue::new and queue_set.
LEMMA QueueAccesses ==
  ASSUME Known, NEW q \in Queues
  PROVE  /\ QueueRow(Sel("new", q), q) /\ \A o \in In(Sel("new", q)) : Before(o, q)
         /\ OneQueue(Sel("new", q), q)
         /\ QueueRow(CheckUsed(q), q) /\ \A o \in In(CheckUsed(q)) : Before(o, q)
         /\ QueueRow(Check("new"), q) /\ \A o \in In(Check("new")) : Before(o, q)
         /\ QueueRow(Touch("new"), q) /\ \A o \in In(Touch("new")) : Before(o, q)
         /\ QueueRow(Alloc("new", q), q) /\ \A o \in In(Alloc("new", q)) : Before(o, q)
         /\ \E o \in In(Alloc("new", q)) : o.op = "alloc" /\ o.v = q
         /\ \A f \in Fields :
              /\ QueueRow(Reg("new", q, f, Value(q, f)), q)
              /\ f # LiveField => \A o \in In(Reg("new", q, f, Value(q, f))) : Before(o, q)
              /\ \E o \in In(Reg("new", q, f, Value(q, f))) : Sets(o, q, f)
<1>0. q \in Queue /\ q \in 0 .. 1 /\ q \in Region
  BY DEF Queues, Queue, Region
<1>1. /\ QueueRow(Sel("new", q), q) /\ \A o \in In(Sel("new", q)) : Before(o, q)
      /\ OneQueue(Sel("new", q), q)
  <2> DEFINE o == [op |-> "sel", part |-> "new", v |-> q]
  <2>1. o.op = "sel" /\ o.part = "new" /\ o.v = q /\ Sel("new", q) = <<o>>
    BY Zenon DEF Sel
  <2> HIDE DEF o
  <2>2. QueueAccess(o, q) /\ Before(o, q)
    BY <1>0, <2>1, Zenon DEF QueueAccess, NewAccess, After, Before, Banked, IsAck, IsReset, IsFinish
  <2>3. QueueRow(<<o>>, q) /\ In(<<o>>) = {o}
    BY <1>0, <2>2, QueueRowOne, Zenon
  <2>4. Len(<<o>>) = 1 /\ <<o>>[1] = o
    BY Zenon
  <2>5. OneQueue(<<o>>, q)
    BY <2>1, <2>3, <2>4 DEF OneQueue, QueueRow, Row, QueueAccess, Selects, Banked
  <2> QED
    BY <2>1, <2>2, <2>3, <2>5, Zenon
<1>2. QueueRow(CheckUsed(q), q) /\ \A o \in In(CheckUsed(q)) : Before(o, q)
  <2> DEFINE o == [op |-> "used", part |-> "new", q |-> q]
  <2>1. o.op = "used" /\ o.part = "new" /\ o.q = q /\ CheckUsed(q) = <<o>>
    BY Zenon DEF CheckUsed
  <2> HIDE DEF o
  <2>2. QueueAccess(o, q) /\ Before(o, q)
    BY <1>0, <2>1 DEF QueueAccess, NewAccess, After, Before, Banked, IsAck, IsReset, IsFinish
  <2> QED
    BY <1>0, <2>1, <2>2, QueueRowOne
<1>3. QueueRow(Check("new"), q) /\ \A o \in In(Check("new")) : Before(o, q)
  <2> DEFINE o == [op |-> "check", part |-> "new"]
  <2>1. o.op = "check" /\ o.part = "new" /\ Check("new") = <<o>>
    BY Zenon DEF Check
  <2> HIDE DEF o
  <2>2. QueueAccess(o, q) /\ Before(o, q)
    BY <1>0, <2>1, Zenon DEF QueueAccess, NewAccess, After, Before, Banked, IsAck, IsReset, IsFinish
  <2> QED
    BY <1>0, <2>1, <2>2, QueueRowOne
<1>4. QueueRow(Touch("new"), q) /\ \A o \in In(Touch("new")) : Before(o, q)
  <2> DEFINE o == [op |-> "touch", part |-> "new"]
  <2>1. o.op = "touch" /\ o.part = "new" /\ Touch("new") = <<o>>
    BY Zenon DEF Touch
  <2> HIDE DEF o
  <2>2. QueueAccess(o, q) /\ Before(o, q)
    BY <1>0, <2>1, Zenon DEF QueueAccess, NewAccess, After, Before, Banked, IsAck, IsReset, IsFinish
  <2> QED
    BY <1>0, <2>1, <2>2, QueueRowOne
<1>5. /\ QueueRow(Alloc("new", q), q) /\ \A o \in In(Alloc("new", q)) : Before(o, q)
      /\ \E o \in In(Alloc("new", q)) : o.op = "alloc" /\ o.v = q
  <2> DEFINE o == [op |-> "alloc", part |-> "new", v |-> q]
  <2>1. o.op = "alloc" /\ o.part = "new" /\ o.v = q /\ Alloc("new", q) = <<o>>
    BY Zenon DEF Alloc
  <2> HIDE DEF o
  <2>2. QueueAccess(o, q) /\ Before(o, q)
    BY <1>0, <2>1, Zenon DEF QueueAccess, NewAccess, After, Before, Banked, IsAck, IsReset, IsFinish
  <2>3. QueueRow(<<o>>, q) /\ In(<<o>>) = {o}
    BY <1>0, <2>2, QueueRowOne, Zenon
  <2> QED
    BY <2>1, <2>2, <2>3, Zenon
<1>6. ASSUME NEW f \in Fields
      PROVE  /\ QueueRow(Reg("new", q, f, Value(q, f)), q)
             /\ f # LiveField => \A o \in In(Reg("new", q, f, Value(q, f))) : Before(o, q)
             /\ \E o \in In(Reg("new", q, f, Value(q, f))) : Sets(o, q, f)
  <2> DEFINE o == [op |-> "reg", part |-> "new", q |-> q, f |-> f, v |-> Value(q, f)]
  <2>1. /\ o.op = "reg" /\ o.part = "new" /\ o.q = q /\ o.f = f /\ o.v = Value(q, f)
        /\ Reg("new", q, f, Value(q, f)) = <<o>>
    BY Zenon DEF Reg
  <2> HIDE DEF o
  <2>2. NewAccess(o)
    BY <1>6, <2>1, Zenon DEF NewAccess
  <2>3. QueueAccess(o, q) /\ (f # LiveField => Before(o, q))
    BY <1>0, <2>1, <2>2 DEF QueueAccess, After, Before, Banked, IsAck, IsReset, IsFinish
  <2>4. QueueRow(<<o>>, q) /\ In(<<o>>) = {o}
    BY <1>0, <2>3, QueueRowOne, Zenon
  <2> QED
    BY <2>1, <2>3, <2>4, Zenon DEF Sets
<1> QED
  BY <1>1, <1>2, <1>3, <1>4, <1>5, <1>6, Zenon

\* queue_set writes every register of the queue, the one that makes it live last.
LEMMA QueueSetFacts ==
  ASSUME Known, NEW q \in Queues
  PROVE  /\ QueueRow(queue_set(q), q)
         /\ \A f \in Fields : \E o \in In(queue_set(q)) : Sets(o, q, f)
<1> DEFINE R(f) == Reg("new", q, f, Value(q, f))
           touch == Touch("new")
           head == Sel("new", q) \o R("num")
<1>0. q \in Queue
  BY Zenon DEF Queues
<1>1. \A f \in Fields : /\ QueueRow(R(f), q) /\ \E o \in In(R(f)) : Sets(o, q, f)
                        /\ f # LiveField => \A o \in In(R(f)) : Before(o, q)
  BY QueueAccesses, Zenon
<1>2. QueueRow(touch, q) /\ \A o \in In(touch) : Before(o, q)
  BY QueueAccesses, Zenon
<1>3. /\ Value(q, "num") = Size /\ Value(q, "desc") = q /\ Value(q, "drv") = q
      /\ Value(q, "dev") = q /\ Value(q, "ready") = "on"
  BY Zenon DEF Value
<1>4. "num" \in Fields /\ "num" # LiveField /\ "desc" \in Fields
  BY Zenon DEF Fields, FieldName, LiveField
<1>5. queue_set(q) = head \o IF version = "Legacy" THEN touch \o R("desc")
                             ELSE R("desc") \o R("drv") \o R("dev") \o R("ready")
  BY <1>3, Zenon DEF queue_set
<1> HIDE DEF R, touch
<1>6. /\ QueueRow(head, q) /\ (\A o \in In(head) : Before(o, q))
      /\ In(R("num")) \subseteq In(head)
  <2>1. QueueRow(Sel("new", q), q) /\ \A o \in In(Sel("new", q)) : Before(o, q)
    BY QueueAccesses, Zenon
  <2>2. QueueRow(R("num"), q) /\ \A o \in In(R("num")) : Before(o, q)
    BY <1>1, <1>4, Zenon
  <2>3. QueueRow(head, q) /\ In(head) = In(Sel("new", q)) \cup In(R("num"))
    BY <1>0, <2>1, <2>2, QueueRowCat
  <2> QED
    BY <2>1, <2>2, <2>3, Zenon
<1> HIDE DEF head
<1>7. CASE version = "Legacy"
  <2>1. Fields = {"num", "desc"}
    BY <1>7, Zenon DEF Fields
  <2>2. QueueRow(touch \o R("desc"), q) /\ In(R("desc")) \subseteq In(touch \o R("desc"))
    BY <1>0, <1>1, <1>2, <1>4, QueueRowCat
  <2>3. /\ QueueRow(queue_set(q), q)
        /\ In(head) \subseteq In(queue_set(q)) /\ In(R("desc")) \subseteq In(queue_set(q))
    BY <1>0, <1>5, <1>6, <1>7, <2>2, QueueRowCat
  <2>4. \A f \in Fields : In(R(f)) \subseteq In(queue_set(q))
    BY <1>6, <2>1, <2>3, Zenon
  <2> QED
    BY <1>1, <2>3, <2>4, Zenon
<1>8. CASE version # "Legacy"
  <2>1. Fields = FieldName /\ LiveField = "ready"
    BY <1>8, Zenon DEF Fields, LiveField
  <2>2. \A f \in {"desc", "drv", "dev"} : QueueRow(R(f), q) /\ \A o \in In(R(f)) : Before(o, q)
    BY <1>1, <2>1, Zenon DEF FieldName
  <2>3. QueueRow(R("ready"), q)
    BY <1>1, <2>1, Zenon DEF FieldName
  <2> DEFINE r2 == R("desc") \o R("drv")
             r3 == r2 \o R("dev")
             r4 == r3 \o R("ready")
  <2>4. QueueRow(r2, q) /\ In(r2) = In(R("desc")) \cup In(R("drv"))
    BY <1>0, <2>2, QueueRowCat
  <2>5. \A o \in In(r2) : Before(o, q)
    BY <2>2, <2>4, Zenon
  <2> HIDE DEF r2
  <2>6. QueueRow(r3, q) /\ In(r3) = In(r2) \cup In(R("dev"))
    BY <1>0, <2>2, <2>4, <2>5, QueueRowCat
  <2>7. \A o \in In(r3) : Before(o, q)
    BY <2>2, <2>5, <2>6, Zenon
  <2> HIDE DEF r3
  <2>8. QueueRow(r4, q) /\ In(r4) = In(r3) \cup In(R("ready"))
    BY <1>0, <2>3, <2>6, <2>7, QueueRowCat
  <2> HIDE DEF r4
  <2>9. queue_set(q) = head \o r4
    BY <1>5, <1>8, Zenon DEF r2, r3, r4
  <2>10. QueueRow(queue_set(q), q) /\ In(queue_set(q)) = In(head) \cup In(r4)
    BY <1>0, <1>6, <2>8, <2>9, QueueRowCat
  <2>11. \A f \in Fields : In(R(f)) \subseteq In(queue_set(q))
    BY <1>6, <2>1, <2>4, <2>6, <2>8, <2>10, Zenon DEF FieldName
  <2> QED
    BY <1>1, <2>10, <2>11, Zenon
<1> QED
  BY <1>7, <1>8, Zenon

\* VirtQueue::new allocates the memory of its queue and sets all its registers.
LEMMA QueueNewFacts ==
  ASSUME Known, NEW q \in Queues
  PROVE  /\ QueueRow(QueueNew(q), q) /\ Selected(QueueNew(q), Null)
         /\ \E o \in In(QueueNew(q)) : o.op = "alloc" /\ o.v = q
         /\ \A f \in Fields : \E o \in In(QueueNew(q)) : Sets(o, q, f)
<1> DEFINE First(t) == OneQueue(t, q) /\ QueueRow(t, q) /\ \A x \in In(t) : Before(x, q)
           n1 == Sel("new", q) \o CheckUsed(q)
           n2 == n1 \o Sel("new", q)
           n3 == n2 \o Check("new")
           n4 == n3 \o Alloc("new", q)
<1>0. q \in Queue
  BY Zenon DEF Queues
<1>1. ASSUME NEW s, First(s), NEW t, QueueRow(t, q)
      PROVE  OneQueue(s \o t, q) /\ QueueRow(s \o t, q) /\ In(s \o t) = In(s) \cup In(t)
  <2>1. QueueRow(s \o t, q) /\ In(s \o t) = In(s) \cup In(t)
    BY <1>0, <1>1, QueueRowCat
  <2>2. OneQueue(s \o t, q)
    BY <1>1, OneQueueCat, Zenon DEF QueueRow, Row, QueueAccess
  <2> QED
    BY <2>1, <2>2, Zenon
<1>2. ASSUME NEW s, First(s), NEW t, QueueRow(t, q), \A x \in In(t) : Before(x, q)
      PROVE  First(s \o t) /\ In(s \o t) = In(s) \cup In(t)
  <2>1. OneQueue(s \o t, q) /\ QueueRow(s \o t, q) /\ In(s \o t) = In(s) \cup In(t)
    BY <1>1, <1>2, Zenon
  <2> QED
    BY <1>2, <2>1, Zenon
<1>3. First(Sel("new", q))
  BY QueueAccesses, Zenon
<1> HIDE DEF First
<1>4. First(n1)
  BY <1>2, <1>3, QueueAccesses, Zenon
<1> HIDE DEF n1
<1>5. First(n2)
  BY <1>2, <1>4, QueueAccesses, Zenon
<1> HIDE DEF n2
<1>6. First(n3)
  BY <1>2, <1>5, QueueAccesses, Zenon
<1> HIDE DEF n3
<1>7. First(n4) /\ In(Alloc("new", q)) \subseteq In(n4)
  BY <1>2, <1>6, QueueAccesses
<1> HIDE DEF n4
<1>8. QueueNew(q) = n4 \o queue_set(q)
  BY Zenon DEF QueueNew, n1, n2, n3, n4
<1>9. /\ OneQueue(QueueNew(q), q) /\ QueueRow(QueueNew(q), q)
      /\ In(QueueNew(q)) = In(n4) \cup In(queue_set(q))
  BY <1>1, <1>7, <1>8, QueueSetFacts, Zenon
<1>10. Selected(QueueNew(q), Null)
  BY <1>9, OneQueueSelected, Zenon
<1>11. \E o \in In(QueueNew(q)) : o.op = "alloc" /\ o.v = q
  BY <1>7, <1>9, QueueAccesses, Zenon
<1>12. \A f \in Fields : \E o \in In(QueueNew(q)) : Sets(o, q, f)
  BY <1>9, QueueSetFacts, Zenon
<1> QED
  BY <1>9, <1>10, <1>11, <1>12, Zenon

Made(t, n) == Row(t) /\ Selected(t, Null) /\ \A x \in In(t) : Before(x, n)

\* `new` up to the queues below n, and what follows.
LEMMA MadeCat ==
  ASSUME NEW n \in Nat, NEW s, Made(s, n), NEW t, Row(t), Selected(t, Null),
         \A y \in In(t) : After(y, n)
  PROVE  Row(s \o t) /\ Selected(s \o t, Null) /\ In(s \o t) = In(s) \cup In(t)
<1>1. Row(s \o t) /\ In(s \o t) = In(s) \cup In(t)
  BY RowCat DEF Made
<1>2. \A o \in In(t) : Banked(o) => o.q # Null
  BY DEF Row, NewAccess, Banked, Queues, Queue, Null
<1>3. Selected(s \o t, Null)
  BY <1>2, CatSelected, Zenon DEF Made, Row
<1> QED
  BY <1>1, <1>3, Zenon

\* The same, followed by accesses that may come anywhere.
LEMMA MadeEasy ==
  ASSUME NEW n \in Nat, NEW s, Made(s, n), NEW t, EasySeq(t)
  PROVE  Made(s \o t, n) /\ In(s \o t) = In(s) \cup In(t)
<1>1. Row(t) /\ Selected(t, Null) /\ \A y \in In(t) : Before(y, n) /\ After(y, n)
  BY EasyRow, EasyFacts, Zenon DEF EasySeq
<1>2. Row(s \o t) /\ Selected(s \o t, Null) /\ In(s \o t) = In(s) \cup In(t)
  BY <1>1, MadeCat
<1> QED
  BY <1>1, <1>2, Zenon DEF Made

\* The same, followed by the next queue.
LEMMA MadeQueue ==
  ASSUME Known, NEW q \in Queues, NEW s, Made(s, q)
  PROVE  Made(s \o QueueNew(q), q + 1) /\ In(s \o QueueNew(q)) = In(s) \cup In(QueueNew(q))
<1>1. Row(QueueNew(q)) /\ Selected(QueueNew(q), Null)
      /\ \A y \in In(QueueNew(q)) : After(y, q) /\ Before(y, q + 1)
  BY QueueNewFacts, Zenon DEF QueueRow, QueueAccess
<1>2. q \in Nat
  BY DEF Queues, Queue
<1>3. /\ Row(s \o QueueNew(q)) /\ Selected(s \o QueueNew(q), Null)
      /\ In(s \o QueueNew(q)) = In(s) \cup In(QueueNew(q))
  BY <1>1, <1>2, MadeCat
<1>4. \A x \in In(s) : Before(x, q + 1)
  BY <1>2 DEF Made, Row, Before, NewAccess, Queues, Queue
<1> QED
  BY <1>1, <1>3, <1>4, Zenon DEF Made

\* `new` of each driver: a reset, then all that has to be done before the device may run.
LEMMA NewFacts ==
  ASSUME Known
  PROVE  /\ IsSeq(New) /\ (\A o \in In(New) : NewAccess(o)) /\ Ordered(New, "new")
         /\ Selected(New, Null) /\ Will(New)
         /\ (\E o \in In(New) : IsAck(o)) /\ \E o \in In(New) : IsReset(o)
<1> DEFINE alloc == IF driver = "input" THEN Alloc("new", Buffers) ELSE <<>>
           second == IF HasQueue(1) THEN QueueNew(1) ELSE <<>>
           post == IF driver = "input" THEN Post("new") \o NotifyQueue("new") ELSE <<>>
           fill == IF driver = "net"
                   THEN Alloc("fill", Buffers) \o Post("fill") \o NotifyQueue("fill")
                   ELSE <<>>
           w1 == TransportNew \o BeginInit
           w2 == w1 \o ConfigReads
           w3 == w2 \o alloc
           w4 == w3 \o QueueNew(0)
           w5 == w4 \o second
           w6 == w5 \o post
           w7 == w6 \o FinishInit
<1>0. New = w7 \o fill
  BY Zenon DEF New
<1>1. EasySeq(ConfigReads)
  <2>1. EasySeq(Touch("new")) /\ EasySeq(Touch("new") \o Touch("new"))
    BY EasyAccesses, EasyCat, Zenon
  <2> QED
    BY <2>1, EasyEmpty, Zenon DEF ConfigReads, Known, AllDrivers
<1>2. EasySeq(alloc)
  BY EasyAccesses, EasyEmpty, Zenon
<1>3. EasySeq(post)
  BY EasyAccesses, EasyEmpty, EasyCat, Zenon
<1>4. EasySeq(fill) /\ \A o \in In(fill) : o.part = "fill"
  <2>1. CASE driver = "net"
    <3>1. EasySeq(Alloc("fill", Buffers)) /\ EasySeq(Post("fill")) /\ EasySeq(NotifyQueue("fill"))
      BY <2>1, EasyAccesses, Zenon
    <3>2. EasySeq(Alloc("fill", Buffers) \o Post("fill"))
      BY <3>1, EasyCat, Zenon
    <3>3. EasySeq(fill)
      BY <2>1, <3>1, <3>2, EasyCat, Zenon
    <3> DEFINE Fill(t) == IsSeq(t) /\ \A o \in In(t) : o.part = "fill"
    <3>4. \A s, t : Fill(s) /\ Fill(t) => Fill(s \o t)
      BY CatSeq
    <3>5. ASSUME NEW o, o.part = "fill", ~Banked(o) PROVE Fill(<<o>>)
      BY <3>5, SingleSeq, Zenon
    <3>6. Fill(Alloc("fill", Buffers)) /\ Fill(Post("fill")) /\ Fill(Touch("fill"))
          /\ Fill(Sel("fill", 0))
      <4> HIDE DEF Fill
      <4> DEFINE o1 == [op |-> "alloc", part |-> "fill", v |-> Buffers]
                 o2 == [op |-> "post", part |-> "fill"]
                 o3 == [op |-> "touch", part |-> "fill"]
                 o4 == [op |-> "sel", part |-> "fill", v |-> 0]
      <4>1. /\ o1.part = "fill" /\ o2.part = "fill" /\ o3.part = "fill" /\ o4.part = "fill"
            /\ ~Banked(o1) /\ ~Banked(o2) /\ ~Banked(o3) /\ ~Banked(o4)
        BY Zenon DEF Banked
      <4> HIDE DEF o1, o2, o3, o4
      <4>2. Fill(<<o1>>) /\ Fill(<<o2>>) /\ Fill(<<o3>>) /\ Fill(<<o4>>)
        BY <3>5, <4>1, Zenon
      <4> QED
        BY <4>2, Zenon DEF Alloc, Post, Touch, Sel, o1, o2, o3, o4
    <3> HIDE DEF Fill
    <3>7. Fill(NotifyQueue("fill"))
      BY <3>4, <3>6, Zenon DEF NotifyQueue
    <3>8. Fill(fill)
      BY <2>1, <3>4, <3>6, <3>7, Zenon
    <3> QED
      BY <3>3, <3>8, Zenon DEF Fill
  <2>2. CASE driver # "net"
    BY <2>2, EasyEmpty, EmptySeq, Zenon
  <2> QED
    BY <2>1, <2>2, Zenon
<1> HIDE DEF alloc, post, fill
<1>5. Made(w1, 0) /\ In(BeginInit) \subseteq In(w1)
  <2>1. Begun(BeginInit)
    BY BeginFacts, Zenon
  <2>2. /\ IsSeq(TransportNew) /\ Ordered(TransportNew, "new")
        /\ \A x \in In(TransportNew) : NewAccess(x) /\ x.part = "probe"
    <3> DEFINE o == [op |-> "check", part |-> "probe"]
               Probes(t) == IsSeq(t) /\ \A x \in In(t) : x = o
    <3>1. o.op = "check" /\ o.part = "probe" /\ Check("probe") = <<o>>
      BY Zenon DEF Check
    <3> HIDE DEF o
    <3>2. NewAccess(o)
      BY <3>1, Zenon DEF NewAccess
    <3>3. Probes(Check("probe")) /\ Probes(<<>>)
      BY <3>1, SingleSeq, EmptySeq, Zenon DEF Banked
    <3>4. \A s, t : Probes(s) /\ Probes(t) => Probes(s \o t)
      BY CatSeq, Zenon
    <3> HIDE DEF Probes
    <3>5. Probes(Check("probe") \o Check("probe") \o Check("probe"))
      BY <3>3, <3>4, Zenon
    <3>6. Probes(TransportNew)
      BY <3>3, <3>5, Zenon DEF TransportNew
    <3>7. May(o, o, "new")
      BY <3>1, Zenon DEF May, MayNew, MayDrop, IsFinish, IsAck, IsReset, IsWork
    <3>8. Ordered(TransportNew, "new")
      BY <3>6, <3>7, Zenon DEF Ordered, In, Probes
    <3> QED
      BY <3>1, <3>2, <3>6, <3>8, Zenon DEF Probes
  <2>3. ASSUME NEW x \in In(TransportNew), NEW y PROVE May(x, y, "new")
    <3>1. x.part = "probe" /\ x.op = "check"
      BY <2>2, Zenon DEF NewAccess
    <3> QED
      BY <3>1, Zenon DEF May, MayNew, MayDrop, IsFinish, IsAck, IsReset, IsWork
  <2>4. IsSeq(BeginInit) /\ Ordered(BeginInit, "new")
    BY <2>1, Zenon DEF Begun, Row
  <2>5. IsSeq(w1) /\ In(w1) = In(TransportNew) \cup In(BeginInit) /\ Ordered(w1, "new")
    BY <2>2, <2>3, <2>4, CatSeq, CatOrdered, Zenon
  <2>6. \A x \in In(TransportNew) : Before(x, 0) /\ ~Banked(x)
    BY <2>2, Zenon DEF NewAccess, Before, Banked, IsFinish
  <2>7. \A x \in In(w1) : NewAccess(x) /\ Before(x, 0) /\ ~Banked(x)
    BY <2>1, <2>2, <2>5, <2>6, Zenon DEF Begun, Row
  <2>8. Selected(w1, Null)
    BY <2>5, <2>7, Unbanked, Zenon
  <2> QED
    BY <2>5, <2>7, <2>8, Zenon DEF Made, Row
<1> HIDE DEF w1
<1>6. Made(w2, 0) /\ In(w1) \subseteq In(w2)
  BY <1>1, <1>5, MadeEasy
<1> HIDE DEF w2
<1>7. Made(w3, 0) /\ In(w2) \subseteq In(w3)
  BY <1>2, <1>6, MadeEasy
<1> HIDE DEF w3
<1>8. 0 \in Queues /\ 0 + 1 = 1 /\ 1 + 1 = 2
  BY DEF Queues, Queue, HasQueue
<1>9. Made(w4, 1) /\ In(w4) = In(w3) \cup In(QueueNew(0))
  BY <1>7, <1>8, MadeQueue, Zenon
<1> HIDE DEF w4
<1>10. Made(w5, 2) /\ In(w4) \subseteq In(w5) /\ (1 \in Queues => In(QueueNew(1)) \subseteq In(w5))
  <2>1. CASE 1 \in Queues
    <3>1. second = QueueNew(1)
      BY <2>1, Zenon DEF Queues
    <3> QED
      BY <1>8, <1>9, <2>1, <3>1, MadeQueue
  <2>2. CASE 1 \notin Queues
    <3>1. second = <<>>
      BY <2>2, Zenon DEF Queues, Queue
    <3>2. Made(w5, 1) /\ In(w5) = In(w4) \cup In(second)
      BY <1>9, <3>1, EasyEmpty, MadeEasy
    <3>3. \A x \in In(w5) : Before(x, 2)
      BY <3>2 DEF Made, Row, Before, NewAccess, Queues, Queue
    <3> QED
      BY <2>2, <3>2, <3>3, Zenon DEF Made
  <2> QED
    BY <2>1, <2>2, Zenon
<1> HIDE DEF w5, second
<1>11. Made(w6, 2) /\ In(w5) \subseteq In(w6)
  BY <1>3, <1>10, MadeEasy
<1> HIDE DEF w6
<1>12. Row(w7) /\ Selected(w7, Null) /\ In(w6) \subseteq In(w7)
  <2> DEFINE o == [op |-> "status", part |-> "new", v |-> Ack \cup {"FEATURES_OK", "DRIVER_OK"}]
  <2>1. /\ FinishInit = <<o>> /\ o.op = "status" /\ o.part = "new" /\ o.v # {} /\ o.v # Ack
        /\ "RESET" \notin o.v
    BY DEF FinishInit, Status, Ack
  <2> HIDE DEF o
  <2>2. NewAccess(o)
    BY <2>1, Zenon DEF NewAccess
  <2>3. After(o, 2) /\ ~Banked(o)
    BY <2>1, Zenon DEF After, Banked, IsAck, IsReset
  <2>4. Row(FinishInit) /\ In(FinishInit) = {o}
    BY <2>1, <2>2, RowOne, Zenon
  <2>5. Selected(FinishInit, Null)
    BY <2>1, <2>3, SingleSeq, Zenon
  <2> QED
    BY <1>11, <2>3, <2>4, <2>5, MadeCat
<1> HIDE DEF w7
<1>13. /\ IsSeq(New) /\ Ordered(New, "new") /\ Selected(New, Null)
       /\ In(New) = In(w7) \cup In(fill) /\ \A o \in In(New) : NewAccess(o)
  <2>1. Row(fill) /\ \A y \in In(fill) : Easy(y) /\ ~Banked(y)
    BY <1>4, EasyRow, EasyFacts, Zenon DEF EasySeq
  <2>2. ASSUME NEW x \in In(w7), NEW y \in In(fill) PROVE May(x, y, "new")
    <3>1. NewAccess(x) /\ Easy(y) /\ y.part = "fill"
      BY <1>4, <1>12, <2>1, Zenon DEF Row
    <3> QED
      BY <3>1, Zenon DEF May, MayNew, MayDrop, NewAccess, Easy, IsAck, IsReset, OfQueue
  <2>3. IsSeq(w7) /\ IsSeq(fill) /\ Ordered(w7, "new") /\ Ordered(fill, "new")
    BY <1>12, <2>1, Zenon DEF Row
  <2>4. IsSeq(New) /\ In(New) = In(w7) \cup In(fill)
    BY <1>0, <2>3, CatSeq, Zenon
  <2>7. Ordered(New, "new")
    BY <1>0, <2>2, <2>3, CatOrdered, Zenon
  <2>5. Selected(fill, Null)
    BY <2>1, <2>3, Unbanked, Zenon
  <2>6. Selected(New, Null)
    BY <1>0, <1>12, <2>1, <2>3, <2>5, CatSelected, Zenon
  <2> QED
    BY <1>12, <2>1, <2>4, <2>6, <2>7, Zenon DEF Row
<1>14. In(BeginInit) \subseteq In(New) /\ \A q \in Queues : In(QueueNew(q)) \subseteq In(New)
  <2>1. In(w4) \subseteq In(New) /\ In(w5) \subseteq In(New)
    BY <1>10, <1>11, <1>12, <1>13, Zenon
  <2>2. In(BeginInit) \subseteq In(w4) /\ In(QueueNew(0)) \subseteq In(w4)
    BY <1>5, <1>6, <1>7, <1>9, Zenon
  <2> QED
    BY <1>10, <2>1, <2>2, Zenon DEF Queues, Queue
<1>15. (\E o \in In(New) : IsAck(o)) /\ \E o \in In(New) : IsReset(o)
  BY <1>14, BeginFacts, Zenon
<1>16. Will(New)
  <2>1. \A w \in {0, 1} : \E o \in In(New) : o.op = "features" /\ o.v = w
    BY <1>14, BeginFacts, Zenon
  <2>2. \A q \in Queues : \E o \in In(New) : o.op = "alloc" /\ o.v = q
    BY <1>14, QueueNewFacts, Zenon
  <2>3. \A q \in Queues, f \in Fields : \E o \in In(New) : Sets(o, q, f)
    BY <1>14, QueueNewFacts, Zenon
  <2> QED
    BY <2>1, <2>2, <2>3, Zenon DEF Will
<1> QED
  BY <1>13, <1>15, <1>16, Zenon

-----------------------------------------------------------------------------
(* What drop is made of *)

DropRow(t, p) == IsSeq(t) /\ (\A o \in In(t) : DropAccess(o)) /\ Ordered(t, p)

\* Only the order asked of a drop matters among its accesses.
LEMMA DropMay ==
  ASSUME NEW p, NEW x, DropAccess(x), NEW y, DropAccess(y), MayDrop(x, y, p)
  PROVE  May(x, y, p)
<1>1. ~IsFinish(x) /\ ~IsAck(x)
  BY Zenon DEF DropAccess, IsFinish, IsAck, Ack
<1> QED
  BY <1>1, Zenon DEF May, MayNew, DropAccess

\* Two parts of a drop in a row.
LEMMA DropCat ==
  ASSUME NEW p, NEW s, DropRow(s, p), NEW t, DropRow(t, p),
         \A x \in In(s), y \in In(t) : MayDrop(x, y, p)
  PROVE  DropRow(s \o t, p) /\ In(s \o t) = In(s) \cup In(t)
<1>1. IsSeq(s \o t) /\ In(s \o t) = In(s) \cup In(t)
  BY CatSeq, Zenon DEF DropRow
<1>2. \A x \in In(s), y \in In(t) : May(x, y, p)
  BY DropMay, Zenon DEF DropRow
<1>3. Ordered(s \o t, p)
  BY <1>2, CatOrdered, Zenon DEF DropRow
<1> QED
  BY <1>1, <1>3, Zenon DEF DropRow

\* One access of a drop.
LEMMA DropOne ==
  ASSUME NEW p, NEW o, DropAccess(o)
  PROVE  DropRow(<<o>>, p) /\ In(<<o>>) = {o}
<1>1. IsSeq(<<o>>) /\ In(<<o>>) = {o} /\ Ordered(<<o>>, p)
  BY SingleSeq, Zenon
<1> QED
  BY <1>1, Zenon DEF DropRow

\* A drop with nothing to do.
LEMMA DropEmpty ==
  ASSUME NEW p
  PROVE  DropRow(<<>>, p) /\ In(<<>>) = {}
  BY EmptySeq, Zenon DEF DropRow

\* The accesses of queue_unset, and which of them ask nothing of what follows or
\* of what came before.
UnsetAccess(o, q) ==
  /\ DropAccess(o) /\ o.op \in {"sel", "touch", "reg", "wait"}
  /\ o.op = "sel" => o.v = q
  /\ Banked(o) => o.q = q
Clears(o) == o.op = "reg" /\ o.f # "ready"
Opens(o) == o.op \in {"sel", "touch"} \/ (o.op = "reg" /\ o.f = "ready")
Closes(o) == o.op \in {"sel", "touch"} \/ Clears(o)
UnsetRow(t, q) == DropRow(t, "drop") /\ \A o \in In(t) : UnsetAccess(o, q)

\* Two parts of queue_unset in a row.
LEMMA UnsetCat ==
  ASSUME NEW q, NEW s, UnsetRow(s, q), NEW t, UnsetRow(t, q),
         (\A x \in In(s) : Opens(x)) \/ (\A y \in In(t) : Closes(y))
  PROVE  UnsetRow(s \o t, q) /\ In(s \o t) = In(s) \cup In(t)
<1>1. ASSUME NEW x \in In(s), NEW y \in In(t) PROVE MayDrop(x, y, "drop")
  <2>1. UnsetAccess(x, q) /\ UnsetAccess(y, q) /\ (Opens(x) \/ Closes(y))
    BY Zenon DEF UnsetRow
  <2> QED
    BY <2>1, Zenon DEF MayDrop, UnsetAccess, Opens, Closes, Clears, IsReset, Sets, Waits
<1>2. DropRow(s \o t, "drop") /\ In(s \o t) = In(s) \cup In(t)
  BY <1>1, DropCat DEF UnsetRow
<1> QED
  BY <1>2, Zenon DEF UnsetRow

\* The accesses of queue_unset.
LEMMA UnsetAccesses ==
  ASSUME Known, version # "Pci", NEW q \in Queue
  PROVE  /\ UnsetRow(Sel("drop", q), q) /\ OneQueue(Sel("drop", q), q)
         /\ \A o \in In(Sel("drop", q)) : Opens(o) /\ Closes(o)
         /\ UnsetRow(Touch("drop"), q) /\ \A o \in In(Touch("drop")) : Opens(o) /\ Closes(o)
         /\ UnsetRow(WaitOff(q), q) /\ \E o \in In(WaitOff(q)) : Waits(o, q)
         /\ version = "Modern" => /\ UnsetRow(Reg("drop", q, "ready", "stopping"), q)
                                  /\ \A o \in In(Reg("drop", q, "ready", "stopping")) : Opens(o)
         /\ UnsetRow(Reg("drop", q, "num", 0), q) /\ \A o \in In(Reg("drop", q, "num", 0)) : Closes(o)
         /\ \A f \in {"desc", "drv", "dev"} :
              /\ UnsetRow(Reg("drop", q, f, Null), q)
              /\ \A o \in In(Reg("drop", q, f, Null)) : Closes(o)
<1>0. ASSUME NEW o, UnsetAccess(o, q) PROVE UnsetRow(<<o>>, q) /\ In(<<o>>) = {o}
  BY <1>0, DropOne DEF UnsetRow, UnsetAccess
<1>1. /\ UnsetRow(Sel("drop", q), q) /\ OneQueue(Sel("drop", q), q)
      /\ \A o \in In(Sel("drop", q)) : Opens(o) /\ Closes(o)
  <2> DEFINE o == [op |-> "sel", part |-> "drop", v |-> q]
  <2>1. o.op = "sel" /\ o.part = "drop" /\ o.v = q /\ Sel("drop", q) = <<o>>
    BY Zenon DEF Sel
  <2> HIDE DEF o
  <2>2. UnsetAccess(o, q) /\ Opens(o) /\ Closes(o)
    BY <2>1, Zenon DEF UnsetAccess, DropAccess, Banked, Opens, Closes
  <2>3. UnsetRow(<<o>>, q) /\ In(<<o>>) = {o}
    BY <1>0, <2>2, Zenon
  <2>4. Len(<<o>>) = 1 /\ <<o>>[1] = o
    BY Zenon
  <2>5. OneQueue(<<o>>, q)
    BY <2>1, <2>3, <2>4 DEF OneQueue, UnsetRow, DropRow, UnsetAccess, Selects, Banked
  <2> QED
    BY <2>1, <2>2, <2>3, <2>5, Zenon
<1>2. UnsetRow(Touch("drop"), q) /\ \A o \in In(Touch("drop")) : Opens(o) /\ Closes(o)
  <2> DEFINE o == [op |-> "touch", part |-> "drop"]
  <2>1. o.op = "touch" /\ o.part = "drop" /\ Touch("drop") = <<o>>
    BY Zenon DEF Touch
  <2> HIDE DEF o
  <2>2. UnsetAccess(o, q) /\ Opens(o) /\ Closes(o)
    BY <2>1, Zenon DEF UnsetAccess, DropAccess, Banked, Opens, Closes
  <2> QED
    BY <1>0, <2>1, <2>2
<1>3. UnsetRow(WaitOff(q), q) /\ \E o \in In(WaitOff(q)) : Waits(o, q)
  <2> DEFINE o == [op |-> "wait", part |-> "drop", q |-> q]
  <2>1. o.op = "wait" /\ o.part = "drop" /\ o.q = q /\ WaitOff(q) = <<o>>
    BY Zenon DEF WaitOff
  <2> HIDE DEF o
  <2>2. UnsetAccess(o, q) /\ Waits(o, q)
    BY <2>1, Zenon DEF UnsetAccess, DropAccess, Banked, Waits
  <2>3. UnsetRow(<<o>>, q) /\ In(<<o>>) = {o}
    BY <1>0, <2>2, Zenon
  <2> QED
    BY <2>1, <2>2, <2>3, Zenon
<1>4. ASSUME NEW f \in FieldName, NEW v \in Val, f = "ready" => v = "stopping" /\ version = "Modern"
      PROVE  /\ UnsetRow(Reg("drop", q, f, v), q)
             /\ \A o \in In(Reg("drop", q, f, v)) : IF f = "ready" THEN Opens(o) ELSE Closes(o)
  <2> DEFINE o == [op |-> "reg", part |-> "drop", q |-> q, f |-> f, v |-> v]
  <2>1. /\ o.op = "reg" /\ o.part = "drop" /\ o.q = q /\ o.f = f /\ o.v = v
        /\ Reg("drop", q, f, v) = <<o>>
    BY Zenon DEF Reg
  <2> HIDE DEF o
  <2>2. UnsetAccess(o, q) /\ IF f = "ready" THEN Opens(o) ELSE Closes(o)
    BY <1>4, <2>1, Zenon DEF UnsetAccess, DropAccess, Banked, Opens, Closes, Clears
  <2>3. UnsetRow(<<o>>, q) /\ In(<<o>>) = {o}
    BY <1>0, <2>2, Zenon
  <2> QED
    BY <2>1, <2>2, <2>3, Zenon
<1>5. version = "Modern" => /\ UnsetRow(Reg("drop", q, "ready", "stopping"), q)
                            /\ \A o \in In(Reg("drop", q, "ready", "stopping")) : Opens(o)
  <2>1. "ready" \in FieldName /\ "stopping" \in Val
    BY Zenon DEF FieldName, Val
  <2> QED
    BY <1>4, <2>1, Zenon
<1>6. UnsetRow(Reg("drop", q, "num", 0), q) /\ \A o \in In(Reg("drop", q, "num", 0)) : Closes(o)
  <2>1. "num" \in FieldName /\ 0 \in Val
    BY Zenon DEF FieldName, Val
  <2> QED
    BY <1>4, <2>1, Zenon
<1>7. ASSUME NEW f \in {"desc", "drv", "dev"}
      PROVE  UnsetRow(Reg("drop", q, f, Null), q) /\ \A o \in In(Reg("drop", q, f, Null)) : Closes(o)
  <2>1. f \in FieldName /\ Null \in Val /\ f # "ready"
    BY Zenon DEF FieldName, Val
  <2> QED
    BY <1>4, <2>1, Zenon
<1> QED
  BY <1>1, <1>2, <1>3, <1>5, <1>6, <1>7, Zenon

\* queue_unset touches its own queue, and a modern device is waited for.
LEMMA UnsetFacts ==
  ASSUME Known, NEW q \in Queue
  PROVE  /\ UnsetRow(queue_unset(q), q) /\ Selected(queue_unset(q), Null)
         /\ version = "Modern" => \E o \in In(queue_unset(q)) : Waits(o, q)
<1> DEFINE R(f, v) == Reg("drop", q, f, v)
           sel == Sel("drop", q)
           Start(t) == OneQueue(t, q) /\ UnsetRow(t, q)
<1>1. CASE version = "Pci"
  <2>1. queue_unset(q) = <<>>
    BY <1>1, Zenon DEF queue_unset
  <2> QED
    BY <1>1, <2>1, DropEmpty, EmptySeq, Zenon DEF UnsetRow
<1>2. ASSUME NEW s, Start(s), NEW t, UnsetRow(t, q),
             (\A x \in In(s) : Opens(x)) \/ (\A y \in In(t) : Closes(y))
      PROVE  Start(s \o t) /\ In(s \o t) = In(s) \cup In(t)
  <2>1. UnsetRow(s \o t, q) /\ In(s \o t) = In(s) \cup In(t)
    BY <1>2, UnsetCat
  <2>2. OneQueue(s \o t, q)
    BY <1>2, OneQueueCat, Zenon DEF UnsetRow, DropRow, UnsetAccess
  <2> QED
    BY <2>1, <2>2, Zenon
<1>3. ASSUME NEW t, Start(t) PROVE UnsetRow(t, q) /\ Selected(t, Null)
  BY <1>3, OneQueueSelected, Zenon
<1> HIDE DEF Start
<1>4. CASE version = "Legacy"
  <2> DEFINE u1 == sel \o R("num", 0)
             u2 == u1 \o Touch("drop")
             u3 == u2 \o R("desc", Null)
  <2>1. queue_unset(q) = u3
    BY <1>4, Zenon DEF queue_unset
  <2>2. Start(sel)
    BY <1>4, UnsetAccesses, Zenon DEF Start
  <2>3. Start(u1)
    BY <1>2, <1>4, <2>2, UnsetAccesses, Zenon
  <2> HIDE DEF u1
  <2>4. Start(u2)
    BY <1>2, <1>4, <2>3, UnsetAccesses, Zenon
  <2> HIDE DEF u2
  <2>5. Start(u3)
    BY <1>2, <1>4, <2>4, UnsetAccesses, Zenon
  <2> QED
    BY <1>3, <1>4, <2>1, <2>5, Zenon
<1>5. CASE version = "Modern"
  <2> DEFINE u1 == sel \o R("ready", "stopping")
             u2 == u1 \o WaitOff(q)
             u3 == u2 \o R("num", 0)
             u4 == u3 \o R("desc", Null)
             u5 == u4 \o R("drv", Null)
             u6 == u5 \o R("dev", Null)
  <2>1. queue_unset(q) = u6
    BY <1>5, Zenon DEF queue_unset
  <2>2. Start(sel) /\ \A o \in In(sel) : Opens(o)
    BY <1>5, UnsetAccesses, Zenon DEF Start
  <2>3. UnsetRow(R("ready", "stopping"), q) /\ \A o \in In(R("ready", "stopping")) : Opens(o)
    BY <1>5, UnsetAccesses, Zenon
  <2>4. Start(u1) /\ \A o \in In(u1) : Opens(o)
    BY <1>2, <2>2, <2>3, Zenon
  <2> HIDE DEF u1
  <2>5. Start(u2) /\ \E o \in In(u2) : Waits(o, q)
    BY <1>2, <1>5, <2>4, UnsetAccesses, Zenon
  <2> HIDE DEF u2
  <2>6. Start(u3) /\ In(u2) \subseteq In(u3)
    BY <1>2, <1>5, <2>5, UnsetAccesses, Zenon
  <2> HIDE DEF u3
  <2>7. Start(u4) /\ In(u3) \subseteq In(u4)
    BY <1>2, <1>5, <2>6, UnsetAccesses, Zenon
  <2> HIDE DEF u4
  <2>8. Start(u5) /\ In(u4) \subseteq In(u5)
    BY <1>2, <1>5, <2>7, UnsetAccesses, Zenon
  <2> HIDE DEF u5
  <2>9. Start(u6) /\ In(u5) \subseteq In(u6)
    BY <1>2, <1>5, <2>8, UnsetAccesses, Zenon
  <2> HIDE DEF u6
  <2>10. \E o \in In(u6) : Waits(o, q)
    BY <2>5, <2>6, <2>7, <2>8, <2>9, Zenon
  <2> QED
    BY <1>3, <2>1, <2>9, <2>10, Zenon
<1> QED
  BY <1>1, <1>4, <1>5, Zenon DEF Known

\* The accesses made when the fields of a driver are dropped.
LEMMA FieldAccesses ==
  ASSUME Known, NEW p
  PROVE  /\ DropRow(ResetDevice, p)
         /\ \A o \in In(ResetDevice) : o.op \in {"status", "wait_reset"}
         /\ \E o \in In(ResetDevice) : IsReset(o)
         /\ \E o \in In(ResetDevice) : IsBarrier(o)
         /\ \A r \in Region : DropRow(Free(r), p) /\ \A o \in In(Free(r)) : o.op = "free"
<1> DEFINE s == [op |-> "status", part |-> "drop", v |-> {}]
           w == [op |-> "wait_reset", part |-> "drop"]
<1>1. s.op = "status" /\ s.part = "drop" /\ s.v = {} /\ Status("drop", {}) = <<s>>
  BY Zenon DEF Status
<1>2. w.op = "wait_reset" /\ w.part = "drop" /\ WaitReset = <<w>>
  BY Zenon DEF WaitReset
<1> HIDE DEF s, w
<1>3. DropAccess(s) /\ IsReset(s) /\ ~Banked(s) /\ ~Banked(w) /\ (version = "Pci" => DropAccess(w))
  BY <1>1, <1>2, Zenon DEF DropAccess, IsReset, Banked
<1> DEFINE a == <<s>>
           b == <<w>>
<1>4. DropRow(a, p) /\ In(a) = {s}
  BY <1>3, DropOne, Zenon
<1>5. ASSUME version = "Pci"
      PROVE  /\ DropRow(ResetDevice, p)
             /\ \A o \in In(ResetDevice) : o.op \in {"status", "wait_reset"}
             /\ \E o \in In(ResetDevice) : IsReset(o)
             /\ \E o \in In(ResetDevice) : IsBarrier(o)
  <2>1. DropRow(b, p) /\ In(b) = {w}
    BY <1>3, <1>5, DropOne, Zenon
  <2>2. ResetDevice = a \o b
    BY <1>1, <1>2, <1>5, Zenon DEF ResetDevice
  <2> HIDE DEF a, b
  <2>3. MayDrop(s, w, p)
    BY <1>1, <1>2, Zenon DEF MayDrop, IsReset
  <2>4. \A x \in In(a), y \in In(b) : MayDrop(x, y, p)
    BY <1>4, <2>1, <2>3, Zenon
  <2>5. DropRow(ResetDevice, p) /\ In(ResetDevice) = {s, w}
    BY <1>4, <2>1, <2>2, <2>4, DropCat
  <2>6. IsBarrier(w)
    BY <1>2, <1>5, Zenon DEF IsBarrier
  <2> QED
    BY <1>1, <1>2, <1>3, <2>5, <2>6, Zenon
<1>6. ASSUME version # "Pci"
      PROVE  /\ DropRow(ResetDevice, p)
             /\ \A o \in In(ResetDevice) : o.op \in {"status", "wait_reset"}
             /\ \E o \in In(ResetDevice) : IsReset(o)
             /\ \E o \in In(ResetDevice) : IsBarrier(o)
  <2>1. ResetDevice = a \o <<>>
    BY <1>1, <1>6, Zenon DEF ResetDevice
  <2> HIDE DEF a, b
  <2>2. DropRow(ResetDevice, p) /\ In(ResetDevice) = {s}
    BY <1>4, <2>1, DropEmpty, DropCat
  <2>3. IsBarrier(s)
    BY <1>3, <1>6, Zenon DEF IsBarrier
  <2> QED
    BY <1>1, <1>3, <2>2, <2>3, Zenon
<1>7. ASSUME NEW r \in Region PROVE DropRow(Free(r), p) /\ \A o \in In(Free(r)) : o.op = "free"
  <2> DEFINE o == [op |-> "free", part |-> "drop", v |-> r]
  <2>1. o.op = "free" /\ o.part = "drop" /\ o.v = r /\ Free(r) = <<o>>
    BY Zenon DEF Free
  <2> HIDE DEF o
  <2>2. DropAccess(o)
    BY <2>1, Zenon DEF DropAccess
  <2> QED
    BY <2>1, <2>2, DropOne, Zenon
<1> QED
  BY <1>5, <1>6, <1>7, Zenon

\* The transport is dropped, and resets the device, before any memory is freed.
LEMMA DropFieldsFacts ==
  ASSUME Known
  PROVE  /\ DropRow(DropFields, "drop")
         /\ \A o \in In(DropFields) : o.op \in {"status", "wait_reset", "free"}
         /\ \E o \in In(DropFields) : IsReset(o)
         /\ \E o \in In(DropFields) : IsBarrier(o)
<1> DEFINE f1 == ResetDevice \o Free(0)
           f2 == f1 \o Free(1)
<1>0. 0 \in Region /\ 1 \in Region /\ Buffers \in Region
  BY Zenon DEF Region, Queue
<1>1. ASSUME NEW x, DropAccess(x), x.op \in {"status", "wait_reset", "free"}, NEW y, y.op = "free"
      PROVE  MayDrop(x, y, "drop")
  BY <1>1, Zenon DEF MayDrop, IsReset, Sets, Waits
<1>2. ASSUME NEW t, DropRow(t, "drop"), \A o \in In(t) : o.op \in {"status", "wait_reset", "free"},
             NEW r \in Region
      PROVE  /\ DropRow(t \o Free(r), "drop") /\ In(t) \subseteq In(t \o Free(r))
             /\ \A o \in In(t \o Free(r)) : o.op \in {"status", "wait_reset", "free"}
  <2>1. DropRow(Free(r), "drop") /\ \A o \in In(Free(r)) : o.op = "free"
    BY FieldAccesses, Zenon
  <2>2. \A x \in In(t), y \in In(Free(r)) : MayDrop(x, y, "drop")
    BY <1>1, <1>2, <2>1, Zenon DEF DropRow
  <2>3. DropRow(t \o Free(r), "drop") /\ In(t \o Free(r)) = In(t) \cup In(Free(r))
    BY <1>2, <2>1, <2>2, DropCat
  <2> QED
    BY <1>2, <2>1, <2>3, Zenon
<1>3. /\ DropRow(ResetDevice, "drop")
      /\ \A o \in In(ResetDevice) : o.op \in {"status", "wait_reset", "free"}
  BY FieldAccesses, Zenon
<1>4. /\ DropRow(f1, "drop") /\ In(ResetDevice) \subseteq In(f1)
      /\ \A o \in In(f1) : o.op \in {"status", "wait_reset", "free"}
  BY <1>0, <1>2, <1>3, Zenon
<1> HIDE DEF f1
<1>5. /\ DropRow(f2, "drop") /\ In(f1) \subseteq In(f2)
      /\ \A o \in In(f2) : o.op \in {"status", "wait_reset", "free"}
  BY <1>0, <1>2, <1>4, Zenon
<1> HIDE DEF f2
<1>6. DropFields = f2 \o Free(Buffers)
  BY Zenon DEF DropFields, f1, f2
<1>7. /\ DropRow(DropFields, "drop") /\ In(f2) \subseteq In(DropFields)
      /\ \A o \in In(DropFields) : o.op \in {"status", "wait_reset", "free"}
  BY <1>0, <1>2, <1>5, <1>6, Zenon
<1>8. In(ResetDevice) \subseteq In(DropFields)
  BY <1>4, <1>5, <1>7, Zenon
<1> QED
  BY <1>7, <1>8, FieldAccesses, Zenon

\* The drop of each driver.
LEMMA DropFacts ==
  ASSUME Known
  PROVE  /\ DropRow(DropDriver, "drop") /\ Selected(DropDriver, Null)
         /\ \E o \in In(DropDriver) : IsReset(o)
         /\ \E o \in In(DropDriver) : IsBarrier(o)
         /\ \A q \in Queue, o \in In(DropDriver) : o.op = "reg" /\ o.q = q =>
              q \in Queues /\ (version = "Modern" => \E w \in In(DropDriver) : Waits(w, q))
<1> DEFINE second == IF HasQueue(1) THEN queue_unset(1) ELSE <<>>
           both == queue_unset(0) \o second
           unset == IF driver \in {"net_raw", "net"} THEN <<>> ELSE both
           Unsets(t) == /\ DropRow(t, "drop") /\ Selected(t, Null)
                        /\ \A o \in In(t) : DropAccess(o) /\ o.op \in {"sel", "touch", "reg", "wait"}
                        /\ \A q \in Queue, o \in In(t) : o.op = "reg" /\ o.q = q =>
                             q \in Queues /\ (version = "Modern" => \E w \in In(t) : Waits(w, q))
<1>1. Unsets(<<>>)
  BY DropEmpty, EmptySeq, Zenon
<1>2. ASSUME NEW q \in Queues PROVE Unsets(queue_unset(q)) /\ UnsetRow(queue_unset(q), q)
  <2>1. q \in Queue
    BY Zenon DEF Queues
  <2>2. /\ UnsetRow(queue_unset(q), q) /\ Selected(queue_unset(q), Null)
        /\ version = "Modern" => \E o \in In(queue_unset(q)) : Waits(o, q)
    BY <2>1, UnsetFacts, Zenon
  <2>3. DropRow(queue_unset(q), "drop") /\ \A o \in In(queue_unset(q)) :
          DropAccess(o) /\ o.op \in {"sel", "touch", "reg", "wait"} /\ (Banked(o) => o.q = q)
    BY <2>2, Zenon DEF UnsetRow, UnsetAccess
  <2>4. \A p \in Queue, o \in In(queue_unset(q)) : o.op = "reg" /\ o.q = p => p = q
    BY <2>3, Zenon DEF Banked
  <2> QED
    BY <1>2, <2>2, <2>3, <2>4, Zenon
<1>3. Unsets(both)
  <2>1. 0 \in Queues
    BY Zenon DEF Queues, Queue, HasQueue
  <2>2. CASE 1 \in Queues
    <3> DEFINE a == queue_unset(0)
               b == queue_unset(1)
    <3>1. both = a \o b
      BY <2>2, Zenon DEF Queues
    <3>2. Unsets(a) /\ Unsets(b) /\ UnsetRow(a, 0) /\ UnsetRow(b, 1)
      BY <1>2, <2>1, <2>2, Zenon
    <3> HIDE DEF a, b
    <3>3. ASSUME NEW x \in In(a), NEW y \in In(b) PROVE MayDrop(x, y, "drop")
      <4>1. UnsetAccess(x, 0) /\ UnsetAccess(y, 1)
        BY <3>2, Zenon DEF UnsetRow
      <4> QED
        BY <4>1 DEF MayDrop, UnsetAccess, IsReset, Sets, Waits, Banked
    <3>4. DropRow(a \o b, "drop") /\ In(a \o b) = In(a) \cup In(b)
      BY <3>2, <3>3, DropCat
    <3>5. Selected(a \o b, Null)
      <4>1. \A o \in In(b) : Banked(o) => o.q # Null
        BY <3>2 DEF UnsetRow, UnsetAccess, Null
      <4> QED
        BY <3>2, <4>1, CatSelected, Zenon DEF DropRow
    <3>6. \A q \in Queue, o \in In(a \o b) : o.op = "reg" /\ o.q = q =>
            q \in Queues /\ (version = "Modern" => \E w \in In(a \o b) : Waits(w, q))
      BY <3>2, <3>4, Zenon
    <3>7. \A o \in In(a \o b) : DropAccess(o) /\ o.op \in {"sel", "touch", "reg", "wait"}
      BY <3>2, <3>4, Zenon
    <3> QED
      BY <3>1, <3>4, <3>5, <3>6, <3>7, Zenon
  <2>3. CASE 1 \notin Queues
    <3> DEFINE a == queue_unset(0)
    <3>1. both = a \o <<>>
      <4>1. ~HasQueue(1)
        BY <2>3, Zenon DEF Queues, Queue
      <4> QED
        BY <4>1, Zenon
    <3>2. Unsets(a)
      BY <1>2, <2>1, Zenon
    <3> HIDE DEF a
    <3>3. DropRow(a \o <<>>, "drop") /\ In(a \o <<>>) = In(a)
      BY <3>2, DropEmpty, DropCat
    <3>4. Selected(a \o <<>>, Null)
      BY <3>2, EmptySeq, CatSelected, Zenon DEF DropRow
    <3> QED
      BY <3>1, <3>2, <3>3, <3>4, Zenon
  <2> QED
    BY <2>2, <2>3, Zenon
<1>4. Unsets(unset)
  BY <1>1, <1>3, Zenon
<1>5. DropDriver = unset \o DropFields
  BY Zenon DEF DropDriver
<1> HIDE DEF unset
<1>6. /\ DropRow(unset, "drop") /\ Selected(unset, Null)
      /\ \A o \in In(unset) : DropAccess(o) /\ o.op \in {"sel", "touch", "reg", "wait"}
      /\ \A q \in Queue, o \in In(unset) : o.op = "reg" /\ o.q = q =>
           q \in Queues /\ (version = "Modern" => \E w \in In(unset) : Waits(w, q))
  BY <1>4, Zenon
<1> HIDE DEF Unsets
<1>7. /\ DropRow(DropFields, "drop")
      /\ \A o \in In(DropFields) : o.op \in {"status", "wait_reset", "free"}
      /\ \E o \in In(DropFields) : IsReset(o)
      /\ \E o \in In(DropFields) : IsBarrier(o)
  BY DropFieldsFacts, Zenon
<1>8. ASSUME NEW x \in In(unset), NEW y \in In(DropFields) PROVE MayDrop(x, y, "drop")
  <2>1. x.op \in {"sel", "touch", "reg", "wait"} /\ y.op \in {"status", "wait_reset", "free"}
    BY <1>6, <1>7, Zenon
  <2> QED
    BY <2>1, Zenon DEF MayDrop, IsReset, Sets, Waits
<1>9. DropRow(DropDriver, "drop") /\ In(DropDriver) = In(unset) \cup In(DropFields)
  BY <1>5, <1>6, <1>7, <1>8, DropCat
<1>10. Selected(DropDriver, Null)
  <2>1. \A o \in In(DropFields) : ~Banked(o)
    BY <1>7, Zenon DEF Banked
  <2>2. Selected(DropFields, Null)
    BY <1>7, <2>1, Unbanked, Zenon DEF DropRow
  <2> QED
    BY <1>5, <1>6, <1>7, <2>1, <2>2, CatSelected, Zenon DEF DropRow
<1>11. \A q \in Queue, o \in In(DropDriver) : o.op = "reg" /\ o.q = q =>
         q \in Queues /\ (version = "Modern" => \E w \in In(DropDriver) : Waits(w, q))
  <2>1. \A o \in In(DropDriver) : o.op = "reg" => o \in In(unset)
    BY <1>7, <1>9, Zenon
  <2> QED
    BY <1>6, <1>9, <2>1, Zenon
<1> QED
  BY <1>7, <1>9, <1>10, <1>11, Zenon

\* The locals of a `new` that fails: the device is reset, in whatever order memory is freed.
LEMMA UnwindFacts ==
  ASSUME Known, Head(todo).part # "fill"
  PROVE  /\ DropRow(Unwind, "unwind") /\ Selected(Unwind, Null)
         /\ \A o \in In(Unwind) : o.op \in {"status", "wait_reset", "free"}
         /\ \E o \in In(Unwind) : IsReset(o)
         /\ \E o \in In(Unwind) : IsBarrier(o)
<1> DEFINE f1 == Free(1) \o Free(0)
           f2 == f1 \o Free(Buffers)
           Frees(t) == DropRow(t, "unwind") /\ \A o \in In(t) : o.op = "free"
<1>0. 0 \in Region /\ 1 \in Region /\ Buffers \in Region
  BY Zenon DEF Region, Queue
<1>1. ASSUME NEW x, x.op = "free", NEW y PROVE MayDrop(x, y, "unwind")
  BY <1>1, Zenon DEF MayDrop, IsReset
<1>2. ASSUME NEW s, Frees(s), NEW t, DropRow(t, "unwind")
      PROVE  DropRow(s \o t, "unwind") /\ In(s \o t) = In(s) \cup In(t)
  BY <1>1, <1>2, DropCat
<1>3. Frees(Free(1)) /\ Frees(Free(0)) /\ Frees(Free(Buffers))
  BY <1>0, FieldAccesses, Zenon
<1>4. Frees(f1)
  BY <1>2, <1>3
<1> HIDE DEF f1
<1>5. Frees(f2)
  BY <1>2, <1>3, <1>4
<1> HIDE DEF f2
<1>6. Unwind = f2 \o ResetDevice
  BY Zenon DEF Unwind, f1, f2
<1>7. DropRow(Unwind, "unwind") /\ In(Unwind) = In(f2) \cup In(ResetDevice)
  BY <1>2, <1>5, <1>6, FieldAccesses, Zenon
<1>8. \A o \in In(Unwind) : o.op \in {"status", "wait_reset", "free"}
  BY <1>5, <1>7, FieldAccesses, Zenon
<1>9. Selected(Unwind, Null)
  BY <1>7, <1>8, Unbanked, Zenon DEF DropRow, Banked
<1> QED
  BY <1>7, <1>8, <1>9, FieldAccesses, Zenon

-----------------------------------------------------------------------------
(* Calls and errors *)

\* Accesses that select their queue themselves work whatever is selected.
LEMMA SelectedAny ==
  ASSUME NEW t, IsSeq(t), Selected(t, Null), \A o \in In(t) : Banked(o) => o.q # Null, NEW c
  PROVE  Selected(t, c)
  BY Zenon DEF Selected, In

\* A driver is created.
LEMMA CallNewStep ==
  ASSUME LifeInv, CallNew
  PROVE  LifeInv'
<1>0. TypeInv /\ NoneInv /\ LiveQueueIsComplete /\ err' # "AlreadyUsed"
  BY Zenon DEF LifeInv, CallNew
<1>1. /\ pc' = "new" /\ todo' = New /\ mem' = [r \in Region |-> "none"]
      /\ driver' = driver /\ version' = version /\ queue_sel' = queue_sel
      /\ UNCHANGED <<status, features, reg, posted>>
  BY Zenon DEF CallNew, device
<1>2. /\ IsSeq(New) /\ (\A o \in In(New) : NewAccess(o)) /\ Ordered(New, "new")
      /\ Selected(New, Null) /\ Will(New)
      /\ (\E o \in In(New) : IsAck(o)) /\ \E o \in In(New) : IsReset(o)
  BY <1>0, NewFacts, Zenon DEF TypeInv, Known
<1>3. PICK u : u = New
  BY Zenon
<1> HIDE DEF New
<1>4. /\ todo' = u /\ IsSeq(u) /\ (\A o \in In(u) : NewAccess(o)) /\ Ordered(u, "new")
      /\ Selected(u, Null) /\ Will(u) /\ (\E o \in In(u) : IsAck(o)) /\ \E o \in In(u) : IsReset(o)
  BY <1>1, <1>2, <1>3, Zenon
<1>5. Selected(u, queue_sel)
  <2>1. \A o \in In(u) : Banked(o) => o.q # Null
    <3>1. \A q \in Queues : q # Null
      BY DEF Queues, Queue, Null
    <3>2. \A o \in In(u) : Banked(o) => o.q \in Queues
      BY <1>4, Zenon DEF NewAccess, Banked
    <3> QED
      BY <3>1, <3>2, Zenon
  <2> QED
    BY <1>4, <2>1, SelectedAny, Zenon
<1>6. Ordered(todo, pc)' /\ Selected(todo, queue_sel)'
  BY <1>1, <1>4, <1>5, Stays, Zenon DEF Selected
<1>7. TypeInv'
  BY <1>0, <1>1, <1>4, Zenon DEF TypeInv
<1>8. LiveQueueIsComplete'
  BY <1>0, <1>1, LiveKept, Zenon
<1>9. HasAck' /\ HasReset'
  BY <1>4, Zenon DEF HasAck, HasReset
<1>10. (\A o \in In(todo) : NewAccess(o))'
  BY <1>1, <1>4, Stays, Zenon
<1>11. status' = {} /\ ~posted' /\ Untouched' /\ \A r \in Region : mem'[r] = "none"
  BY <1>0, <1>1, Zenon DEF NoneInv, Untouched
<1>12. Will(todo)' /\ WillBe'
  <2>1. Queues' = Queues /\ Fields' = Fields
    BY <1>1, Stays, Zenon
  <2> QED
    BY <1>4, <2>1, Zenon DEF Will, WillBe
<1>13. \A q \in Queue : reg'[q]["ready"] # "stopping"
  BY <1>11, BankValues, Zenon DEF Untouched
<1>14. NewInv'
  BY <1>9, <1>10, <1>11, <1>12, <1>13, Zenon DEF NewInv
<1> QED
  BY <1>0, <1>1, <1>6, <1>7, <1>8, <1>11, <1>14, Zenon DEF LifeInv

\* A driver is dropped.
LEMMA CallDropStep ==
  ASSUME LifeInv, CallDrop
  PROVE  LifeInv'
<1>0. /\ TypeInv /\ NewInv /\ LiveQueueIsComplete /\ todo = <<>> /\ err # "AlreadyUsed"
      /\ (version # "Pci" => "RESET" \notin status)
      /\ ~(\E r \in Region : mem[r] = "freed") \/ "DRIVER_OK" \notin status
  BY Zenon DEF LifeInv, CallDrop
<1>1. /\ pc' = "drop" /\ todo' = DropDriver /\ err' = err /\ mem' = mem
      /\ driver' = driver /\ version' = version /\ queue_sel' = queue_sel
      /\ UNCHANGED <<status, features, reg, posted>>
  BY Zenon DEF CallDrop, device
<1>2. /\ DropRow(DropDriver, "drop") /\ Selected(DropDriver, Null)
      /\ \E o \in In(DropDriver) : IsReset(o)
      /\ \E o \in In(DropDriver) : IsBarrier(o)
      /\ \A q \in Queue, o \in In(DropDriver) : o.op = "reg" /\ o.q = q =>
           q \in Queues /\ (version = "Modern" => \E w \in In(DropDriver) : Waits(w, q))
  BY <1>0, DropFacts, Zenon DEF TypeInv, Known
<1>3. PICK u : u = DropDriver
  BY Zenon
<1>4. /\ todo' = u /\ IsSeq(u) /\ (\A o \in In(u) : DropAccess(o)) /\ Ordered(u, "drop")
      /\ Selected(u, Null) /\ (\E o \in In(u) : IsReset(o)) /\ (\E o \in In(u) : IsBarrier(o))
      /\ \A q \in Queue, o \in In(u) : o.op = "reg" /\ o.q = q =>
           q \in Queues /\ (version = "Modern" => \E w \in In(u) : Waits(w, q))
  BY <1>1, <1>2, <1>3, Zenon DEF DropRow
<1>5. Selected(u, queue_sel)
  <2>1. \A o \in In(u) : Banked(o) => o.q # Null
    <3>1. \A q \in Queue : q # Null
      BY DEF Queue, Null
    <3>2. \A o \in In(u) : Banked(o) => o.q \in Queue
      BY <1>4, Zenon DEF DropAccess, Banked
    <3> QED
      BY <3>1, <3>2, Zenon
  <2> QED
    BY <1>4, <2>1, SelectedAny, Zenon
<1>6. Ordered(todo, pc)' /\ Selected(todo, queue_sel)'
  BY <1>1, <1>4, <1>5, Stays, Zenon DEF Selected
<1>7. TypeInv'
  BY <1>0, <1>1, <1>4, Zenon DEF TypeInv
<1>8. LiveQueueIsComplete'
  BY <1>0, <1>1, LiveKept, Zenon
<1>9. HasReset' /\ \E o \in In(todo') : IsBarrier(o)'
  BY <1>1, <1>4, Stays, Zenon DEF HasReset
<1>10. (\A o \in In(todo) : DropAccess(o))'
  BY <1>1, <1>4, Stays, Zenon
<1>11. ASSUME version = "Modern", NEW q \in Queue, NEW o \in In(u), o.op = "reg", o.q = q
       PROVE  reg[q]["num"] # 0 /\ \A f \in {"desc", "drv", "dev"} : reg[q][f] = q
  <2>1. q \in Queues /\ Fields = FieldName /\ In(todo) = {}
    BY <1>0, <1>4, <1>11, EmptySeq, Zenon DEF Fields
  <2>2. \A f \in FieldName : reg[q][f] = Value(q, f)
    BY <1>0, <2>1, Zenon DEF NewInv, WillBe
  <2> QED
    BY <2>2 DEF Value, FieldName, Size
<1>12. DropInv'
  BY <1>1, <1>4, <1>9, <1>10, <1>11, Zenon DEF DropInv, Sets
<1> QED
  BY <1>0, <1>1, <1>6, <1>7, <1>8, <1>12, Zenon DEF LifeInv

\* An error that `?` passes on drops what `new` has made, without DRIVER_OK set.
LEMMA FailStep ==
  ASSUME LifeInv, todo # <<>>, NEW e, e # "AlreadyUsed", Fail(e),
         pc = "new" => /\ Head(todo).part # "fill"
                       /\ Head(todo).part = "begin" => driver \notin {"net_raw", "net"}
  PROVE  LifeInv'
<1>0. /\ TypeInv /\ LiveQueueIsComplete
      /\ (version # "Pci" => "RESET" \notin status)
      /\ ~(\E r \in Region : mem[r] = "freed") \/ "DRIVER_OK" \notin status
      /\ (pc = "new" => NewInv)
  BY Zenon DEF LifeInv
<1>1. /\ err' = e /\ mem' = mem /\ driver' = driver /\ version' = version /\ queue_sel' = queue_sel
      /\ UNCHANGED <<status, features, reg, posted>>
  BY Zenon DEF Fail, device
<1>2. Head(todo) \in In(todo)
  BY <1>0, TailSeq, Zenon DEF TypeInv
<1>3. LiveQueueIsComplete'
  BY <1>0, <1>1, LiveKept, Zenon
<1>4. ASSUME todo' = <<>>, pc' \in {"panicked", "none"}, pc' = "none" => NoneInv' PROVE LifeInv'
  <2>1. IsSeq(todo') /\ Ordered(todo, pc)' /\ Selected(todo, queue_sel)'
    <3>1. IsSeq(<<>>) /\ Ordered(<<>>, pc') /\ Selected(<<>>, queue_sel')
      BY EmptySeq, Zenon
    <3>2. Ordered(todo, pc)'
      BY <1>4 DEF Ordered
    <3>3. Selected(todo, queue_sel)'
      BY <1>4, <3>1, Zenon DEF Selected
    <3> QED
      BY <1>4, <3>1, <3>2, <3>3, Zenon
  <2>2. TypeInv'
    BY <1>0, <1>1, <1>4, <2>1, Zenon DEF TypeInv
  <2> QED
    BY <1>0, <1>1, <1>3, <1>4, <2>1, <2>2, Zenon DEF LifeInv
<1>5. CASE pc # "new"
  BY <1>4, <1>5, Zenon DEF Fail
<1>6. CASE pc = "new" /\ Head(todo).part = "probe"
  <2>1. pc' = "none" /\ todo' = <<>>
    BY <1>6, Zenon DEF Fail
  <2>2. status = {} /\ ~posted /\ Untouched /\ \A r \in Region : mem[r] = "none"
    BY <1>0, <1>2, <1>6, Zenon DEF NewInv
  <2>3. NoneInv'
    BY <1>1, <2>2, Zenon DEF NoneInv, Untouched
  <2> QED
    BY <1>4, <2>1, <2>3, Zenon
<1>7. CASE pc = "new" /\ Head(todo).part # "probe"
  <2>1. pc' = "unwind" /\ todo' = Unwind
    BY <1>7, Zenon DEF Fail
  <2>2. /\ DropRow(Unwind, "unwind") /\ Selected(Unwind, Null)
        /\ \A o \in In(Unwind) : o.op \in {"status", "wait_reset", "free"}
        /\ \E o \in In(Unwind) : IsReset(o)
        /\ \E o \in In(Unwind) : IsBarrier(o)
    BY <1>0, <1>7, UnwindFacts, Zenon DEF TypeInv, Known
  <2>3. PICK u : u = Unwind
    BY Zenon
  <2>4. /\ todo' = u /\ IsSeq(u) /\ (\A o \in In(u) : DropAccess(o)) /\ Ordered(u, "unwind")
        /\ Selected(u, Null) /\ (\E o \in In(u) : IsReset(o)) /\ (\E o \in In(u) : IsBarrier(o))
        /\ \A o \in In(u) : o.op \in {"status", "wait_reset", "free"}
    BY <2>1, <2>2, <2>3, Zenon DEF DropRow
  <2>5. Selected(u, queue_sel)
    BY <2>4, SelectedAny, Zenon DEF Banked
  <2>6. Ordered(todo, pc)' /\ Selected(todo, queue_sel)'
    BY <1>1, <2>1, <2>4, <2>5, Stays, Zenon DEF Selected
  <2>7. TypeInv'
    BY <1>0, <1>1, <2>1, <2>4, Zenon DEF TypeInv
  <2>8. "DRIVER_OK" \notin status
    BY <1>0, <1>2, <1>7, Zenon DEF NewInv
  <2>9. HasReset' /\ \E o \in In(todo') : IsBarrier(o)'
    BY <1>1, <2>4, Stays, Zenon DEF HasReset
  <2>10. (\A o \in In(todo) : DropAccess(o))'
    BY <1>1, <2>4, Stays, Zenon
  <2>11. \A o \in In(todo') : o.op # "reg" /\ \A q, f : ~Sets(o, q, f)
    BY <2>4, Zenon DEF Sets
  <2>12. DropInv'
    BY <1>1, <2>8, <2>9, <2>10, <2>11, Zenon DEF DropInv
  <2> QED
    BY <1>0, <1>1, <1>3, <2>1, <2>6, <2>7, <2>8, <2>12, Zenon DEF LifeInv
<1> QED
  BY <1>5, <1>6, <1>7, Zenon

\* The checks of VirtQueue::new: queue_used, max_queue_size and the rest.
LEMMA ReadStep ==
  ASSUME LifeInv, ReadUsed \/ ReadChecked
  PROVE  LifeInv'
<1>0. /\ TypeInv /\ todo # <<>> /\ (pc = "new" => NewInv)
      /\ Head(todo).op \in {"used", "check"} /\ Head(todo) \in In(todo)
  BY TailSeq, Zenon DEF LifeInv, TypeInv, ReadUsed, ReadChecked, At
<1>1. CASE Done /\ UNCHANGED <<mem, device>>
  <2>1. UNCHANGED <<mem, status, features, queue_sel, reg, posted>>
    BY <1>1, Zenon DEF device
  <2> QED
    BY <1>0, <1>1, <2>1, Quiet, Zenon
<1>2. CASE ReadUsed /\ ~(Done /\ UNCHANGED <<mem, device>>)
  BY <1>2, NeverUsed, Zenon DEF ReadUsed
<1>3. CASE ReadChecked /\ ~(Done /\ UNCHANGED <<mem, device>>)
  <2>1. Fail("InvalidParam") /\ Head(todo).op = "check"
    BY <1>3, Zenon DEF ReadChecked, At
  <2>2. pc = "new" => Head(todo).part \in {"probe", "new"}
    BY <1>0, <2>1, Zenon DEF NewInv, NewAccess
  <2> QED
    BY <1>0, <2>1, <2>2, FailStep, Zenon
<1> QED
  BY <1>1, <1>2, <1>3, Zenon

\* A transport access fails and `?` returns.
LEMMA ErrorStep ==
  ASSUME LifeInv, Faulty \cap {"net_raw", "net"} = {}, IoError
  PROVE  LifeInv'
<1>1. /\ TypeInv /\ todo # <<>> /\ (pc = "new" => NewInv) /\ Head(todo) \in In(todo)
      /\ Fail("Io") /\ driver \notin {"net_raw", "net"}
  BY TailSeq, Zenon DEF LifeInv, TypeInv, IoError
<1>2. pc = "new" => Head(todo).part # "fill"
  BY <1>1, Zenon DEF NewInv, NewAccess
<1> QED
  BY <1>1, <1>2, FailStep, Zenon

\* Every step keeps the invariant.
LEMMA LifeStep ==
  ASSUME LifeInv, Faulty \cap {"net_raw", "net"} = {}, [Next]_vars
  PROVE  LifeInv'
<1>1. CASE UNCHANGED vars
  BY <1>1, StutterStep, Zenon
<1>2. CASE CallNew \/ CallDrop \/ Return
  BY <1>2, CallNewStep, CallDropStep, ReturnStep, Zenon
<1>3. CASE SetStatus \/ WriteReg \/ WriteFeatures
  BY <1>3, StatusStep, RegStep, FeaturesStep, Zenon
<1>4. CASE TouchRegister \/ WriteSel \/ FreeRegion \/ AllocRegion \/ PostBuffers
  BY <1>4, QuietStep, Zenon
<1>5. CASE ReadUsed \/ ReadChecked
  BY <1>5, ReadStep, Zenon
<1>6. CASE ReadReady \/ ReadStatus
  BY <1>6, LoopStep, Zenon
<1>7. CASE IoError
  BY <1>7, ErrorStep, Zenon
<1>8. CASE DeviceStep
  BY <1>8, ResetStep, QuiesceStep DEF DeviceStep
<1> QED
  BY <1>1, <1>2, <1>3, <1>4, <1>5, <1>6, <1>7, <1>8, Zenon DEF Next, DriverAccess

-----------------------------------------------------------------------------
(* Queues and pages *)

\* What pages and align_up compute.
LEMMA PagesCover ==
  ASSUME NEW bytes \in Nat
  PROVE  /\ pages(bytes) \in Nat
         /\ PAGE_SIZE * pages(bytes) >= bytes
         /\ bytes > 0 => pages(bytes) > 0
  BY DEF pages, PAGE_SIZE

\* align_up of consts.rs: a multiple of the page size, and always more than it is given.
LEMMA AlignUp ==
  ASSUME NEW bytes \in Nat
  PROVE  /\ align_up(bytes) \in Nat
         /\ align_up(bytes) > bytes
         /\ align_up(bytes) % PAGE_SIZE = 0
  BY DEF align_up, PAGE_SIZE

\* The sizes of the three areas of a queue.
LEMMA QueueSizes ==
  ASSUME NEW n \in Nat
  PROVE  /\ TableSize(n) \in Nat /\ AvailSize(n) \in Nat /\ UsedSize(n) \in Nat
         /\ USED_RING_OFFSET(n) \in Nat /\ total_size(n) \in Nat /\ total_size(n) > 0
         /\ USED_RING_OFFSET(n) > TableSize(n) + AvailSize(n)
         /\ USED_RING_OFFSET(n) + UsedSize(n) < total_size(n)
<1>1. TableSize(n) \in Nat /\ AvailSize(n) \in Nat /\ UsedSize(n) \in Nat
  BY DEF TableSize, AvailSize, UsedSize
<1>2. TableSize(n) + AvailSize(n) \in Nat
  BY <1>1
<1>3. /\ align_up(TableSize(n) + AvailSize(n)) \in Nat
      /\ align_up(TableSize(n) + AvailSize(n)) > TableSize(n) + AvailSize(n)
  BY <1>2, AlignUp, Zenon
<1>4. align_up(UsedSize(n)) \in Nat /\ align_up(UsedSize(n)) > UsedSize(n)
  BY <1>1, AlignUp, Zenon
<1> QED
  BY <1>1, <1>3, <1>4 DEF USED_RING_OFFSET, total_size

\* The rings of an even number of elements never end on a page boundary, so
\* align_up and the device's rounding agree.
LEMMA RoundingsAgree ==
  ASSUME NEW n \in Nat, n % 2 = 0
  PROVE  RoundUp(TableSize(n) + AvailSize(n)) = align_up(TableSize(n) + AvailSize(n))
<1> DEFINE x == TableSize(n) + AvailSize(n)
<1>1. PICK m \in Nat : n = 2 * m
  <2>1. n \div 2 \in Nat /\ n = 2 * (n \div 2)
    OBVIOUS
  <2> QED  BY <2>1, Zenon
<1>2. x = 36 * m + 6
  BY <1>1 DEF TableSize, AvailSize
<1> HIDE DEF x
<1>3. x \in Nat /\ x % 4096 # 0
  BY <1>1, <1>2
<1>4. (x + 4095) \div 4096 = (x + 4096) \div 4096
  BY <1>3
<1>5. RoundUp(x) = align_up(x)
  <2>1. x + PAGE_SIZE - 1 = x + 4095 /\ x + PAGE_SIZE = x + 4096
    BY <1>3 DEF PAGE_SIZE
  <2> QED
    BY <1>4, <2>1 DEF RoundUp, align_up, PAGE_SIZE
<1> QED
  BY <1>5, Zenon DEF x

\* Rounding commutes with a page-aligned base.
LEMMA RoundUpFromBase ==
  ASSUME NEW b \in Nat, b % PAGE_SIZE = 0, NEW x \in Nat
  PROVE  (b \div PAGE_SIZE) * PAGE_SIZE = b /\ RoundUp(b + x) = b + RoundUp(x)
  BY DEF RoundUp, PAGE_SIZE

-----------------------------------------------------------------------------
(* The inductive invariant: the allocations lie below DMA_PADDR, which is a *)
(* multiple of the page size, and a queue's region has the size that        *)
(* total_size asks for.                                                     *)

LayoutInv ==
  /\ TypeOK
  /\ DMA_PADDR % PAGE_SIZE = 0
  /\ \A r \in regions : r.base % PAGE_SIZE = 0
  /\ RegionsDisjoint
  /\ \A r \in QueueRegions : r.size >= total_size(r.queue)

\* Nothing is allocated at first.
LEMMA InitLayout == LayoutInit => LayoutInv
  BY BaseAssumption, Zenon DEF LayoutInit, LayoutInv, TypeOK, RegionsDisjoint, QueueRegions

\* H::dma_alloc takes the next pages.
LEMMA AllocLayout ==
  ASSUME LayoutInv, NEW n \in Sizes \cup {0}, NEW count \in Nat, count > 0,
         n # 0 => PAGE_SIZE * count >= total_size(n),
         DmaAlloc(n, count)
  PROVE  LayoutInv'
<1> DEFINE new == [base |-> DMA_PADDR, size |-> PAGE_SIZE * count, queue |-> n]
<1>1. regions' = regions \cup {new} /\ DMA_PADDR' = DMA_PADDR + PAGE_SIZE * count
  BY Zenon DEF DmaAlloc
<1>2. new.base = DMA_PADDR /\ new.size = PAGE_SIZE * count /\ new.queue = n
  BY Zenon
<1> HIDE DEF new
<1>3. DMA_PADDR \in Nat /\ PAGE_SIZE * count \in Nat /\ PAGE_SIZE * count > 0
  BY DEF LayoutInv, TypeOK, PAGE_SIZE
<1>4. TypeOK'
  BY <1>1, <1>2, <1>3 DEF LayoutInv, TypeOK
<1>5. DMA_PADDR' % PAGE_SIZE = 0 /\ \A r \in regions' : r.base % PAGE_SIZE = 0
  <2>1. (DMA_PADDR + PAGE_SIZE * count) % PAGE_SIZE = 0
    BY <1>3 DEF LayoutInv, PAGE_SIZE
  <2> QED
    BY <1>1, <1>2, <2>1, Zenon DEF LayoutInv
<1>6. \A r \in regions : /\ r.base \in Nat /\ r.size \in Nat
                         /\ r.size > 0 /\ r.base + r.size <= DMA_PADDR
  BY Zenon DEF LayoutInv, TypeOK, RegionsDisjoint
<1>7. RegionsDisjoint'
  <2>1. \A r \in regions' : r.size > 0 /\ r.base + r.size <= DMA_PADDR'
    BY <1>1, <1>2, <1>3, <1>6
  <2>2. ASSUME NEW r \in regions', NEW s \in regions', r # s
        PROVE  r.base + r.size <= s.base \/ s.base + s.size <= r.base
    <3>1. CASE r \in regions /\ s \in regions
      BY <2>2, <3>1, Zenon DEF LayoutInv, RegionsDisjoint
    <3>2. CASE r = new /\ s \in regions
      BY <1>2, <1>6, <3>2, Zenon
    <3>3. CASE s = new /\ r \in regions
      BY <1>2, <1>6, <3>3, Zenon
    <3> QED
      BY <1>1, <2>2, <3>1, <3>2, <3>3, Zenon
  <2> QED
    BY <2>1, <2>2, Zenon DEF RegionsDisjoint
<1>8. \A r \in QueueRegions' : r.size >= total_size(r.queue)
  BY <1>1, <1>2, Zenon DEF LayoutInv, QueueRegions
<1> QED
  BY <1>4, <1>5, <1>7, <1>8, Zenon DEF LayoutInv

\* Every step keeps the layout.
LEMMA NextLayout == LayoutInv /\ [LayoutNext]_layout => LayoutInv'
<1> SUFFICES ASSUME LayoutInv, [LayoutNext]_layout PROVE LayoutInv'
  BY Zenon
<1>1. ASSUME NEW n \in Sizes, dma_alloc(n) PROVE LayoutInv'
  <2>1. n \in Nat
    BY SizesAssumption, Zenon
  <2>2. total_size(n) \in Nat /\ total_size(n) > 0
    BY <2>1, QueueSizes, Zenon
  <2>3. /\ pages(total_size(n)) \in Nat /\ pages(total_size(n)) > 0
        /\ PAGE_SIZE * pages(total_size(n)) >= total_size(n)
    BY <2>2, PagesCover, Zenon
  <2> QED
    BY <1>1, <2>3, AllocLayout, Zenon DEF dma_alloc
<1>2. ASSUME NEW len \in BufLens, dma_alloc_buf(len) PROVE LayoutInv'
  <2>1. len \in Nat /\ len > 0
    BY BufLensAssumption
  <2>2. pages(len) \in Nat /\ pages(len) > 0
    BY <2>1, PagesCover, Zenon
  <2> QED
    BY <1>2, <2>2, AllocLayout, Zenon DEF dma_alloc_buf
<1>3. CASE UNCHANGED layout
  BY <1>3, Zenon DEF layout, LayoutInv, TypeOK, RegionsDisjoint, QueueRegions
<1> QED
  BY <1>1, <1>2, <1>3, Zenon DEF LayoutNext

\* The layout, always.
LEMMA AlwaysLayout == LayoutSpec => []LayoutInv
  BY InitLayout, NextLayout, PTL DEF LayoutSpec

\* No two allocations of the test kernel's HAL overlap, however many there are.
THEOREM AllocationsDisjoint == LayoutSpec => []RegionsDisjoint
<1>1. LayoutInv => RegionsDisjoint
  BY Zenon DEF LayoutInv
<1> QED
  BY <1>1, AlwaysLayout, PTL

\* The three areas of a queue of any size fit, without overlap, in the memory
\* that VirtIoQueue::new asks for.
THEOREM QueueAreasFit == LayoutSpec => []AreasFit
<1>1. LayoutInv => AreasFit
  <2> SUFFICES ASSUME LayoutInv, NEW r \in QueueRegions
               PROVE  /\ AVAIL_RING_OFFSET(r.queue) >= TableSize(r.queue)
                      /\ USED_RING_OFFSET(r.queue)
                           >= AVAIL_RING_OFFSET(r.queue) + AvailSize(r.queue)
                      /\ USED_RING_OFFSET(r.queue) + UsedSize(r.queue) <= r.size
    BY Zenon DEF AreasFit
  <2>1. r.queue \in Nat /\ r.size \in Nat /\ r.size >= total_size(r.queue)
    BY SizesAssumption, ZenonT(30) DEF LayoutInv, TypeOK, QueueRegions
  <2> DEFINE n == r.queue
  <2>2. /\ TableSize(n) \in Nat /\ AvailSize(n) \in Nat /\ UsedSize(n) \in Nat
        /\ USED_RING_OFFSET(n) \in Nat /\ total_size(n) \in Nat
        /\ USED_RING_OFFSET(n) > TableSize(n) + AvailSize(n)
        /\ USED_RING_OFFSET(n) + UsedSize(n) < total_size(n)
    BY <2>1, QueueSizes, Zenon
  <2> QED
    BY <2>1, <2>2 DEF AVAIL_RING_OFFSET
<1> QED
  BY <1>1, AlwaysLayout, PTL

\* For every queue size the code accepts, a legacy device finds the three areas
\* where the driver put them.
THEOREM LegacyLayoutAgrees == LayoutSpec => []LegacyDeviceAgrees
<1>1. LayoutInv => LegacyDeviceAgrees
  <2> SUFFICES ASSUME LayoutInv, NEW r \in QueueRegions
               PROVE  /\ LegacyTable(r) = r.base
                      /\ LegacyAvail(r) = r.base + AVAIL_RING_OFFSET(r.queue)
                      /\ LegacyUsed(r) = r.base + USED_RING_OFFSET(r.queue)
    BY Zenon DEF LegacyDeviceAgrees
  <2>1. /\ r.queue \in Nat /\ r.queue % 2 = 0
        /\ r.base \in Nat /\ r.base % PAGE_SIZE = 0
    BY SizesAssumption, ZenonT(30) DEF LayoutInv, TypeOK, QueueRegions
  <2> DEFINE n == r.queue
             x == TableSize(n) + AvailSize(n)
  <2>2. x \in Nat /\ TableSize(n) \in Nat /\ AvailSize(n) \in Nat
        /\ TableSize(n) = 16 * n /\ AvailSize(n) = 2 * (3 + n)
    BY <2>1 DEF TableSize, AvailSize
  <2>3. LegacyTable(r) = r.base /\ RoundUp(r.base + x) = r.base + RoundUp(x)
    BY <2>1, <2>2, RoundUpFromBase, Zenon DEF LegacyTable
  <2>4. LegacyAvail(r) = r.base + AVAIL_RING_OFFSET(r.queue)
    BY <2>2, <2>3, Zenon DEF LegacyAvail, AVAIL_RING_OFFSET
  <2>5. LegacyAvail(r) + 2 * (3 + r.queue) = r.base + x
    BY <2>1, <2>2, <2>3 DEF LegacyAvail
  <2>6. RoundUp(x) = USED_RING_OFFSET(n)
    BY <2>1, RoundingsAgree, Zenon DEF USED_RING_OFFSET
  <2>7. LegacyUsed(r) = r.base + USED_RING_OFFSET(r.queue)
    BY <2>3, <2>5, <2>6, Zenon DEF LegacyUsed
  <2> QED
    BY <2>3, <2>4, <2>7, Zenon
<1> QED
  BY <1>1, AlwaysLayout, PTL

-----------------------------------------------------------------------------
(* Drivers on that memory *)

\* A step of any driver is an allocation of DmaLayout or leaves memory alone,
\* because VirtIoQueue::new asks for the pages of one of the queue sizes.
LEMMA StepAllocates ==
  ASSUME size \in Sizes, [SetupNext]_all
  PROVE  [LayoutNext]_layout /\ (size \in Sizes)'
<1>1. ASSUME SetupAlloc PROVE [LayoutNext]_layout /\ size' = size
  BY <1>1, Zenon DEF SetupAlloc, LayoutNext
<1>2. ASSUME NEW len \in BufLens, FrameBuffer(len) PROVE [LayoutNext]_layout /\ size' = size
  BY <1>2, Zenon DEF FrameBuffer, LayoutNext
<1>3. ASSUME SetupNew \/ SetupDrop \/ SetupError \/ SetupDevice
             \/ (DriverAccess /\ UNCHANGED <<layout, size>>)
      PROVE  UNCHANGED layout /\ size' = size
  BY <1>3, Zenon DEF SetupNew, SetupDrop, SetupError, SetupDevice
<1>4. ASSUME UNCHANGED all PROVE UNCHANGED layout /\ size' = size
  BY <1>4, Zenon DEF all
<1> QED
  BY <1>1, <1>2, <1>3, <1>4, Zenon DEF SetupNext, SetupAccess

\* Drivers on the test kernel's HAL, whatever they do and in any order, behave
\* as its allocator promises.
THEOREM SetupImplementsLayout == SetupSpec => LayoutSpec
<1>1. SetupInit => LayoutInit /\ size \in Sizes
  BY Zenon DEF SetupInit
<1>2. size \in Sizes /\ [SetupNext]_all => [LayoutNext]_layout /\ (size \in Sizes)'
  BY StepAllocates, Zenon
<1> QED
  BY <1>1, <1>2, PTL DEF SetupSpec, LayoutSpec

\* The pages of the queues and the frame buffer of drivers never overlap.
THEOREM SetupRegionsDisjoint == SetupSpec => []RegionsDisjoint
  BY SetupImplementsLayout, AllocationsDisjoint, PTL

\* Whatever drivers were made and dropped before, the three areas of a queue fit
\* in the memory VirtIoQueue::new asks for ...
THEOREM SetupAreasFit == SetupSpec => []AreasFit
  BY SetupImplementsLayout, QueueAreasFit, PTL

\* ... and a legacy device finds them where the driver put them.
THEOREM SetupLegacyAgrees == SetupSpec => []LegacyDeviceAgrees
  BY SetupImplementsLayout, LegacyLayoutAgrees, PTL

-----------------------------------------------------------------------------
(* Drivers with the allocator in place *)

\* Drivers that come and go on the test kernel's memory do what Lifecycle allows:
\* the allocator adds nothing to what they do to their devices.
THEOREM SetupImplementsLifecycle == SetupSpec => Spec
<1>1. SetupInit => Init
  BY Zenon DEF SetupInit
<1>2. [SetupNext]_all => [Next]_vars
  <2> SUFFICES ASSUME [SetupNext]_all PROVE [Next]_vars
    BY Zenon
  <2>1. CASE UNCHANGED all
    BY <2>1, Zenon DEF all
  <2>2. CASE \E len \in BufLens : FrameBuffer(len)
    BY <2>2, Zenon DEF FrameBuffer
  <2>3. CASE SetupNew \/ SetupDrop \/ SetupAccess \/ SetupError \/ SetupDevice
    BY <2>3, Zenon DEF SetupNew, SetupDrop, SetupAccess, SetupAlloc, SetupError, SetupDevice, Next
  <2> QED
    BY <2>1, <2>2, <2>3, Zenon DEF SetupNext
<1> QED
  BY <1>1, <1>2, PTL DEF SetupSpec, Spec

\* The invariant, always, with the allocator in place.
LEMMA AlwaysLifeInv ==
  ASSUME Faulty \cap {"net_raw", "net"} = {}
  PROVE  SetupSpec => []LifeInv
<1>1. Init => LifeInv
  BY DriversAssumption, InitInv, Zenon
<1>2. LifeInv /\ [Next]_vars => LifeInv'
  BY LifeStep, Zenon
<1> QED
  BY <1>1, <1>2, SetupImplementsLifecycle, PTL DEF Spec

\* Whatever fails in `new` and however often drivers are made and dropped, a
\* running device never reaches memory that was freed.  Of the network drivers
\* this is said only while no register access fails: VirtIONet::new frees its
\* buffers before the reset, and VirtIONetRaw::new ignores begin_init's error.
THEOREM NeverAccessAfterFree ==
  ASSUME Faulty \cap {"net_raw", "net"} = {}
  PROVE  SetupSpec => []NoAccessAfterFree
<1>1. LifeInv => NoAccessAfterFree
  BY LifeInvImplies, Zenon
<1> QED
  BY <1>1, AlwaysLifeInv, PTL

\* finish_init is reached only with the features negotiated and every queue set up,
\* also by a second driver of a device that a boot loader or a driver has used.
THEOREM AlwaysRunsSetUp ==
  ASSUME Faulty \cap {"net_raw", "net"} = {}
  PROVE  SetupSpec => []RunsOnlyWhenSetUp
<1>1. LifeInv => RunsOnlyWhenSetUp
  BY LifeInvImplies, Zenon
<1> QED
  BY <1>1, AlwaysLifeInv, PTL

\* queue_set makes a queue live last, and queue_unset clears its registers only
\* after the device has let go of it.
THEOREM LiveQueuesComplete ==
  ASSUME Faulty \cap {"net_raw", "net"} = {}
  PROVE  SetupSpec => []LiveQueueIsComplete
<1>1. LifeInv => LiveQueueIsComplete
  BY LifeInvImplies, Zenon
<1> QED
  BY <1>1, AlwaysLifeInv, PTL

\* A device is reset when its driver is gone, and VirtIoQueue::new never fails
\* with AlreadyUsed.
THEOREM HandoverAlwaysClean ==
  ASSUME Faulty \cap {"net_raw", "net"} = {}
  PROVE  SetupSpec => []CleanHandover
<1>1. LifeInv => CleanHandover
  BY LifeInvImplies, Zenon
<1> QED
  BY <1>1, AlwaysLifeInv, PTL

=============================================================================
