------------------------------ MODULE PciProof ------------------------------
(***************************************************************************)
(* Proofs about Pci, for every bus: enumeration finds every function,      *)
(* measuring leaves the BARs as they were set, the regions of a transport  *)
(* lie in them, an access reaches the device it is meant for, the first    *)
(* capability of each kind is taken, and no two registers share an address *)
(* of the configuration space.                                             *)
(***************************************************************************)
EXTENDS Pci, FiniteSetTheorems, TLAPS

\* Multiples of n are found again below the next one.
LEMMA AlignMultiple ==
  ASSUME NEW n \in Nat, n > 0, NEW q \in Nat, NEW r \in Nat, r < n
  PROVE  n * q \in Nat /\ AlignDown(n * q + r, n) = n * q /\ (n * q + r) % n = r
<1>0. n * q \in Nat
  OBVIOUS
<1> DEFINE w == n * q + r
           p == w \div n
           s == w % n
<1>1. w \in Nat
  BY <1>0
<1>2. p \in Nat /\ s \in 0 .. n - 1 /\ w - n * p = s
  <2> HIDE DEF w
  <2> QED  BY <1>1
<1>3. AlignDown(w, n) = w - s
  BY Zenon DEF AlignDown
<1>4. w = n * q + r /\ s = w % n
  BY Zenon
<1> HIDE DEF w, p, s
<1>5. n * p \in Nat
  BY <1>2
<1>6. p = q
  <2>1. CASE p < q
    <3>1. PICK d \in Nat : q = p + 1 + d
      BY <1>2, <2>1, SMTT(30)
    <3>2. n * q = n * p + n + n * d /\ n * d \in Nat
      BY <1>2, <3>1
    <3> QED
      BY <1>0, <1>2, <1>4, <1>5, <3>2, SMTT(30)
  <2>2. CASE q < p
    <3>1. PICK d \in Nat : p = q + 1 + d
      BY <1>2, <2>2, SMTT(30)
    <3>2. n * p = n * q + n + n * d /\ n * d \in Nat
      BY <3>1
    <3> QED
      BY <1>0, <1>2, <1>4, <1>5, <3>2
  <2> QED
    BY <1>2, <2>1, <2>2
<1>7. w - s = n * q /\ s = r
  BY <1>0, <1>2, <1>4, <1>5, <1>6
<1> QED
  BY <1>0, <1>3, <1>4, <1>7, Zenon

\* Alignment gives a multiple.
LEMMA AlignIsMultiple ==
  ASSUME NEW n \in Nat, n > 0, NEW v \in Nat
  PROVE  \E q \in Nat : AlignDown(v, n) = n * q /\ v = n * q + (v % n)
<1> DEFINE q == v \div n
           m == v % n
<1>1. q \in Nat /\ m \in 0 .. n - 1 /\ v - n * q = m
  OBVIOUS
<1>2. AlignDown(v, n) = v - m
  BY Zenon DEF AlignDown
<1>3. m = v % n
  BY Zenon
<1> HIDE DEF q, m
<1>4. n * q \in Nat
  BY <1>1
<1>5. AlignDown(v, n) = n * q /\ v = n * q + m
  BY <1>1, <1>2, <1>4
<1> QED
  BY <1>1, <1>3, <1>5, Zenon

\* Remainders of small numbers.
LEMMA ModSmall ==
  ASSUME NEW n \in Nat, n > 0, NEW r \in Nat, r < n
  PROVE  r % n = r
<1>1. (n * 0 + r) % n = r
  BY AlignMultiple, Zenon
<1>2. n * 0 + r = r
  OBVIOUS
<1> QED
  BY <1>1, <1>2, Zenon

\* Rounding down is idempotent, also when something small is added.
LEMMA AlignDownTwice ==
  ASSUME NEW v \in Nat, NEW n \in Nat, n > 0, NEW r \in Nat, r < n
  PROVE  AlignDown(AlignDown(v, n) + r, n) = AlignDown(v, n)
<1>1. PICK q \in Nat : AlignDown(v, n) = n * q
  BY AlignIsMultiple, Zenon
<1>2. AlignDown(n * q + r, n) = n * q
  BY AlignMultiple, Zenon
<1> QED
  BY <1>1, <1>2, Zenon

\* A BAR keeps a value that was read from it.
LEMMA LatchTwice ==
  ASSUME NEW k, NEW v \in Nat,
         k.size \in Nat, Flags(k) \in Nat,
         k.kind \in {"io", "memory"} => Flags(k) < k.size,
         k.kind \in {"none", "upper", "io", "memory"}
  PROVE  Latch(k, Latch(k, v)) = Latch(k, v)
<1>1. CASE k.kind \in {"none", "upper"} \/ k.size >= WORD
  BY <1>1 DEF Latch
<1>2. CASE k.kind \in {"io", "memory"} /\ ~(k.size >= WORD)
  <2>1. \A u : Latch(k, u) = AlignDown(u, k.size) + Flags(k)
    BY <1>2, Zenon DEF Latch
  <2>2. AlignDown(AlignDown(v, k.size) + Flags(k), k.size) = AlignDown(v, k.size)
    BY <1>2, AlignDownTwice
  <2> QED
    BY <2>1, <2>2, Zenon
<1> QED
  BY <1>1, <1>2, SMTT(30)

-----------------------------------------------------------------------------
(* The inductive invariant: the functions that were set up are there, and   *)
(* what bar_info is about to restore is what was in the BAR.                *)

InNew == pc \in {"new", "walk", "region", "measured"}

BarInv ==
  /\ cfg \in Buses
  /\ pc = "scan" => next \in (0 .. MAX_DEVICES) \X (0 .. MAX_FUNCTIONS - 1)
  /\ found \in Seq(Function) /\ \A i \in DOMAIN found : found[i] \in Present
  /\ command \subseteq Present
  /\ InNew => cur \in command
  /\ DOMAIN bar = Function /\ \A f \in Function : DOMAIN bar[f] = Bar
  /\ (pc = "measured" /\ Info.bar \in Bar) =>
       bar_orig = Latch(cfg[cur].bars[Info.bar], Address(cur, Info.bar))
  /\ BarsKept

\* The words a client has for a BAR are natural numbers.
LEMMA AddressNat ==
  ASSUME NEW f \in Function, NEW b \in Bar
  PROVE  Address(f, b) \in Nat
  BY BusAssumption DEF Function, Bar, Address, Slot

\* A BAR that was set up gets the same word again.
LEMMA RestoreKeeps ==
  ASSUME BarInv, NEW f \in Present, NEW b \in Bar
  PROVE  Latch(cfg[f].bars[b], Latch(cfg[f].bars[b], Address(f, b)))
           = Latch(cfg[f].bars[b], Address(f, b))
<1> DEFINE k == cfg[f].bars[b]
<1>1. /\ k.kind \in {"none", "upper", "io", "memory"}
      /\ k.size \in Nat /\ Flags(k) \in Nat
      /\ k.kind \in {"io", "memory"} => Flags(k) < k.size
  BY BarsAssumption, Zenon DEF BarInv, Present
<1>2. Address(f, b) \in Nat
  BY AddressNat, Zenon DEF Present
<1> HIDE DEF k
<1>3. Latch(k, Latch(k, Address(f, b))) = Latch(k, Address(f, b))
  BY <1>1, <1>2, LatchTwice, Zenon
<1> QED
  BY <1>3, Zenon DEF k

\* The bars at first.
LEMMA InitBars == Init => BarInv
<1> SUFFICES ASSUME Init PROVE BarInv
  BY Zenon
<1>1. next \in (0 .. MAX_DEVICES) \X (0 .. MAX_FUNCTIONS - 1)
  BY BusAssumption DEF Init
<1> QED
  BY <1>1 DEF Init, BarInv, BarsKept, InNew

\* A step that leaves the registers alone, outside a measurement.
LEMMA RegistersAlone ==
  ASSUME BarInv, UNCHANGED <<cfg, bar, command, found>>,
         pc # "scan", pc' # "scan", pc # "measured", pc' # "measured",
         (InNew)' => cur' \in command, pc # "panicked"
  PROVE  BarInv'
<1>1. BarsKept'
  <2>1. ASSUME NEW f, NEW b PROVE Address(f, b)' = Address(f, b)
    BY Zenon DEF Address
  <2> QED
    BY <2>1, Zenon DEF BarInv, BarsKept
<1> QED
  BY <1>1 DEF BarInv, Present

\* A step beside a call, which may panic.
LEMMA BesideCall ==
  ASSUME BarInv, UNCHANGED <<cfg, bar, command, call>>, pc' \in {pc, "panicked"}
  PROVE  BarInv'
<1>1. UNCHANGED <<next, found, cur, cap, kind, bar_orig>>
  BY Zenon DEF call
<1>2. Info' = Info
  BY <1>1, Zenon DEF Info
<1>3. BarsKept'
  <2>1. ASSUME NEW f, NEW b PROVE Address(f, b)' = Address(f, b)
    BY Zenon DEF Address
  <2> QED
    BY <1>1, <1>2, <2>1, Zenon DEF BarInv, BarsKept
<1>4. Address(cur, Info.bar)' = Address(cur, Info.bar)
  BY <1>1, <1>2, Zenon DEF Address
<1>5. found' \in Seq(Function) /\ \A i \in DOMAIN found' : found'[i] \in Present'
  BY <1>1, Zenon DEF BarInv, Present
<1>6. pc' # "panicked" => pc' = pc
  BY Zenon
<1> QED
  BY <1>1, <1>2, <1>3, <1>4, <1>5, <1>6, Zenon DEF BarInv, Present, InNew

\* The steps of enumerate_bus and of PciTransport::new.
LEMMA CallBars == ASSUME BarInv, CallStep PROVE BarInv'
<1>1. CASE Scan
  <2>1. /\ UNCHANGED <<cfg, bar, command, pc, cur>> /\ pc = "scan"
        /\ next' = Advance(next) /\ next[1] < MAX_DEVICES
        /\ found' = IF cfg[next] # Absent THEN Append(found, next) ELSE found
    BY <1>1, SMTT(30) DEF Scan, regs
  <2> next \in Function
    BY <2>1, BusAssumption DEF BarInv, Function
  <2>2. next' \in (0 .. MAX_DEVICES) \X (0 .. MAX_FUNCTIONS - 1)
    BY <2>1, BusAssumption, SMTT(30) DEF Advance, Function
  <2>3. found' \in Seq(Function) /\ \A i \in DOMAIN found' : found'[i] \in Present'
    BY <2>1 DEF BarInv, Present
  <2>4. BarsKept'
    BY <2>1, SMTT(30) DEF BarInv, BarsKept, Address
  <2> QED
    BY <2>1, <2>2, <2>3, <2>4, SMTT(30) DEF BarInv, InNew, Present
<1>2. CASE Scanned
  <2>1. UNCHANGED <<cfg, bar, command, found, cur>> /\ pc = "scan" /\ pc' = "ready"
    BY <1>2, Zenon DEF Scanned, regs, call
  <2>2. BarsKept'
    BY <2>1, SMTT(30) DEF BarInv, BarsKept, Address
  <2> QED
    BY <2>1, <2>2, Zenon DEF BarInv, InNew, Present
<1>3. CASE New \/ Walk \/ Walked \/ Refuse \/ Succeed
  <2>1. /\ UNCHANGED <<cfg, bar, command, found, cur>> /\ InNew
        /\ pc \in {"new", "walk", "region"} /\ pc' \in {"ready", "walk", "region"}
    BY <1>3, SMTT(30) DEF New, Walk, Walked, Refuse, Succeed, Return, regs, call, InNew
  <2> QED
    BY <2>1, RegistersAlone, Zenon DEF BarInv
<1>4. CASE Measure
  <2>1. /\ UNCHANGED <<cfg, command, found, cur, cap, kind>> /\ pc = "region" /\ pc' = "measured"
        /\ bar_orig' = bar[cur][Info.bar]
        /\ bar' = [bar EXCEPT ![cur][Info.bar] = Latch(cfg[cur].bars[Info.bar], WORD - 1)]
    BY <1>4, SMTT(30) DEF Measure, config_write_word
  <2>2. Info' = Info
    BY <2>1, Zenon DEF Info
  <2>3. cur \in command /\ cur \in Function
    BY <2>1, Zenon DEF BarInv, InNew, Present
  <2>4. Info.bar \in Bar => bar_orig' = Latch(cfg[cur].bars[Info.bar], Address(cur, Info.bar))
    BY <2>1, <2>3 DEF BarInv, BarsKept
  <2>5. BarsKept'
    BY <2>1, <2>2, <2>3, SMTT(30) DEF BarInv, BarsKept, Address
  <2>6. Address(cur, Info.bar)' = Address(cur, Info.bar)
    BY <2>1, <2>2, Zenon DEF Address
  <2>7. DOMAIN bar' = Function /\ \A f \in Function : DOMAIN bar'[f] = Bar
    BY <2>1 DEF BarInv
  <2>8. found' \in Seq(Function) /\ \A i \in DOMAIN found' : found'[i] \in Present'
    BY <2>1, Zenon DEF BarInv, Present
  <2> QED
    BY <2>1, <2>2, <2>3, <2>4, <2>5, <2>6, <2>7, <2>8, Zenon DEF BarInv, InNew, Present
<1>5. ASSUME Restore, UNCHANGED <<cfg, command, found, cur>>, pc = "measured",
             pc' \in {"ready", "region", "panicked"}
      PROVE  BarInv'
  <2>1. bar' = [bar EXCEPT ![cur][Info.bar] = Latch(cfg[cur].bars[Info.bar], bar_orig)]
    BY <1>5, Zenon DEF Restore, config_write_word
  <2>2. cur \in command /\ cur \in Present /\ cur \in Function
    BY <1>5, Zenon DEF BarInv, InNew, Present
  <2>3. Info.bar \in Bar =>
          Latch(cfg[cur].bars[Info.bar], bar_orig)
            = Latch(cfg[cur].bars[Info.bar], Address(cur, Info.bar))
    BY <1>5, <2>2, RestoreKeeps, Zenon DEF BarInv
  <2>4. ASSUME NEW f \in command, NEW b \in Bar
        PROVE  bar'[f][b] = Latch(cfg[f].bars[b], Address(f, b))
    <3>1. f \in Function
      BY Zenon DEF BarInv, Present
    <3>2. CASE f = cur /\ b = Info.bar
      BY <2>1, <2>2, <2>3, <3>1, <3>2, Zenon DEF BarInv
    <3>3. CASE ~(f = cur /\ b = Info.bar)
      <4>1. bar'[f][b] = bar[f][b]
        BY <2>1, <2>2, <3>1, <3>3, Zenon DEF BarInv
      <4> QED
        BY <1>5, <3>3, <4>1, SMTT(30) DEF BarInv, BarsKept
    <3> QED
      BY <3>2, <3>3, Zenon
  <2>5. BarsKept'
    BY <1>5, <2>4, SMTT(30) DEF BarsKept, Address
  <2> QED
    BY <1>5, <2>1, <2>2, <2>5, SMTT(30) DEF BarInv, InNew, Present
<1>6. CASE Measured \/ Overflow
  <2>1. /\ Restore /\ UNCHANGED <<cfg, command, found, cur>> /\ pc = "measured"
        /\ pc' \in {"ready", "region", "panicked"}
    BY <1>6, Zenon DEF Measured, Overflow, Return, call
  <2> QED
    BY <1>5, <2>1, Zenon
<1> QED
  BY <1>1, <1>2, <1>3, <1>4, <1>6, Zenon DEF CallStep

\* A function's BARs are set before it decodes them.
LEMMA SetUpBars == ASSUME BarInv, NEW f \in Function, SetUp(f) PROVE BarInv'
<1>1. /\ UNCHANGED <<cfg, found, cur>> /\ pc = "ready" /\ pc' = "ready"
      /\ f \in Present /\ command' = command \cup {f}
      /\ bar' = [bar EXCEPT ![f] = [b \in Bar |-> Latch(cfg[f].bars[b], Address(f, b))]]
  BY SMTT(30) DEF SetUp, call, Range, BarInv
<1>2. BarsKept'
  <2>1. ASSUME NEW g \in Function, NEW b \in Bar
        PROVE  Address(g, b)' = Address(g, b)
    BY <1>1, Zenon DEF Address
  <2>2. ASSUME NEW g \in command', NEW b \in Bar
        PROVE  bar'[g][b] = Latch(cfg[g].bars[b], Address(g, b))
    <3>1. g \in Function
      BY <1>1, Zenon DEF BarInv, Present
    <3>2. CASE g = f
      BY <1>1, <3>1, <3>2, Zenon DEF BarInv
    <3>3. CASE g # f
      <4>1. bar'[g] = bar[g] /\ g \in command
        BY <1>1, <3>1, <3>3, Zenon DEF BarInv
      <4> QED
        BY <1>1, <4>1, Zenon DEF BarInv, BarsKept
    <3> QED
      BY <3>2, <3>3, Zenon
  <2>3. command' \subseteq Function
    BY <1>1, Zenon DEF BarInv, Present
  <2> QED
    BY <1>1, <2>1, <2>2, <2>3, Zenon DEF BarsKept
<1> QED
  BY <1>1, <1>2, Zenon DEF BarInv, InNew, Present

\* Every step keeps the bars.
LEMMA NextBars == BarInv /\ [Next]_vars => BarInv'
<1> SUFFICES ASSUME BarInv, [Next]_vars PROVE BarInv'
  BY Zenon
<1>1. ASSUME NEW f \in Function, CallNew(f) PROVE BarInv'
  BY <1>1, RegistersAlone, Zenon DEF CallNew, regs
<1>2. ASSUME NEW f \in Function, ack_interrupt(f) \/ DevInterrupt(f) \/ Drop(f) PROVE BarInv'
  BY <1>2, BesideCall, Zenon DEF ack_interrupt, DevInterrupt, Drop
<1>3. ASSUME NEW f \in Function, NEW q \in Queue, notify(f, q) PROVE BarInv'
  <2>1. UNCHANGED <<cfg, bar, command, call>> /\ pc' \in {pc, "panicked"}
    BY <1>3, Zenon DEF notify, regs
  <2> QED
    BY <2>1, BesideCall, Zenon
<1>4. CASE UNCHANGED vars
  BY <1>4, BesideCall, Zenon DEF vars, regs
<1> QED
  BY <1>1, <1>2, <1>3, <1>4, CallBars, SetUpBars, Zenon DEF Next

\* Measuring BARs leaves no trace, on every bus and whatever fails: bar_info
\* restores exactly what the client had set.
THEOREM BarsAlwaysKept == Spec => []BarsKept
<1>1. Spec => []BarInv
  BY InitBars, NextBars, PTL DEF Spec
<1>2. BarInv => BarsKept
  BY Zenon DEF BarInv
<1> QED
  BY <1>1, <1>2, PTL

-----------------------------------------------------------------------------
(* Enumeration: what has been found is what answers before the position of   *)
(* the iterator.                                                             *)

Before(f, n) == f[1] < n[1] \/ (f[1] = n[1] /\ f[2] < n[2])

ScanInv ==
  /\ found \in Seq(Function) /\ IsInjective(found)
  /\ Range(found) = {f \in Present : Before(f, next)}
  /\ next \in Nat \X (0 .. MAX_FUNCTIONS - 1)
  /\ IF pc = "scan" THEN \A f \in Function : transport[f] = <<>> ELSE next[1] >= MAX_DEVICES

\* One turn of BusDeviceIterator::next.
LEMMA ScanStep == ASSUME ScanInv, Scan PROVE ScanInv'
<1>1. /\ UNCHANGED <<cfg, pc, transport>> /\ pc = "scan"
      /\ next' = Advance(next) /\ next[1] < MAX_DEVICES
      /\ found' = IF cfg[next] # Absent THEN Append(found, next) ELSE found
  BY Zenon DEF Scan
<1>2. next \in Function
  BY <1>1, BusAssumption DEF ScanInv, Function
<1>3. next' \in Nat \X (0 .. MAX_FUNCTIONS - 1)
  BY <1>1, BusAssumption DEF Advance, ScanInv
<1>4. \A f \in Function : Before(f, next') <=> Before(f, next) \/ f = next
  BY <1>1, <1>2, BusAssumption, SMTT(30) DEF Before, Advance, Function
<1>5. ~Before(next, next)
  BY <1>2 DEF Before, Function
<1>6. CASE cfg[next] = Absent
  <2>1. found' = found /\ Present' = Present /\ next \notin Present
    BY <1>1, <1>6, Zenon DEF Present
  <2>2. \A f \in Present : Before(f, next') <=> Before(f, next)
    BY <1>4, <2>1, Zenon DEF Present
  <2>3. Range(found') = {f \in Present : Before(f, next')}
    BY <2>1, <2>2, Zenon DEF ScanInv
  <2> QED
    BY <1>1, <1>3, <2>1, <2>3, Zenon DEF ScanInv
<1>7. CASE cfg[next] # Absent
  <2>1. found' = Append(found, next) /\ Present' = Present /\ next \in Present
    BY <1>1, <1>2, <1>7, Zenon DEF Present
  <2>2. next \notin Range(found)
    BY <1>5, Zenon DEF ScanInv
  <2>3. found' \in Seq(Function)
    BY <1>2, <2>1 DEF ScanInv
  <2>4. /\ Len(found) \in Nat /\ Len(found') = Len(found) + 1
        /\ DOMAIN found = 1 .. Len(found) /\ DOMAIN found' = 1 .. Len(found) + 1
        /\ \A i \in 1 .. Len(found) : found'[i] = found[i]
        /\ found'[Len(found) + 1] = next
    BY <1>2, <2>1 DEF ScanInv
  <2>5. IsInjective(found')
    <3> SUFFICES ASSUME NEW i \in DOMAIN found', NEW j \in DOMAIN found', found'[i] = found'[j]
                 PROVE  i = j
      BY Zenon DEF IsInjective
    <3>1. \A k \in 1 .. Len(found) : found[k] # next
      BY <2>2, <2>4, Zenon DEF Range
    <3>2. CASE i \in 1 .. Len(found) /\ j \in 1 .. Len(found)
      BY <2>4, <3>2 DEF ScanInv, IsInjective
    <3> QED
      BY <2>4, <3>1, <3>2
  <2>6. Range(found') = Range(found) \cup {next}
    <3>1. Range(found') \subseteq Range(found) \cup {next}
      BY <2>4 DEF Range
    <3>2. Range(found) \cup {next} \subseteq Range(found')
      BY <2>4 DEF Range
    <3> QED
      BY <3>1, <3>2, Zenon
  <2>7. {f \in Present : Before(f, next')} = {f \in Present : Before(f, next)} \cup {next}
    BY <1>4, <2>1, Zenon DEF Present
  <2>8. Range(found') = {f \in Present : Before(f, next')}
    BY <2>6, <2>7, Zenon DEF ScanInv
  <2> QED
    BY <1>1, <1>3, <2>1, <2>3, <2>5, <2>8, Zenon DEF ScanInv
<1> QED
  BY <1>6, <1>7, Zenon

\* Every step keeps the scan.
LEMMA NextScan == ASSUME ScanInv, [Next]_vars PROVE ScanInv'
<1>1. CASE Scan
  BY <1>1, ScanStep, Zenon
<1>2. CASE Scanned
  <2>1. UNCHANGED <<cfg, found, next>> /\ next[1] >= MAX_DEVICES /\ pc' = "ready"
    BY <1>2, Zenon DEF Scanned, call
  <2> QED
    BY <2>1, Zenon DEF ScanInv, Present
<1>3. ASSUME UNCHANGED <<cfg, found, next>>, pc # "scan", pc' # "scan" PROVE ScanInv'
  BY <1>3, Zenon DEF ScanInv, Present
<1>4. CASE New \/ Walk \/ Walked \/ Refuse \/ Succeed \/ Measure \/ Measured \/ Overflow
  <2>1. UNCHANGED <<cfg, found, next>> /\ pc # "scan"
    BY <1>4, Zenon DEF New, Walk, Walked, Refuse, Succeed, Measure, Measured, Overflow, call
  <2>2. pc' # "scan"
    BY <1>4, Zenon DEF New, Walk, Walked, Refuse, Succeed, Measure, Measured, Overflow, Return
  <2> QED
    BY <1>3, <2>1, <2>2, Zenon
<1>5. ASSUME NEW f \in Function, SetUp(f) \/ CallNew(f) \/ Drop(f) PROVE ScanInv'
  BY <1>3, <1>5, Zenon DEF SetUp, CallNew, Drop, call
<1>6. ASSUME NEW f \in Function, transport[f] # <<>>, UNCHANGED <<cfg, found, next>>,
             pc' \in {pc, "panicked"}
      PROVE  ScanInv'
  <2>1. pc # "scan"
    BY <1>6, Zenon DEF ScanInv
  <2> QED
    BY <1>3, <1>6, <2>1, Zenon
<1>7. ASSUME NEW f \in Function, ack_interrupt(f) \/ DevInterrupt(f) PROVE ScanInv'
  BY <1>6, <1>7, Zenon DEF ack_interrupt, DevInterrupt, call
<1>8. ASSUME NEW f \in Function, NEW q \in Queue, notify(f, q) PROVE ScanInv'
  <2>1. transport[f] # <<>> /\ UNCHANGED <<cfg, found, next>> /\ pc' \in {pc, "panicked"}
    BY <1>8, Zenon DEF notify, call
  <2> QED
    BY <1>6, <2>1, Zenon
<1>9. CASE UNCHANGED vars
  BY <1>9, Zenon DEF vars, call, ScanInv, Present
<1> QED
  BY <1>1, <1>2, <1>4, <1>5, <1>7, <1>8, <1>9, Zenon DEF Next, CallStep

\* Nothing is scanned at first.
LEMMA InitScan == ASSUME Init PROVE ScanInv
<1>1. /\ found = <<>> /\ next = <<0, 0>> /\ pc = "scan"
      /\ transport = [f \in Function |-> <<>>]
  BY Zenon DEF Init
<1>2. found \in Seq(Function) /\ IsInjective(found) /\ Range(found) = {}
  BY <1>1 DEF IsInjective, Range
<1>3. \A f \in Function : ~Before(f, next)
  BY <1>1 DEF Before, Function
<1>4. {f \in Present : Before(f, next)} = {}
  BY <1>3, Zenon DEF Present
<1>5. next \in Nat \X (0 .. MAX_FUNCTIONS - 1)
  BY <1>1, BusAssumption
<1> QED
  BY <1>1, <1>2, <1>4, <1>5, Zenon DEF ScanInv

\* enumerate_bus returns every function that answers, each once, on every bus.
THEOREM EnumerationAlwaysComplete == Spec => []EnumerationComplete
<1>1. Init => ScanInv
  BY InitScan, Zenon
<1>2. ScanInv /\ [Next]_vars => ScanInv'
  BY NextScan, Zenon
<1>3. ScanInv => EnumerationComplete
  <2> SUFFICES ASSUME ScanInv, pc # "scan" PROVE IsInjective(found) /\ Range(found) = Present
    BY Zenon DEF EnumerationComplete
  <2>1. \A f \in Present : Before(f, next)
    BY BusAssumption DEF ScanInv, Present, Before, Function
  <2> QED
    BY <2>1, Zenon DEF ScanInv
<1> QED
  BY <1>1, <1>2, <1>3, PTL DEF Spec

-----------------------------------------------------------------------------
(* The words that bar_info reads *)

\* What is known of a memory BAR.
MemoryBar(k) ==
  /\ k.kind = "memory" /\ k.size \in Nat /\ k.size > 0 /\ k.size % 16 = 0 /\ k.type \in 0 .. 3
  /\ k.size < WORD => WORD % k.size = 0

\* The flags of a memory BAR are below its address, and say its type.
LEMMA MemoryWord ==
  ASSUME NEW k, MemoryBar(k), NEW v \in Nat
  PROVE  \E j \in Nat : Latch(k, v) = 16 * j + 2 * k.type + 8
<1>1. Flags(k) = 2 * k.type + 8
  BY Zenon DEF Flags, MemoryBar
<1>2. CASE k.size >= WORD
  <2>1. Latch(k, v) = Flags(k)
    BY <1>2, Zenon DEF Latch, MemoryBar
  <2>2. 0 \in Nat /\ Flags(k) = 16 * 0 + 2 * k.type + 8
    BY <1>1 DEF MemoryBar
  <2> QED
    BY <2>1, <2>2, Zenon
<1>3. CASE ~(k.size >= WORD)
  <2>1. Latch(k, v) = AlignDown(v, k.size) + Flags(k)
    BY <1>3, Zenon DEF Latch, MemoryBar
  <2>2. k.size \in Nat /\ k.size > 0 /\ k.size % 16 = 0
    BY Zenon DEF MemoryBar
  <2>3. PICK q \in Nat : AlignDown(v, k.size) = k.size * q
    BY <2>2, AlignIsMultiple, Zenon
  <2>4. PICK b \in Nat : k.size = 16 * b
    BY <2>2
  <2>5. k.size * q = 16 * (b * q) /\ b * q \in Nat
    BY <2>4
  <2>6. Latch(k, v) = 16 * (b * q) + 2 * k.type + 8
    <3> HIDE DEF Flags
    <3>1. Latch(k, v) = 16 * (b * q) + Flags(k)
      BY <2>1, <2>3, <2>5, Zenon
    <3>2. k.type \in 0 .. 3
      BY Zenon DEF MemoryBar
    <3> QED
      BY <1>1, <2>5, <3>1, <3>2
  <2> QED
    BY <2>5, <2>6, Zenon
<1> QED
  BY <1>2, <1>3, Zenon

\* The types of memory bars.
LEMMA MemoryType ==
  ASSUME NEW k, MemoryBar(k), NEW v \in Nat
  PROVE  Latch(k, v) \in Nat /\ Latch(k, v) % 2 = 0 /\ (Latch(k, v) % 8) \div 2 = k.type
<1>1. PICK j \in Nat : Latch(k, v) = 16 * j + 2 * k.type + 8
  BY MemoryWord, Zenon
<1>2. k.type = 0 \/ k.type = 1 \/ k.type = 2 \/ k.type = 3
  BY DEF MemoryBar
<1> QED
  BY <1>1, <1>2

\* Dropping the flags of a memory BAR.
LEMMA AlignFlags ==
  ASSUME NEW x \in Nat, x % 16 = 0, NEW g \in Nat, g < 16
  PROVE  AlignDown(x + g, 16) = x
<1>1. (x + g) % 16 = g
  BY SMTT(30)
<1> QED
  BY <1>1 DEF AlignDown

\* What a memory BAR holds while it is measured: its size below 4 GiB, or 0 if it
\* has 4 GiB or more.
LEMMA MeasuredWord ==
  ASSUME NEW k, MemoryBar(k)
  PROVE  AlignDown(Latch(k, WORD - 1), 16) = IF k.size < WORD THEN WORD - k.size ELSE 0
<1>0. WORD \in Nat /\ WORD > 16 /\ WORD % 16 = 0 /\ WORD - 1 \in Nat
  BY WordAssumption
<1>1. Flags(k) = 2 * k.type + 8 /\ k.type \in 0 .. 3 /\ Flags(k) \in Nat /\ Flags(k) < 16
  BY DEF Flags, MemoryBar
<1>2. CASE ~(k.size < WORD)
  <2>1. Latch(k, WORD - 1) = Flags(k)
    BY <1>0, <1>2 DEF Latch, MemoryBar
  <2>2. AlignDown(Flags(k), 16) = 0
    BY <1>1 DEF AlignDown
  <2> QED
    BY <1>2, <2>1, <2>2, Zenon
<1>3. CASE k.size < WORD
  <2>1. k.size \in Nat /\ k.size > 0 /\ k.size % 16 = 0 /\ WORD % k.size = 0
    BY <1>3, Zenon DEF MemoryBar
  <2>2. Latch(k, WORD - 1) = AlignDown(WORD - 1, k.size) + Flags(k)
    BY <1>0, <1>3, <2>1 DEF Latch, MemoryBar
  <2>3. PICK m \in Nat : WORD = k.size * m + (WORD % k.size)
    BY <1>0, <2>1, AlignIsMultiple, Zenon
  <2>4. PICK p \in Nat : m = p + 1
    <3>1. m # 0
      BY <1>0, <2>1, <2>3
    <3> QED
      BY <3>1
  <2>5. k.size * m = k.size * p + k.size /\ k.size * p \in Nat
    BY <2>1, <2>4
  <2>6. WORD = k.size * p + k.size
    BY <2>1, <2>3, <2>5
  <2>7. k.size - 1 \in Nat /\ k.size - 1 < k.size /\ WORD - 1 = k.size * p + (k.size - 1)
    BY <1>0, <2>1, <2>5, <2>6
  <2>8. AlignDown(WORD - 1, k.size) = k.size * p
    <3>1. AlignDown(k.size * p + (k.size - 1), k.size) = k.size * p
      BY <2>1, <2>7, AlignMultiple, Zenon
    <3> QED
      BY <2>7, <3>1, Zenon
  <2>9. k.size * p = WORD - k.size /\ WORD - k.size \in Nat
    BY <1>0, <2>1, <2>5, <2>6
  <2>10. (WORD - k.size) % 16 = 0
    BY <1>0, <2>1, <2>9
  <2>11. AlignDown(WORD - k.size + Flags(k), 16) = WORD - k.size
    BY <1>1, <2>9, <2>10, AlignFlags, Zenon
  <2> QED
    BY <1>3, <2>2, <2>8, <2>9, <2>11, Zenon
<1> QED
  BY <1>2, <1>3, Zenon

\* bar_info computes the size of a memory BAR from the word it reads back, or 0 for
\* one of 4 GiB or more.
LEMMA MeasuredSize ==
  ASSUME NEW k, MemoryBar(k)
  PROVE  BarSize(Latch(k, WORD - 1)) = IF k.size < WORD THEN k.size ELSE 0
<1>0. WORD \in Nat /\ WORD > 0 /\ k.size \in Nat
  BY WordAssumption DEF MemoryBar
<1>1. CASE ~(k.size < WORD)
  <2>1. (WORD - 0) % WORD = 0
    <3>1. (WORD * 1 + 0) % WORD = 0
      BY <1>0, AlignMultiple
    <3>2. WORD * 1 + 0 = WORD - 0
      BY <1>0
    <3> QED
      BY <3>1, <3>2, Zenon
  <2> QED
    BY <1>1, <2>1, MeasuredWord, Zenon DEF BarSize
<1>2. CASE k.size < WORD
  <2>1. BarSize(Latch(k, WORD - 1)) = (WORD - (WORD - k.size)) % WORD
    BY <1>2, MeasuredWord, Zenon DEF BarSize
  <2>2. WORD - (WORD - k.size) = k.size
    BY <1>0
  <2>3. k.size % WORD = k.size
    BY <1>0, <1>2, ModSmall
  <2> QED
    BY <1>2, <2>1, <2>2, <2>3, Zenon
<1> QED
  BY <1>1, <1>2, Zenon

-----------------------------------------------------------------------------
(* The regions of a transport.  Wherever `new` is, the structures it has     *)
(* looked at lie in their BARs as the client set them; a BAR that is being   *)
(* measured belongs to a function that has no transport yet.                 *)

Word(f, b) == Latch(cfg[f].bars[b], Address(f, b))

WordBase(f, b) ==
  AlignDown(Word(f, b), 16)
  + IF cfg[f].bars[b].type = 2 /\ b < 5 THEN Word(f, b + 1) * WORD ELSE 0

\* The capability that a region was made from.
Describes(c, r) ==
  r.bar = c.bar /\ r.offset = c.offset /\ r.length = c.length /\ r.multiplier = c.multiplier

InBar(f, k, r) ==
  /\ \E o \in DOMAIN cfg[f].caps : Describes(cfg[f].caps[o], r)
  /\ k = 2 => r.multiplier % 2 = 0
  /\ r.bar \in Bar /\ MemoryBar(cfg[f].bars[r.bar]) /\ WordBase(f, r.bar) # 0
  /\ r.offset + r.length < WORD =>
       /\ r.offset + r.length <= cfg[f].bars[r.bar].size
       /\ r.address = WordBase(f, r.bar) + r.offset
       /\ SizeOf[k] <= r.length /\ r.address % AlignOf[k] = 0

Offsets(f) == DOMAIN cfg[f].caps \cup {None}

\* Where `new` is with its structures.
CallInv ==
  /\ pc \in {"scan", "ready", "new"} => kind = 1 /\ region = <<>> /\ cap = [k \in Kind |-> None]
  /\ InNew => /\ kind \in 1 .. 5 /\ DOMAIN cap = Kind /\ \A k \in Kind : cap[k] \in Offsets(cur)
              /\ \E S : region \in Seq(S)
              /\ Len(region) = kind - 1
              /\ \A k \in 1 .. Len(region) : InBar(cur, k, region[k])
              /\ transport[cur] = <<>>
  /\ pc = "walk" => at \in Offsets(cur) /\ kind = 1
  /\ pc = "measured" => /\ kind \in Kind /\ cap[kind] # None /\ (kind = 2 => MultiplierOk)
                        /\ bar[cur][Info.bar] = Latch(cfg[cur].bars[Info.bar], WORD - 1)

\* The transports there are.
TransportInv ==
  /\ DOMAIN transport = Function
  /\ \A f \in Function : transport[f] # <<>> =>
       /\ f \in command /\ \A b \in Bar : bar[f][b] = Word(f, b)
       /\ {1, 2, 3} \subseteq DOMAIN transport[f]
       /\ \A k \in DOMAIN transport[f] : InBar(f, k, transport[f][k])

RegionInv == BarInv /\ CallInv /\ TransportInv

\* What the layout of a function that answers is known to be.
LEMMA LayoutFacts ==
  ASSUME BarInv, NEW f \in Present, NEW b \in Bar
  PROVE  /\ cfg[f].bars[b].kind \in {"none", "upper", "io", "memory"}
         /\ cfg[f].bars[b].kind = "memory" => MemoryBar(cfg[f].bars[b])
         /\ cfg[f].bars[b].kind = "io" =>
              cfg[f].bars[b].size \in Nat /\ cfg[f].bars[b].size > 0 /\ cfg[f].bars[b].size % 2 = 0
<1>0. cfg \in Buses /\ f \in Function /\ cfg[f] # Absent
  BY Zenon DEF BarInv, Present
<1> DEFINE k == cfg[f].bars[b]
<1>1. /\ k.kind \in {"none", "upper", "io", "memory"} /\ k.size \in Nat /\ Flags(k) \in Nat
      /\ k.kind \in {"io", "memory"} => Flags(k) < k.size
  BY <1>0, BarsAssumption, Zenon
<1>2. /\ k.kind \in {"io", "memory"} /\ k.size < WORD => WORD % k.size = 0
      /\ k.kind = "io" => k.size % 2 = 0
      /\ k.kind = "memory" => k.size % 16 = 0 /\ k.type \in 0 .. 3
  BY <1>0, SizesAssumption, Zenon
<1> HIDE DEF k
<1>3. k.kind \in {"io", "memory"} => k.size > 0
  BY <1>1
<1>4. /\ k.kind = "memory" => MemoryBar(k)
      /\ k.kind = "io" => k.size \in Nat /\ k.size > 0 /\ k.size % 2 = 0
  BY <1>1, <1>2, <1>3, Zenon DEF MemoryBar
<1> QED
  BY <1>1, <1>4, Zenon DEF k

\* An I/O BAR is odd.
LEMMA IoWord ==
  ASSUME NEW k, k.kind = "io", k.size \in Nat, k.size > 0, k.size % 2 = 0, NEW v \in Nat
  PROVE  Latch(k, v) % 2 = 1
<1>1. Flags(k) = 1
  BY Zenon DEF Flags
<1>2. CASE k.size >= WORD
  <2>1. Latch(k, v) = 1
    BY <1>1, <1>2, Zenon DEF Latch
  <2> QED
    BY <2>1
<1>3. CASE ~(k.size >= WORD)
  <2>1. Latch(k, v) = AlignDown(v, k.size) + 1
    BY <1>1, <1>3, Zenon DEF Latch
  <2>2. PICK q \in Nat : AlignDown(v, k.size) = k.size * q
    BY AlignIsMultiple, Zenon
  <2>3. PICK b \in Nat : k.size = 2 * b
    OBVIOUS
  <2>4. k.size * q = 2 * (b * q) /\ b * q \in Nat
    BY <2>3
  <2>5. Latch(k, v) = 2 * (b * q) + 1
    BY <2>1, <2>2, <2>4, Zenon
  <2> QED
    BY <2>4, <2>5
<1> QED
  BY <1>2, <1>3, Zenon

\* What bar_info returns for a memory BAR.
LEMMA InfoFields ==
  ASSUME NEW mask, BarInfo(mask).err = "none"
  PROVE  LET type == (bar_orig % 8) \div 2
         IN /\ bar_orig % 2 # 1 /\ ~(type = 2 /\ Info.bar >= 5)
            /\ BarInfo(mask).size = BarSize(mask)
            /\ BarInfo(mask).address
                 = FullAddress(bar_orig, IF type = 2 THEN bar[cur][Info.bar + 1] ELSE 0)
BY Zenon DEF BarInfo

\* A structure that get_bar_region accepts lies in its BAR.
LEMMA AcceptedInBar ==
  ASSUME RegionInv, pc = "measured",
         RegionError(BarInfo(bar[cur][Info.bar])) = "none",
         NEW r, r.address = BarInfo(bar[cur][Info.bar]).address + Info.offset,
         Describes(Info, r)
  PROVE  InBar(cur, kind, r)
<1> DEFINE b == Info.bar
           k == cfg[cur].bars[Info.bar]
           mask == bar[cur][Info.bar]
           info == BarInfo(bar[cur][Info.bar])
<1>0. r.bar = Info.bar /\ r.offset = Info.offset /\ r.length = Info.length
  BY Zenon DEF Describes
<1>1. cur \in Present /\ cur \in Function /\ cfg \in Buses /\ cfg[cur] # Absent /\ cur \in command
  BY Zenon DEF RegionInv, BarInv, InNew, Present
<1>2. kind \in Kind /\ cap[kind] \in DOMAIN cfg[cur].caps /\ mask = Latch(k, WORD - 1)
  BY Zenon DEF RegionInv, CallInv, Offsets, InNew
<1>3. b \in Bar /\ Info.offset \in Nat /\ Info.length \in Nat /\ k.kind # "upper"
  BY <1>1, <1>2, CapabilitiesAssumption, Zenon DEF Info
<1>4. bar_orig = Latch(k, Address(cur, b)) /\ Address(cur, b) \in Nat
  BY <1>1, <1>3, AddressNat, Zenon DEF RegionInv, BarInv
<1>5. /\ info.err = "none" /\ info.address # 0
      /\ ~OutOfRange(Info.offset, Info.length, info.size)
      /\ (info.address + Info.offset) % AlignOf[kind] = 0
  BY Zenon DEF RegionError
<1> HIDE DEF info
<1>6. /\ bar_orig % 2 # 1 /\ ~((bar_orig % 8) \div 2 = 2 /\ b >= 5)
      /\ info.size = BarSize(mask)
      /\ info.address
           = FullAddress(bar_orig, IF (bar_orig % 8) \div 2 = 2 THEN bar[cur][b + 1] ELSE 0)
  BY <1>5, InfoFields, Zenon DEF info
<1>7. k.kind = "memory" /\ MemoryBar(k)
  <2>1. k.kind # "io"
    BY <1>1, <1>3, <1>4, <1>6, LayoutFacts, IoWord, Zenon DEF RegionInv
  <2>2. k.kind # "none"
    <3> SUFFICES ASSUME k.kind = "none" PROVE FALSE
      BY Zenon
    <3>1. Flags(k) = 0
      BY Zenon DEF Flags
    <3>2. bar_orig = 0
      BY <1>4, <3>1, Zenon DEF Latch
    <3> QED
      BY <1>5, <1>6, <3>2, WordAssumption DEF FullAddress, AlignDown
  <2> QED
    BY <1>1, <1>3, <2>1, <2>2, LayoutFacts, Zenon DEF RegionInv
<1>8. (bar_orig % 8) \div 2 = k.type /\ bar_orig \in Nat
  BY <1>4, <1>7, MemoryType, Zenon
<1>9. info.address = WordBase(cur, b)
  <2>1. ASSUME k.type = 2 PROVE b < 5 /\ bar[cur][b + 1] = Word(cur, b + 1)
    <3>0. ~(b >= 5)
      BY <1>6, <1>8, <2>1, Zenon
    <3>1. b < 5 /\ b + 1 \in Bar /\ b + 1 # b
      BY <1>3, <3>0 DEF Bar
    <3> QED
      BY <1>1, <3>1, Zenon DEF RegionInv, BarInv, BarsKept, Word
  <2>2. CASE k.type = 2
    BY <1>4, <1>6, <1>8, <2>1, <2>2, Zenon DEF FullAddress, WordBase, Word
  <2>3. CASE k.type # 2
    <3>1. 0 * WORD = 0
      BY WordAssumption
    <3> QED
      BY <1>4, <1>6, <1>8, <2>3, <3>1, Zenon DEF FullAddress, WordBase, Word
  <2> QED
    BY <2>2, <2>3, Zenon
<1>10. SizeOf[kind] \in Nat \ {0} /\ SizeOf[kind] <= Info.length
  <2>1. SizeOf[kind] \in Nat \ {0}
    BY <1>2 DEF SizeOf, Kind
  <2> QED
    BY <1>3, <1>5, <2>1 DEF OutOfRange
<1>11. ASSUME Info.offset + Info.length < WORD PROVE Info.offset + Info.length <= k.size
  <2>1. Info.offset + Info.length \in Nat /\ WORD \in Nat /\ WORD > 0
    BY <1>3, WordAssumption
  <2>2. (Info.offset + Info.length) % WORD = Info.offset + Info.length
    BY <1>11, <2>1, ModSmall, Zenon
  <2>3. ~(Info.offset + Info.length > info.size)
    BY <1>5, <2>2, Zenon DEF OutOfRange
  <2>4. info.size = IF k.size < WORD THEN k.size ELSE 0
    BY <1>2, <1>6, <1>7, MeasuredSize, Zenon
  <2>5. k.size \in Nat
    BY <1>7, Zenon DEF MemoryBar
  <2> QED
    BY <1>3, <1>10, <2>3, <2>4, <2>5
<1>12. kind = 2 => r.multiplier % 2 = 0
  BY Zenon DEF RegionInv, CallInv, MultiplierOk, Describes
<1>13. \E o \in DOMAIN cfg[cur].caps : Describes(cfg[cur].caps[o], r)
  BY <1>2, Zenon DEF Info
<1>14. MemoryBar(cfg[cur].bars[r.bar]) /\ WordBase(cur, r.bar) # 0
  BY <1>0, <1>5, <1>7, <1>9, Zenon
<1>15. Info.offset + Info.length < WORD =>
         /\ Info.offset + Info.length <= cfg[cur].bars[r.bar].size
         /\ r.address = WordBase(cur, r.bar) + Info.offset
         /\ SizeOf[kind] <= Info.length /\ r.address % AlignOf[kind] = 0
  BY <1>0, <1>5, <1>9, <1>10, <1>11, Zenon DEF info
<1> HIDE DEF b, k, mask
<1> QED
  BY <1>0, <1>3, <1>12, <1>13, <1>14, <1>15, Zenon DEF InBar, b

\* What lies in a BAR depends on the layout of the bus, which never changes.
LEMMA LayoutStays ==
  ASSUME cfg' = cfg
  PROVE  /\ \A f, k, r : InBar(f, k, r)' <=> InBar(f, k, r)
         /\ \A f, b : Word(f, b)' = Word(f, b)
         /\ \A f : Offsets(f)' = Offsets(f)
<1>1. \A f, b : Address(f, b)' = Address(f, b)
  BY DEF Address
<1>2. \A f, b : Word(f, b)' = Word(f, b)
  BY <1>1, Zenon DEF Word
<1>3. \A f, b : WordBase(f, b)' = WordBase(f, b)
  BY <1>2, Zenon DEF WordBase
<1>4. \A f, k, r : InBar(f, k, r)' <=> InBar(f, k, r)
  <2> SUFFICES ASSUME NEW f, NEW k, NEW r PROVE InBar(f, k, r)' <=> InBar(f, k, r)
    BY Zenon
  <2>1. WordBase(f, r.bar)' = WordBase(f, r.bar)
    BY <1>3, Zenon
  <2> QED
    BY <2>1, Zenon DEF InBar
<1> QED
  BY <1>2, <1>4, Zenon DEF Offsets

\* A transport that was there stays, and so does what its function answers to.
LEMMA TransportsStay ==
  ASSUME RegionInv, cfg' = cfg, command \subseteq command', DOMAIN transport' = Function,
         \A f \in Function : transport'[f] # <<>> =>
           transport'[f] = transport[f] /\ bar'[f] = bar[f]
  PROVE  TransportInv'
<1> SUFFICES ASSUME NEW f \in Function, transport'[f] # <<>>
             PROVE  /\ f \in command' /\ \A b \in Bar : bar'[f][b] = Word(f, b)'
                    /\ {1, 2, 3} \subseteq DOMAIN transport'[f]
                    /\ \A k \in DOMAIN transport'[f] : InBar(f, k, transport[f][k])'
  BY Zenon DEF TransportInv
<1>1. transport'[f] = transport[f] /\ bar'[f] = bar[f]
  BY Zenon
<1>2. /\ f \in command /\ \A b \in Bar : bar[f][b] = Word(f, b)
      /\ {1, 2, 3} \subseteq DOMAIN transport[f]
      /\ \A k \in DOMAIN transport[f] : InBar(f, k, transport[f][k])
  BY <1>1, Zenon DEF RegionInv, TransportInv
<1>3. ASSUME NEW k \in DOMAIN transport'[f] PROVE InBar(f, k, transport[f][k])'
  <2>1. PICK r : r = transport[f][k]
    BY Zenon
  <2>2. InBar(f, k, r)'
    BY <1>1, <1>2, <1>3, <2>1, LayoutStays, Zenon
  <2> QED
    BY <1>1, <2>1, <2>2, Zenon
<1> QED
  BY <1>1, <1>2, <1>3, LayoutStays, Zenon

\* A step outside the call, or one that leaves its structures alone.
LEMMA CallStays ==
  ASSUME RegionInv, cfg' = cfg, UNCHANGED <<cur, cap, kind, region>>,
         InNew' => InNew /\ transport'[cur] = <<>>,
         pc' \in {"scan", "ready", "new"} => pc \in {"scan", "ready", "new"},
         pc' = "walk" => at' \in Offsets(cur) /\ kind = 1,
         pc' = "measured" => /\ kind \in Kind /\ cap[kind] # None /\ (kind = 2 => MultiplierOk)
                             /\ bar'[cur][Info.bar] = Latch(cfg[cur].bars[Info.bar], WORD - 1)
  PROVE  CallInv'
<1>1. Info' = Info /\ (MultiplierOk' <=> MultiplierOk)
  BY Zenon DEF Info, MultiplierOk
<1>2. pc' \in {"scan", "ready", "new"} => kind = 1 /\ region = <<>> /\ cap = [k \in Kind |-> None]
  BY Zenon DEF RegionInv, CallInv
<1>3. ASSUME InNew'
      PROVE  /\ kind \in 1 .. 5 /\ DOMAIN cap = Kind /\ \A k \in Kind : cap[k] \in Offsets(cur)
             /\ \E S : region \in Seq(S)
             /\ Len(region) = kind - 1
             /\ \A k \in 1 .. Len(region) : InBar(cur, k, region[k])
  BY <1>3, Zenon DEF RegionInv, CallInv
<1>4. ASSUME InNew', NEW k \in 1 .. Len(region) PROVE InBar(cur, k, region[k])'
  <2>1. PICK r : r = region[k]
    BY Zenon
  <2>2. PICK f : f = cur
    BY Zenon
  <2>3. InBar(f, k, r)
    BY <1>3, <1>4, <2>1, <2>2, Zenon
  <2>4. InBar(f, k, r)'
    BY <2>3, LayoutStays, Zenon
  <2> QED
    BY <2>1, <2>2, <2>4, Zenon
<1>5. \A k : cap[k] \in Offsets(cur) => (cap[k] \in Offsets(cur))'
  BY Zenon DEF Offsets
<1>6. pc' = "walk" => (at \in Offsets(cur))' /\ kind' = 1
  BY Zenon DEF Offsets
<1>7. InNew' => /\ kind' \in 1 .. 5 /\ DOMAIN cap' = Kind
                /\ \A k \in Kind : (cap[k] \in Offsets(cur))'
                /\ \E S : region' \in Seq(S)
                /\ Len(region') = kind' - 1
                /\ \A k \in 1 .. Len(region') : InBar(cur, k, region[k])'
                /\ transport'[cur'] = <<>>
  BY <1>3, <1>4, <1>5, Zenon
<1> QED
  BY <1>1, <1>2, <1>6, <1>7, Zenon DEF CallInv

\* The call returns.
LEMMA ReturnCall ==
  ASSUME NEW r, Return(r)
  PROVE  CallInv'
BY Zenon DEF Return, CallInv, InNew

\* PciTransport::new is called.
LEMMA NewCall == ASSUME RegionInv, New PROVE CallInv'
<1>1. CASE ~cfg[cur].virtio
  BY <1>1, ReturnCall, Zenon DEF New
<1>2. CASE cfg[cur].virtio
  <2>1. /\ pc = "new" /\ pc' = "walk" /\ UNCHANGED <<cfg, cur, cap, kind, region, transport>>
        /\ at' = IF cfg[cur].list THEN AlignDown(cfg[cur].first, 4) ELSE None
    BY <1>2, Zenon DEF New
  <2>2. cfg \in Buses /\ cur \in Function /\ cfg[cur] # Absent /\ kind = 1 /\ transport[cur] = <<>>
    BY <2>1, Zenon DEF RegionInv, BarInv, InNew, Present, CallInv
  <2>3. at' \in Offsets(cur)
    BY <2>1, <2>2, CapabilitiesAssumption, Zenon DEF Offsets
  <2> QED
    BY <2>1, <2>2, <2>3, CallStays, Zenon DEF InNew
<1> QED
  BY <1>1, <1>2, Zenon

\* The walk over the capabilities.
LEMMA WalkCall == ASSUME RegionInv, Walk PROVE CallInv'
<1> DEFINE c == cfg[cur].caps[at]
<1>1. /\ pc = "walk" /\ at # None /\ pc' = "walk"
      /\ UNCHANGED <<cfg, cur, kind, region, transport>>
      /\ cap' = IF Wanted(c) THEN [cap EXCEPT ![c.type] = at] ELSE cap
      /\ at' = NextOffset(c.next)
  BY Zenon DEF Walk
<1>2. cfg \in Buses /\ cur \in Function /\ cfg[cur] # Absent
  BY <1>1, Zenon DEF RegionInv, BarInv, InNew, Present
<1>3. /\ kind = 1 /\ transport[cur] = <<>> /\ at \in Offsets(cur) /\ DOMAIN cap = Kind
      /\ (\E S : region \in Seq(S)) /\ Len(region) = 0
      /\ \A k \in Kind : cap[k] \in Offsets(cur)
  <2>1. /\ kind = 1 /\ transport[cur] = <<>> /\ at \in Offsets(cur) /\ DOMAIN cap = Kind
        /\ (\E S : region \in Seq(S)) /\ Len(region) = kind - 1
        /\ \A k \in Kind : cap[k] \in Offsets(cur)
    BY <1>1, Zenon DEF RegionInv, CallInv, InNew
  <2>2. 1 - 1 = 0
    OBVIOUS
  <2> QED
    BY <2>1, <2>2, Zenon
<1>4. at' \in Offsets(cur)
  BY <1>1, <1>2, <1>3, CapabilitiesAssumption, Zenon DEF Offsets
<1>5. DOMAIN cap' = Kind /\ \A k \in Kind : cap'[k] \in Offsets(cur)
  <2>1. DOMAIN cap' = Kind
    BY <1>1, <1>3, Zenon
  <2>2. ASSUME NEW k \in Kind PROVE cap'[k] = at \/ cap'[k] = cap[k]
    BY <1>1, <1>3, Zenon
  <2> QED
    BY <1>3, <2>1, <2>2, Zenon
<1>6. Offsets(cur)' = Offsets(cur)
  BY <1>1, Zenon DEF Offsets
<1>7. Len(region') = kind' - 1 /\ kind' \in 1 .. 5 /\ \A k \in 1 .. Len(region') : FALSE
  BY <1>1, <1>3
<1> QED
  BY <1>1, <1>3, <1>4, <1>5, <1>6, <1>7, Zenon DEF CallInv, InNew

\* The BAR is measured.
LEMMA MeasureCall == ASSUME RegionInv, Measure PROVE CallInv'
<1>1. /\ pc = "region" /\ pc' = "measured" /\ kind \in Kind /\ cap[kind] # None
      /\ kind = 2 => MultiplierOk
      /\ UNCHANGED <<cfg, cur, cap, kind, region, transport>>
      /\ bar' = [bar EXCEPT ![cur][Info.bar] = Latch(cfg[cur].bars[Info.bar], WORD - 1)]
  BY Zenon DEF Measure, config_write_word, Refused
<1>2. /\ cfg \in Buses /\ cur \in Function /\ cfg[cur] # Absent
      /\ DOMAIN bar = Function /\ \A f \in Function : DOMAIN bar[f] = Bar
  BY <1>1, Zenon DEF RegionInv, BarInv, InNew, Present
<1>3. cap[kind] \in DOMAIN cfg[cur].caps /\ transport[cur] = <<>>
  BY <1>1, Zenon DEF RegionInv, CallInv, InNew, Offsets
<1>4. Info.bar \in Bar
  BY <1>2, <1>3, CapabilitiesAssumption, Zenon DEF Info
<1>5. bar'[cur][Info.bar] = Latch(cfg[cur].bars[Info.bar], WORD - 1)
  BY <1>1, <1>2, <1>4, Zenon
<1> QED
  BY <1>1, <1>3, <1>5, CallStays, Zenon DEF InNew

\* The BAR is restored, and the structure accepted or refused.
LEMMA MeasuredCall == ASSUME RegionInv, Measured PROVE CallInv'
<1> DEFINE info == BarInfo(bar[cur][Info.bar])
           r == [address |-> info.address + Info.offset, bar |-> Info.bar,
                 offset |-> Info.offset, length |-> Info.length,
                 multiplier |-> Info.multiplier]
<1>1. CASE RegionError(info) # "none"
  BY <1>1, ReturnCall, Zenon DEF Measured
<1>2. CASE RegionError(info) = "none"
  <2>1. /\ pc = "measured" /\ pc' = "region" /\ region' = Append(region, r) /\ kind' = kind + 1
        /\ UNCHANGED <<cfg, cur, cap, transport>>
    BY <1>2, Zenon DEF Measured
  <2>2. /\ kind \in Kind /\ transport[cur] = <<>> /\ DOMAIN cap = Kind
        /\ Len(region) = kind - 1
        /\ \A k \in Kind : cap[k] \in Offsets(cur)
        /\ \A k \in 1 .. Len(region) : InBar(cur, k, region[k])
    BY <2>1, Zenon DEF RegionInv, CallInv, InNew
  <2>3. PICK S : region \in Seq(S)
    BY <2>1, Zenon DEF RegionInv, CallInv, InNew
  <2>4. PICK x : x = r
    BY Zenon
  <2>5. InBar(cur, kind, x)
    <3>1. /\ x.address = BarInfo(bar[cur][Info.bar]).address + Info.offset
          /\ Describes(Info, x)
      BY <2>4, Zenon DEF Describes
    <3>2. RegionError(BarInfo(bar[cur][Info.bar])) = "none"
      BY <1>2, Zenon
    <3> HIDE DEF info, r
    <3> QED
      BY <2>1, <3>1, <3>2, AcceptedInBar, Zenon
  <2> HIDE DEF info, r
  <2>6. region' = Append(region, x)
    BY <2>1, <2>4, Zenon
  <2>7. /\ region' \in Seq(S \cup {x}) /\ Len(region') = kind
        /\ region'[kind] = x /\ \A k \in 1 .. Len(region) : region'[k] = region[k]
    BY <2>2, <2>3, <2>6 DEF Kind
  <2>8. ASSUME NEW k \in 1 .. Len(region') PROVE InBar(cur, k, region[k])'
    <3>1. PICK y : y = region'[k]
      BY Zenon
    <3>2. PICK f : f = cur
      BY Zenon
    <3>3. k = kind \/ k \in 1 .. Len(region)
      BY <2>2, <2>7, <2>8 DEF Kind
    <3>4. InBar(f, k, y)
      BY <2>2, <2>5, <2>7, <3>1, <3>2, <3>3, Zenon
    <3>5. InBar(f, k, y)'
      BY <2>1, <3>4, LayoutStays, Zenon
    <3> QED
      BY <2>1, <3>1, <3>2, <3>5, Zenon
  <2>9. Offsets(cur)' = Offsets(cur)
    BY <2>1, Zenon DEF Offsets
  <2>10. kind' \in 1 .. 5 /\ kind = kind' - 1
    BY <2>1, <2>2 DEF Kind
  <2> QED
    BY <2>1, <2>2, <2>7, <2>8, <2>9, <2>10, Zenon DEF CallInv, InNew
<1> QED
  BY <1>1, <1>2, Zenon

\* `new` succeeds: the function has its BARs, as they were set, and the structures lie in them.
LEMMA SucceedTransports == ASSUME RegionInv, Succeed PROVE TransportInv'
<1>1. /\ pc = "region" /\ transport' = [transport EXCEPT ![cur] = region]
      /\ UNCHANGED <<cfg, bar, command, cur>>
  BY Zenon DEF Succeed, regs
<1>2. /\ cur \in command /\ cur \in Function /\ DOMAIN transport = Function
      /\ \A b \in Bar : bar[cur][b] = Word(cur, b)
  BY <1>1, Zenon DEF RegionInv, BarInv, BarsKept, InNew, Present, TransportInv, Word
<1>3. PICK S : region \in Seq(S)
  BY <1>1, Zenon DEF RegionInv, CallInv, InNew
<1>4. /\ \A k \in DOMAIN region : InBar(cur, k, region[k])
      /\ {1, 2, 3} \subseteq DOMAIN region
  <2>1. /\ \A k \in 1 .. Len(region) : InBar(cur, k, region[k])
        /\ Len(region) = kind - 1 /\ kind \in 1 .. 5
    BY <1>1, Zenon DEF RegionInv, CallInv, InNew
  <2>2. kind > 4 \/ kind = 4
    BY Zenon DEF Succeed
  <2>3. DOMAIN region = 1 .. Len(region) /\ {1, 2, 3} \subseteq 1 .. Len(region)
    BY <1>3, <2>1, <2>2
  <2> QED
    BY <2>1, <2>3, Zenon
<1>5. DOMAIN transport' = Function
  BY <1>1, <1>2, Zenon
<1> SUFFICES ASSUME NEW f \in Function, transport'[f] # <<>>
             PROVE  /\ f \in command' /\ \A b \in Bar : bar'[f][b] = Word(f, b)'
                    /\ {1, 2, 3} \subseteq DOMAIN transport'[f]
                    /\ \A k \in DOMAIN transport'[f] : InBar(f, k, transport[f][k])'
  BY <1>5, Zenon DEF TransportInv
<1>6. /\ f \in command /\ \A b \in Bar : bar[f][b] = Word(f, b)
      /\ {1, 2, 3} \subseteq DOMAIN transport'[f]
      /\ \A k \in DOMAIN transport'[f] : InBar(f, k, transport'[f][k])
  <2>1. CASE f = cur
    BY <1>1, <1>2, <1>4, <2>1, Zenon
  <2>2. CASE f # cur
    <3>1. transport'[f] = transport[f]
      BY <1>1, <1>2, <2>2, Zenon
    <3> QED
      BY <3>1, Zenon DEF RegionInv, TransportInv
  <2> QED
    BY <2>1, <2>2, Zenon
<1>7. ASSUME NEW k \in DOMAIN transport'[f] PROVE InBar(f, k, transport[f][k])'
  <2>1. PICK r : r = transport'[f][k]
    BY Zenon
  <2>2. InBar(f, k, r)'
    BY <1>1, <1>6, <1>7, <2>1, LayoutStays, Zenon
  <2> QED
    BY <2>1, <2>2, Zenon
<1> QED
  BY <1>1, <1>6, <1>7, LayoutStays, Zenon

\* A BAR is written while its function is measured or set up, and has no transport.
LEMMA WriteTransports ==
  ASSUME RegionInv, cfg' = cfg, command \subseteq command', transport' = transport,
         NEW f \in Function, transport[f] = <<>>, NEW w, bar' = [bar EXCEPT ![f] = w]
  PROVE  TransportInv'
<1>1. DOMAIN transport' = Function /\ DOMAIN bar = Function
  BY Zenon DEF RegionInv, TransportInv, BarInv
<1>2. \A g \in Function : transport'[g] # <<>> =>
        transport'[g] = transport[g] /\ bar'[g] = bar[g]
  BY <1>1, Zenon
<1> QED
  BY <1>1, <1>2, TransportsStay, Zenon

\* The regions a call makes.
LEMMA CallRegions == ASSUME RegionInv, CallStep PROVE CallInv' /\ TransportInv'
<1>0. DOMAIN transport = Function /\ (InNew => cur \in Function /\ transport[cur] = <<>>)
  BY Zenon DEF RegionInv, TransportInv, CallInv, BarInv, Present
<1>1. CASE Scan \/ Scanned
  <2>1. /\ UNCHANGED <<cfg, bar, command, transport, cur, cap, kind, region>>
        /\ pc = "scan" /\ pc' \in {"scan", "ready"}
    BY <1>1, Zenon DEF Scan, Scanned, regs, call
  <2>2. TransportInv'
    BY <1>0, <2>1, TransportsStay, Zenon
  <2>3. ~InNew' /\ pc' # "walk" /\ pc' # "measured"
    BY <2>1, Zenon DEF InNew
  <2>4. CallInv'
    BY <2>1, <2>3, CallStays, Zenon
  <2> QED
    BY <2>2, <2>4, Zenon
<1>2. CASE New
  BY <1>0, <1>2, NewCall, TransportsStay, Zenon DEF New, regs
<1>3. CASE Walk
  BY <1>0, <1>3, WalkCall, TransportsStay, Zenon DEF Walk, regs
<1>4. CASE Walked
  <2>1. /\ UNCHANGED <<cfg, bar, command, transport, cur, cap, kind, region>>
        /\ pc = "walk" /\ pc' = "region"
    BY <1>4, Zenon DEF Walked, regs, call
  <2>2. TransportInv'
    BY <1>0, <2>1, TransportsStay, Zenon
  <2>3. CallInv'
    BY <1>0, <2>1, CallStays, Zenon DEF InNew
  <2> QED
    BY <2>2, <2>3, Zenon
<1>5. CASE Refuse
  BY <1>0, <1>5, ReturnCall, TransportsStay, Zenon DEF Refuse, regs
<1>6. CASE Succeed
  BY <1>6, ReturnCall, SucceedTransports, Zenon DEF Succeed
<1>7. ASSUME NEW v, config_write_word(cur, Info.bar, v), InNew,
             UNCHANGED <<cfg, command, transport>>
      PROVE  TransportInv'
  <2>1. PICK w : bar' = [bar EXCEPT ![cur] = w]
    BY <1>7, Zenon DEF config_write_word
  <2>2. /\ cur \in Function /\ transport[cur] = <<>> /\ command \subseteq command'
        /\ cfg' = cfg /\ transport' = transport
    BY <1>0, <1>7, Zenon
  <2> QED
    BY <2>1, <2>2, WriteTransports, Zenon
<1>8. CASE Measure
  BY <1>7, <1>8, MeasureCall, Zenon DEF Measure, InNew
<1>9. CASE Measured
  <2>1. /\ config_write_word(cur, Info.bar, bar_orig) /\ pc = "measured"
        /\ UNCHANGED <<cfg, command, transport>>
    BY <1>9, Zenon DEF Measured, Restore
  <2>2. TransportInv'
    BY <1>7, <2>1, Zenon DEF InNew
  <2> QED
    BY <1>9, <2>2, MeasuredCall, Zenon
<1>10. CASE Overflow
  <2>1. /\ config_write_word(cur, Info.bar, bar_orig) /\ pc = "measured" /\ pc' = "panicked"
        /\ UNCHANGED <<cfg, command, transport>>
    BY <1>10, Zenon DEF Overflow, Restore
  <2>2. TransportInv'
    BY <1>7, <2>1, Zenon DEF InNew
  <2>3. CallInv'
    BY <2>1, Zenon DEF CallInv, InNew
  <2> QED
    BY <2>2, <2>3, Zenon
<1> QED
  BY <1>1, <1>2, <1>3, <1>4, <1>5, <1>6, <1>8, <1>9, <1>10, Zenon DEF CallStep

\* Whoever runs beside the call.
LEMMA BesideRegions ==
  ASSUME RegionInv, UNCHANGED <<cfg, bar, command, call>>, pc' \in {pc, "panicked"},
         DOMAIN transport' = Function,
         \A f \in Function : transport'[f] \in {transport[f], <<>>}
  PROVE  CallInv' /\ TransportInv'
<1>1. TransportInv'
  BY TransportsStay, Zenon
<1>2. UNCHANGED <<cur, at, cap, kind, region>>
  BY Zenon DEF call
<1>3. InNew' => InNew /\ transport'[cur] = <<>>
  BY Zenon DEF InNew, RegionInv, CallInv, BarInv, Present
<1>4. CallInv'
  <2>1. /\ pc' = "walk" => at' \in Offsets(cur) /\ kind = 1
        /\ pc' = "measured" => /\ kind \in Kind /\ cap[kind] # None /\ (kind = 2 => MultiplierOk)
                               /\ bar'[cur][Info.bar] = Latch(cfg[cur].bars[Info.bar], WORD - 1)
    BY <1>2, Zenon DEF RegionInv, CallInv
  <2>2. pc' \in {"scan", "ready", "new"} => pc \in {"scan", "ready", "new"}
    BY Zenon
  <2> QED
    BY <1>2, <1>3, <2>1, <2>2, CallStays, Zenon
<1> QED
  BY <1>1, <1>4, Zenon

\* Every step keeps the regions.
LEMMA NextRegions == ASSUME RegionInv, [Next]_vars PROVE RegionInv'
<1>0. BarInv'
  BY NextBars, Zenon DEF RegionInv
<1>1. DOMAIN transport = Function
  BY Zenon DEF RegionInv, TransportInv
<1>2. ASSUME NEW f \in Function, SetUp(f) PROVE CallInv' /\ TransportInv'
  <2>1. /\ pc = "ready" /\ pc' = "ready" /\ f \notin command /\ command \subseteq command'
        /\ cfg' = cfg /\ transport' = transport /\ UNCHANGED <<cur, cap, kind, region>>
    BY <1>2, Zenon DEF SetUp, call
  <2>2. PICK w : bar' = [bar EXCEPT ![f] = w]
    BY <1>2, Zenon DEF SetUp
  <2>3. transport[f] = <<>>
    BY <2>1, Zenon DEF RegionInv, TransportInv
  <2>4. TransportInv'
    BY <2>1, <2>2, <2>3, WriteTransports, Zenon
  <2>5. CallInv'
    BY <2>1, CallStays, Zenon DEF InNew
  <2> QED
    BY <2>4, <2>5, Zenon
<1>3. ASSUME NEW f \in Function, CallNew(f) PROVE CallInv' /\ TransportInv'
  <2>1. /\ pc = "ready" /\ pc' = "new" /\ cur' = f /\ transport[f] = <<>>
        /\ UNCHANGED <<cfg, bar, command, transport, cap, kind, region>>
    BY <1>3, Zenon DEF CallNew, regs
  <2>2. kind = 1 /\ region = <<>> /\ cap = [k \in Kind |-> None]
    BY <2>1, Zenon DEF RegionInv, CallInv
  <2>3. <<>> \in Seq({}) /\ Len(<<>>) = 0
    OBVIOUS
  <2>4. CallInv'
    BY <2>1, <2>2, <2>3 DEF CallInv, InNew, Offsets
  <2> QED
    BY <1>1, <2>1, <2>4, TransportsStay, Zenon
<1>4. ASSUME NEW f \in Function, ack_interrupt(f) \/ DevInterrupt(f) \/ Drop(f)
      PROVE  CallInv' /\ TransportInv'
  BY <1>1, <1>4, BesideRegions, Zenon DEF ack_interrupt, DevInterrupt, Drop
<1>5. ASSUME NEW f \in Function, NEW q \in Queue, notify(f, q) PROVE CallInv' /\ TransportInv'
  <2>1. UNCHANGED <<cfg, bar, command, call, transport>> /\ pc' \in {pc, "panicked"}
    BY <1>5, Zenon DEF notify, regs
  <2> QED
    BY <1>1, <2>1, BesideRegions, Zenon
<1>6. ASSUME UNCHANGED vars PROVE CallInv' /\ TransportInv'
  <2>1. UNCHANGED <<cfg, bar, command, call, transport, pc>>
    BY <1>6, Zenon DEF vars, regs
  <2> QED
    BY <1>1, <2>1, BesideRegions, Zenon
<1>7. CallInv' /\ TransportInv'
  BY <1>2, <1>3, <1>4, <1>5, <1>6, CallRegions, Zenon DEF Next
<1> QED
  BY <1>0, <1>7, Zenon DEF RegionInv

\* There are no regions at first.
LEMMA InitRegions == ASSUME Init PROVE RegionInv
<1>1. CallInv
  BY Zenon DEF Init, CallInv, InNew
<1>2. TransportInv
  BY Zenon DEF Init, TransportInv
<1> QED
  BY <1>1, <1>2, InitBars, Zenon DEF RegionInv

\* Every structure that a transport uses lies in a BAR of its own function, at the
\* address where the function answers, is large enough and aligned: what bar_info
\* measures is the size of the BAR, and what get_bar_region checks is enough, on
\* every bus, as long as offset + length does not overflow.
THEOREM RegionsAlwaysInBars == Spec => []RegionsInBars
<1>1. Init => RegionInv
  BY InitRegions, Zenon
<1>2. RegionInv /\ [Next]_vars => RegionInv'
  BY NextRegions, Zenon
<1>3. RegionInv => RegionsInBars
  <2> SUFFICES ASSUME RegionInv, NEW f \in Function, NEW k \in DOMAIN transport[f]
               PROVE  LET r == transport[f][k]
                      IN r.offset + r.length < WORD =>
                           /\ r.offset + r.length <= cfg[f].bars[r.bar].size
                           /\ r.address = Base(f, r.bar) + r.offset
                           /\ SizeOf[k] <= r.length /\ r.address % AlignOf[k] = 0
    BY Zenon DEF RegionsInBars
  <2>1. transport[f] # <<>>
    OBVIOUS
  <2>2. (\A b \in Bar : bar[f][b] = Word(f, b)) /\ InBar(f, k, transport[f][k])
    BY <2>1, Zenon DEF RegionInv, TransportInv
  <2>3. ASSUME NEW b \in Bar PROVE Base(f, b) = WordBase(f, b)
    <3>1. b < 5 => b + 1 \in Bar
      BY DEF Bar
    <3> QED
      BY <2>2, <3>1, Zenon DEF Base, WordBase
  <2> QED
    BY <2>2, <2>3, Zenon DEF InBar
<1> QED
  BY <1>1, <1>2, <1>3, PTL DEF Spec

-----------------------------------------------------------------------------
(* Who answers to an address.  A 64-bit BAR is alone under its upper word;  *)
(* the others are in slots of their own, below them those that were given   *)
(* no address and above them one that is being measured.                    *)

Index(f, b) == 6 * (MAX_FUNCTIONS * f[1] + f[2]) + b

Wide(f, b) == cfg[f].allocated /\ cfg[f].bars[b].type = 2 /\ b < 5

Top(f, b) == IF Wide(f, b) THEN Index(f, b + 1) ELSE 0

\* Where the low word of a BAR that is not wide is, when it is not being measured.
LowWord(f, b) == IF cfg[f].allocated THEN Slot * (Index(f, b) + 1) ELSE 0

\* Quotient and remainder are unique.
LEMMA Digits ==
  ASSUME NEW n \in Nat, n > 0, NEW q \in Nat, NEW r \in Nat, r < n,
         NEW p \in Nat, NEW s \in Nat, s < n, n * q + r = n * p + s
  PROVE  q = p /\ r = s
<1>1. (n * q + r) % n = r /\ n * q \in Nat
  BY AlignMultiple, Zenon
<1>2. (n * p + s) % n = s /\ n * p \in Nat
  BY AlignMultiple, Zenon
<1>3. r = s
  BY <1>1, <1>2, Zenon
<1>4. n * q = n * p
  BY <1>1, <1>2, <1>3
<1>5. CASE q < p
  <2>1. PICK d \in Nat : p = q + 1 + d
    BY <1>5
  <2>2. n * p = n * q + n + n * d /\ n * d \in Nat
    BY <2>1
  <2> QED
    BY <1>1, <1>4, <2>2
<1>6. CASE p < q
  <2>1. PICK d \in Nat : q = p + 1 + d
    BY <1>6
  <2>2. n * q = n * p + n + n * d /\ n * d \in Nat
    BY <2>1
  <2> QED
    BY <1>2, <1>4, <2>2
<1> QED
  BY <1>3, <1>5, <1>6

\* Division finds them again.
LEMMA Quotient ==
  ASSUME NEW n \in Nat, n > 0, NEW q \in Nat, NEW r \in Nat, r < n
  PROVE  (n * q + r) \div n = q /\ (n * q + r) % n = r
<1>1. PICK w \in Nat : w = n * q + r
  OBVIOUS
<1>2. PICK p, s : p = w \div n /\ s = w % n
  BY Zenon
<1>3. p \in Nat /\ s \in Nat /\ s < n /\ w = n * p + s
  BY <1>2
<1>4. n * q + r = n * p + s
  BY <1>1, <1>3, Zenon
<1>5. q = p /\ r = s
  BY <1>3, <1>4, Digits
<1> QED
  BY <1>1, <1>2, <1>5, Zenon

\* The BAR words of a bus are numbered from 0.
LEMMA IndexRange ==
  ASSUME NEW f \in Function, NEW b \in Bar
  PROVE  Index(f, b) \in Nat /\ Index(f, b) + 1 <= 6 * (MAX_DEVICES * MAX_FUNCTIONS)
<1>1. /\ f[1] \in Nat /\ f[2] \in Nat /\ f[1] + 1 <= MAX_DEVICES /\ f[2] + 1 <= MAX_FUNCTIONS
      /\ MAX_DEVICES \in Nat /\ MAX_FUNCTIONS \in Nat /\ b \in Nat /\ b <= 5
  BY BusAssumption DEF Function, Bar
<1>2. PICK d \in Nat : MAX_DEVICES = f[1] + 1 + d
  <2>1. MAX_DEVICES - f[1] - 1 \in Nat /\ MAX_DEVICES = f[1] + 1 + (MAX_DEVICES - f[1] - 1)
    BY <1>1
  <2> QED
    BY <2>1, Zenon
<1>3. /\ MAX_DEVICES * MAX_FUNCTIONS
           = MAX_FUNCTIONS * f[1] + MAX_FUNCTIONS + MAX_FUNCTIONS * d
      /\ MAX_FUNCTIONS * f[1] \in Nat /\ MAX_FUNCTIONS * d \in Nat
  BY <1>1, <1>2
<1> QED
  BY <1>1, <1>3 DEF Index

\* Two BAR words of a bus have different numbers.
LEMMA IndexInjective ==
  ASSUME NEW f \in Function, NEW b \in Bar, NEW g \in Function, NEW c \in Bar,
         Index(f, b) = Index(g, c)
  PROVE  f = g /\ b = c
<1> DEFINE x == MAX_FUNCTIONS * f[1] + f[2]
           y == MAX_FUNCTIONS * g[1] + g[2]
<1>1. /\ f[1] \in Nat /\ f[2] \in Nat /\ f[2] < MAX_FUNCTIONS /\ f = <<f[1], f[2]>>
      /\ g[1] \in Nat /\ g[2] \in Nat /\ g[2] < MAX_FUNCTIONS /\ g = <<g[1], g[2]>>
      /\ MAX_FUNCTIONS \in Nat /\ MAX_FUNCTIONS > 0
      /\ b \in Nat /\ b < 6 /\ c \in Nat /\ c < 6
  BY BusAssumption DEF Function, Bar
<1>2. x \in Nat /\ y \in Nat
  BY <1>1
<1>3. x = y /\ b = c
  <2>1. 6 * x + b = 6 * y + c
    BY Zenon DEF Index
  <2>2. b \in 0 .. 5 /\ c \in 0 .. 5
    BY Zenon DEF Bar
  <2> HIDE DEF x, y
  <2> QED
    BY <1>2, <2>1, <2>2
<1>4. f[1] = g[1] /\ f[2] = g[2]
  <2>1. MAX_FUNCTIONS * f[1] + f[2] = MAX_FUNCTIONS * g[1] + g[2]
    BY <1>3, Zenon
  <2> QED
    BY <1>1, <2>1, Digits
<1> QED
  BY <1>1, <1>3, <1>4, Zenon

\* The addresses that a client has fit in the 32-bit address space.
LEMMA SlotsFit ==
  ASSUME NEW f \in Function, NEW b \in Bar
  PROVE  /\ Slot * (Index(f, b) + 1) \in Nat
         /\ Slot * (Index(f, b) + 1) + 2 * Slot <= WORD
<1>1. Index(f, b) \in Nat /\ Index(f, b) + 1 <= 6 * (MAX_DEVICES * MAX_FUNCTIONS)
  BY IndexRange, Zenon
<1>2. (6 * (MAX_DEVICES * MAX_FUNCTIONS) + 2) * Slot <= WORD /\ WORD \in Nat
  BY AddressesAssumption, WordAssumption, Zenon
<1>3. MAX_DEVICES * MAX_FUNCTIONS \in Nat
  BY BusAssumption
<1> DEFINE m == MAX_DEVICES * MAX_FUNCTIONS
<1> HIDE DEF m
<1>4. m \in Nat /\ Index(f, b) + 1 <= 6 * m /\ (6 * m + 2) * Slot <= WORD
  BY <1>1, <1>2, <1>3, Zenon DEF m
<1> QED
  BY <1>1, <1>2, <1>4 DEF Slot

\* A word that a size divides is kept.
LEMMA AlignKeeps ==
  ASSUME NEW n \in Nat, n > 0, NEW v \in Nat, v % n = 0, NEW q \in Nat
  PROVE  AlignDown(v * q, n) = v * q
<1>1. PICK p \in Nat : v = n * p + (v % n)
  BY AlignIsMultiple, Zenon
<1>2. n * p \in Nat /\ v = n * p
  BY <1>1
<1>3. PICK z \in Nat : z = p * q
  OBVIOUS
<1>4. v * q = n * z
  BY <1>2, <1>3
<1>5. AlignDown(n * z + 0, n) = n * z /\ n * z \in Nat
  <2>1. 0 \in Nat /\ 0 < n
    OBVIOUS
  <2> QED
    BY <2>1, AlignMultiple, Zenon
<1>6. n * z + 0 = n * z
  BY <1>5
<1> QED
  BY <1>4, <1>5, <1>6, Zenon

\* A BAR ends in the 32-bit address space in which it starts.
LEMMA AlignBelow ==
  ASSUME NEW n \in Nat, n > 0, NEW v \in Nat, NEW w \in Nat, w % n = 0, v < w
  PROVE  AlignDown(v, n) \in Nat /\ AlignDown(v, n) + n <= w
<1>1. PICK q \in Nat : AlignDown(v, n) = n * q /\ v = n * q + (v % n)
  BY AlignIsMultiple, Zenon
<1>2. PICK m \in Nat : w = n * m + (w % n)
  BY AlignIsMultiple, Zenon
<1>3. v % n \in Nat /\ n * q \in Nat /\ n * m \in Nat /\ w = n * m
  BY <1>2
<1>4. n * q < n * m
  BY <1>1, <1>3
<1>5. q < m
  <2> SUFFICES ASSUME ~(q < m) PROVE FALSE
    BY Zenon
  <2>1. PICK d \in Nat : q = m + d
    OBVIOUS
  <2>2. n * q = n * m + n * d /\ n * d \in Nat
    BY <2>1
  <2> QED
    BY <1>3, <1>4, <2>2
<1>6. PICK d \in Nat : m = q + 1 + d
  BY <1>5
<1>7. n * m = n * q + n + n * d /\ n * d \in Nat
  BY <1>6
<1> QED
  BY <1>1, <1>3, <1>7

\* What the client has for a memory BAR, and for the word above a wide one.
LEMMA ClientWords ==
  ASSUME BarInv, NEW f \in Present, NEW b \in Bar, cfg[f].bars[b].kind = "memory"
  PROVE  /\ Wide(f, b) => Address(f, b) = Slot
         /\ ~Wide(f, b) => Address(f, b) = LowWord(f, b)
         /\ cfg[f].bars[b].type = 2 /\ b < 5 => Word(f, b + 1) = Top(f, b)
<1>0. cfg \in Buses /\ f \in Function /\ cfg[f] # Absent
  BY Zenon DEF BarInv, Present
<1>1. Wide(f, b) => Address(f, b) = Slot
  BY Zenon DEF Wide, Address
<1>2. CASE ~cfg[f].allocated
  <2>1. \A c : Address(f, c) = 0
    BY <1>2 DEF Address
  <2>2. ASSUME cfg[f].bars[b].type = 2, b < 5 PROVE Word(f, b + 1) = 0
    <3>1. cfg[f].bars[b + 1].kind = "upper"
      BY <1>0, <2>2, AddressesAssumption, Zenon
    <3> QED
      BY <2>1, <3>1 DEF Word, Latch
  <2> QED
    BY <1>1, <1>2, <2>1, <2>2, Zenon DEF Top, Wide, LowWord
<1>3. CASE cfg[f].allocated
  <2>1. ASSUME ~Wide(f, b) PROVE Address(f, b) = LowWord(f, b)
    <3>1. Address(f, b) = (Index(f, b) + 1) * Slot
      BY <1>3, <2>1, Zenon DEF Address, Wide, Index
    <3>2. Index(f, b) \in Nat
      BY <1>0, IndexRange, Zenon
    <3>3. (Index(f, b) + 1) * Slot = Slot * (Index(f, b) + 1)
      BY <3>2 DEF Slot
    <3> QED
      BY <1>3, <3>1, <3>3, Zenon DEF LowWord
  <2>2. ASSUME cfg[f].bars[b].type = 2, b < 5 PROVE Word(f, b + 1) = Top(f, b)
    <3>1. cfg[f].bars[b + 1].kind = "upper"
      BY <1>0, <2>2, AddressesAssumption, Zenon
    <3>2. Address(f, b + 1) = Index(f, b + 1)
      BY <1>3, <3>1, Zenon DEF Address, Index
    <3>3. Word(f, b + 1) = Index(f, b + 1)
      BY <3>1, <3>2 DEF Word, Latch
    <3> QED
      BY <1>3, <2>2, <3>3, Zenon DEF Top, Wide
  <2> QED
    BY <1>1, <2>1, <2>2, Zenon
<1> QED
  BY <1>2, <1>3, Zenon

\* The sizes of memory BARs.
LEMMA SizeFits ==
  ASSUME BarInv, NEW f \in Present, NEW b \in Bar, cfg[f].bars[b].kind = "memory"
  PROVE  /\ cfg[f].bars[b].size <= WORD
         /\ ~Wide(f, b) => /\ Slot % cfg[f].bars[b].size = 0
                           /\ cfg[f].bars[b].size <= Slot /\ cfg[f].bars[b].size < WORD
<1>0. cfg \in Buses /\ f \in Function /\ cfg[f] # Absent
  BY Zenon DEF BarInv, Present
<1>1. PICK k : k = cfg[f].bars[b]
  BY Zenon
<1>2. k.size \in Nat /\ k.size > 0
  BY <1>1, LayoutFacts, Zenon DEF MemoryBar
<1>3. /\ Wide(f, b) => k.size <= WORD
      /\ ~Wide(f, b) => Slot % k.size = 0
  BY <1>0, <1>1, AddressesAssumption, Zenon DEF Wide
<1>4. Slot \in Nat /\ Slot > 0 /\ WORD \in Nat /\ Slot < WORD
  <2>1. /\ Slot * (Index(f, b) + 1) \in Nat
        /\ Slot * (Index(f, b) + 1) + 2 * Slot <= WORD
    BY <1>0, SlotsFit, Zenon
  <2> QED
    BY <2>1, WordAssumption DEF Slot
<1>5. ASSUME Slot % k.size = 0 PROVE k.size <= Slot
  <2> SUFFICES ASSUME Slot < k.size PROVE FALSE
    BY <1>2, <1>4
  <2>1. Slot % k.size = Slot
    BY <1>2, <1>4, ModSmall, Zenon
  <2> QED
    BY <1>4, <1>5, <2>1
<1>6. /\ k.size <= WORD
      /\ ~Wide(f, b) => Slot % k.size = 0 /\ k.size <= Slot /\ k.size < WORD
  <2>1. ASSUME k.size <= Slot PROVE k.size < WORD /\ k.size <= WORD
    BY <1>2, <1>4, <2>1
  <2> QED
    BY <1>3, <1>5, <2>1, Zenon
<1> QED
  BY <1>1, <1>6, Zenon

\* Where a memory BAR is, as the client set it.
LEMMA WordPlace ==
  ASSUME BarInv, NEW f \in Present, NEW b \in Bar, cfg[f].bars[b].kind = "memory"
  PROVE  /\ AlignDown(Word(f, b), 16) \in Nat
         /\ AlignDown(Word(f, b), 16) + cfg[f].bars[b].size <= WORD
         /\ ~Wide(f, b) => AlignDown(Word(f, b), 16) = LowWord(f, b)
<1>0. cfg \in Buses /\ f \in Function /\ cfg[f] # Absent
  BY Zenon DEF BarInv, Present
<1>1. PICK k : k = cfg[f].bars[b]
  BY Zenon
<1>2. /\ MemoryBar(k) /\ k.size <= WORD
      /\ ~Wide(f, b) => Slot % k.size = 0 /\ k.size <= Slot /\ k.size < WORD
  BY <1>1, LayoutFacts, SizeFits, Zenon
<1>3. k.size \in Nat /\ k.size > 0 /\ k.size % 16 = 0 /\ (k.size < WORD => WORD % k.size = 0)
  BY <1>2, Zenon DEF MemoryBar
<1>4. Flags(k) \in Nat /\ Flags(k) < 16
  BY <1>2 DEF Flags, MemoryBar
<1>5. /\ Slot * (Index(f, b) + 1) \in Nat /\ Slot * (Index(f, b) + 1) < WORD
      /\ Index(f, b) + 1 \in Nat /\ WORD \in Nat /\ WORD > 0 /\ Slot \in Nat /\ Slot < WORD
  <2>1. /\ Slot * (Index(f, b) + 1) \in Nat
        /\ Slot * (Index(f, b) + 1) + 2 * Slot <= WORD
    BY <1>0, SlotsFit, Zenon
  <2>2. Index(f, b) \in Nat
    BY <1>0, IndexRange, Zenon
  <2>3. Slot = 128
    BY Zenon DEF Slot
  <2> QED
    BY <2>1, <2>2, <2>3, WordAssumption, SMTT(30)
<1>6. PICK v : v = Address(f, b)
  BY Zenon
<1>7. v \in Nat /\ v < WORD
  <2>1. v \in {Slot, Slot * (Index(f, b) + 1), 0}
    BY <1>1, <1>6, ClientWords, Zenon DEF LowWord
  <2> QED
    BY <1>5, <2>1
<1>8. Word(f, b) = Latch(k, v)
  BY <1>1, <1>6, Zenon DEF Word
<1>9. CASE k.size >= WORD
  <2>1. Latch(k, v) = Flags(k)
    BY <1>2, <1>9, Zenon DEF Latch, MemoryBar
  <2>2. AlignDown(Flags(k), 16) = 0
    BY <1>4 DEF AlignDown
  <2>3. Wide(f, b) /\ 0 \in Nat /\ 0 + k.size <= WORD
    BY <1>2, <1>3, <1>5, <1>9
  <2> QED
    BY <1>1, <1>8, <2>1, <2>2, <2>3, Zenon
<1>10. CASE k.size < WORD
  <2>0. ~(k.size >= WORD)
    BY <1>3, <1>5, <1>10
  <2>1. Latch(k, v) = AlignDown(v, k.size) + Flags(k)
    BY <1>2, <2>0, Zenon DEF Latch, MemoryBar
  <2>2. AlignDown(v, k.size) \in Nat /\ AlignDown(v, k.size) + k.size <= WORD
    BY <1>3, <1>5, <1>7, <1>10, AlignBelow, Zenon
  <2>3. AlignDown(v, k.size) % 16 = 0
    <3>1. PICK q \in Nat : AlignDown(v, k.size) = k.size * q
      BY <1>3, <1>7, AlignIsMultiple, Zenon
    <3>2. PICK p \in Nat : k.size = 16 * p
      BY <1>3
    <3>3. k.size * q = 16 * (p * q) /\ p * q \in Nat
      BY <3>2
    <3> QED
      BY <3>1, <3>3
  <2>4. AlignDown(Word(f, b), 16) = AlignDown(v, k.size)
    BY <1>4, <1>8, <2>1, <2>2, <2>3, AlignFlags, Zenon
  <2>5. ASSUME ~Wide(f, b) PROVE AlignDown(v, k.size) = LowWord(f, b)
    <3>1. v = LowWord(f, b) /\ Slot % k.size = 0
      BY <1>1, <1>2, <1>6, <2>5, ClientWords, Zenon
    <3>2. AlignDown(Slot * (Index(f, b) + 1), k.size) = Slot * (Index(f, b) + 1)
      <4>1. PICK n, q : n = k.size /\ q = Index(f, b) + 1
        BY Zenon
      <4>2. n \in Nat /\ n > 0 /\ Slot \in Nat /\ Slot % n = 0 /\ q \in Nat
        BY <1>3, <1>5, <3>1, <4>1, Zenon
      <4>3. AlignDown(Slot * q, n) = Slot * q
        BY <4>2, AlignKeeps, Zenon
      <4> QED
        BY <4>1, <4>3, Zenon
    <3>3. AlignDown(0, k.size) = 0
      BY <1>3, ModSmall DEF AlignDown
    <3> QED
      BY <3>1, <3>2, <3>3, Zenon DEF LowWord
  <2> QED
    BY <1>1, <2>2, <2>4, <2>5, Zenon
<1>11. k.size >= WORD \/ k.size < WORD
  BY <1>3, <1>5
<1> QED
  BY <1>9, <1>10, <1>11, Zenon

\* Where a memory BAR answers, also while it is measured.
LEMMA BasePlace ==
  ASSUME RegionInv, pc # "panicked", NEW f \in command, NEW b \in Bar,
         cfg[f].bars[b].kind = "memory"
  PROVE  \E low \in Nat : /\ Base(f, b) = low + WORD * Top(f, b)
                          /\ low + cfg[f].bars[b].size <= WORD
                          /\ ~Wide(f, b) => low \in {LowWord(f, b), WORD - cfg[f].bars[b].size}
<1>0. f \in Present /\ f \in Function /\ BarInv /\ BarsKept
  BY Zenon DEF RegionInv, BarInv, Present
<1>1. PICK k : k = cfg[f].bars[b]
  BY Zenon
<1>2. MemoryBar(k) /\ k.size <= WORD /\ (~Wide(f, b) => k.size < WORD)
  BY <1>0, <1>1, LayoutFacts, SizeFits, Zenon
<1>3. k.size \in Nat /\ WORD \in Nat
  BY <1>2, WordAssumption, Zenon DEF MemoryBar
<1>4. PICK low : low = AlignDown(bar[f][b], 16)
  BY Zenon
<1>5. /\ low \in Nat /\ low + k.size <= WORD
      /\ ~Wide(f, b) => low \in {LowWord(f, b), WORD - k.size}
  <2>1. CASE bar[f][b] = Word(f, b)
    BY <1>0, <1>1, <1>4, <2>1, WordPlace, Zenon
  <2>2. CASE pc = "measured" /\ f = cur /\ b = Info.bar
    <3>1. low = IF k.size < WORD THEN WORD - k.size ELSE 0
      BY <1>1, <1>2, <1>4, <2>2, MeasuredWord, Zenon DEF RegionInv, CallInv
    <3> QED
      BY <1>2, <1>3, <3>1
  <2> QED
    BY <1>0, <2>1, <2>2, Zenon DEF BarsKept, Word
<1>6. Top(f, b) \in Nat
  <2>1. CASE Wide(f, b)
    <3>1. b + 1 \in Bar
      BY <2>1 DEF Wide, Bar
    <3> QED
      BY <1>0, <2>1, <3>1, IndexRange, Zenon DEF Top
  <2>2. CASE ~Wide(f, b)
    BY <2>2 DEF Top
  <2> QED
    BY <2>1, <2>2, Zenon
<1>7. Base(f, b) = low + WORD * Top(f, b)
  <2>1. CASE k.type = 2 /\ b < 5
    <3>1. b + 1 \in Bar /\ b + 1 # b
      BY <2>1 DEF Bar
    <3>2. cfg[f].bars[b + 1].kind = "upper"
      BY <1>0, <1>1, <2>1, AddressesAssumption, Zenon DEF BarInv, Present
    <3>3. ~(pc = "measured" /\ f = cur /\ b + 1 = Info.bar)
      <4> SUFFICES ASSUME pc = "measured", f = cur PROVE cfg[f].bars[Info.bar].kind # "upper"
        BY <3>2, Zenon
      <4>1. cap[kind] \in DOMAIN cfg[cur].caps
        BY Zenon DEF RegionInv, CallInv, InNew, Offsets
      <4> QED
        BY <1>0, <4>1, CapabilitiesAssumption, Zenon DEF BarInv, Present, Info
    <3>4. bar[f][b + 1] = Word(f, b + 1)
      BY <1>0, <3>1, <3>3, Zenon DEF BarsKept, Word
    <3>5. Word(f, b + 1) = Top(f, b)
      BY <1>0, <1>1, <2>1, ClientWords, Zenon
    <3>6. Base(f, b) = low + Top(f, b) * WORD
      BY <1>1, <1>4, <2>1, <3>4, <3>5, Zenon DEF Base
    <3>7. Top(f, b) * WORD = WORD * Top(f, b)
      BY <1>3, <1>6
    <3> QED
      BY <3>6, <3>7, Zenon
  <2>2. CASE ~(k.type = 2 /\ b < 5)
    <3>1. Top(f, b) = 0 /\ Base(f, b) = low + 0
      BY <1>1, <1>4, <2>2, Zenon DEF Top, Wide, Base
    <3> QED
      BY <1>3, <3>1
  <2> QED
    BY <2>1, <2>2, Zenon
<1> QED
  BY <1>1, <1>5, <1>7, Zenon

\* The same address is x into one BAR and y into another.
Meet(f, b, x, g, c, y) ==
  /\ x \in Nat /\ x < cfg[f].bars[b].size
  /\ y \in Nat /\ y < cfg[g].bars[c].size
  /\ Base(f, b) + x = Base(g, c) + y

\* A BAR that was given an address shares it with no other.
LEMMA NoOtherAnswers ==
  ASSUME RegionInv, pc # "panicked",
         NEW f \in command, NEW b \in Bar, cfg[f].bars[b].kind = "memory",
         bar[f][b] = Word(f, b), cfg[f].allocated,
         NEW g \in command, NEW c \in Bar, cfg[g].bars[c].kind = "memory",
         NEW x, NEW y, Meet(f, b, x, g, c, y)
  PROVE  f = g /\ b = c
<1>0. f \in Present /\ g \in Present /\ f \in Function /\ g \in Function /\ BarInv
  BY Zenon DEF RegionInv, BarInv, Present
<1> /\ x \in Nat /\ x < cfg[f].bars[b].size /\ y \in Nat /\ y < cfg[g].bars[c].size
    /\ Base(f, b) + x = Base(g, c) + y
  BY Zenon DEF Meet
<1>1. PICK m, n : m = cfg[f].bars[b].size /\ n = cfg[g].bars[c].size
  BY Zenon
<1>2. m \in Nat /\ n \in Nat /\ WORD \in Nat /\ WORD > 0 /\ x < m /\ y < n
  <2>1. m \in Nat /\ n \in Nat
    BY <1>0, <1>1, LayoutFacts, Zenon DEF MemoryBar
  <2>2. WORD \in Nat /\ WORD > 0
    BY WordAssumption
  <2> QED
    BY <1>1, <2>1, <2>2, Zenon
<1>3. PICK i \in Nat : Base(f, b) = i + WORD * Top(f, b) /\ i + m <= WORD
  BY <1>1, BasePlace, Zenon
<1>4. PICK j \in Nat : /\ Base(g, c) = j + WORD * Top(g, c) /\ j + n <= WORD
                       /\ ~Wide(g, c) => j \in {LowWord(g, c), WORD - n}
  BY <1>1, BasePlace, Zenon
<1>5. ASSUME NEW h \in Function, NEW d \in Bar
      PROVE  Top(h, d) \in Nat /\ (Wide(h, d) <=> Top(h, d) # 0)
  <2>1. CASE Wide(h, d)
    <3>1. d + 1 \in Bar /\ d + 1 # 0
      BY <2>1 DEF Wide, Bar
    <3>2. Index(h, d + 1) \in Nat
      BY <3>1, IndexRange, Zenon
    <3>3. MAX_FUNCTIONS * h[1] + h[2] \in Nat
      BY BusAssumption DEF Function
    <3>4. Index(h, d + 1) # 0
      BY <3>1, <3>3 DEF Index, Bar
    <3> QED
      BY <2>1, <3>2, <3>4, Zenon DEF Top
  <2>2. CASE ~Wide(h, d)
    BY <2>2 DEF Top
  <2> QED
    BY <2>1, <2>2, Zenon
<1>6. Top(f, b) \in Nat /\ Top(g, c) \in Nat
  BY <1>0, <1>5, Zenon
<1>7. Top(f, b) = Top(g, c) /\ i + x = j + y
  <2>1. WORD * Top(f, b) \in Nat /\ WORD * Top(g, c) \in Nat
    BY <1>2, <1>6
  <2>2. WORD * Top(f, b) + (i + x) = WORD * Top(g, c) + (j + y)
    BY <1>3, <1>4, <2>1
  <2>3. i + x \in Nat /\ i + x < WORD /\ j + y \in Nat /\ j + y < WORD
    BY <1>2, <1>3, <1>4
  <2>4. /\ (WORD * Top(f, b) + (i + x)) \div WORD = Top(f, b)
        /\ (WORD * Top(f, b) + (i + x)) % WORD = i + x
    BY <1>2, <1>6, <2>3, Quotient, Zenon
  <2>5. /\ (WORD * Top(g, c) + (j + y)) \div WORD = Top(g, c)
        /\ (WORD * Top(g, c) + (j + y)) % WORD = j + y
    BY <1>2, <1>6, <2>3, Quotient, Zenon
  <2> QED
    BY <2>2, <2>4, <2>5, Zenon
<1>8. CASE Wide(f, b)
  <2>1. Wide(g, c)
    BY <1>0, <1>5, <1>7, <1>8, Zenon
  <2>2. Index(f, b + 1) = Index(g, c + 1)
    BY <1>7, <1>8, <2>1, Zenon DEF Top
  <2>3. b + 1 \in Bar /\ c + 1 \in Bar
    <3>1. b < 5 /\ c < 5
      BY <1>8, <2>1, Zenon DEF Wide
    <3> QED
      BY <3>1 DEF Bar
  <2>4. f = g /\ b + 1 = c + 1
    BY <1>0, <2>2, <2>3, IndexInjective, SMTT(30)
  <2>5. b = c
    <3>1. b \in Int /\ c \in Int
      BY DEF Bar
    <3> QED
      BY <2>4, <3>1
  <2> QED
    BY <2>4, <2>5, Zenon
<1>9. CASE ~Wide(f, b)
  <2>1. ~Wide(g, c)
    BY <1>0, <1>5, <1>7, <1>9, Zenon
  <2>2. Top(f, b) = 0
    BY <1>9, Zenon DEF Top
  <2>3. i = Slot * (Index(f, b) + 1)
    <3>1. AlignDown(Word(f, b), 16) = Slot * (Index(f, b) + 1)
      BY <1>0, <1>9, WordPlace, Zenon DEF LowWord
    <3>2. Base(f, b) = AlignDown(Word(f, b), 16) + WORD * Top(f, b)
      <4>1. CASE cfg[f].bars[b].type = 2 /\ b < 5
        <5>1. ~cfg[f].allocated
          BY <1>9, <4>1, Zenon DEF Wide
        <5> QED
          BY <5>1, Zenon
      <4>2. CASE ~(cfg[f].bars[b].type = 2 /\ b < 5)
        <5>1. Base(f, b) = AlignDown(Word(f, b), 16) + 0
          BY <4>2, Zenon DEF Base
        <5>2. WORD * 0 = 0
          BY <1>2
        <5> QED
          BY <2>2, <5>1, <5>2, Zenon
      <4> QED
        BY <4>1, <4>2, Zenon
    <3>3. Slot * (Index(f, b) + 1) \in Nat
      BY <1>0, SlotsFit, Zenon
    <3>4. WORD * Top(f, b) \in Nat
      BY <1>2, <1>6
    <3> QED
      BY <1>3, <3>1, <3>2, <3>3, <3>4
  <2>4. m <= Slot /\ n <= Slot /\ Slot \in Nat /\ Slot > 0
    <3>1. m <= Slot /\ n <= Slot
      BY <1>0, <1>1, <1>9, <2>1, SizeFits, Zenon
    <3> QED
      BY <3>1 DEF Slot
  <2>5. /\ Slot * (Index(f, b) + 1) \in Nat /\ Slot * (Index(f, b) + 1) + 2 * Slot <= WORD
        /\ Index(f, b) \in Nat /\ Index(g, c) \in Nat
    BY <1>0, SlotsFit, IndexRange, Zenon
  <2>6. Slot * (Index(f, b) + 1) >= Slot
    BY <2>5 DEF Slot
  <2>7. i + x = j + y /\ i + 2 * Slot <= WORD /\ i >= Slot
    BY <1>7, <2>3, <2>5, <2>6, Zenon
  <2>8. j # WORD - n /\ j # 0
    BY <1>2, <2>4, <2>7 DEF Slot
  <2>9. j = Slot * (Index(g, c) + 1)
    BY <1>4, <2>1, <2>8, Zenon DEF LowWord
  <2>10. Index(f, b) + 1 = Index(g, c) + 1
    <3>1. Slot * (Index(f, b) + 1) + x = Slot * (Index(g, c) + 1) + y
      BY <1>7, <2>3, <2>9, Zenon
    <3>2. x < Slot /\ y < Slot /\ Index(f, b) + 1 \in Nat /\ Index(g, c) + 1 \in Nat
      BY <1>2, <2>4, <2>5
    <3>3. (Slot * (Index(f, b) + 1) + x) \div Slot = Index(f, b) + 1
      BY <2>4, <3>2, Quotient, Zenon
    <3>4. (Slot * (Index(g, c) + 1) + y) \div Slot = Index(g, c) + 1
      BY <2>4, <3>2, Quotient, Zenon
    <3> QED
      BY <3>1, <3>3, <3>4, Zenon
  <2>11. Index(f, b) = Index(g, c)
    BY <2>5, <2>10
  <2> QED
    BY <1>0, <2>11, IndexInjective, SMT
<1> QED
  BY <1>8, <1>9, Zenon

\* The sums of get_bar_region fit in a word.
SumsFit ==
  \A f \in Present : \A o \in DOMAIN cfg[f].caps :
    cfg[f].caps[o].offset + cfg[f].caps[o].length < WORD

\* A BAR that bar_info finds an address in was given it by the client.
LEMMA Allocated ==
  ASSUME BarInv, NEW f \in Present, NEW b \in Bar, cfg[f].bars[b].kind = "memory",
         WordBase(f, b) # 0
  PROVE  cfg[f].allocated
<1> SUFFICES ASSUME ~cfg[f].allocated PROVE FALSE
  BY Zenon
<1>1. ~Wide(f, b) /\ LowWord(f, b) = 0 /\ Top(f, b) = 0
  BY Zenon DEF Wide, LowWord, Top
<1>2. AlignDown(Word(f, b), 16) = 0
  BY <1>1, WordPlace, Zenon
<1>3. cfg[f].bars[b].type = 2 /\ b < 5 => Word(f, b + 1) = 0
  BY <1>1, ClientWords, Zenon
<1>4. WordBase(f, b) \in {0 + 0, 0 + 0 * WORD}
  BY <1>2, <1>3, Zenon DEF WordBase
<1> QED
  BY <1>4, WordAssumption

\* A memory BAR answers somewhere.
LEMMA BaseNat ==
  ASSUME RegionInv, pc # "panicked", NEW f \in command, NEW b \in Bar,
         cfg[f].bars[b].kind = "memory"
  PROVE  Base(f, b) \in Nat /\ cfg[f].bars[b].size \in Nat
<1>0. f \in Function /\ f \in Present /\ BarInv
  BY Zenon DEF RegionInv, BarInv, Present
<1>1. PICK low \in Nat : Base(f, b) = low + WORD * Top(f, b)
  BY BasePlace, Zenon
<1>2. Top(f, b) \in Nat
  <2>1. CASE Wide(f, b)
    <3>1. b + 1 \in Bar
      BY <2>1 DEF Wide, Bar
    <3> QED
      BY <1>0, <2>1, <3>1, IndexRange, Zenon DEF Top
  <2>2. CASE ~Wide(f, b)
    BY <2>2 DEF Top
  <2> QED
    BY <2>1, <2>2, Zenon
<1>3. cfg[f].bars[b].size \in Nat
  BY <1>0, LayoutFacts, Zenon DEF MemoryBar
<1> QED
  BY <1>1, <1>2, <1>3, WordAssumption

\* What is known of a region of a transport.
RegionOf(f, k, r) ==
  /\ f \in command /\ r.bar \in Bar /\ cfg[f].bars[r.bar].kind = "memory"
  /\ cfg[f].allocated /\ bar[f][r.bar] = Word(f, r.bar)
  /\ r.offset \in Nat /\ r.length \in Nat /\ r.multiplier \in Nat
  /\ r.offset + r.length <= cfg[f].bars[r.bar].size
  /\ r.address = Base(f, r.bar) + r.offset /\ r.address \in Nat
  /\ SizeOf[k] <= r.length /\ (k = 2 => r.multiplier % 2 = 0)

\* It is so in every transport.
LEMMA RegionFacts ==
  ASSUME RegionInv, SumsFit, pc # "panicked", NEW f \in Function, transport[f] # <<>>,
         NEW k \in DOMAIN transport[f], NEW r, r = transport[f][k]
  PROVE  RegionOf(f, k, r)
<1>0. BarInv /\ f \in command /\ f \in Present /\ cfg \in Buses /\ cfg[f] # Absent
  BY Zenon DEF RegionInv, TransportInv, BarInv, Present
<1>1. InBar(f, k, r) /\ \A c \in Bar : bar[f][c] = Word(f, c)
  BY Zenon DEF RegionInv, TransportInv
<1>2. PICK b : b = r.bar
  BY Zenon
<1>3. b \in Bar /\ MemoryBar(cfg[f].bars[b]) /\ WordBase(f, b) # 0
  BY <1>1, <1>2, Zenon DEF InBar
<1>4. cfg[f].bars[b].kind = "memory"
  BY <1>3, Zenon DEF MemoryBar
<1>5. /\ r.offset \in Nat /\ r.length \in Nat /\ r.multiplier \in Nat
      /\ r.offset + r.length < WORD
  <2>1. PICK o \in DOMAIN cfg[f].caps : Describes(cfg[f].caps[o], r)
    BY <1>1, Zenon DEF InBar
  <2>2. {cfg[f].caps[o].offset, cfg[f].caps[o].length, cfg[f].caps[o].multiplier} \subseteq Nat
    BY <1>0, CapabilitiesAssumption, Zenon
  <2>3. cfg[f].caps[o].offset + cfg[f].caps[o].length < WORD
    BY <1>0, Zenon DEF SumsFit
  <2>4. /\ cfg[f].caps[o].offset \in Nat /\ cfg[f].caps[o].length \in Nat
        /\ cfg[f].caps[o].multiplier \in Nat
    BY <2>2, Zenon
  <2> QED
    BY <2>1, <2>3, <2>4, Zenon DEF Describes
<1>6. /\ r.offset + r.length <= cfg[f].bars[b].size /\ r.address = Base(f, b) + r.offset
      /\ SizeOf[k] <= r.length /\ (k = 2 => r.multiplier % 2 = 0)
  <2>1. b < 5 => b + 1 \in Bar
    BY <1>3 DEF Bar
  <2>2. Base(f, b) = WordBase(f, b)
    BY <1>1, <1>3, <2>1, Zenon DEF Base, WordBase
  <2> QED
    BY <1>1, <1>2, <1>5, <2>2, Zenon DEF InBar
<1>7. cfg[f].allocated
  BY <1>0, <1>3, <1>4, Allocated, Zenon
<1>8. r.address \in Nat
  <2>1. Base(f, b) \in Nat
    BY <1>0, <1>3, <1>4, BaseNat, Zenon
  <2> QED
    BY <1>5, <1>6, <2>1
<1> QED
  BY <1>0, <1>1, <1>2, <1>3, <1>4, <1>5, <1>6, <1>7, <1>8, Zenon DEF RegionOf

\* To an address in a region of a transport only its function answers, and in the
\* structure that the region was made for.
LEMMA OwnAnswer ==
  ASSUME RegionInv, SumsFit, pc # "panicked", NEW f \in Function, transport[f] # <<>>,
         NEW k \in DOMAIN transport[f], NEW r, r = transport[f][k],
         NEW x \in Nat, x < r.length
  PROVE  Decodes(r.address + x) = {<<f, r.bar, r.offset + x>>}
<1>1. PICK b : b = r.bar
  BY Zenon
<1>2. /\ f \in command /\ b \in Bar /\ cfg[f].bars[b].kind = "memory"
      /\ cfg[f].allocated /\ bar[f][b] = Word(f, b)
      /\ r.offset \in Nat /\ r.length \in Nat
      /\ r.offset + r.length <= cfg[f].bars[b].size /\ r.address = Base(f, b) + r.offset
  <2>1. RegionOf(f, k, r)
    BY RegionFacts, Zenon
  <2> QED
    BY <1>1, <2>1, Zenon DEF RegionOf
<1>3. \A g \in command, c \in Bar : cfg[g].bars[c].kind = "memory" =>
        Base(g, c) \in Nat /\ cfg[g].bars[c].size \in Nat
  BY BaseNat, Zenon
<1>4. PICK a : a = r.address + x
  BY Zenon
<1>5. /\ a \in Nat /\ a = Base(f, b) + (r.offset + x) /\ a - Base(f, b) = r.offset + x
       /\ r.offset + x \in Nat /\ r.offset + x < cfg[f].bars[b].size
       /\ Base(f, b) <= a /\ a < Base(f, b) + cfg[f].bars[b].size
  <2>1. Base(f, b) \in Nat /\ cfg[f].bars[b].size \in Nat
    BY <1>2, <1>3, Zenon
  <2>2. PICK u, n, m, z : u = r.offset /\ n = r.length /\ m = Base(f, b) /\ z = cfg[f].bars[b].size
    BY Zenon
  <2>3. /\ u \in Nat /\ n \in Nat /\ m \in Nat /\ z \in Nat /\ x < n /\ u + n <= z
        /\ a = (m + u) + x
    BY <1>2, <1>4, <2>1, <2>2, Zenon
  <2>4. /\ a \in Nat /\ a = m + (u + x) /\ a - m = u + x
        /\ u + x \in Nat /\ u + x < z /\ m <= a /\ a < m + z
    BY <2>3, SMTT(30)
  <2> QED
    BY <2>2, <2>4, Zenon
<1>6. ASSUME NEW g \in command, NEW c \in Bar, cfg[g].bars[c].kind = "memory",
              Base(g, c) <= a, a < Base(g, c) + cfg[g].bars[c].size
       PROVE  g = f /\ c = b
  <2>1. PICK y : y = a - Base(g, c)
    BY Zenon
  <2>2. y \in Nat /\ y < cfg[g].bars[c].size /\ a = Base(g, c) + y
    <3>1. PICK m, z : m = Base(g, c) /\ z = cfg[g].bars[c].size
      BY Zenon
    <3>2. m \in Nat /\ z \in Nat /\ a \in Nat /\ m <= a /\ a < m + z /\ y = a - m
      BY <1>3, <1>5, <1>6, <2>1, <3>1, Zenon
    <3>3. y \in Nat /\ y < z /\ a = m + y
      BY <3>2
    <3> QED
      BY <3>1, <3>3, Zenon
  <2>3. Base(f, b) + (r.offset + x) = Base(g, c) + y
    BY <1>5, <2>2, Zenon
  <2>5. PICK z : z = r.offset + x
    BY Zenon
  <2>6. Meet(f, b, z, g, c, y)
    BY <1>5, <2>2, <2>3, <2>5, Zenon DEF Meet
  <2> QED
    BY <1>2, <1>6, <2>6, NoOtherAnswers, Zenon
<1> DEFINE Hit(fb) == /\ cfg[fb[1]].bars[fb[2]].kind = "memory"
                      /\ Base(fb[1], fb[2]) <= a
                      /\ a < Base(fb[1], fb[2]) + cfg[fb[1]].bars[fb[2]].size
<1>7. {h \in command \X Bar : Hit(h)} = {<<f, b>>}
  <2>1. <<f, b>> \in command \X Bar /\ Hit(<<f, b>>)
    BY <1>2, <1>5
  <2>2. ASSUME NEW h \in command \X Bar, Hit(h) PROVE h = <<f, b>>
    <3>1. PICK g \in command, c \in Bar : h = <<g, c>>
      BY SMTT(30)
    <3>2. /\ cfg[g].bars[c].kind = "memory" /\ Base(g, c) <= a
          /\ a < Base(g, c) + cfg[g].bars[c].size
      BY <2>2, <3>1
    <3> QED
      BY <1>6, <3>1, <3>2, Zenon
  <2> HIDE DEF Hit
  <2> QED
    BY <2>1, <2>2, Zenon
<1>8. Decodes(a) = {<<h[1], h[2], a - Base(h[1], h[2])>> : h \in {<<f, b>>}}
  BY <1>7, Zenon DEF Decodes
<1>9. Decodes(a) = {<<f, b, r.offset + x>>}
  <2>1. Decodes(a) = {<<f, b, a - Base(f, b)>>}
    <3> HIDE DEF Hit
    <3> QED
      BY <1>8
  <2> QED
    BY <1>5, <2>1, Zenon
<1> QED
  BY <1>1, <1>4, <1>9, Zenon

\* The function that answers alone where common_cfg is says where its doorbell is.
LEMMA OneAnswer ==
  ASSUME NEW f, NEW q, NEW d, Decodes(transport[f][1].address) = {d}
  PROVE  NotifyOffs(f, q) = {cfg[d[1]].notify_off[q]}
<1>1. PICK ds : ds = Decodes(transport[f][1].address)
  BY Zenon
<1>2. NotifyOffs(f, q) = IF ds = {} THEN {65535} ELSE {cfg[e[1]].notify_off[q] : e \in ds}
  BY <1>1 DEF NotifyOffs
<1>3. ds = {d} /\ ds # {}
  BY <1>1
<1>4. NotifyOffs(f, q) = {cfg[e[1]].notify_off[q] : e \in ds}
  BY <1>2, <1>3
<1> QED
  BY <1>3, <1>4

\* A notification and an acknowledgement reach the device of their transport and no
\* other, at the register they are meant for, whatever is being measured meanwhile,
\* on every bus, as long as offset + length does not overflow.
THEOREM AlwaysReachesOwnDevice == Spec /\ []SumsFit => ReachesOwnDevice
<1>1. ASSUME RegionInv, SumsFit, NEW f \in Function, ack_interrupt(f)
      PROVE  isr' = isr \ {f}
  <2>1. /\ transport[f] # <<>> /\ pc # "panicked"
        /\ isr' = isr \ {d[1] : d \in Decodes(transport[f][3].address)}
    BY <1>1, Zenon DEF ack_interrupt
  <2>2. 3 \in DOMAIN transport[f]
    BY <1>1, <2>1, Zenon DEF RegionInv, TransportInv
  <2>3. PICK r : r = transport[f][3]
    BY Zenon
  <2>4. r.length \in Nat /\ SizeOf[3] <= r.length /\ r.address \in Nat /\ r.offset \in Nat
    <3>1. RegionOf(f, 3, r)
      BY <1>1, <2>1, <2>2, <2>3, RegionFacts, Zenon
    <3> QED
      BY <3>1, Zenon DEF RegionOf
  <2>5. 0 < r.length /\ 0 \in Nat /\ r.address + 0 = r.address
    BY <2>4 DEF SizeOf
  <2>6. Decodes(r.address + 0) = {<<f, r.bar, r.offset + 0>>}
    BY <1>1, <2>1, <2>2, <2>3, <2>5, OwnAnswer, SMTT(30)
  <2>7. Decodes(transport[f][3].address) = {<<f, r.bar, r.offset + 0>>}
    BY <2>3, <2>5, <2>6, Zenon
  <2>8. {d[1] : d \in {<<f, r.bar, r.offset + 0>>}} = {f}
    OBVIOUS
  <2> QED
    BY <2>1, <2>7, <2>8, Zenon
<1>2. ASSUME RegionInv, SumsFit, NEW f \in Function, NEW q \in Queue,
             notify(f, q), pc' # "panicked", NEW r, r = transport[f][2]
      PROVE  rung' = {<<f, r.bar, r.offset + cfg[f].notify_off[q] * r.multiplier>>}
  <2>1. PICK i : i = (cfg[f].notify_off[q] * r.multiplier) \div 2
    BY Zenon
  <2>10. NotifyOffs(f, q) = {cfg[f].notify_off[q]}
    <3>1. transport[f] # <<>> /\ pc # "panicked"
      BY <1>2, Zenon DEF notify
    <3>2. 1 \in DOMAIN transport[f]
      BY <1>2, <3>1, Zenon DEF RegionInv, TransportInv
    <3>3. PICK s : s = transport[f][1]
      BY Zenon
    <3>4. s.length \in Nat /\ SizeOf[1] <= s.length /\ s.address \in Nat
      <4>1. RegionOf(f, 1, s)
        BY <1>2, <3>1, <3>2, <3>3, RegionFacts, Zenon
      <4> QED
        BY <4>1, Zenon DEF RegionOf
    <3>5. 0 < s.length /\ 0 \in Nat /\ s.address + 0 = s.address
      BY <3>4 DEF SizeOf
    <3>6. Decodes(s.address + 0) = {<<f, s.bar, s.offset + 0>>}
      BY <1>2, <3>1, <3>2, <3>3, <3>5, OwnAnswer, SMTT(30)
    <3>7. PICK d : d = <<f, s.bar, s.offset + 0>>
      BY Zenon
    <3>8. Decodes(transport[f][1].address) = {d}
      BY <3>3, <3>5, <3>6, <3>7, Zenon
    <3>10. d[1] = f
      BY <3>7
    <3>13. NotifyOffs(f, q) = {cfg[d[1]].notify_off[q]}
      BY <3>8, OneAnswer, Zenon
    <3> QED
      BY <3>10, <3>13, Zenon
  <2>2. /\ transport[f] # <<>> /\ pc # "panicked"
        /\ i < r.length \div 2 /\ rung' = Decodes(r.address + 2 * i)
    BY <1>2, <2>1, <2>10, Zenon DEF notify, DoorbellIndex
  <2>3. 2 \in DOMAIN transport[f] /\ f \in Present /\ cfg \in Buses
    BY <1>2, <2>2, Zenon DEF RegionInv, TransportInv, BarInv
  <2>4. r.length \in Nat /\ r.multiplier \in Nat /\ r.multiplier % 2 = 0
    <3>1. RegionOf(f, 2, r)
      BY <1>2, <2>2, <2>3, RegionFacts, Zenon
    <3> QED
      BY <3>1, Zenon DEF RegionOf
  <2>5. cfg[f].notify_off[q] \in Nat
    BY <2>3, CapabilitiesAssumption, Zenon DEF Present
  <2>6. i \in Nat /\ 2 * i = cfg[f].notify_off[q] * r.multiplier
    <3>1. PICK h \in Nat : r.multiplier = 2 * h
      BY <2>4
    <3>2. PICK n \in Nat : n = cfg[f].notify_off[q] * h
      BY <2>5
    <3>3. cfg[f].notify_off[q] * r.multiplier = 2 * n
      BY <2>5, <3>1, <3>2
    <3>4. i = (2 * n) \div 2
      BY <2>1, <3>3, Zenon
    <3>5. i = n
      BY <3>4
    <3> QED
      BY <3>3, <3>5, Zenon
  <2>7. 2 * i \in Nat /\ 2 * i < r.length
    BY <2>2, <2>4, <2>6
  <2>8. PICK x : x = 2 * i
    BY Zenon
  <2>9. Decodes(r.address + x) = {<<f, r.bar, r.offset + x>>}
    BY <1>2, <2>2, <2>3, <2>7, <2>8, OwnAnswer, SMTT(30)
  <2> QED
    BY <2>2, <2>6, <2>8, <2>9, Zenon
<1>3. RegionInv /\ SumsFit /\ [Next]_vars =>
        [/\ \A f \in Function : ack_interrupt(f) => isr' = isr \ {f}
         /\ \A f \in Function, q \in Queue : notify(f, q) /\ pc' # "panicked" =>
              LET r == transport[f][2]
              IN rung' = {<<f, r.bar, r.offset + cfg[f].notify_off[q] * r.multiplier>>}]_vars
  BY <1>1, <1>2, Zenon
<1>4. Init => RegionInv
  BY InitRegions, Zenon
<1>5. RegionInv /\ [Next]_vars => RegionInv'
  BY NextRegions, Zenon
<1> QED
  BY <1>3, <1>4, <1>5, PTL DEF Spec, ReachesOwnDevice

-----------------------------------------------------------------------------
(* The capability list *)

\* Induction, from the theorem that a set of natural numbers has a least element.
LEMMA SetInduction ==
  ASSUME NEW T \in SUBSET Nat, 0 \in T, \A n \in T : n + 1 \in T
  PROVE  \A n \in Nat : n \in T
<1> SUFFICES ASSUME Nat \ T # {} PROVE FALSE
  BY Zenon
<1> DEFINE R == {ss \in Nat \X Nat : ss[1] < ss[2]}
           U == Nat \ T
<1>1. IsWellFoundedOn(R, Nat)
  BY NatLessThanWellFounded, Zenon DEF OpToRel
<1>2. \A x, y \in Nat : y < x => <<y, x>> \in R
  BY Zenon
<1> HIDE DEF R
<1>3. PICK x \in U : \A y \in U : ~(<<y, x>> \in R)
  BY <1>1, WFMin, Zenon
<1>4. x # 0 /\ x \in Nat /\ x - 1 \in Nat /\ x - 1 < x
  OBVIOUS
<1>5. x - 1 \in T
  BY <1>2, <1>3, <1>4, Zenon
<1>6. (x - 1) + 1 \in T
  BY <1>5, Zenon
<1> QED
  BY <1>4, <1>6

First(c) == IF c.list THEN AlignDown(c.first, 4) ELSE None
Follow(c, o) == IF o = None THEN None ELSE NextOffset(c.caps[o].next)
Hop(c, g, k) == IF k = 1 THEN First(c) ELSE Follow(c, g[k - 1])

\* The recursion that defines ListOf has a solution ...
LEMMA ListExists ==
  ASSUME NEW c, NEW n \in Nat
  PROVE  \E g : g = [k \in 1 .. n |-> Hop(c, g, k)]
<1> DEFINE T == {m \in Nat : \E g : g = [k \in 1 .. m |-> Hop(c, g, k)]}
<1>1. 0 \in T
  <2> DEFINE e == [k \in 1 .. 0 |-> None]
  <2>1. e = [k \in 1 .. 0 |-> Hop(c, e, k)]
    OBVIOUS
  <2> QED
    BY <2>1, Zenon
<1>2. ASSUME NEW m \in T PROVE m + 1 \in T
  <2>1. PICK g : g = [k \in 1 .. m |-> Hop(c, g, k)]
    BY Zenon
  <2> DEFINE h == [k \in 1 .. m + 1 |-> IF k <= m THEN g[k] ELSE Hop(c, g, k)]
  <2>2. m \in Nat
    BY Zenon
  <2>3. ASSUME NEW k \in 1 .. m + 1 PROVE h[k] = Hop(c, h, k)
    <3>1. h[k] = Hop(c, g, k)
      <4>1. CASE k <= m
        <5>1. k \in 1 .. m
          BY <2>2, <4>1
        <5>2. g[k] = Hop(c, g, k)
          BY <2>1, <5>1, Zenon
        <5> QED
          BY <4>1, <5>2, Zenon
      <4>2. CASE ~(k <= m)
        BY <4>2, Zenon
      <4> QED
        BY <4>1, <4>2, Zenon
    <3>2. k # 1 => h[k - 1] = g[k - 1]
      BY <2>2
    <3> HIDE DEF h
    <3> QED
      BY <3>1, <3>2, Zenon DEF Hop
  <2>4. h = [k \in 1 .. m + 1 |-> h[k]]
    BY Zenon
  <2> HIDE DEF h
  <2>5. h = [k \in 1 .. m + 1 |-> Hop(c, h, k)]
    BY <2>3, <2>4, Zenon
  <2> QED
    BY <2>2, <2>5
<1>3. T \in SUBSET Nat
  BY Zenon
<1> HIDE DEF T
<1>4. n \in T
  BY <1>1, <1>2, <1>3, SetInduction, Zenon
<1> QED
  BY <1>4, Zenon DEF T

\* ... so that ListOf is what its definition says.
LEMMA ListIs ==
  ASSUME NEW c, IsFiniteSet(DOMAIN c.caps), NEW N, N = Cardinality(DOMAIN c.caps) + 1
  PROVE  /\ N \in Nat /\ N >= 1 /\ DOMAIN ListOf(c) = 1 .. N
         /\ ListOf(c)[1] = First(c)
         /\ \A k \in 1 .. N : k + 1 \in 1 .. N => ListOf(c)[k + 1] = Follow(c, ListOf(c)[k])
<1>1. N \in Nat /\ N >= 1
  BY FS_CardinalityType
<1> DEFINE W(g) == [k \in 1 .. N |-> Hop(c, g, k)]
<1>2. ListOf(c) = CHOOSE g : g = W(g)
  BY Zenon DEF ListOf, Hop, First, Follow
<1>3. \E g : g = W(g)
  BY <1>1, ListExists, Zenon
<1>4. ListOf(c) = W(ListOf(c))
  <2> HIDE DEF W
  <2> QED
    BY <1>2, <1>3, Zenon
<1>5. DOMAIN ListOf(c) = 1 .. N /\ \A k \in 1 .. N : ListOf(c)[k] = Hop(c, ListOf(c), k)
  <2>1. PICK l : l = ListOf(c)
    BY Zenon
  <2>2. l = [k \in 1 .. N |-> Hop(c, l, k)]
    BY <1>4, <2>1, Zenon
  <2>3. DOMAIN l = 1 .. N /\ \A k \in 1 .. N : l[k] = Hop(c, l, k)
    BY <2>2, Zenon
  <2> QED
    BY <2>1, <2>3, Zenon
<1>6. ListOf(c)[1] = First(c)
  BY <1>1, <1>5 DEF Hop
<1>7. ASSUME NEW k \in 1 .. N, k + 1 \in 1 .. N
      PROVE  ListOf(c)[k + 1] = Follow(c, ListOf(c)[k])
  <2>1. k + 1 # 1 /\ (k + 1) - 1 = k
    BY <1>1
  <2> QED
    BY <1>5, <1>7, <2>1, Zenon DEF Hop
<1> QED
  BY <1>1, <1>5, <1>6, <1>7, Zenon

\* What is known of the capabilities of a function that answers.
Listed(c) ==
  /\ None \notin DOMAIN c.caps /\ IsFiniteSet(DOMAIN c.caps)
  /\ First(c) \in DOMAIN c.caps \cup {None}
  /\ \A o \in DOMAIN c.caps : NextOffset(c.caps[o].next) \in DOMAIN c.caps \cup {None}

ListLen(c) == Cardinality(DOMAIN c.caps) + 1

\* What a list of capabilities is.
LEMMA ListFacts ==
  ASSUME NEW c, Listed(c)
  PROVE  /\ ListLen(c) \in Nat /\ ListLen(c) >= 1 /\ DOMAIN ListOf(c) = 1 .. ListLen(c)
         /\ ListOf(c)[1] = First(c)
         /\ \A k \in 1 .. ListLen(c) : k + 1 \in 1 .. ListLen(c) =>
              ListOf(c)[k + 1] = Follow(c, ListOf(c)[k])
BY ListIs, Zenon DEF ListLen, Listed

\* The list has capabilities, and then nothing.
LEMMA ListType ==
  ASSUME NEW c, Listed(c), NEW k \in 1 .. ListLen(c)
  PROVE  ListOf(c)[k] \in DOMAIN c.caps \cup {None}
<1> DEFINE T == {m \in Nat : m + 1 \in 1 .. ListLen(c) => ListOf(c)[m + 1] \in DOMAIN c.caps \cup {None}}
<1>1. 0 \in T
  BY ListFacts DEF Listed
<1>2. ASSUME NEW m \in T PROVE m + 1 \in T
  <2> SUFFICES ASSUME (m + 1) + 1 \in 1 .. ListLen(c)
               PROVE  ListOf(c)[(m + 1) + 1] \in DOMAIN c.caps \cup {None}
    OBVIOUS
  <2>1. m + 1 \in 1 .. ListLen(c)
    BY ListFacts
  <2>2. ListOf(c)[m + 1] \in DOMAIN c.caps \cup {None}
    BY <2>1, Zenon
  <2>3. ListOf(c)[(m + 1) + 1] = Follow(c, ListOf(c)[m + 1])
    BY <2>1, ListFacts, Zenon
  <2>4. \A o \in DOMAIN c.caps \cup {None} : Follow(c, o) \in DOMAIN c.caps \cup {None}
    BY Zenon DEF Follow, Listed
  <2> QED
    BY <2>2, <2>3, <2>4, Zenon
<1>3. T \in SUBSET Nat
  BY Zenon
<1>4. k - 1 \in Nat /\ (k - 1) + 1 = k
  BY ListFacts
<1>5. k - 1 \in T
  <2> HIDE DEF T
  <2> QED
    BY <1>1, <1>2, <1>3, <1>4, SetInduction, Zenon
<1> QED
  BY <1>4, <1>5, Zenon

\* The last capability.
LEMMA NothingFollows ==
  ASSUME NEW c, Listed(c), NEW k \in 1 .. ListLen(c), ListOf(c)[k] = None, NEW n \in k .. ListLen(c)
  PROVE  ListOf(c)[n] = None
<1> DEFINE T == {m \in Nat : k + m \in 1 .. ListLen(c) => ListOf(c)[k + m] = None}
<1>1. 0 \in T
  OBVIOUS
<1>2. ASSUME NEW m \in T PROVE m + 1 \in T
  <2> SUFFICES ASSUME k + (m + 1) \in 1 .. ListLen(c) PROVE ListOf(c)[k + (m + 1)] = None
    OBVIOUS
  <2>1. k + m \in 1 .. ListLen(c) /\ k + (m + 1) = (k + m) + 1
    BY ListFacts
  <2>2. ListOf(c)[k + (m + 1)] = Follow(c, ListOf(c)[k + m])
    BY <2>1, ListFacts, Zenon
  <2> QED
    BY <2>1, <2>2, Zenon DEF Follow
<1>3. T \in SUBSET Nat
  BY Zenon
<1>4. n - k \in Nat /\ k + (n - k) = n /\ n \in 1 .. ListLen(c)
  BY ListFacts
<1>5. n - k \in T
  <2> HIDE DEF T
  <2> QED
    BY <1>1, <1>2, <1>3, <1>4, SetInduction, Zenon
<1> QED
  BY <1>4, <1>5, Zenon

\* What is twice in the list comes again and again.
LEMMA ListRepeats ==
  ASSUME NEW c, Listed(c), NEW i \in 1 .. ListLen(c), NEW j \in 1 .. ListLen(c), i < j,
         ListOf(c)[i] = ListOf(c)[j], NEW t \in Nat, j + t <= ListLen(c)
  PROVE  ListOf(c)[i + t] = ListOf(c)[j + t]
<1> DEFINE T == {m \in Nat : j + m <= ListLen(c) => ListOf(c)[i + m] = ListOf(c)[j + m]}
<1>1. 0 \in T
  OBVIOUS
<1>2. ASSUME NEW m \in T PROVE m + 1 \in T
  <2> SUFFICES ASSUME j + (m + 1) <= ListLen(c) PROVE ListOf(c)[i + (m + 1)] = ListOf(c)[j + (m + 1)]
    OBVIOUS
  <2>1. /\ i + m \in 1 .. ListLen(c) /\ (i + m) + 1 \in 1 .. ListLen(c)
        /\ j + m \in 1 .. ListLen(c) /\ (j + m) + 1 \in 1 .. ListLen(c)
        /\ i + (m + 1) = (i + m) + 1 /\ j + (m + 1) = (j + m) + 1 /\ j + m <= ListLen(c)
    BY ListFacts
  <2>2. ListOf(c)[i + m] = ListOf(c)[j + m]
    BY <2>1, Zenon
  <2>3. /\ ListOf(c)[(i + m) + 1] = Follow(c, ListOf(c)[i + m])
        /\ ListOf(c)[(j + m) + 1] = Follow(c, ListOf(c)[j + m])
    BY <2>1, ListFacts, Zenon
  <2> QED
    BY <2>1, <2>2, <2>3, Zenon
<1>3. T \in SUBSET Nat
  BY Zenon
<1>4. t \in T
  <2> HIDE DEF T
  <2> QED
    BY <1>1, <1>2, <1>3, SetInduction, Zenon
<1> QED
  BY <1>4, Zenon

\* A list that goes on after as many steps as there are capabilities has led back,
\* and never ends.
LEMMA ListLeadsBack ==
  ASSUME NEW c, Listed(c), ListOf(c)[ListLen(c)] # None, NEW k \in 1 .. ListLen(c)
  PROVE  \E n \in 1 .. ListLen(c) : Follow(c, ListOf(c)[k]) = ListOf(c)[n]
<1> DEFINE N == ListLen(c)
           D == DOMAIN c.caps
<1>1. N \in Nat /\ N >= 1
  BY ListFacts, Zenon
<1>2. CASE k + 1 <= N
  BY <1>1, <1>2, ListFacts
<1>3. CASE k = N
  <2>1. \A n \in 1 .. N : ListOf(c)[n] \in D
    <3> SUFFICES ASSUME NEW n \in 1 .. N PROVE ListOf(c)[n] # None
      BY ListType, Zenon
    <3>1. N \in n .. ListLen(c)
      BY <1>1
    <3> QED
      BY <3>1, NothingFollows, Zenon
  <2> DEFINE g == [n \in 1 .. N |-> ListOf(c)[n]]
  <2>2. g \in [1 .. N -> D]
    BY <2>1, Zenon
  <2>3. IsFiniteSet(D) /\ Cardinality(D) \in Nat /\ N = Cardinality(D) + 1
    BY FS_CardinalityType, Zenon DEF Listed, ListLen
  <2>4. IsFiniteSet(1 .. N) /\ Cardinality(1 .. N) = N
    BY <1>1, FS_Interval
  <2>5. Cardinality(D) < Cardinality(1 .. N)
    BY <2>3, <2>4
  <2> HIDE DEF N, D
  <2>6. \E x, y \in 1 .. N : x # y /\ g[x] = g[y]
    <3> HIDE DEF g
    <3> QED
      BY <2>2, <2>3, <2>4, <2>5, FS_PigeonHole
  <2>7. PICK i \in 1 .. N, j \in 1 .. N : i < j /\ ListOf(c)[i] = ListOf(c)[j]
    <3>1. PICK x \in 1 .. N, y \in 1 .. N : x # y /\ ListOf(c)[x] = ListOf(c)[y]
      BY <2>6, Zenon
    <3>2. x < y \/ y < x
      BY <1>1, <3>1
    <3> QED
      BY <3>1, <3>2, Zenon
  <2>8. N - j \in Nat /\ j + (N - j) = N /\ j + (N - j) <= N /\ i + (N - j) + 1 \in 1 .. N
        /\ i + (N - j) \in 1 .. N
    BY <1>1, <2>7
  <2>9. ListOf(c)[i + (N - j)] = ListOf(c)[N]
    <3>1. /\ i \in 1 .. ListLen(c) /\ j \in 1 .. ListLen(c) /\ i < j
          /\ N - j \in Nat /\ j + (N - j) <= ListLen(c)
      BY <2>7, <2>8, Zenon DEF N
    <3>2. ListOf(c)[i + (N - j)] = ListOf(c)[j + (N - j)]
      BY <2>7, <3>1, ListRepeats, Zenon
    <3> QED
      BY <2>8, <3>2, Zenon
  <2>10. ListOf(c)[i + (N - j) + 1] = Follow(c, ListOf(c)[i + (N - j)])
    BY <2>8, ListFacts, Zenon DEF N
  <2> QED
    BY <1>3, <2>8, <2>9, <2>10, Zenon DEF N
<1> QED
  BY <1>1, <1>2, <1>3

\* The first p capabilities have been looked at.
Chosen(c, p) ==
  \A k \in Kind :
    IF cap[k] = None THEN \A m \in 1 .. p : ~HasKind(c, k, m)
    ELSE \E n \in 1 .. p : /\ ListOf(c)[n] = cap[k] /\ HasKind(c, k, n)
                           /\ \A m \in 1 .. n - 1 : ~HasKind(c, k, m)

FirstInv ==
  LET c == cfg[cur] IN
  /\ pc = "walk" =>
       \E p \in 1 .. ListLen(c) : /\ ListOf(c)[p] = at
                                  /\ ListOf(c)[ListLen(c)] = None => Chosen(c, p - 1)
  /\ pc \in {"region", "measured"} => Chosen(c, ListLen(c))

\* What new keeps is in the list.
LEMMA InNewListed == ASSUME RegionInv, InNew PROVE Listed(cfg[cur])
<1>1. cfg \in Buses /\ cur \in Function /\ cfg[cur] # Absent
  BY Zenon DEF RegionInv, BarInv, Present
<1> QED
  BY <1>1, CapabilitiesAssumption, Zenon DEF Listed, First

\* A call starts with nothing kept.
LEMMA NewFirst == ASSUME RegionInv, New PROVE FirstInv'
<1>1. CASE ~cfg[cur].virtio
  BY <1>1, Zenon DEF New, Return, FirstInv
<1>2. CASE cfg[cur].virtio
  <2>1. /\ pc = "new" /\ pc' = "walk" /\ UNCHANGED <<cfg, cur, cap>>
        /\ at' = First(cfg[cur])
    BY <1>2, Zenon DEF New, First
  <2>2. PICK c : c = cfg[cur]
    BY Zenon
  <2>3. Listed(c)
    BY <2>1, <2>2, InNewListed, Zenon DEF InNew
  <2>4. \A k \in Kind : cap'[k] = None
    BY <2>1, Zenon DEF RegionInv, CallInv
  <2>5. Chosen(c, 0)'
    BY <2>4 DEF Chosen
  <2>6. 1 \in 1 .. ListLen(c) /\ ListOf(c)[1] = at' /\ 1 - 1 = 0
    BY <2>1, <2>2, <2>3, ListFacts
  <2>7. \E p \in 1 .. ListLen(c) : /\ ListOf(c)[p] = at'
                                   /\ ListOf(c)[ListLen(c)] = None => Chosen(c, p - 1)'
    BY <2>5, <2>6, Zenon
  <2> QED
    BY <2>1, <2>2, <2>7, Zenon DEF FirstInv
<1> QED
  BY <1>1, <1>2, Zenon

\* One more capability.
LEMMA ChosenOne ==
  ASSUME NEW c, NEW p \in Nat, p >= 1, Chosen(c, p - 1), DOMAIN cap = Kind,
         ListOf(c)[p] = at, at # None,
         cap' = IF Wanted(c.caps[at]) THEN [cap EXCEPT ![c.caps[at].type] = at] ELSE cap
  PROVE  Chosen(c, p)'
<1> SUFFICES ASSUME NEW k \in Kind
             PROVE  IF cap'[k] = None THEN \A m \in 1 .. p : ~HasKind(c, k, m)
                    ELSE \E n \in 1 .. p : /\ ListOf(c)[n] = cap'[k] /\ HasKind(c, k, n)
                                           /\ \A m \in 1 .. n - 1 : ~HasKind(c, k, m)
  BY Zenon DEF Chosen
<1>1. HasKind(c, k, p) <=> Fits(c.caps[at]) /\ c.caps[at].type = k
  BY Zenon DEF HasKind
<1>2. 1 .. p = (1 .. p - 1) \cup {p} /\ p \in 1 .. p
  OBVIOUS
<1>3. IF cap[k] = None THEN \A m \in 1 .. p - 1 : ~HasKind(c, k, m)
      ELSE \E n \in 1 .. p - 1 : /\ ListOf(c)[n] = cap[k] /\ HasKind(c, k, n)
                                 /\ \A m \in 1 .. n - 1 : ~HasKind(c, k, m)
  BY Zenon DEF Chosen
<1>4. CASE cap[k] # None
  <2>1. cap'[k] = cap[k]
    BY <1>4, Zenon DEF Wanted
  <2> QED
    BY <1>2, <1>3, <1>4, <2>1, Zenon
<1>5. CASE cap[k] = None /\ HasKind(c, k, p)
  <2>1. Wanted(c.caps[at]) /\ c.caps[at].type = k
    BY <1>1, <1>5, Zenon DEF Wanted
  <2>2. cap'[k] = at
    BY <2>1, Zenon
  <2> QED
    BY <1>2, <1>3, <1>5, <2>2, Zenon
<1>6. CASE cap[k] = None /\ ~HasKind(c, k, p)
  <2>1. cap'[k] = None
    BY <1>1, <1>6, Zenon DEF Wanted
  <2> QED
    BY <1>2, <1>3, <1>6, <2>1, Zenon
<1> QED
  BY <1>4, <1>5, <1>6, Zenon

\* A step of the walk keeps the first of each kind.
LEMMA WalkFirst == ASSUME RegionInv, FirstInv, Walk PROVE FirstInv'
<1>1. PICK c : c = cfg[cur]
  BY Zenon
<1>2. /\ pc = "walk" /\ pc' = "walk" /\ at # None /\ UNCHANGED <<cfg, cur>>
      /\ cap' = IF Wanted(c.caps[at]) THEN [cap EXCEPT ![c.caps[at].type] = at] ELSE cap
      /\ at' = Follow(c, at)
  BY <1>1, Zenon DEF Walk, Follow
<1>3. Listed(c) /\ DOMAIN cap = Kind
  <2>1. InNew
    BY <1>2, Zenon DEF InNew
  <2> QED
    BY <1>1, <2>1, InNewListed, Zenon DEF RegionInv, CallInv
<1>4. PICK p \in 1 .. ListLen(c) : /\ ListOf(c)[p] = at
                                   /\ ListOf(c)[ListLen(c)] = None => Chosen(c, p - 1)
  BY <1>1, <1>2, Zenon DEF FirstInv
<1>5. ListLen(c) \in Nat
  BY <1>3, ListFacts, Zenon
<1>6. \E n \in 1 .. ListLen(c) : /\ ListOf(c)[n] = at'
                                 /\ ListOf(c)[ListLen(c)] = None => Chosen(c, n - 1)'
  <2>1. CASE ListOf(c)[ListLen(c)] # None
    <3>1. \E n \in 1 .. ListLen(c) : Follow(c, ListOf(c)[p]) = ListOf(c)[n]
      BY <1>3, <2>1, ListLeadsBack, Zenon
    <3> QED
      BY <1>2, <1>4, <2>1, <3>1, Zenon
  <2>2. CASE ListOf(c)[ListLen(c)] = None
    <3>1. p # ListLen(c)
      BY <1>2, <1>4, <2>2, Zenon
    <3>2. p \in Nat /\ p >= 1 /\ p + 1 \in 1 .. ListLen(c) /\ (p + 1) - 1 = p
      BY <1>5, <3>1
    <3>3. ListOf(c)[p + 1] = at'
      BY <1>2, <1>3, <1>4, <3>2, ListFacts, Zenon
    <3>4. Chosen(c, p)'
      BY <1>2, <1>3, <1>4, <2>2, <3>2, ChosenOne, Zenon
    <3> QED
      BY <3>2, <3>3, <3>4, Zenon
  <2> QED
    BY <2>1, <2>2, Zenon
<1> QED
  BY <1>1, <1>2, <1>6, Zenon DEF FirstInv

\* The walk over.
LEMMA WalkedFirst == ASSUME RegionInv, FirstInv, Walked PROVE FirstInv'
<1>1. PICK c : c = cfg[cur]
  BY Zenon
<1>2. pc = "walk" /\ pc' = "region" /\ at = None /\ UNCHANGED <<cfg, cur, cap>>
  BY Zenon DEF Walked, call
<1>3. Listed(c)
  BY <1>1, <1>2, InNewListed, Zenon DEF InNew
<1>4. PICK p \in 1 .. ListLen(c) : /\ ListOf(c)[p] = None
                                   /\ ListOf(c)[ListLen(c)] = None => Chosen(c, p - 1)
  BY <1>1, <1>2, Zenon DEF FirstInv
<1>5. ListLen(c) \in Nat /\ \A n \in p .. ListLen(c) : ListOf(c)[n] = None
  BY <1>3, <1>4, ListFacts, NothingFollows, Zenon
<1>6. Chosen(c, p - 1) /\ p \in Nat /\ p >= 1
  <2>1. ListLen(c) \in p .. ListLen(c)
    BY <1>5
  <2> QED
    BY <1>4, <1>5, <2>1
<1>7. \A n \in 1 .. ListLen(c) : n \in 1 .. p - 1 \/ n \in p .. ListLen(c)
  BY <1>5, <1>6
<1>8. \A k, n : n \in p .. ListLen(c) => ~HasKind(c, k, n)
  BY <1>5, Zenon DEF HasKind
<1>9. 1 .. p - 1 \subseteq 1 .. ListLen(c)
  BY <1>5, <1>6
<1>10. Chosen(c, ListLen(c))'
  BY <1>2, <1>6, <1>7, <1>8, <1>9, Zenon DEF Chosen
<1> QED
  BY <1>1, <1>2, <1>10, Zenon DEF FirstInv

\* The structures are not chosen again.
LEMMA FirstStays ==
  ASSUME FirstInv, UNCHANGED <<cfg, cur, cap>>, pc' = "walk" => pc = "walk" /\ at' = at,
         pc' \in {"region", "measured"} => pc \in {"region", "measured"}
  PROVE  FirstInv'
<1>1. PICK c : c = cfg[cur]
  BY Zenon
<1>2. \A p : Chosen(c, p)' <=> Chosen(c, p)
  BY Zenon DEF Chosen
<1>3. pc' = "walk" =>
        \E p \in 1 .. ListLen(c) : /\ ListOf(c)[p] = at'
                                   /\ ListOf(c)[ListLen(c)] = None => Chosen(c, p - 1)'
  BY <1>1, <1>2, Zenon DEF FirstInv
<1>4. pc' \in {"region", "measured"} => Chosen(c, ListLen(c))'
  BY <1>1, <1>2, Zenon DEF FirstInv
<1> QED
  BY <1>1, <1>3, <1>4, Zenon DEF FirstInv

\* Every step keeps the first of each kind.
LEMMA NextFirst == ASSUME RegionInv, FirstInv, [Next]_vars PROVE FirstInv'
<1>1. ASSUME pc' \in {"scan", "ready", "new", "panicked"} PROVE FirstInv'
  BY <1>1, Zenon DEF FirstInv
<1>2. CASE Scan \/ Scanned \/ Refuse \/ Succeed \/ Overflow
  <2>1. pc' \in {"scan", "ready", "panicked"}
    BY <1>2, Zenon DEF Scan, Scanned, Refuse, Succeed, Overflow, Return
  <2> QED
    BY <1>1, <2>1, Zenon
<1>3. CASE Measure
  BY <1>3, FirstStays, Zenon DEF Measure
<1>4. CASE Measured
  <2>1. pc' = "ready" \/ (pc = "measured" /\ pc' = "region" /\ UNCHANGED <<cfg, cur, cap>>)
    BY <1>4, Zenon DEF Measured, Return
  <2> QED
    BY <1>1, <2>1, FirstStays, Zenon
<1>5. ASSUME NEW f \in Function, SetUp(f) \/ CallNew(f) PROVE FirstInv'
  <2>1. pc' \in {"ready", "new"}
    BY <1>5, Zenon DEF SetUp, CallNew
  <2> QED
    BY <1>1, <2>1, Zenon
<1>6. ASSUME UNCHANGED <<cfg, call>>, pc' \in {pc, "panicked"} PROVE FirstInv'
  BY <1>6, FirstStays, Zenon DEF call
<1>7. ASSUME NEW f \in Function, ack_interrupt(f) \/ DevInterrupt(f) \/ Drop(f) PROVE FirstInv'
  BY <1>6, <1>7, Zenon DEF ack_interrupt, DevInterrupt, Drop
<1>8. ASSUME NEW f \in Function, NEW q \in Queue, notify(f, q) PROVE FirstInv'
  BY <1>6, <1>8, Zenon DEF notify
<1>9. ASSUME UNCHANGED vars PROVE FirstInv'
  BY <1>6, <1>9, Zenon DEF vars
<1>10. ASSUME CallStep PROVE FirstInv'
  BY <1>2, <1>3, <1>4, <1>10, NewFirst, WalkFirst, WalkedFirst, Zenon DEF CallStep
<1> QED
  BY <1>5, <1>7, <1>8, <1>9, <1>10, Zenon DEF Next

\* PciTransport::new takes the first capability of each kind that is large enough,
\* however long the list is and whatever it leads through; when the list leads back
\* the walk does not end, and nothing is taken.
THEOREM AlwaysFirstOfEachKind == Spec => []FirstOfEachKind
<1>1. Spec => []RegionInv
  BY InitRegions, NextRegions, PTL DEF Spec
<1>2. Init => FirstInv
  BY Zenon DEF Init, FirstInv
<1>3. RegionInv /\ FirstInv /\ [Next]_vars => FirstInv'
  BY NextFirst, Zenon
<1>4. RegionInv /\ FirstInv => FirstOfEachKind
  <2> SUFFICES ASSUME RegionInv, FirstInv, pc \in {"region", "measured"} PROVE FirstOfEachKind
    BY Zenon DEF FirstOfEachKind
  <2>1. Listed(cfg[cur])
    BY InNewListed, Zenon DEF InNew
  <2>2. DOMAIN ListOf(cfg[cur]) = 1 .. ListLen(cfg[cur])
    BY <2>1, ListFacts, Zenon
  <2>3. Chosen(cfg[cur], ListLen(cfg[cur]))
    BY DEF FirstInv
  <2> QED
    BY <2>2, <2>3, Zenon DEF FirstOfEachKind, Chosen
<1> QED
  BY <1>1, <1>2, <1>3, <1>4, PTL DEF Spec

-----------------------------------------------------------------------------
(* The addresses of the configuration space *)

\* The shifts of Cam::MmioCam and Cam::Ecam.
Shift == {8, 12}

\* cam_offset gives every register of every function an offset of its own, a
\* multiple of four below the size of the memory-mapped region.
THEOREM CamOffsetsDistinct ==
  ASSUME NEW shift \in Shift,
         NEW b1 \in 0 .. 255, NEW d1 \in 0 .. 31, NEW f1 \in 0 .. 7,
         NEW r1 \in 0 .. 2^shift - 1, r1 % 4 = 0,
         NEW b2 \in 0 .. 255, NEW d2 \in 0 .. 31, NEW f2 \in 0 .. 7,
         NEW r2 \in 0 .. 2^shift - 1,
         cam_offset(b1, d1, f1, r1, shift) = cam_offset(b2, d2, f2, r2, shift)
  PROVE  /\ b1 = b2 /\ d1 = d2 /\ f1 = f2 /\ r1 = r2
         /\ cam_offset(b1, d1, f1, r1, shift) % 4 = 0
         /\ cam_offset(b1, d1, f1, r1, shift) < 65536 * 2^shift
<1>1. CASE shift = 8
  <2>1. 2^shift = 256
    BY <1>1
  <2> QED
    BY <2>1 DEF cam_offset
<1>2. CASE shift = 12
  <2>1. 2^shift = 4096
    BY <1>2
  <2> QED
    BY <2>1 DEF cam_offset
<1> QED
  BY <1>1, <1>2 DEF Shift

=============================================================================
