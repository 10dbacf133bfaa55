--------------------------------- MODULE Pci ---------------------------------
(***************************************************************************)
(* The PCI bus and the PCI transport (transport/pci/bus.rs and mod.rs).  A *)
(* client enumerates a bus, assigns addresses to the base address          *)
(* registers (BARs), enables memory decoding, and calls PciTransport::new, *)
(* which walks the capability list and measures the BARs the capabilities  *)
(* name.  To measure a BAR it is overwritten with ones, while memory       *)
(* decoding stays enabled and other devices of the bus run.                *)
(*                                                                         *)
(* A call works on registers of one function, step by step; the interrupt  *)
(* handler of another function, which uses a transport that exists         *)
(* already, runs between any two steps.  The functions are external: what  *)
(* is in their configuration space comes from the constant Buses.          *)
(***************************************************************************)
EXTENDS Integers, Sequences, FiniteSets, Functions

CONSTANTS
  MAX_DEVICES, MAX_FUNCTIONS,
  WORD,        \* number of values of a 32-bit word
  Queue,       \* the virtqueues of a device
  Absent,      \* no function answers
  Buses        \* what may be in the configuration space of each function

ASSUME BusAssumption == MAX_DEVICES \in Nat \ {0} /\ MAX_FUNCTIONS \in Nat \ {0}
ASSUME WordAssumption == WORD \in Nat /\ WORD > 16 /\ WORD % 16 = 0

VARIABLES
  cfg,         \* the layout of the function at each position, or Absent
  bar,         \* the six BAR words of each function
  command,     \* functions with MEMORY_SPACE set in the command register
  isr,         \* functions whose ISR status is not 0
  pc,          \* where the client is
  next,        \* BusDeviceIterator.next
  found,       \* what enumerate_bus returned so far
  cur,         \* the function PciTransport::new works on
  at,          \* next_capability_offset, None at the end
  cap,         \* common_cfg, notify_cfg, isr_cfg, device_cfg: offset or None
  kind,        \* which of them get_bar_region works on
  bar_orig,    \* bar_info: the word that is to be restored
  region,      \* the regions found so far
  transport,   \* the PciTransport of each function: its regions, or <<>>
  ret,         \* what PciTransport::new returned last
  rung         \* the doorbells that the last notification reached

regs == <<bar, command, isr>>
call == <<next, found, cur, at, cap, kind, bar_orig, region>>
vars == <<cfg, regs, pc, call, transport, ret, rung>>

Function == (0 .. MAX_DEVICES - 1) \X (0 .. MAX_FUNCTIONS - 1)
Present == {f \in Function : cfg[f] # Absent}
Bar == 0 .. 5
Kind == 1 .. 4   \* COMMON_CFG, NOTIFY_CFG, ISR_CFG, DEVICE_CFG
None == 0
PCI_CAP_ID_VNDR == 9

\* CommonCfg, WriteOnly<u16>, Volatile<u8> and u32
SizeOf == <<56, 2, 1, 4>>
AlignOf == <<8, 2, 1, 4>>

-----------------------------------------------------------------------------
(* Configuration space *)

\* PciRoot::cam_offset; Cam::Ecam shifts by 12, Cam::MmioCam by 8.
cam_offset(bus, device, function, register, shift) ==
  (bus * 256 + device * 8 + function) * 2^shift + register

\* v without the bits below n, a power of two: the masks of bus.rs
AlignDown(v, n) == v - (v % n)

\* The low bits of a BAR (external): I/O, or the type and prefetchability.
Flags(b) ==
  CASE b.kind = "io" -> 1
    [] b.kind = "memory" -> 2 * b.type + 8
    [] OTHER -> 0

\* The flags of a BAR are below its size (external).
ASSUME BarsAssumption ==
  \A c \in Buses : \A f \in Function : c[f] # Absent =>
    \A b \in Bar : LET k == c[f].bars[b]
                  IN /\ k.kind \in {"none", "upper", "io", "memory"}
                     /\ k.size \in Nat /\ Flags(k) \in Nat
                     /\ k.kind \in {"io", "memory"} => Flags(k) < k.size

\* A memory or I/O BAR of less than 4 GiB has a size that divides it, and memory is
\* a multiple of 16 bytes, with the flags below (external).
ASSUME SizesAssumption ==
  \A c \in Buses : \A f \in Function : c[f] # Absent =>
    \A b \in Bar : LET k == c[f].bars[b]
                  IN /\ k.kind \in {"io", "memory"} /\ k.size < WORD => WORD % k.size = 0
                     /\ k.kind = "io" => k.size % 2 = 0
                     /\ k.kind = "memory" => k.size % 16 = 0 /\ k.type \in 0 .. 3

\* What a BAR holds after a write (external): it has no bits below its size.
Latch(b, v) ==
  IF b.kind = "none" THEN 0
  ELSE IF b.kind = "upper" THEN v
  ELSE IF b.size >= WORD THEN Flags(b)
  ELSE AlignDown(v, b.size) + Flags(b)

\* PciRoot::config_write_word of a BAR
config_write_word(f, b, v) == bar' = [bar EXCEPT ![f][b] = Latch(cfg[f].bars[b], v)]

\* The address of a memory BAR (external); only one before the last is wide.
Base(f, b) ==
  AlignDown(bar[f][b], 16)
  + IF cfg[f].bars[b].type = 2 /\ b < 5 THEN bar[f][b + 1] * WORD ELSE 0

\* The functions that answer to an address, and the offset they see (external).
Decodes(a) ==
  LET Hit(fb) ==
        /\ cfg[fb[1]].bars[fb[2]].kind = "memory"
        /\ Base(fb[1], fb[2]) <= a
        /\ a < Base(fb[1], fb[2]) + cfg[fb[1]].bars[fb[2]].size
  IN {<<fb[1], fb[2], a - Base(fb[1], fb[2])>> : fb \in {x \in command \X Bar : Hit(x)}}

-----------------------------------------------------------------------------
Init ==
  /\ cfg \in Buses
  /\ bar = [f \in Function |-> [b \in Bar |->
              IF cfg[f] = Absent THEN 0 ELSE Latch(cfg[f].bars[b], 0)]]
  /\ command = {} /\ isr = {}
  /\ pc = "scan" /\ next = <<0, 0>> /\ found = <<>> /\ cur = <<0, 0>>
  /\ at = None /\ cap = [k \in Kind |-> None] /\ kind = 1 /\ bar_orig = 0
  /\ region = <<>>
  /\ transport = [f \in Function |-> <<>>] /\ ret = "none" /\ rung = {}

-----------------------------------------------------------------------------
(* PciRoot::enumerate_bus *)

\* Mutant of Advance: the last function of a device is skipped.
AdvanceEarly(f) ==
  IF f[2] + 2 >= MAX_FUNCTIONS THEN <<f[1] + 1, 0>> ELSE <<f[1], f[2] + 1>>

\* The next position of BusDeviceIterator::next.
Advance(f) ==
  IF f[2] + 1 >= MAX_FUNCTIONS THEN <<f[1] + 1, 0>> ELSE <<f[1], f[2] + 1>>

\* One turn of its loop.  A read that nobody answers returns INVALID_READ.
Scan ==
  /\ pc = "scan" /\ next[1] < MAX_DEVICES
  /\ next' = Advance(next)
  /\ found' = IF cfg[next] # Absent THEN Append(found, next) ELSE found
  /\ UNCHANGED <<cfg, regs, pc, cur, at, cap, kind, bar_orig, region, transport, ret, rung>>

Scanned ==
  /\ pc = "scan" /\ next[1] >= MAX_DEVICES
  /\ pc' = "ready"
  /\ UNCHANGED <<cfg, regs, call, transport, ret, rung>>

-----------------------------------------------------------------------------
(* PciRoot::set_bar_32, set_bar_64 and set_command, as a client uses them *)

\* The words the client has for a BAR (external).  BARs do not overlap and stay
\* clear of the end of the 32-bit address space; the 64-bit ones are above it.
Slot == 128
Address(f, b) ==
  LET n == 6 * (MAX_FUNCTIONS * f[1] + f[2]) + b
      k == cfg[f].bars[b]
  IN IF ~cfg[f].allocated \/ k.kind = "none" THEN 0
     ELSE IF k.kind = "upper" THEN n
     ELSE IF k.kind = "memory" /\ k.type = 2 /\ b < 5 THEN Slot
     ELSE (n + 1) * Slot

\* They fit: a slot is a multiple of each BAR in the 32-bit address space, and the
\* space has a slot for each word and one at its end; a 64-bit BAR has an upper
\* half, and at most the space that starts there (external).
ASSUME AddressesAssumption ==
  /\ (6 * (MAX_DEVICES * MAX_FUNCTIONS) + 2) * Slot <= WORD
  /\ \A c \in Buses : \A f \in Function : c[f] # Absent =>
       \A b \in Bar : LET k == c[f].bars[b]
                     IN k.kind = "memory" =>
                          IF k.type = 2 /\ b < 5
                          THEN /\ c[f].bars[b + 1].kind = "upper" /\ k.size <= WORD
                               /\ ~c[f].allocated => Slot % k.size = 0
                          ELSE Slot % k.size = 0

\* The BARs are set while the function does not decode them, so nobody sees the
\* words one by one; then the command register is set.
SetUp(f) ==
  /\ pc = "ready" /\ f \in Range(found) \ command
  /\ bar' = [bar EXCEPT ![f] = [b \in Bar |-> Latch(cfg[f].bars[b], Address(f, b))]]
  /\ command' = command \cup {f}
  /\ UNCHANGED <<cfg, isr, pc, call, transport, ret, rung>>

-----------------------------------------------------------------------------
(* PciTransport::new *)

\* The call returns; its locals are gone.
Return(r) ==
  /\ pc' = "ready" /\ ret' = r
  /\ at' = None /\ cap' = [k \in Kind |-> None] /\ kind' = 1 /\ bar_orig' = 0
  /\ region' = <<>>

CallNew(f) ==
  /\ pc = "ready" /\ f \in command /\ transport[f] = <<>>
  /\ pc' = "new" /\ cur' = f /\ ret' = "none"
  /\ UNCHANGED <<cfg, regs, next, found, at, cap, kind, bar_orig, region, transport, rung>>

\* The vendor, and the start of CapabilityIterator.  (A pointer of 0 leads to the
\* vendor id, which is no capability and whose `next` of 0x1a ends the list.)
New ==
  /\ pc = "new"
  /\ IF ~cfg[cur].virtio
     THEN Return("InvalidVendorId")
     ELSE /\ pc' = "walk"
          /\ at' = IF cfg[cur].list THEN AlignDown(cfg[cur].first, 4) ELSE None
          /\ UNCHANGED <<cap, kind, bar_orig, region, ret>>
  /\ UNCHANGED <<cfg, regs, next, found, cur, transport, rung>>

\* CapabilityIterator::next, where the next capability is.
NextOffset(o) == IF o < 64 \/ o % 4 # 0 THEN None ELSE o

\* There are finitely many capabilities; they lead to capabilities, and name a BAR
\* that is not the upper half of another (external: PciTransport::new takes any byte
\* for a BAR, and measures the register it finds there).
ASSUME CapabilitiesAssumption ==
  \A c \in Buses : \A f \in Function : c[f] # Absent =>
    LET caps == c[f].caps
    IN /\ None \notin DOMAIN caps /\ IsFiniteSet(DOMAIN caps)
       /\ \A q \in Queue : c[f].notify_off[q] \in Nat
       /\ c[f].list => AlignDown(c[f].first, 4) \in DOMAIN caps
       /\ \A o \in DOMAIN caps :
            /\ NextOffset(caps[o].next) \in DOMAIN caps \cup {None}
            /\ caps[o].bar \in Bar /\ c[f].bars[caps[o].bar].kind # "upper"
            /\ {caps[o].offset, caps[o].length, caps[o].multiplier} \subseteq Nat

\* A capability lies within the 256 bytes of configuration space (external), so that
\* capability.offset + CAP_LENGTH_OFFSET, a sum of bytes, is exact.
ASSUME ConfigSpaceAssumption ==
  \A c \in Buses : \A f \in Function : c[f] # Absent =>
    \A o \in DOMAIN c[f].caps : o \in 0 .. 255 /\ o + c[f].caps[o].len <= 256

\* A capability that has the structure of its kind.
Fits(c) ==
  /\ c.id = PCI_CAP_ID_VNDR /\ c.len >= 16 /\ c.type \in Kind
  /\ c.type = 2 => c.len >= 20

\* Mutant of Wanted: a later capability replaces an earlier one.
WantedLast(c) == Fits(c)

\* The guards of the match.
Wanted(c) == Fits(c) /\ cap[c.type] = None

\* Mutant of Walk: a capability of another vendor is looked at again.
WalkStuck ==
  LET c == cfg[cur].caps[at]
  IN /\ pc = "walk" /\ at # None
     /\ cap' = IF Wanted(c) THEN [cap EXCEPT ![c.type] = at] ELSE cap
     /\ at' = IF c.id = PCI_CAP_ID_VNDR THEN NextOffset(c.next) ELSE at
     /\ UNCHANGED <<cfg, regs, pc, next, found, cur, kind, bar_orig, region,
                    transport, ret, rung>>

\* One turn of the loop over the capabilities.
Walk ==
  LET c == cfg[cur].caps[at]
  IN /\ pc = "walk" /\ at # None
     /\ cap' = IF Wanted(c) THEN [cap EXCEPT ![c.type] = at] ELSE cap
     /\ at' = NextOffset(c.next)
     /\ UNCHANGED <<cfg, regs, pc, next, found, cur, kind, bar_orig, region,
                    transport, ret, rung>>

Walked ==
  /\ pc = "walk" /\ at = None
  /\ pc' = "region"
  /\ UNCHANGED <<cfg, regs, call, transport, ret, rung>>

Info == cfg[cur].caps[cap[kind]]

\* notify_off_multiplier % 2 == 0
MultiplierOk == Info.multiplier % 2 = 0

\* A structure that `new` must have is missing, or unusable.
Refused ==
  IF cap[kind] = None
  THEN IF kind = 4 THEN {} ELSE {"Missing"}
  ELSE IF kind = 2 /\ ~MultiplierOk THEN {"InvalidNotifyOffMultiplier"} ELSE {}

Refuse ==
  /\ pc = "region" /\ kind \in Kind /\ Refused # {}
  /\ \E e \in Refused : Return(e)
  /\ UNCHANGED <<cfg, regs, next, found, cur, transport, rung>>

\* There is no device configuration, or its region is known: Ok(Self).
Succeed ==
  /\ pc = "region"
  /\ kind > 4 \/ (kind = 4 /\ cap[4] = None)
  /\ transport' = [transport EXCEPT ![cur] = region]
  /\ Return("Ok")
  /\ UNCHANGED <<cfg, regs, next, found, cur, rung>>

\* PciRoot::bar_info, up to the write of all ones.
Measure ==
  /\ pc = "region" /\ kind \in Kind /\ cap[kind] # None /\ Refused = {}
  /\ bar_orig' = bar[cur][Info.bar]
  /\ config_write_word(cur, Info.bar, WORD - 1)
  /\ pc' = "measured"
  /\ UNCHANGED <<cfg, command, isr, next, found, cur, at, cap, kind, region,
                 transport, ret, rung>>

\* size: the complement of the mask, plus one, in a word.
BarSize(size_mask) == (WORD - AlignDown(size_mask, 16)) % WORD

\* Mutant of FullAddress: the upper word of a 64-bit BAR is forgotten.
LowAddress(low, top) == AlignDown(low, 16)

\* The address of a BAR; top is 0 unless it has 64 bits.
FullAddress(low, top) == AlignDown(low, 16) + top * WORD

\* The rest of bar_info.
BarInfo(size_mask) ==
  LET type == (bar_orig % 8) \div 2
  IN IF bar_orig % 2 = 1 THEN [err |-> "UnexpectedIoBar"]
     ELSE IF type = 3 \/ (type = 2 /\ Info.bar >= 5) THEN [err |-> "InvalidBarType"]
     ELSE [err |-> "none", size |-> BarSize(size_mask),
           address |-> FullAddress(bar_orig, IF type = 2 THEN bar[cur][Info.bar + 1] ELSE 0)]

\* Mutant of OutOfRange: only the start of the structure is compared.
OutOfRangeStart(offset, length, size) == offset > size \/ SizeOf[kind] > length

\* get_bar_region: a sum in a word.
OutOfRange(offset, length, size) ==
  (offset + length) % WORD > size \/ SizeOf[kind] > length

\* What get_bar_region makes of a memory BAR.
RegionError(info) ==
  IF info.err # "none" THEN info.err
  ELSE IF info.address = 0 THEN "BarNotAllocated"
  ELSE IF OutOfRange(Info.offset, Info.length, info.size) THEN "BarOffsetOutOfRange"
  ELSE IF (info.address + Info.offset) % AlignOf[kind] # 0 THEN "Misaligned"
  ELSE "none"

\* Mutant of Restore: the BAR is left cleared.
RestoreZero == config_write_word(cur, Info.bar, 0)

\* The original value is written back.
Restore == config_write_word(cur, Info.bar, bar_orig)

\* The mask is read, the BAR restored, and get_bar_region checks what it found.
Measured ==
  LET info == BarInfo(bar[cur][Info.bar])
      e == RegionError(info)
  IN /\ pc = "measured"
     /\ Restore
     /\ IF e # "none" THEN Return(e)
        ELSE /\ region' = Append(region, [address |-> info.address + Info.offset,
                                          bar |-> Info.bar, offset |-> Info.offset,
                                          length |-> Info.length,
                                          multiplier |-> Info.multiplier])
             /\ pc' = "region" /\ kind' = kind + 1
             /\ UNCHANGED <<at, cap, bar_orig, ret>>
     /\ UNCHANGED <<cfg, command, isr, next, found, cur, transport, rung>>

\* In a build that checks it, the sum overflows.
Overflow ==
  LET info == BarInfo(bar[cur][Info.bar])
  IN /\ pc = "measured"
     /\ info.err = "none" /\ info.address # 0 /\ Info.offset + Info.length >= WORD
     /\ Restore
     /\ pc' = "panicked"
     /\ UNCHANGED <<cfg, command, isr, call, transport, ret, rung>>

-----------------------------------------------------------------------------
(* PciTransport: notify, ack_interrupt and Drop *)

\* queue_notify_off of the queue selected, of whoever answers where common_cfg is.
NotifyOffs(f, q) ==
  LET ds == Decodes(transport[f][1].address)
  IN IF ds = {} THEN {65535} ELSE {cfg[d[1]].notify_off[q] : d \in ds}

\* The element of notify_region for a queue.
DoorbellIndex(f, off) == (off * transport[f][2].multiplier) \div 2

\* The slice is indexed, which panics beyond its end.
notify(f, q) ==
  /\ pc # "panicked" /\ transport[f] # <<>>
  /\ \E off \in NotifyOffs(f, q) :
       IF DoorbellIndex(f, off) < transport[f][2].length \div 2
       THEN /\ rung' = Decodes(transport[f][2].address + 2 * DoorbellIndex(f, off))
            /\ UNCHANGED pc
       ELSE pc' = "panicked" /\ UNCHANGED rung
  /\ UNCHANGED <<cfg, regs, call, transport, ret>>

\* Reading the ISR status clears it, of whoever answers.
ack_interrupt(f) ==
  /\ transport[f] # <<>> /\ pc # "panicked"
  /\ isr' = isr \ {d[1] : d \in Decodes(transport[f][3].address)}
  /\ UNCHANGED <<cfg, bar, command, pc, call, transport, ret, rung>>

\* The device is reset; Lifecycle has the steps.
Drop(f) ==
  /\ pc = "ready" /\ transport[f] # <<>>
  /\ transport' = [transport EXCEPT ![f] = <<>>]
  /\ isr' = isr \ {f}
  /\ UNCHANGED <<cfg, bar, command, pc, call, ret, rung>>

\* The device interrupts (external).
DevInterrupt(f) ==
  /\ transport[f] # <<>> /\ f \notin isr
  /\ isr' = isr \cup {f}
  /\ UNCHANGED <<cfg, bar, command, pc, call, transport, ret, rung>>

-----------------------------------------------------------------------------
CallStep ==
  \/ Scan \/ Scanned
  \/ New \/ Walk \/ Walked \/ Refuse \/ Succeed \/ Measure \/ Measured \/ Overflow

Next ==
  \/ CallStep
  \/ \E f \in Function : SetUp(f) \/ CallNew(f) \/ ack_interrupt(f) \/ Drop(f) \/ DevInterrupt(f)
  \/ \E f \in Function, q \in Queue : notify(f, q)

Spec == Init /\ [][Next]_vars

\* A call goes on; nothing in it waits.
FairSpec == Spec /\ WF_vars(CallStep)

-----------------------------------------------------------------------------
(* Properties *)

\* enumerate_bus returns every function that answers, each once.
EnumerationComplete ==
  pc # "scan" => IsInjective(found) /\ Range(found) = Present

\* Measuring leaves no trace: outside the step in which bar_info has it
\* overwritten, a BAR of a function that was set up holds what the client
\* assigned to it, also after every error of `new`.
BarsKept ==
  pc # "panicked" => \A f \in command, b \in Bar :
    (pc = "measured" /\ f = cur /\ b = Info.bar)
      \/ bar[f][b] = Latch(cfg[f].bars[b], Address(f, b))

\* The offsets the capability list of a layout leads to, in its order; the list
\* ends if it does not lead back.
ListOf(c) ==
  LET walk[k \in 1 .. Cardinality(DOMAIN c.caps) + 1] ==
        IF k = 1 THEN IF c.list THEN AlignDown(c.first, 4) ELSE None
        ELSE IF walk[k - 1] = None THEN None ELSE NextOffset(c.caps[walk[k - 1]].next)
  IN walk
Ends(c) == \E k \in DOMAIN ListOf(c) : ListOf(c)[k] = None

\* The n-th capability of the list has kind k and its size.
HasKind(c, k, n) ==
  /\ ListOf(c)[n] # None
  /\ Fits(c.caps[ListOf(c)[n]]) /\ c.caps[ListOf(c)[n]].type = k

\* After the walk each structure is the first in the list that has its kind and
\* its size: a short or a repeated capability changes nothing, and a structure
\* is missing only when the list has none.
FirstOfEachKind ==
  pc \in {"region", "measured"} =>
    LET list == ListOf(cfg[cur])
        Has(k, n) == HasKind(cfg[cur], k, n)
    IN \A k \in Kind :
         IF cap[k] = None THEN \A n \in DOMAIN list : ~Has(k, n)
         ELSE \E n \in DOMAIN list :
                list[n] = cap[k] /\ Has(k, n) /\ \A m \in 1 .. n - 1 : ~Has(k, m)

\* "The paddr and size describe a valid MMIO region" (get_bar_region): a region
\* of a transport lies within its BAR, at the address where the function answers,
\* and is large enough.  It takes that offset + length does not overflow.
RegionsInBars ==
  \A f \in Function : \A k \in DOMAIN transport[f] :
    LET r == transport[f][k]
    IN r.offset + r.length < WORD =>
         /\ r.offset + r.length <= cfg[f].bars[r.bar].size
         /\ r.address = Base(f, r.bar) + r.offset
         /\ SizeOf[k] <= r.length /\ r.address % AlignOf[k] = 0

\* A transport talks to its own device, also while another function is being
\* measured and answers to other addresses: it acknowledges its own interrupt and
\* loses no other, and a notification reaches one device and in it the doorbell
\* of the queue, queue_notify_off * notify_off_multiplier bytes into the
\* notification structure.
ReachesOwnDevice ==
  [][/\ \A f \in Function : ack_interrupt(f) => isr' = isr \ {f}
     /\ \A f \in Function, q \in Queue : notify(f, q) /\ pc' # "panicked" =>
          LET r == transport[f][2]
          IN rung' = {<<f, r.bar, r.offset + cfg[f].notify_off[q] * r.multiplier>>}]_vars

\* PciTransport::new returns, whatever is in the capability list, if the list
\* does not lead back into itself; and enumeration ends.
NewReturns ==
  /\ pc = "scan" ~> pc = "ready"
  /\ \A f \in Function :
       (pc = "new" /\ cur = f /\ Ends(cfg[f])) ~> pc \in {"ready", "panicked"}

=============================================================================
