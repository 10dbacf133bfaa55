# A TLA+ model of safe-virtio-drivers

This directory models the VirtIO drivers of this repository
(`src/virtio-drivers`) and the part of the test kernel (`src/qemu`) that uses
them concurrently. TLC checks small instances, and TLAPS proves the main safety
properties for every value of the constants. `PROJECT.json` lists components,
runs, the map from definitions to source lines, mutants, findings, hazards and
theorems.

    tlc -workers 2 -config MCVirtQueue.cfg MCVirtQueue    # one run
    tlapm VirtQueueProof.tla                              # one set of proofs

## The system

A driver (block, console, input, GPU, network) owns a *transport*, the device's
registers, and one or two *virtqueues*, memory it shares with the device. A
request is a chain of descriptors in the queue's table. The driver publishes its
head in the available ring and perhaps notifies the device. The device works on
requests in any order and publishes each in the used ring, where the driver
finds it by its token, the index of the head.

| part | state | operations | what makes it hard |
|---|---|---|---|
| virtqueue, `queue.rs` | free list, `last_seen_used`, `poped_used`, three shared areas | `new`, `add`, `can_pop`, `peek_used`, `pop_used` | device walks chains meanwhile; u16 indices wrap; pops out of order; tokens are used again |
| notification, `queue.rs` | `used.flags`, `queue_notify` | `should_notify`, `notify`, `add_notify_wait_pop` | device sleeps; store and load may be reordered; `notify` fails after `add` |
| queue layout and DMA, `queue.rs`, `lib.rs`, `my_impl.rs` | `DMA_PADDR` | `pages`, `align_up`, `total_size`, `dma_alloc`, `dma_alloc_buf` | a legacy device computes the layout by itself |
| MMIO transport, `transport/mmio.rs` | device registers | `begin_init`, `finish_init`, `queue_set`, `queue_unset`, `queue_used`, drop | every access may fail; what is dropped in which order; queues left by others |
| PCI, `transport/pci` (not compiled today) | configuration space, BARs, the command register | `enumerate_bus`, `bar_info`, `PciTransport::new`, `notify`, `ack_interrupt`, drop | a BAR is overwritten to measure it; lists of capabilities may be bad; sums of 32 bits; a reset takes its time |
| block, `device/block` | features | `new`, `read_blocks`, `write_blocks`, `flush`, `device_id` | disk caches, fails, loses power; a request may be lost and carried out later |
| console, `device/console` | `cursor`, `pending_len`, `receive_token`, one buffer | `recv`, `recv_block`, `ack_interrupt`, `send` | one buffer for all requests; two places consume the used ring |
| input and network receive, `device/input`, `device/net` | a buffer for each descriptor | `pop_pending_event`, `receive`, `receive_begin`, ... | buffers circulate; the token must stay the buffer's index |
| GPU, `device/gpu` | `rect`, two DMA regions; resources on the device | `setup_framebuffer`, `flush`, `setup_cursor`, `move_cursor` | five commands for one call, any of which may be refused, or be carried out after the call has returned |
| test kernel, `qemu/src` | locks, `noff`, `PACKAGE_IN`, `NET_BUF`, `NET_RES`, PLIC, timer | echo loop, interrupt handler, `push_off`, `pop_off`, `set_next_trigger` | handler interrupts the loop at any instruction; `wfi`; the timer's deadline is cut to 32 bits |

Memory ordering is modelled only where it matters to the protocol, in
`should_notify`: the other shared accesses are ordered by Release and Acquire or
by the fence in `add`. What is left out is listed under "Not modelled".

## Modules

| module | models | state and actions |
|---|---|---|
| `VirtQueue` | `VirtIoQueue` and a device | A variable for each field of the struct and each shared area. `add` is AddBegin, AddDesc (a turn of the loop), AddPush, AddPublish; `pop_used` is PopBegin, PopFind, PopWalk, PopAdvance, PopReturn. They are cut where shared memory is touched. `Abstract` is the refinement: a request is submitted with `avail.idx`, completed with `used.idx`, and popped when its element is marked. |
| `RequestQueue` | what a virtqueue promises | Requests and completions by token; no rings, no descriptors. |
| `MCVirtQueue` | instances | The requests of the runs. |
| `Notification` | who wakes whom | Rings are sequences of tokens. The initial state chooses a blocking or a polling client, and a machine with or without a store buffer; any `notify` may fail. |
| `ReceiveBuffers` | `VirtIOInput`, `VirtIONet` | Popping, copying and adding a buffer again are separate steps; the device writes at any moment. |
| `Console` | `VirtIOConsole` | One step for each part of `recv`, `recv_block` and `poll_retrieve`. The content of `queue_buf_rx` is the fill that wrote each place, and `returned` records which characters were consumed. |
| `Lifecycle` | `new`, error paths, drop | Each driver is a sequence of register and memory accesses taken from its `new` and Drop, for a legacy, a modern and a PCI device. An access is one step and may fail. |
| `DmaLayout` | offsets, sizes, allocator | Pure arithmetic and two allocation actions. |
| `DriverSetup` | the two together | It extends both, with names of its own for the composition (`SetupInit`, `SetupNext`, ...). Drivers of `Lifecycle` come and go and take their pages from the allocator of `DmaLayout`; the GPU's frame buffers too. |
| `Pci` | bus, capabilities, BARs, transport | The client scans the bus, sets BARs up and creates transports. A turn of a loop, and the writing and restoring of a BAR, are steps of their own; other devices interrupt in between. |
| `MCPci` | configuration spaces | Two that work, and one variation for each case the code has. |
| `Blk` | `VirtIOBlk` and a disk | A request is three steps: the call, the device, the response. A failed notification (NotifyError) keeps the descriptors of its request for ever, and the device may carry out a write of it at any later time (DevLateWrite); then `add` runs out of descriptors (QueueFull), or a later request finds an old element of the used ring (StalePop). |
| `Gpu` | `VirtIOGpu` and its device | A call is the list of commands it has still to send. A command is answered OK or with an error, finds its queue full, or is not notified and carried out late or never (DevLate). A region is dropped where Rust drops it; the HAL takes nothing back and gives nothing out twice. (`GpuInit`, `GpuNext` and `GpuSpec`, so that one module can extend `Blk` and `Gpu`.) |
| `MCDrivers` | instances of `Blk` and `Gpu` | One of the two runs; they share nothing. |
| `NetIrq` | echo loop, handler, timer | One step for each statement, with the locks and interrupt state of `mutex.rs`. The timer is armed, in the past, or never again. |

`VirtQueueProof`, `NotificationProof`, `ReceiveBuffersProof`, `ConsoleProof`,
`DriverSetupProof`, `PciProof`, `DriversProof` (`Blk` and `Gpu`) and `NetIrqProof`
hold the theorems.

The modules split the queue by question. `VirtQueue` shows that the rings
implement `RequestQueue`. `Notification`, `ReceiveBuffers`, `Console` and
`NetIrq` take a queue operation as one step on sequences of tokens. `Blk` and
`Gpu` take the wait of a blocking call, which `Notification` shows to end, as one
step, and its error returns as others. The devices are external: they do what the driver relies on, in any
order and at any speed.

## Runs that pass

| run | instance | shows |
|---|---|---|
| `virtqueue` | 2 descriptors, indices modulo 4 | The device sees the buffers that were submitted; `pop_used` returns the length of the right request; its assertions hold; calls return; refinement of `RequestQueue`. |
| `notification` | 3 tokens, blocking or polling, with or without a store buffer, failing `notify` | No lost notification, buffers outlive requests, blocking calls return, accepted requests are served, free descriptors are free. |
| `setup` | 6 drivers on a legacy, modern or PCI device, 4 allocations; any access of `blk`, `console`, `gpu`, `input` may fail | No access after free, DRIVER_OK only when set up, queues complete while live, device reset when the driver is gone, calls return; regions disjoint, areas fit, a legacy device agrees. |
| `receive` | 3 buffers, 5 packets, failing `notify` | Every packet taken once, whole, in order; buffers keep their tokens and none is lost. |
| `console` | answers of 1 to 3 characters, failing `notify` | What `recv` has still to return was received, is not overwritten and was not returned before, though two requests may share the buffer; `recv` and `ack_interrupt` return. |
| `netirq` | 2 descriptors, 4 packets | No unwrap or `pop_off` fails and the handler never waits for the loop's locks; masking nests; interrupts come back; the loop owns the buffer it sends; a timer that keeps interrupting ends every `wfi`. |
| `drivers` | 2 sectors, 2 values, 6 descriptors, a power loss; display of 1 or 2 pages, 3 regions; any command may be refused and any notification fail | Flushed data is durable, reads return the last write; the device reads memory that is the driver's and large enough; the screen shows the memory drawn in. |
| `pci` | 2 devices of 2 functions, one of them perhaps flawed; words of 13 bits | Enumeration is complete; BARs are as the client set them; the first structure of each kind is taken and lies in its BAR; an access reaches the device it is meant for; `new` returns. |

Where a property holds only under a condition, the condition is in the property,
so that the states it excludes are still explored; the hazards in `PROJECT.json`
say what is excluded.

- `NoLostKick` and `BlockingCallReturns` say nothing of a machine that delays
  stores, and with `RequestsAreServed` and `BuffersOutliveRequest` nothing of a
  client whose `notify` has failed.
- `SameTokenAgain`, `NothingLostOrTorn` and `EveryPacketTaken` speak of packets that
  are not shorter than the header.
- `RecvReturns` leaves out the one place where `recv(true)` does not come back by
  itself: it has the last character and `poll_retrieve` waits for the device to fill
  the next request, that is until somebody types. The comment at
  `console/mod.rs:118` promises not to block when no data has been received.
- `UnreadIsFresh` does not say that the characters belong to the answer whose length
  is recorded: after a failed `notify` they may be those of the other request.
- `RegionsInBars` and `ReachesOwnDevice` say nothing of a structure whose
  `offset + length` overflows, and `NewReturns` nothing of a capability list that
  leads back into itself.
- `TimerEndsWfi` speaks of a timer that is armed again and again.
- `ReadsLastWrite` is about reads that return `Ok`. "The last write" is the last
  that returned `Ok`, a later one that failed, or an earlier one that was lost and
  that the device may carry out last.

### Bounds

- *Index width.* The code has 2^16 indices; the runs have 4. What matters is
  that `SIZE` divides the modulus and is at most half of it, which
  `IdxModAssumption` states and `new` enforces. With 4 the indices wrap many
  times. Four descriptors are out of TLC's time (more than five million states);
  what `OwnershipInv` says is proved for every `SIZE`.
- *`WithinContract`* in `Notification` is a state constraint: a blocking client
  whose `notify` has failed is not followed further. It would leave requests on
  the used ring that nobody pops, without bound.
- *Packets.* 5 packets over 3 buffers use every buffer again. 4 packets over
  the echo loop cover a packet that arrives in each state of the loop.
- *Lengths* of packets are the header's and a longer one. A shorter one loses a
  buffer (see below).
- *`Faulty`* in `DriverSetup` names the drivers whose accesses may fail.
- *Allocations.* 4 regions are two drivers with two queues, or a driver and
  frame buffers; the theorems on the layout need no bound. The queue sizes are
  those of the drivers, the smallest and the largest that `new` accepts; the
  buffer lengths are one byte, a page and a byte more.
- *PCI.* 2 devices of 2 functions reach the carry from function to device and
  the end of both counters. A word has 13 bits, in which a BAR of 128 bytes, a
  BAR larger than a word and a sum that overflows are all possible.
- *GPU memory.* A call owns one region and the fields two.
- *Block queue.* 6 descriptors are two lost reads or writes, or three lost flushes;
  then the queue is full. One power loss: what is durable is compared before
  and after it. The theorems need neither bound.
- *Console.* Answers of 1 to 3 characters; a queue of 2 descriptors, as in the code.
- No symmetry is used.

`DrainFirst` in `VirtQueue` restricts the client to `add` when nothing was
popped out of order. The drivers here keep to it: a blocking call has one
request outstanding, and the receive paths pop what `peek_used` returns. A
client of `VirtIONetRaw` need not, and `virtqueue_stale` shows what happens.

Deadlock is checked except where the system may stop: after a panic (`setup`,
`drivers`, `pci`), and when the bound on packets or allocations is reached
(`netirq`, where the hart then sleeps, and `setup`).

### Fairness

A call that has begun is executed to its end, because the code never yields:
weak fairness of the steps of a call, never of its beginning. A device that has
been notified goes on until it has nothing to do (`Notification`), stops a
queue it was told to stop and completes a reset (`DriverSetup`), and sends
and interrupts (`NetIrq`). Of the console's device nothing is asked. Packets need not arrive.
`ReceiveBuffers` assumes in addition that the client keeps calling. The hart
takes an interrupt that is pending and enabled. Nothing in `Pci` waits, and only
the steps of its calls are fair.

The echo loop has strong fairness: a step of it is disabled while the handler
runs, and enabled again when it returns. This excludes an interrupt storm in
which the loop never executes an instruction. The timer's interrupts are a tenth
of a second apart, and the device has one buffer to interrupt for.

## Runs that show a disagreement

Each checks one property that states a comment, an assertion or a test of the
repository. The findings in `PROJECT.json` quote the line.

| run | what happens |
|---|---|
| `virtqueue_stale` | A client pops out of order and adds again: an element already popped is found once more for a later request with the same token. |
| `console_block` | `poll_retrieve` pops the answer and then records token 0 as outstanding: characters are lost and `recv_block` does not return. |
| `console_shared` | A failed `notify` leaves a request in the queue and `receive_token` None: the next `poll_retrieve` adds a second request for the same buffer. |
| `netirq_echo` | An interrupt between the test of `PACKAGE_IN` and `wfi` is slept through. A timer that keeps interrupting repairs this (`TimerEndsWfi`), but not an interrupt that is raised between the handler's look at the queue and its acknowledgement, which the property does not survive either. |

Other places where the code and what is said of it differ were met while
modelling. No run is kept for them; the conditions in the properties, the
constants of the runs and the hazards in `PROJECT.json` reflect them:

- without a full fence between the store of `avail.idx` and the load of
  `used.flags` a blocking call may wait for ever (`store_buffer`);
- a failed `notify` makes `add_notify_wait_pop` return while the device has the
  request (`failed`);
- `VirtIONet::new` frees receive buffers before the device is reset, and
  `VirtIONetRaw::new` ignores an error of `begin_init` (`Faulty` leaves out the
  network drivers);
- `PciTransport::new` adds `offset` and `length` in 32 bits, and does not end on a
  capability list that leads back into itself; the sums of capability offsets in
  a `u8` assume that a capability ends within the 256 bytes;
- the timer's deadline is cut to 32 bits and sign-extended, so that some minutes
  after power-on it is set to the past or to never;
- if the second queue of a driver cannot be set up, the first is freed with its
  address in the registers; FEATURES_OK is not read back;
- a packet shorter than the header costs a buffer and later fails an assertion
  (`WholePackets`); `can_recv` returns the length of the buffer;
- `align_up(4096)` is 8192;
- the block driver's `readonly` is always false, a resize between the two reads
  of the capacity is not noticed, and debug builds panic on a disk error;
- after a lost request the block driver's calls end in QueueFull, or, once another
  was popped, take an old element for their own (StalePop);
- a refused or lost SET_SCANOUT drops a frame buffer the device still has. This does
  no harm only because `Page` has no Drop and the allocator gives nothing out twice;
  a second `setup_framebuffer` after a resize makes `flush` fail.

## Proofs

Every safety property of a passing run is proved for every value of the constants,
in the form the run checks; where a theorem has a hypothesis, it is named below.

**VirtQueueProof**, for every `SIZE`, index width, set of buffers and requests,
and for a client that does anything. `DescriptorsPartitioned` is not inductive:
`pop_used` frees the descriptors it finds by following `next`, so that the
invariant has to know that the table links every chain as it was built. The
inductive `OwnershipInv` adds this (`ChainsLinked`), that a chain is filed under
its head (`TokensAreHeads`), and where a call stands (`CallInv`). It says with
positions, not sets, that free list, chain under construction and chains are
disjoint, each without repetition, and cover the table. One step of the proof
for each action; `DescriptorsNeverSharedOrLost` and `TypeCorrect` follow.

Its second half is about the rings, for every order in which the device
finishes, if the client keeps to `DrainFirst` (a hypothesis of each theorem;
`virtqueue_stale` is the counterexample without it). The invariant `RingInv`
describes every slot between two indices: the heads in the available ring are
distinct and belong to requests the device has not begun (`AvailInv`); the chain
being walked has shown a prefix of its request's buffers (`WalkInv`,
`ContentInv`); the used ring between `last_seen_used` and `used.idx` holds
distinct tokens, each popped already, and then marked in `poped_used`, or
finished with the reported length (`UsedInv`). That neither ring is overrun is a
pigeonhole: a slot is written only for a token that is not among those in the
ring, so that they are fewer than `SIZE`. `DrainFirst` is needed just once, when
`add` gives a token out again: no element that carries it may still be in the
scanned part. From `RingInv` follow `RingsNeverOverrun`,
`DeviceAlwaysSeesRequest`, `SeenCanAlwaysBePopped` and `PopsOnlyWhatDeviceUsed`.

`QueueImplemented` is the refinement: under `RingInv`, that finished requests are
found in the used ring (`FinishedInv`) and that only a chain being freed belongs
to no request (`ClientInv`), the length that the refinement mapping reads off the
shared memory is what the device reported (`CompletedIs`), the buffers in use
are what is not on the free list (`InUseCount`), and every step is one of
`RequestQueue` or leaves it alone (`StepRefines`).

**NotificationProof**, for any set of tokens and with no assumption.
`KickNeverLost` is `NoLostKick`, which speaks of executions without delayed
stores and failed notifications; without these conditions it is false. The
inductive `WakeInv` adds that the flag is clear while the device sleeps or is
about to look again. `FreeAlwaysFree` and `BuffersAlwaysOutlive` rest on `OwnInv`:
unless a blocking client's `notify` has failed (`WithinContract`), a token is in one
place at a time, on the free list, in the store buffer or the available ring, with
the device or in the used ring (`Places`), and a blocking client has no request but
the one it waits for (`OneRequest`). Delayed stores change nothing here.

**ReceiveBuffersProof**, for any number of buffers and packets, if no packet is
shorter than the header (`WholePackets`). The invariant is that the free list is
empty between calls and holds just the popped token during one, that buffer i is
under descriptor i, and that used elements are distinct and not posted
(`RingInv`); `PacketInv` adds where each packet is. Failing notifications are
included: the packet is then counted as taken, though the call returns the error.

**ConsoleProof**, for answers of any length. The queue has two tokens, so that
free list and used ring have few shapes; `QueueIs(F, U)` names the sets of tokens
in them and says that a token is free, posted or used. The point of the invariant
is that data is unread only while nothing is posted or used, although both tokens
share the buffer; a failed `notify` leaves a request posted, but only when nothing
is unread. `ReceivedInv` adds the content: the places of every answer in the used
ring, and the rest of the one being read, were filled after anything that was
returned. `UnreadAlwaysFresh` follows.

**DriverSetupProof**, for every page-aligned base and even queue size: the
allocator of `DmaLayout` keeps regions disjoint, the areas of a queue fit, and a
legacy device agrees. The last holds although `align_up` is not tight, because
16 n + 2 (n + 3) is never a multiple of 4096 for even n. `SetupImplementsLayout`
shows that drivers that come and go with errors implement this specification, so
that the three statements hold of them.

`SetupImplementsLifecycle` does the same for `Lifecycle`, whose properties are
proved for every set of drivers and every access that may fail
(`NeverAccessAfterFree`, `AlwaysRunsSetUp`, `LiveQueuesComplete`,
`HandoverAlwaysClean`). A driver is a list of accesses, so the inductive `LifeInv`
speaks of those the call has left: they are in the order in which `new` makes them
(`Ordered`), the queue selected is the one they are about (`Selected`), what they
will have written when they are done is a queue set up as it should be (`NewInv`),
and in a drop or an unwinding a reset comes before anything is freed that the
device can reach (`DropInv`). The hypothesis is that no network driver is in
`Faulty`. It is needed: `VirtIONet::new` frees its buffers before the reset when
it fails, and `VirtIONetRaw::new` goes on after an error of `begin_init`.

**NetIrqProof**, for every queue size and number of packets. `IrqInv` says which
locks the loop and the handler hold at each statement, that `noff` is their
number and that `interrupt_enable` records who took the outermost (`LockInv`),
and follows the one buffer through queue, `NET_BUF` and `NET_RES` (`BufferInv`).
It implies `NeverStuck`, `MaskedWhileLocked` and `LoopOwnsBuffer`.

**PciProof**, for every bus that satisfies the assumptions on `Buses`, whatever else
is in its capabilities. The assumptions are about the hardware and the client: sizes
of BARs divide the address space (`SizesAssumption`); a capability leads to a
capability and names a BAR that is not the upper half of another, where
`PciTransport::new` takes any byte (`CapabilitiesAssumption`); it ends within the 256
bytes of configuration space, so that no sum in a `u8` overflows
(`ConfigSpaceAssumption`); and the addresses that the client has are large enough for
the BARs (`AddressesAssumption`).

- `BarsAlwaysKept`: `BarInv` adds to `BarsKept` that what `bar_info` is about to
  restore is what the client has written.
- `EnumerationAlwaysComplete`: what was found is what answers before `next`, in
  order and each once (`ScanInv`).
- `RegionsAlwaysInBars`: `bar_info` computes the size of the BAR from what it reads
  back (`MeasuredSize`), so that what `get_bar_region` accepts lies in it
  (`AcceptedInBar`); `RegionInv` carries this from the measurement to the
  transport, whose BARs nobody writes any more.
- `AlwaysReachesOwnDevice`, the action property `ReachesOwnDevice`, if no
  `offset + length` overflows (`SumsFit`): the client's addresses are slots of
  their own (`IndexInjective`), a BAR that is being measured answers at the end of
  the 32-bit addresses or under the upper word it has to itself (`BasePlace`), and
  so no other function answers to an address of a transport (`NoOtherAnswers`).
- `AlwaysFirstOfEachKind`: the walk is at a position of the list and has taken the
  first of each kind before it (`FirstInv`). That the list is defined, and leads
  back if it does not end within as many steps as there are capabilities, is shown
  by induction over its positions. The library's induction theorems cannot be
  used, so `SetInduction` derives one for sets from the least element of a set of
  natural numbers, and each use names its set.
- `CamOffsetsDistinct` is about `cam_offset` alone: every register of every
  function has an aligned offset of its own.

**DriversProof**, the block driver, for every set of sectors and contents, every
queue size and any number of power losses and failed notifications. `DiskInv`
relates disk and cache to what the calls have returned: without the feature nothing
is cached (`WriteThrough`), a lost write is among what reads may return (`LateInv`),
a write in progress knows the lost ones that may come after it (`PendingInv`), and a
request that the device has answered with OK has been done (`RequestInv`). It
implies `FlushIsDurable` and `ReadsLastWrite`.

The GPU, for every set of display sizes, of less than 2^32 bytes
(`DisplayBytesAssumption`: `setup_framebuffer` multiplies in a `u32`), and number of
regions. A call is the rest of its commands, so `GpuInv` says for each position in
`setup_framebuffer` and `setup_cursor` what the resource has and which region is the
call's (`FrameBufferAt`, `CursorAt`), that fields and call have regions of their own
(`Owned`), that the device has what the fields hold (`Shown`), that a backing is
large enough and is in a field, in the call or was dropped (`Reachable`), and that a
command left behind fills its queue, so that no other overtakes it, and attaches
a dropped region that is large enough (`Behind`). It implies
`DeviceReadsOwnMemory` and `DrawsOnScreen`.

The assumptions on constants are named in the modules that declare them, and
TLC evaluates them in the runs.

Only model-checked is liveness, which is out of the prover's reach: `CallsReturn`
of `VirtQueue` and of `DriverSetup`, `BlockingCallReturns`, `RequestsAreServed`,
`EveryPacketTaken`, `RecvReturns`, `InterruptsComeBack`, `TimerEndsWfi` and
`NewReturns`; and so are the counterexamples.

## Not modelled

- The TCP echo server: its one call is commented out, and its state is smoltcp's.
- `old_test.rs`, which tests another crate; boot, console output, logging.
- The network driver's `can_recv` (which returns the length of the buffer,
  though its comment says the packet's), `receive_wait`, `transmit_begin` and
  `transmit_complete`, and the checks of header lengths. `receive_wait` is a
  blocking call as in `Notification`, a transmission an `add` and a `pop_used` as
  in `VirtQueue`.
- The block driver's capacity, which `new` reads in two accesses and only a
  getter looks at, and `readonly`. What the compiler makes of the response
  variable, which the device writes through its address, is not modelled either:
  the model takes the load after the wait to see what the device wrote.
- What the device finds in the headers of a lost request, which are on a stack that
  is gone, and where it writes the answer to it: `Blk` and `Gpu` take a late request
  to be carried out as it was sent.
- What the rings are after StalePop: `VirtQueue` follows them, `Blk` stops until the
  machine restarts.
- The input driver's `query_config_select`, and the console's `info`: they access
  the configuration space and change no state of the driver.
- That the page of a new queue is zeroed is assumed, and FEATURES_OK, which the
  code does not read back, is never refused.

## Plan

1. Compose `Console` and `ReceiveBuffers` over `RequestQueue` by INSTANCE, in
   place of their own sequences: `QueueImplemented` justifies it.
2. Model the transmit path of the raw network driver and `query_config_select`.
