---------------------------- MODULE DriverSetup ----------------------------
(***************************************************************************)
(* Drivers that come and go (Lifecycle) on the memory of the test kernel   *)
(* (DmaLayout): VirtIoQueue::new takes the pages of a queue with           *)
(* H::dma_alloc, and setup_framebuffer those of the frame buffer with      *)
(* H::dma_alloc_buf.  A dropped driver's pages are not used again.         *)
(***************************************************************************)
EXTENDS Lifecycle, DmaLayout

VARIABLE
  size   \* SIZE of the queues

ASSUME DriversAssumption == Drivers \subseteq AllDrivers /\ Drivers # {}
ASSUME FaultyAssumption == Faulty \subseteq Drivers

all == <<vars, layout, size>>

SetupInit == LayoutInit /\ Init /\ size \in Sizes

\* A new driver is not started when the bound on allocations has been reached.
SetupNew ==
  /\ Cardinality(regions) + Cardinality(Queues) <= MaxRegions
  /\ CallNew /\ UNCHANGED <<layout, size>>

SetupDrop == CallDrop /\ UNCHANGED <<layout, size>>

\* The buffers of VirtIOInput and VirtIONet are on the heap.
SetupAlloc ==
  /\ AllocRegion
  /\ IF Arg \in Queue THEN dma_alloc(size) ELSE UNCHANGED layout
  /\ UNCHANGED size

FrameBuffer(len) ==
  /\ pc = "running" /\ driver = "gpu"
  /\ dma_alloc_buf(len)
  /\ UNCHANGED <<vars, size>>

SetupAccess == SetupAlloc \/ (DriverAccess /\ UNCHANGED <<layout, size>>)
SetupError == IoError /\ UNCHANGED <<layout, size>>
SetupDevice == DeviceStep /\ UNCHANGED <<layout, size>>

SetupNext ==
  \/ SetupNew \/ SetupDrop \/ SetupAccess \/ SetupError \/ SetupDevice
  \/ \E len \in BufLens : FrameBuffer(len)

SetupSpec == SetupInit /\ [][SetupNext]_all

\* A call goes on until it returns, with or without errors; the device stops a
\* queue it was told to stop, and completes a reset.  Nobody has to call `new`
\* or drop a driver.
FairSpec == SetupSpec /\ WF_all(SetupAccess) /\ WF_all(SetupDevice)

-----------------------------------------------------------------------------
(* The safety properties are those of Lifecycle and of DmaLayout, with both   *)
(* in place.                                                                  *)

\* `new` and drop come back, whatever fails: queue_unset and PciTransport::drop
\* do not wait for ever.
CallsReturn == pc \in {"new", "drop", "unwind"} ~> pc \in {"none", "running", "panicked"}

=============================================================================
