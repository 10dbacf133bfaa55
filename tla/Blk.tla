-------------------------------- MODULE Blk --------------------------------
(***************************************************************************)
(* VirtIOBlk: negotiation in `new`, and the requests read_blocks,          *)
(* write_blocks, flush and device_id, against a disk that may cache        *)
(* writes, fail requests and lose power.                                   *)
(*                                                                         *)
(* Every call blocks in add_notify_wait_pop (module Notification), so a    *)
(* request is three steps: the call, the device, the response.  When the   *)
(* notification fails the call returns and its request stays in the queue; *)
(* the device may carry it out later, as it was sent (its header is on a   *)
(* stack that is gone, and the buffer of a read is looked at no more).  A  *)
(* sector's content is one value.                                          *)
(***************************************************************************)
EXTENDS Integers, FiniteSets

CONSTANTS
  Sector, Value,  \* sectors of the disk and what they may hold
  Offers,         \* feature sets the device may offer
  Builds,         \* whether debug assertions are compiled in
  QUEUE_SIZE,     \* descriptors of the queue (16 in the code)
  MaxLosses       \* bound on the number of power losses

NotCached == -1

ASSUME ValueAssumption == 0 \in Value /\ NotCached \notin Value
ASSUME OffersAssumption == Offers \subseteq SUBSET {"RO", "FLUSH"}
ASSUME MaxLossesAssumption == MaxLosses \in Nat
ASSUME SectorAssumption == Sector # {}
ASSUME BuildsAssumption == Builds \subseteq BOOLEAN
ASSUME QueueSizeAssumption == QUEUE_SIZE \in Nat

VARIABLES
  pc, req,             \* the call in progress
  resp,                \* BlkRespStatus
  data,                \* what a read has put in the caller's buffer
  ret,                 \* what the last call returned
  negotiated_features,
  debug,               \* the build has debug assertions
  free,                \* descriptors that no lost request holds
  stale,               \* a request was popped after one was lost
  offered, disk, cache,   \* the device
  late,                \* lost writes that it has not carried out
  written,             \* history: what a read of each sector may return
  durable,             \* history: what each sector may hold after a power loss
  pending,             \* history: what late writes of its sector the request overtakes
  losses               \* number of power losses

driver == <<negotiated_features, debug>>
queue == <<free, stale, late>>
device == <<offered, disk, cache>>
history == <<written, durable, pending, losses>>
vars == <<pc, req, resp, data, ret, driver, queue, device, history>>

SUPPORTED_FEATURES == {"FLUSH"}
\* Between two calls.
NoReq == [type |-> "none", sector |-> CHOOSE s \in Sector : TRUE, value |-> 0]

Init ==
  /\ pc = "begin_init" /\ req = NoReq /\ resp = "NOT_READY" /\ data = 0 /\ ret = "Ok"
  /\ negotiated_features = {} /\ debug \in Builds /\ offered \in Offers
  /\ disk = [s \in Sector |-> 0] /\ cache = [s \in Sector |-> NotCached]
  /\ written = [s \in Sector |-> {0}] /\ durable = [s \in Sector |-> {0}]
  /\ free = QUEUE_SIZE /\ stale = FALSE /\ late = {} /\ pending = {}
  /\ losses = 0

-----------------------------------------------------------------------------
(* VirtIOBlk::new *)

\* `new`.  The two reads of the capacity, which no request looks at, and the
\* making of the queue (module Lifecycle) are left out.
BeginInit ==
  /\ pc = "begin_init"
  /\ negotiated_features' = offered \cap SUPPORTED_FEATURES
  /\ pc' = "ready"
  /\ UNCHANGED <<req, resp, data, ret, debug, queue, device, history>>

-----------------------------------------------------------------------------
(* The calls *)

\* The descriptors of a request: header, status and, but for a flush, data.
Descriptors(type) == IF type = "Flush" THEN 2 ELSE 3

\* request, request_read and request_write: the response is NOT_READY until the
\* device writes another.
Request(type, s, v) ==
  /\ pc = "ready" /\ free >= Descriptors(type)
  /\ req' = [type |-> type, sector |-> s, value |-> v]
  /\ resp' = "NOT_READY"
  /\ pc' = "requested"
  /\ pending' = {e.value : e \in {x \in late : x.sector = s}}
  /\ UNCHANGED <<data, ret, driver, queue, device, losses>>

\* The id the device answers with is not modelled.
device_id == Request("GetId", NoReq.sector, 0) /\ UNCHANGED <<written, durable>>

read_blocks(s) == Request("In", s, 0) /\ UNCHANGED <<written, durable>>

\* From here on a read after a failed write, and the disk after a power loss,
\* may show the new value.
write_blocks(s, v) ==
  /\ Request("Out", s, v)
  /\ written' = [written EXCEPT ![s] = @ \cup {v}]
  /\ durable' = [durable EXCEPT ![s] = @ \cup {v}]

\* Mutant of Flushes: the test of the feature is inverted.
FlushesNot == "FLUSH" \notin negotiated_features

\* flush sends a request only if the feature was negotiated.
Flushes == "FLUSH" \in negotiated_features

\* What a successful flush promises: the content that reads would return.
Promise == durable' = written

flush ==
  /\ pc = "ready"
  /\ IF Flushes
     THEN Request("Flush", NoReq.sector, 0) /\ UNCHANGED <<written, durable>>
     ELSE /\ ret' = "Ok" /\ Promise
          /\ UNCHANGED <<pc, req, resp, data, driver, queue, device, written, pending, losses>>

\* `add` finds too few descriptors for the request.
QueueFull ==
  /\ pc = "ready"
  /\ \/ free < Descriptors("In")
     \/ free < Descriptors("Flush") /\ Flushes
  /\ ret' = "QueueFull"
  /\ UNCHANGED <<pc, req, resp, data, driver, queue, device, history>>

\* The call is over, and its locals with it.
Return(res) ==
  /\ pc' = "ready" /\ ret' = res
  /\ req' = NoReq /\ resp' = "NOT_READY" /\ pending' = {}

\* The request in progress will be carried out after its call is over.
BecomesLate ==
  late' = late \cup IF pc = "requested" /\ req.type = "Out"
                    THEN {[sector |-> req.sector, value |-> req.value, id |-> free]} ELSE {}

\* `?` on the notification, which a device that polls the queue does not wait for:
\* the call returns and the descriptors of its request never come back.
NotifyError ==
  /\ pc \in {"requested", "used"}
  /\ BecomesLate
  /\ free' = free - Descriptors(req.type)
  /\ Return("IoError")
  /\ UNCHANGED <<data, driver, stale, device, written, durable, losses>>

\* After a lost request the used ring may hold elements popped before, and one of them
\* may have the token of the request in progress.  The call returns NotReady, or panics,
\* and its descriptors are free while the device has them; the model stops there
\* (module VirtQueue goes on) until the machine restarts.
StalePop ==
  /\ pc = "requested" /\ stale
  /\ BecomesLate
  /\ pc' = "unsound" /\ ret' = "NotReady"
  /\ UNCHANGED <<req, resp, data, driver, free, stale, device, history>>

\* Mutant of Into: everything but IO_ERR is taken for success.
IntoLenient(status) == IF status = "IO_ERR" THEN "IoError" ELSE "Ok"

\* From<BlkRespStatus> for VirtIoResult<()>
Into(status) ==
  CASE status = "OK" -> "Ok"
    [] status = "UNSUPPORTED" -> "Unsupported"
    [] status = "NOT_READY" -> "NotReady"
    [] OTHER -> "IoError"

\* debug_assert_eq!(resp, BlkRespStatus::OK)
Asserted == debug => resp = "OK"

AssertFails ==
  /\ pc = "used" /\ ~Asserted
  /\ pc' = "panicked"
  /\ UNCHANGED <<req, resp, data, ret, driver, queue, device, history>>

\* add_notify_wait_pop is back and the status is converted.
Respond ==
  /\ pc = "used" /\ Asserted
  /\ Return(Into(resp))
  /\ IF Into(resp) = "Ok"
     THEN CASE req.type = "Out" ->
                 /\ written' = [written EXCEPT ![req.sector] = {req.value} \cup pending]
                 /\ UNCHANGED durable
            [] req.type = "Flush" -> Promise /\ UNCHANGED written
            [] OTHER -> UNCHANGED <<written, durable>>
     ELSE UNCHANGED <<written, durable>>
  /\ stale' = (stale \/ free # QUEUE_SIZE)
  /\ UNCHANGED <<data, driver, free, late, device, losses>>

-----------------------------------------------------------------------------
(* The device (external).  If FLUSH was negotiated it may keep writes in a   *)
(* cache until a flush; otherwise it writes through.  A request may fail,    *)
(* a write even after it was carried out.                                    *)

Content(s) == IF cache[s] = NotCached THEN disk[s] ELSE cache[s]

Store(s, v) ==
  /\ "RO" \notin offered
  /\ IF "FLUSH" \in negotiated_features
     THEN cache' = [cache EXCEPT ![s] = v] /\ UNCHANGED disk
     ELSE disk' = [disk EXCEPT ![s] = v] /\ UNCHANGED cache

DevFail ==
  /\ pc = "requested"
  /\ resp' \in {"IO_ERR", "UNSUPPORTED", "other"}
  /\ pc' = "used"
  /\ UNCHANGED <<disk, cache>> \/ (req.type = "Out" /\ Store(req.sector, req.value))
  /\ UNCHANGED <<req, data, ret, driver, queue, offered, history>>

DevServe ==
  /\ pc = "requested"
  /\ resp' = "OK" /\ pc' = "used"
  /\ CASE req.type = "In" -> data' = Content(req.sector) /\ UNCHANGED <<disk, cache>>
       [] req.type = "Out" -> Store(req.sector, req.value) /\ UNCHANGED data
       [] req.type = "GetId" -> UNCHANGED <<data, disk, cache>>
       [] OTHER -> /\ disk' = [s \in Sector |-> Content(s)]
                   /\ cache' = [s \in Sector |-> NotCached] /\ UNCHANGED data
  /\ UNCHANGED <<req, ret, driver, queue, offered, history>>

DevEvict(s) ==
  /\ cache[s] # NotCached
  /\ disk' = [disk EXCEPT ![s] = cache[s]] /\ cache' = [cache EXCEPT ![s] = NotCached]
  /\ UNCHANGED <<pc, req, resp, data, ret, driver, queue, offered, history>>

\* The device comes to a write whose call is over.
DevLateWrite ==
  /\ \E e \in late : late' = late \ {e} /\ (Store(e.sector, e.value) \/ UNCHANGED <<disk, cache>>)
  /\ UNCHANGED <<pc, req, resp, data, ret, driver, free, stale, offered, history>>

\* The machine loses power and the driver starts again.
PowerLoss ==
  /\ losses < MaxLosses
  /\ losses' = losses + 1
  /\ cache' = [s \in Sector |-> NotCached]
  /\ written' = durable
  /\ pc' = "begin_init" /\ req' = NoReq /\ resp' = "NOT_READY" /\ data' = 0 /\ ret' = "Ok"
  /\ negotiated_features' = {}
  /\ free' = QUEUE_SIZE /\ stale' = FALSE /\ late' = {} /\ pending' = {}
  /\ UNCHANGED <<debug, offered, disk, durable>>

DriverStep ==
  \/ BeginInit \/ Respond \/ AssertFails
  \/ QueueFull \/ NotifyError \/ StalePop

Next ==
  \/ DriverStep
  \/ \E s \in Sector : read_blocks(s)
  \/ \E s \in Sector, v \in Value : write_blocks(s, v)
  \/ flush \/ device_id
  \/ DevFail \/ DevServe \/ DevLateWrite \/ PowerLoss
  \/ \E s \in Sector : DevEvict(s)

Spec == Init /\ [][Next]_vars

-----------------------------------------------------------------------------
(* Properties *)

\* A read that returns Ok has put the last value written in the buffer: the one
\* of the last write that returned Ok, of a later one that failed, or of an earlier
\* one whose notification failed and which the device came to afterwards.
ReadsLastWrite ==
  [][(pc = "used" /\ pc' = "ready" /\ req.type = "In" /\ ret' = "Ok")
       => data \in written[req.sector]]_vars

\* What flush made durable survives a power loss: a sector holds the value it
\* had at the last flush that returned Ok, or one written since, or a write whose
\* notification failed before it.
FlushIsDurable == \A s \in Sector : disk[s] \in durable[s]

=============================================================================
