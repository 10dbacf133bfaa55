----------------------------- MODULE DriversProof -----------------------------
(***************************************************************************)
(* Proofs about the two drivers whose calls wait for the device, the block *)
(* driver (Blk) and the GPU (Gpu).  No theorem speaks of both.             *)
(***************************************************************************)
EXTENDS Blk, Gpu, SequenceTheorems, TLAPS

-----------------------------------------------------------------------------
(* The block driver *)

(* The inductive invariant. *)

Typed(q) ==
  /\ q.sector \in Sector /\ q.value \in Value
  /\ q.type \in {"none", "In", "Out", "Flush", "GetId"}

Types ==
  /\ DOMAIN disk = Sector /\ DOMAIN cache = Sector
  /\ DOMAIN written = Sector /\ DOMAIN durable = Sector
  /\ Typed(req)

\* The disk, and what reads return, are accounted for.
ContentInv ==
  \A s \in Sector :
    /\ disk[s] \in durable[s] /\ Content(s) \in written[s]
    /\ written[s] \subseteq durable[s]

\* Without the feature, and before it is negotiated, nothing is cached, and flush
\* need not be sent.
WriteThrough ==
  /\ pc = "begin_init" => negotiated_features = {}
  /\ "FLUSH" \notin negotiated_features => \A s \in Sector : cache[s] = NotCached

\* A lost write counts among what reads may return, until it is carried out or
\* power is lost.
LateInv ==
  \A e \in late : e.sector \in Sector /\ e.value \in Value /\ e.value \in written[e.sector]

\* The write in progress knows the lost ones that the device may carry out after it.
PendingInv ==
  (pc \in {"requested", "used"} /\ req.type = "Out") =>
    /\ {req.value} \cup pending \subseteq written[req.sector]
    /\ \A e \in late : e.sector = req.sector => e.value \in pending

\* What the request in progress has done, when its response says so.
RequestInv ==
  (pc = "used" /\ resp = "OK") =>
    /\ req.type = "In" => data \in written[req.sector]
    /\ req.type = "Out" => Content(req.sector) \in {req.value} \cup pending
    /\ req.type = "Flush" => \A s \in Sector : disk[s] \in written[s]

DiskInv == Types /\ ContentInv /\ WriteThrough /\ LateInv /\ PendingInv /\ RequestInv

-----------------------------------------------------------------------------
\* Between two calls.
LEMMA NoRequest == Typed(NoReq)
  BY ValueAssumption, SectorAssumption DEF Typed, NoReq

\* The disk at first.
LEMMA InitDisk == Init => DiskInv
  BY ValueAssumption, SectorAssumption
  DEF Init, DiskInv, Types, Typed, ContentInv, WriteThrough, LateInv, PendingInv, RequestInv, Content, NoReq

\* From<BlkRespStatus>: only OK is success.
LEMMA OnlyOk == ASSUME NEW status, Into(status) = "Ok" PROVE status = "OK"
  BY Zenon DEF Into

\* A new request, which changes what a sector may hold if it is a write.
LEMMA RequestDisk ==
  ASSUME DiskInv, NEW type \in {"In", "Out", "Flush", "GetId"}, NEW s \in Sector, NEW v \in Value,
         Request(type, s, v),
         IF type = "Out"
         THEN /\ written' = [written EXCEPT ![s] = @ \cup {v}]
              /\ durable' = [durable EXCEPT ![s] = @ \cup {v}]
         ELSE UNCHANGED <<written, durable>>
  PROVE  DiskInv'
<1>1. /\ UNCHANGED <<disk, cache, negotiated_features, late>>
      /\ req' = [type |-> type, sector |-> s, value |-> v]
      /\ resp' = "NOT_READY" /\ pc' = "requested"
      /\ pending' = {e.value : e \in {x \in late : x.sector = s}}
  BY Zenon DEF Request, driver, queue, device
<1>2. Types'
  BY <1>1, Zenon DEF DiskInv, Types, Typed
<1>3. ContentInv'
  BY <1>1 DEF DiskInv, Types, Typed, ContentInv, Content
<1>4. WriteThrough'
  BY <1>1, Zenon DEF DiskInv, WriteThrough
<1>5. RequestInv'
  BY <1>1, Zenon DEF RequestInv
<1>6. (\A t \in Sector : written[t] \subseteq written'[t]) /\ (type = "Out" => v \in written'[s])
  <2>0. DOMAIN written = Sector
    BY Zenon DEF DiskInv, Types, Typed
  <2>1. CASE type = "Out"
    <3>1. written' = [written EXCEPT ![s] = @ \cup {v}]
      BY <2>1, Zenon
    <3> QED
      BY <2>0, <3>1, Zenon
  <2>2. CASE type # "Out"
    <3>1. written' = written
      BY <2>2
    <3> QED
      BY <2>2, <3>1, Zenon
  <2> QED
    BY <2>1, <2>2, Zenon
<1>7. LateInv'
  BY <1>1, <1>6, Zenon DEF DiskInv, LateInv
<1>8. pending' \subseteq written'[s] /\ \A e \in late' : e.sector = s => e.value \in pending'
  BY <1>1, <1>6, Zenon DEF DiskInv, LateInv
<1>9. PendingInv'
  <2>2. req'.type = type /\ req'.sector = s /\ req'.value = v
    BY <1>1, Zenon
  <2> QED
    BY <1>6, <1>8, <2>2, Zenon DEF PendingInv
<1> QED
  BY <1>2, <1>3, <1>4, <1>5, <1>7, <1>9, Zenon DEF DiskInv

\* flush promises what reads would return, and the disk holds it.
LEMMA PromiseKept ==
  ASSUME DiskInv, \A s \in Sector : disk[s] \in written[s], Promise,
         UNCHANGED <<disk, cache, written>>
  PROVE  ContentInv' /\ DOMAIN durable' = Sector
  BY Zenon DEF DiskInv, Types, Typed, ContentInv, Content, Promise

\* The device stores what it was sent.
LEMMA StoreDisk ==
  ASSUME DiskInv, NEW t \in Sector, NEW v \in Value, v \in written[t], Store(t, v),
         UNCHANGED <<written, durable>>
  PROVE  /\ DOMAIN disk' = Sector /\ DOMAIN cache' = Sector
         /\ ContentInv' /\ Content(t)' = v
         /\ \A s \in Sector \ {t} : Content(s)' = Content(s)
         /\ \A s \in Sector : disk'[s] \in {disk[s], v} /\ (s # t => disk'[s] = disk[s])
         /\ "FLUSH" \notin negotiated_features => \A s \in Sector : cache'[s] = NotCached
<1>1. v # NotCached
  BY ValueAssumption, Zenon
<1>2. CASE "FLUSH" \in negotiated_features
  <2>1. cache' = [cache EXCEPT ![t] = v] /\ disk' = disk
    BY <1>2, Zenon DEF Store
  <2> QED
    BY <1>1, <1>2, <2>1, Zenon DEF DiskInv, Types, ContentInv, Content
<1>3. CASE "FLUSH" \notin negotiated_features
  <2>1. disk' = [disk EXCEPT ![t] = v] /\ cache' = cache /\ \A s \in Sector : cache[s] = NotCached
    BY <1>3, Zenon DEF Store, DiskInv, WriteThrough
  <2> QED
    BY <2>1, Zenon DEF DiskInv, Types, ContentInv, Content
<1> QED
  BY <1>2, <1>3, Zenon

\* The request in progress, whichever way its call ends.
LEMMA LostDisk ==
  ASSUME DiskInv, pc \in {"requested", "used"}, pc' \in {"ready", "unsound"}, BecomesLate,
         req' \in {req, NoReq},
         UNCHANGED <<disk, cache, written, durable, negotiated_features>>
  PROVE  DiskInv'
<1>0. Typed(req')
  BY NoRequest, Zenon DEF DiskInv, Types
<1>1. Types' /\ ContentInv' /\ WriteThrough'
  BY <1>0, Zenon DEF DiskInv, Types, Typed, ContentInv, Content, WriteThrough
<1>2. PendingInv' /\ RequestInv'
  BY Zenon DEF PendingInv, RequestInv
<1>3. ASSUME NEW e \in late'
      PROVE  e.sector \in Sector /\ e.value \in Value /\ e.value \in written'[e.sector]
  <2>1. CASE e \in late
    BY <2>1, Zenon DEF DiskInv, LateInv
  <2>2. CASE e \notin late
    <3>1. req.type = "Out" /\ e = [sector |-> req.sector, value |-> req.value, id |-> free]
      BY <1>3, <2>2, Zenon DEF BecomesLate
    <3>2. e.sector = req.sector /\ e.value = req.value
      BY <3>1, Zenon
    <3>3. req.sector \in Sector /\ req.value \in Value /\ req.value \in written[req.sector]
      BY <3>1, Zenon DEF DiskInv, Types, Typed, PendingInv
    <3> QED
      BY <3>2, <3>3, Zenon
  <2> QED
    BY <2>1, <2>2, Zenon
<1> QED
  BY <1>1, <1>2, <1>3, Zenon DEF DiskInv, LateInv

\* Every step keeps the invariant of the disk.
LEMMA NextDisk == DiskInv /\ [Next]_vars => DiskInv'
<1> SUFFICES ASSUME DiskInv, [Next]_vars PROVE DiskInv'
  BY Zenon
<1>1. CASE BeginInit
  BY <1>1, Zenon DEF BeginInit, queue, device, history, DiskInv, Types, Typed, ContentInv, WriteThrough,
    LateInv, PendingInv, RequestInv, Content, SUPPORTED_FEATURES
<1>2. ASSUME NEW s \in Sector, read_blocks(s) PROVE DiskInv'
  BY <1>2, ValueAssumption, RequestDisk, Zenon DEF read_blocks
<1>3. ASSUME NEW s \in Sector, NEW v \in Value, write_blocks(s, v) PROVE DiskInv'
  BY <1>3, RequestDisk, Zenon DEF write_blocks
<1>4. CASE device_id
  BY <1>4, ValueAssumption, SectorAssumption, RequestDisk, Zenon DEF device_id, NoReq
<1>5. CASE flush
  <2>1. CASE Flushes
    BY <1>5, <2>1, ValueAssumption, SectorAssumption, RequestDisk, Zenon DEF flush, NoReq
  <2>2. CASE ~Flushes
    <3>1. /\ UNCHANGED <<disk, cache, written, req, pc, resp, data, negotiated_features, late>>
          /\ pc = "ready" /\ Promise
      BY <1>5, <2>2, Zenon DEF flush, driver, queue, device
    <3>2. \A s \in Sector : disk[s] \in written[s]
      BY <2>2, Zenon DEF DiskInv, WriteThrough, Flushes, ContentInv, Content
    <3>3. ContentInv' /\ DOMAIN durable' = Sector
      BY <3>1, <3>2, PromiseKept, Zenon
    <3> QED
      BY <3>1, <3>3, Zenon DEF DiskInv, Types, Typed, WriteThrough, LateInv, PendingInv, RequestInv
  <2> QED
    BY <2>1, <2>2, Zenon
<1>6. CASE AssertFails
  BY <1>6, Zenon DEF AssertFails, driver, queue, device, history, DiskInv, Types, Typed, ContentInv,
    WriteThrough, LateInv, PendingInv, RequestInv, Content
<1>13. CASE QueueFull
  BY <1>13, Zenon DEF QueueFull, driver, queue, device, history, DiskInv, Types, Typed, ContentInv,
    WriteThrough, LateInv, PendingInv, RequestInv, Content
<1>14. CASE NotifyError \/ StalePop
  BY <1>14, LostDisk, Zenon DEF NotifyError, StalePop, Return, driver, device, history
<1>15. CASE DevLateWrite
  <2>1. /\ UNCHANGED <<pc, req, resp, data, written, durable, pending, negotiated_features>>
        /\ late' \subseteq late
    BY <1>15, Zenon DEF DevLateWrite, driver, history
  <2>2. LateInv' /\ PendingInv'
    BY <2>1, Zenon DEF DiskInv, LateInv, PendingInv
  <2>3. CASE UNCHANGED <<disk, cache>>
    BY <2>1, <2>2, <2>3, Zenon DEF DiskInv, Types, Typed, ContentInv, Content, WriteThrough, RequestInv
  <2>4. CASE ~UNCHANGED <<disk, cache>>
    <3>1. PICK e \in late : Store(e.sector, e.value)
      BY <1>15, <2>4, Zenon DEF DevLateWrite
    <3>2. e.sector \in Sector /\ e.value \in Value /\ e.value \in written[e.sector]
      BY Zenon DEF DiskInv, LateInv
    <3>3. PICK t \in Sector, v \in Value :
            t = e.sector /\ v = e.value /\ v \in written[t] /\ Store(t, v)
      BY <3>1, <3>2, Zenon
    <3>4. /\ DOMAIN disk' = Sector /\ DOMAIN cache' = Sector /\ ContentInv'
          /\ Content(t)' = v /\ \A s \in Sector \ {t} : Content(s)' = Content(s)
          /\ \A s \in Sector : disk'[s] \in {disk[s], v} /\ (s # t => disk'[s] = disk[s])
          /\ "FLUSH" \notin negotiated_features => \A s \in Sector : cache'[s] = NotCached
      <4>1. UNCHANGED <<written, durable>>
        BY <2>1, Zenon
      <4> QED
        BY <3>3, <4>1, StoreDisk, Zenon
    <3>5. Types' /\ WriteThrough'
      BY <2>1, <3>4, Zenon DEF DiskInv, Types, Typed, WriteThrough
    <3>6. RequestInv'
      <4> SUFFICES ASSUME pc = "used", resp = "OK"
                   PROVE  /\ req.type = "In" => data \in written[req.sector]
                          /\ req.type = "Out" => Content(req.sector)' \in {req.value} \cup pending
                          /\ req.type = "Flush" => \A s \in Sector : disk'[s] \in written[s]
        BY <2>1, Zenon DEF RequestInv, Content
      <4>1. req.type = "In" => data \in written[req.sector]
        BY Zenon DEF DiskInv, RequestInv
      <4>2. req.type = "Out" => Content(req.sector)' \in {req.value} \cup pending
        <5> SUFFICES ASSUME req.type = "Out" PROVE Content(req.sector)' \in {req.value} \cup pending
          BY Zenon
        <5>1. req.sector = t => v \in pending
          BY <3>1, <3>3, Zenon DEF DiskInv, PendingInv
        <5>2. req.sector \in Sector /\ Content(req.sector) \in {req.value} \cup pending
          BY Zenon DEF DiskInv, RequestInv, Types, Typed
        <5>3. PICK q \in Sector : q = req.sector
          BY <5>2, Zenon
        <5>4. Content(q)' \in {req.value} \cup pending
          BY <3>4, <5>1, <5>2, <5>3, Zenon
        <5>5. Content(req.sector)' = Content(q)'
          BY <2>1, <5>3, Zenon DEF Content
        <5> QED
          BY <5>4, <5>5, Zenon
      <4>3. req.type = "Flush" => \A s \in Sector : disk'[s] \in written[s]
        BY <3>3, <3>4, Zenon DEF DiskInv, RequestInv
      <4> QED
        BY <4>1, <4>2, <4>3, Zenon
    <3> QED
      BY <2>2, <3>4, <3>5, <3>6, Zenon DEF DiskInv
  <2> QED
    BY <2>3, <2>4, Zenon
<1>7. CASE Respond
  <2>1. /\ UNCHANGED <<disk, cache, negotiated_features, late>>
        /\ pc = "used" /\ pc' = "ready" /\ Typed(req')
    BY <1>7, NoRequest, Zenon DEF Respond, Return, driver, device
  <2>2. WriteThrough' /\ PendingInv' /\ RequestInv'
    BY <2>1, Zenon DEF DiskInv, WriteThrough, PendingInv, RequestInv
  <2>3. CASE Into(resp) = "Ok" /\ req.type = "Out"
    <3>1. resp = "OK"
      BY <2>3, OnlyOk, Zenon
    <3>2. /\ written' = [written EXCEPT ![req.sector] = {req.value} \cup pending]
          /\ durable' = durable
      BY <1>7, <2>3, Zenon DEF Respond
    <3>3. /\ Content(req.sector) \in {req.value} \cup pending
          /\ {req.value} \cup pending \subseteq written[req.sector]
          /\ \A e \in late : e.sector = req.sector => e.value \in pending
      BY <2>1, <2>3, <3>1, Zenon DEF DiskInv, RequestInv, PendingInv
    <3>4. Types' /\ ContentInv'
      BY <2>1, <3>2, <3>3, Zenon DEF DiskInv, Types, Typed, ContentInv, Content
    <3>5. LateInv'
      BY <2>1, <3>2, <3>3, Zenon DEF DiskInv, Types, Typed, LateInv
    <3> QED
      BY <2>2, <3>4, <3>5, Zenon DEF DiskInv
  <2>4. CASE Into(resp) = "Ok" /\ req.type = "Flush"
    <3>1. resp = "OK"
      BY <2>4, OnlyOk, Zenon
    <3>2. Promise /\ written' = written
      BY <1>7, <2>4, Zenon DEF Respond
    <3>3. ContentInv' /\ DOMAIN durable' = Sector
      BY <2>1, <2>4, <3>1, <3>2, PromiseKept, Zenon DEF DiskInv, RequestInv
    <3> QED
      BY <2>1, <2>2, <3>2, <3>3, Zenon DEF DiskInv, Types, Typed, LateInv
  <2>5. CASE ~(Into(resp) = "Ok" /\ req.type \in {"Out", "Flush"})
    <3>1. UNCHANGED <<written, durable>>
      BY <1>7, <2>5, Zenon DEF Respond
    <3> QED
      BY <2>1, <2>2, <3>1, Zenon DEF DiskInv, Types, Typed, ContentInv, Content, LateInv
  <2> QED
    BY <2>3, <2>4, <2>5, Zenon
<1>8. CASE DevFail
  <2>1. /\ UNCHANGED <<req, written, durable, pending, late, negotiated_features>>
        /\ pc = "requested" /\ pc' = "used" /\ resp' # "OK"
    BY <1>8, Zenon DEF DevFail, driver, queue, history
  <2>4. LateInv' /\ PendingInv' /\ RequestInv'
    BY <2>1, Zenon DEF DiskInv, LateInv, PendingInv, RequestInv
  <2>2. CASE UNCHANGED <<disk, cache>>
    BY <2>1, <2>2, <2>4, Zenon DEF DiskInv, Types, Typed, ContentInv, Content, WriteThrough
  <2>3. CASE req.type = "Out" /\ Store(req.sector, req.value)
    <3>1. req.sector \in Sector /\ req.value \in Value /\ req.value \in written[req.sector]
      BY <2>1, <2>3, Zenon DEF DiskInv, Types, Typed, PendingInv
    <3> QED
      BY <2>1, <2>3, <2>4, <3>1, StoreDisk, Zenon DEF DiskInv, Types, Typed, WriteThrough
  <2> QED
    BY <1>8, <2>2, <2>3, Zenon DEF DevFail
<1>9. CASE DevServe
  <2>1. /\ UNCHANGED <<req, written, durable, pending, late, negotiated_features>>
        /\ pc = "requested" /\ pc' = "used"
    BY <1>9, Zenon DEF DevServe, driver, queue, history
  <2>6. LateInv' /\ PendingInv'
    BY <2>1, Zenon DEF DiskInv, LateInv, PendingInv
  <2>2. CASE req.type = "In"
    <3>1. UNCHANGED <<disk, cache>> /\ data' = Content(req.sector)
      BY <1>9, <2>2, Zenon DEF DevServe
    <3> QED
      BY <2>1, <2>2, <2>6, <3>1, Zenon DEF DiskInv, Types, Typed, ContentInv, Content, WriteThrough, RequestInv
  <2>3. CASE req.type = "Out"
    <3>1. Store(req.sector, req.value)
      BY <1>9, <2>3, Zenon DEF DevServe
    <3>2. req.sector \in Sector /\ req.value \in Value /\ req.value \in written[req.sector]
      BY <2>1, <2>3, Zenon DEF DiskInv, Types, Typed, PendingInv
    <3>3. /\ DOMAIN disk' = Sector /\ DOMAIN cache' = Sector /\ ContentInv'
          /\ Content(req.sector)' = req.value
          /\ "FLUSH" \notin negotiated_features => \A s \in Sector : cache'[s] = NotCached
      BY <2>1, <3>1, <3>2, StoreDisk, Zenon
    <3>4. RequestInv'
      BY <2>1, <2>3, <3>3, Zenon DEF RequestInv
    <3> QED
      BY <2>1, <2>6, <3>3, <3>4, Zenon DEF DiskInv, Types, Typed, WriteThrough
  <2>4. CASE req.type = "GetId"
    <3>1. UNCHANGED <<disk, cache>>
      BY <1>9, <2>4, Zenon DEF DevServe
    <3> QED
      BY <2>1, <2>4, <2>6, <3>1, Zenon DEF DiskInv, Types, Typed, ContentInv, Content, WriteThrough, RequestInv
  <2>5. CASE req.type \in {"none", "Flush"}
    <3>1. /\ disk' = [s \in Sector |-> Content(s)]
          /\ cache' = [s \in Sector |-> NotCached]
      BY <1>9, <2>5, Zenon DEF DevServe
    <3> QED
      BY <2>1, <2>5, <2>6, <3>1, Zenon DEF DiskInv, Types, Typed, ContentInv, Content, WriteThrough, RequestInv
  <2> QED
    BY <2>2, <2>3, <2>4, <2>5, Zenon DEF DiskInv, Types, Typed
<1>10. ASSUME NEW s \in Sector, DevEvict(s) PROVE DiskInv'
  <2>1. /\ UNCHANGED <<req, written, durable, pending, late, negotiated_features, pc, resp, data>>
        /\ cache[s] # NotCached
        /\ disk' = [disk EXCEPT ![s] = cache[s]]
        /\ cache' = [cache EXCEPT ![s] = NotCached]
    BY <1>10, Zenon DEF DevEvict, driver, queue, history
  <2>2. \A t \in Sector : Content(t)' = Content(t)
    BY <2>1, Zenon DEF DiskInv, Types, Typed, Content
  <2>3. Types' /\ WriteThrough'
    BY <2>1, Zenon DEF DiskInv, Types, Typed, WriteThrough
  <2>4. ContentInv'
    BY <2>1, <2>2, Zenon DEF DiskInv, Types, Typed, ContentInv, Content
  <2>5. \A t \in Sector : disk'[t] \in written[t] \/ disk'[t] = disk[t]
    BY <2>1, Zenon DEF DiskInv, Types, Typed, ContentInv, Content
  <2>6. RequestInv'
    BY <2>1, <2>2, <2>5, Zenon DEF DiskInv, Types, Typed, RequestInv
  <2>7. LateInv' /\ PendingInv'
    BY <2>1, Zenon DEF DiskInv, LateInv, PendingInv
  <2> QED
    BY <2>3, <2>4, <2>6, <2>7, Zenon DEF DiskInv
<1>11. CASE PowerLoss
  BY <1>11, ValueAssumption, SectorAssumption, Zenon
  DEF PowerLoss, DiskInv, Types, Typed, ContentInv, WriteThrough, LateInv, PendingInv, RequestInv, Content,
    NoReq
<1>12. CASE UNCHANGED vars
  BY <1>12, Zenon DEF vars, driver, queue, device, history, DiskInv, Types, Typed, ContentInv, WriteThrough,
    LateInv, PendingInv, RequestInv, Content
<1> QED
  BY <1>1, <1>2, <1>3, <1>4, <1>5, <1>6, <1>7, <1>8, <1>9, <1>10, <1>11, <1>12, <1>13,
     <1>14, <1>15, Zenon
  DEF Next, DriverStep

\* The invariant, always.
LEMMA DiskAlways == Spec => []DiskInv
  BY InitDisk, NextDisk, PTL DEF Spec

\* A sector holds what it held at the last flush that returned Ok, or something
\* written since, whenever power is lost.
THEOREM FlushAlwaysDurable == Spec => []FlushIsDurable
<1>1. DiskInv => FlushIsDurable
  BY Zenon DEF DiskInv, ContentInv, FlushIsDurable
<1> QED
  BY <1>1, DiskAlways, PTL

\* read_blocks returns Ok only with the last value written in the buffer.
THEOREM ReadsAlwaysLastWrite == Spec => ReadsLastWrite
<1>1. DiskInv /\ [Next]_vars =>
        [(pc = "used" /\ pc' = "ready" /\ req.type = "In" /\ ret' = "Ok")
           => data \in written[req.sector]]_vars
  <2> SUFFICES ASSUME DiskInv, Next, pc = "used", pc' = "ready", req.type = "In", ret' = "Ok"
               PROVE  data \in written[req.sector]
    BY Zenon
  <2>1. Respond
    BY Zenon DEF Next, DriverStep, BeginInit, AssertFails, QueueFull, NotifyError, StalePop, Return,
      read_blocks, write_blocks, device_id, flush, Request, DevFail, DevServe, DevEvict, DevLateWrite, PowerLoss
  <2>2. resp = "OK"
    BY <2>1, OnlyOk, Zenon DEF Respond, Return
  <2> QED
    BY <2>2, Zenon DEF DiskInv, RequestInv
<1> QED
  BY <1>1, DiskAlways, PTL DEF Spec, ReadsLastWrite

-----------------------------------------------------------------------------
(* The GPU, for displays of any size and any number of DMA regions.  Where a *)
(* call is, is the rest of the commands it has to send, so the invariant     *)
(* says for each position in a call what its earlier commands have achieved. *)

\* What is left of a call from its k-th command on.
Rest(cmds, k) == SubSeq(cmds, k, Len(cmds))

FlushCmds(n) == <<Cmd("TRANSFER_TO_HOST_2D", "FB", n), Cmd("RESOURCE_FLUSH", "FB", n)>>

CursorCmds ==
  <<Cmd("dma_alloc_buf", "CURSOR", 4), Cmd("RESOURCE_CREATE_2D", "CURSOR", 4),
    Cmd("RESOURCE_ATTACH_BACKING", "CURSOR", 4), Cmd("TRANSFER_TO_HOST_2D", "CURSOR", 4),
    Cmd("UPDATE_CURSOR", "CURSOR", 0), Cmd("store", "CURSOR", 0)>>

InfoCmds == <<Cmd("GET_DISPLAY_INFO", "FB", 0)>>
MoveCmds == <<Cmd("MOVE_CURSOR", "CURSOR", 0)>>

GpuTypes ==
  /\ memory \in [Region -> Nat] /\ display \in Displays /\ rect \in Nat
  /\ size \in [Id -> Nat] /\ backing \in [Id -> Region \cup {0}]
  /\ {frame_buffer_dma, cursor_buffer_dma, local} \subseteq Region \cup {0}
  /\ scanout \in BOOLEAN /\ dropped \subseteq Region

\* setup_framebuffer before its k-th command after GET_DISPLAY_INFO.
FrameBufferAt(n, k) ==
  /\ todo = Rest(FrameBufferCmds(n), k) /\ ~control_full
  /\ IF k <= 2 THEN local = 0 ELSE local # 0 /\ memory[local] = n
  /\ k >= 2 => size["FB"] = n
  /\ k \in {2, 3} => backing["FB"] = 0
  /\ k >= 4 => backing["FB"] = local
  /\ k = 5 => scanout

\* setup_cursor before its k-th command.
CursorAt(k) ==
  /\ todo = Rest(CursorCmds, k)
  /\ IF k = 1 THEN local = 0 ELSE local # 0 /\ memory[local] = 4
  /\ k >= 3 => size["CURSOR"] = 4 /\ ~control_full
  /\ k = 3 => backing["CURSOR"] = 0
  /\ k >= 4 => backing["CURSOR"] = local

\* Between two calls, or in a call that has no region of its own.
NoRegion ==
  /\ local = 0
  /\ \/ todo \in {<<>>, InfoCmds, MoveCmds}
     \/ \E n \in Nat, k \in 1 .. 2 : todo = Rest(FlushCmds(n), k)

Position ==
  \/ NoRegion
  \/ \E n \in Displays, k \in 1 .. 5 : FrameBufferAt(n, k)
  \/ \E k \in 1 .. 6 : CursorAt(k)

\* The two fields and the call have regions of their own, which are allocated.
Owned ==
  /\ \A q \in {frame_buffer_dma, cursor_buffer_dma, local} : q # 0 => memory[q] # 0
  /\ frame_buffer_dma # 0 => frame_buffer_dma \notin {cursor_buffer_dma, local}
  /\ cursor_buffer_dma # 0 => cursor_buffer_dma # local

\* The device has what the fields hold; without a resource there is no backing.
Shown ==
  /\ frame_buffer_dma # 0 => backing["FB"] = frame_buffer_dma /\ scanout
  /\ cursor_buffer_dma # 0 => backing["CURSOR"] = cursor_buffer_dma
  /\ \A i \in Id : size[i] = 0 => backing[i] = 0

\* A backing is large enough; it is in a field, or was dropped, or the call that
\* attached it is not over.
Reachable ==
  /\ \A i \in Id : backing[i] # 0 => size[i] <= memory[backing[i]]
  /\ backing["FB"] \in {0, frame_buffer_dma} \cup dropped
       \/ \E n \in Displays, k \in 4 .. 5 : FrameBufferAt(n, k)
  /\ backing["CURSOR"] \in {0, cursor_buffer_dma} \cup dropped \/ \E k \in 4 .. 6 : CursorAt(k)

\* A command whose notification failed is alone in its queue.  If it attaches a
\* region, that region was dropped, and is as large as the resource.
LeftBehind(c, q) ==
  /\ Res(c) \in Id /\ Pages(c) \in Nat
  /\ Op(c) = "RESOURCE_ATTACH_BACKING" => q \in dropped /\ size[Res(c)] <= memory[q]

Behind == left_behind # <<>> => control_full /\ LeftBehind(left_behind[1], left_behind[2])

GpuInv == GpuTypes /\ Position /\ Owned /\ Shown /\ Reachable /\ Behind

-----------------------------------------------------------------------------
(* The position in a call *)

\* The next command of a call, and what is left after it.
Stepped(cmds, k) ==
  /\ Rest(cmds, k) # <<>> /\ Head(Rest(cmds, k)) = cmds[k]
  /\ Tail(Rest(cmds, k)) = Rest(cmds, k + 1)
  /\ Rest(cmds, 1) = cmds /\ Rest(cmds, Len(cmds) + 1) = <<>>

\* It is so in every sequence.
LEMMA RestStep ==
  ASSUME NEW S, NEW cmds \in Seq(S), NEW k \in 1 .. Len(cmds)
  PROVE  Stepped(cmds, k)
<1>1. Len(cmds) \in Nat /\ Len(cmds) \in k .. Len(cmds)
  OBVIOUS
<1>2. /\ Head(SubSeq(cmds, k, Len(cmds))) = cmds[k]
      /\ Tail(SubSeq(cmds, k, Len(cmds))) = SubSeq(cmds, k + 1, Len(cmds))
  BY <1>1, HeadTailOfSubSeq, Zenon
<1>3. SubSeq(cmds, 1, Len(cmds)) = cmds
  BY SubSeqFull, Zenon
<1>4. SubSeq(cmds, Len(cmds) + 1, Len(cmds)) = <<>>
  BY <1>1, SubSeqEmpty
<1>5. SubSeq(cmds, k, Len(cmds)) # <<>>
  <2>1. \A i \in k .. Len(cmds) : cmds[i] \in S
    BY <1>1
  <2>2. Len(SubSeq(cmds, k, Len(cmds))) = Len(cmds) - k + 1
    BY <1>1, <2>1, SubSeqProperties
  <2>3. Len(SubSeq(cmds, k, Len(cmds))) # 0
    BY <1>1, <2>2
  <2> QED
    BY <2>3, EmptySeq, Zenon
<1> QED
  BY <1>2, <1>3, <1>4, <1>5, Zenon DEF Rest, Stepped

\* Calls are sequences.
IsSequence(cmds) == \E S : cmds \in Seq(S)

\* The commands of a call are well formed.
LEMMA ProgramTypes ==
  /\ \A n : IsSequence(FrameBufferCmds(n)) /\ Len(FrameBufferCmds(n)) = 5
  /\ \A n : IsSequence(FlushCmds(n)) /\ Len(FlushCmds(n)) = 2
  /\ IsSequence(CursorCmds) /\ Len(CursorCmds) = 6
<1>1. ASSUME NEW n PROVE IsSequence(FrameBufferCmds(n)) /\ Len(FrameBufferCmds(n)) = 5
  <2>1. FrameBufferCmds(n) \in Seq({FrameBufferCmds(n)[i] : i \in 1 .. 5})
    BY DEF FrameBufferCmds
  <2>2. Len(FrameBufferCmds(n)) = 5
    BY Zenon DEF FrameBufferCmds
  <2> QED
    BY <2>1, <2>2, Zenon DEF IsSequence
<1>2. ASSUME NEW n PROVE IsSequence(FlushCmds(n)) /\ Len(FlushCmds(n)) = 2
  <2>1. FlushCmds(n) \in Seq({FlushCmds(n)[i] : i \in 1 .. 2})
    BY DEF FlushCmds
  <2>2. Len(FlushCmds(n)) = 2
    BY Zenon DEF FlushCmds
  <2> QED
    BY <2>1, <2>2, Zenon DEF IsSequence
<1>3. IsSequence(CursorCmds) /\ Len(CursorCmds) = 6
  <2>1. CursorCmds \in Seq({CursorCmds[i] : i \in 1 .. 6})
    BY DEF CursorCmds
  <2>2. Len(CursorCmds) = 6
    BY Zenon DEF CursorCmds
  <2> QED
    BY <2>1, <2>2, Zenon DEF IsSequence
<1> QED
  BY <1>1, <1>2, <1>3, Zenon

\* The k-th command of setup_framebuffer.
LEMMA FrameBufferStep ==
  ASSUME NEW n, NEW k \in 1 .. 5, todo = Rest(FrameBufferCmds(n), k)
  PROVE  /\ todo # <<>> /\ Tail(todo) = Rest(FrameBufferCmds(n), k + 1)
         /\ Rest(FrameBufferCmds(n), 6) = <<>>
         /\ Res(Head(todo)) = "FB"
         /\ k = 1 => Op(Head(todo)) = "RESOURCE_CREATE_2D" /\ Pages(Head(todo)) = n
         /\ k = 2 => Op(Head(todo)) = "dma_alloc_buf" /\ Pages(Head(todo)) = n
         /\ k = 3 => Op(Head(todo)) = "RESOURCE_ATTACH_BACKING" /\ Pages(Head(todo)) = n
         /\ k = 4 => Op(Head(todo)) = "SET_SCANOUT" /\ Pages(Head(todo)) = n
         /\ k = 5 => Op(Head(todo)) = "store" /\ Pages(Head(todo)) = 0
<1>1. PICK S : FrameBufferCmds(n) \in Seq(S)
  BY ProgramTypes, Zenon DEF IsSequence
<1>2. /\ todo # <<>> /\ Tail(todo) = Rest(FrameBufferCmds(n), k + 1)
      /\ Rest(FrameBufferCmds(n), 6) = <<>> /\ Head(todo) = FrameBufferCmds(n)[k]
  <2>0. Len(FrameBufferCmds(n)) = 5
    BY ProgramTypes, Zenon
  <2>1. k \in 1 .. Len(FrameBufferCmds(n))
    BY <2>0, Zenon
  <2>2. Stepped(FrameBufferCmds(n), k)
    BY <1>1, <2>1, RestStep, Zenon
  <2> QED
    BY <2>0, <2>2 DEF Stepped
<1>3. /\ k = 1 => Head(todo) = Cmd("RESOURCE_CREATE_2D", "FB", n)
      /\ k = 2 => Head(todo) = Cmd("dma_alloc_buf", "FB", n)
      /\ k = 3 => Head(todo) = Cmd("RESOURCE_ATTACH_BACKING", "FB", n)
      /\ k = 4 => Head(todo) = Cmd("SET_SCANOUT", "FB", n)
      /\ k = 5 => Head(todo) = Cmd("store", "FB", 0)
  BY <1>2 DEF FrameBufferCmds
<1> QED
  BY <1>2, <1>3 DEF Cmd, Op, Res, Pages

\* The k-th command of setup_cursor.
LEMMA CursorStep ==
  ASSUME NEW k \in 1 .. 6, todo = Rest(CursorCmds, k)
  PROVE  /\ todo # <<>> /\ Tail(todo) = Rest(CursorCmds, k + 1) /\ Rest(CursorCmds, 7) = <<>>
         /\ Res(Head(todo)) = "CURSOR"
         /\ k <= 4 => Pages(Head(todo)) = 4
         /\ k = 1 => Op(Head(todo)) = "dma_alloc_buf"
         /\ k = 2 => Op(Head(todo)) = "RESOURCE_CREATE_2D"
         /\ k = 3 => Op(Head(todo)) = "RESOURCE_ATTACH_BACKING"
         /\ k = 4 => Op(Head(todo)) = "TRANSFER_TO_HOST_2D"
         /\ k = 5 => Op(Head(todo)) = "UPDATE_CURSOR"
         /\ k = 6 => Op(Head(todo)) = "store"
<1>1. PICK S : CursorCmds \in Seq(S)
  BY ProgramTypes, Zenon DEF IsSequence
<1>2. /\ todo # <<>> /\ Tail(todo) = Rest(CursorCmds, k + 1)
      /\ Rest(CursorCmds, 7) = <<>> /\ Head(todo) = CursorCmds[k]
  <2>0. Len(CursorCmds) = 6
    BY ProgramTypes, Zenon
  <2>1. k \in 1 .. Len(CursorCmds)
    BY <2>0, Zenon
  <2>2. Stepped(CursorCmds, k)
    BY <1>1, <2>1, RestStep, Zenon
  <2> QED
    BY <2>0, <2>2 DEF Stepped
<1>3. /\ k = 1 => Head(todo) = Cmd("dma_alloc_buf", "CURSOR", 4)
      /\ k = 2 => Head(todo) = Cmd("RESOURCE_CREATE_2D", "CURSOR", 4)
      /\ k = 3 => Head(todo) = Cmd("RESOURCE_ATTACH_BACKING", "CURSOR", 4)
      /\ k = 4 => Head(todo) = Cmd("TRANSFER_TO_HOST_2D", "CURSOR", 4)
      /\ k = 5 => Head(todo) = Cmd("UPDATE_CURSOR", "CURSOR", 0)
      /\ k = 6 => Head(todo) = Cmd("store", "CURSOR", 0)
  BY <1>2 DEF CursorCmds
<1> QED
  BY <1>2, <1>3 DEF Cmd, Op, Res, Pages

\* The only command of resolution and move_cursor, and those of flush.
LEMMA OtherStep ==
  ASSUME NoRegion, todo # <<>>
  PROVE  \/ todo = InfoCmds /\ Op(Head(todo)) = "GET_DISPLAY_INFO"
         \/ todo = MoveCmds /\ Op(Head(todo)) = "MOVE_CURSOR" /\ Tail(todo) = <<>>
         \/ \E n \in Nat : /\ todo = Rest(FlushCmds(n), 1) /\ Tail(todo) = Rest(FlushCmds(n), 2)
                           /\ Op(Head(todo)) = "TRANSFER_TO_HOST_2D"
                           /\ Res(Head(todo)) = "FB" /\ Pages(Head(todo)) = n
         \/ \E n \in Nat : /\ todo = Rest(FlushCmds(n), 2) /\ Tail(todo) = <<>>
                           /\ Op(Head(todo)) = "RESOURCE_FLUSH"
                           /\ Res(Head(todo)) = "FB" /\ Pages(Head(todo)) = n
<1>1. CASE todo = InfoCmds
  BY <1>1 DEF InfoCmds, Cmd, Op
<1>2. CASE todo = MoveCmds
  BY <1>2 DEF MoveCmds, Cmd, Op
<1>3. ASSUME NEW n \in Nat, NEW k \in 1 .. 2, todo = Rest(FlushCmds(n), k)
      PROVE  /\ Tail(todo) = Rest(FlushCmds(n), k + 1) /\ Rest(FlushCmds(n), 3) = <<>>
             /\ Res(Head(todo)) = "FB" /\ Pages(Head(todo)) = n
             /\ k = 1 => Op(Head(todo)) = "TRANSFER_TO_HOST_2D"
             /\ k = 2 => Op(Head(todo)) = "RESOURCE_FLUSH"
  <2>1. PICK S : FlushCmds(n) \in Seq(S)
    BY ProgramTypes, Zenon DEF IsSequence
  <2>2. /\ Tail(todo) = Rest(FlushCmds(n), k + 1)
        /\ Rest(FlushCmds(n), 3) = <<>> /\ Head(todo) = FlushCmds(n)[k]
    <3>0. Len(FlushCmds(n)) = 2
      BY ProgramTypes, Zenon
    <3>1. k \in 1 .. Len(FlushCmds(n))
      BY <3>0, Zenon
    <3>2. Stepped(FlushCmds(n), k)
      BY <2>1, <3>1, RestStep, Zenon
    <3> QED
      BY <1>3, <3>0, <3>2 DEF Stepped
  <2>3. /\ k = 1 => Head(todo) = Cmd("TRANSFER_TO_HOST_2D", "FB", n)
        /\ k = 2 => Head(todo) = Cmd("RESOURCE_FLUSH", "FB", n)
    BY <2>2 DEF FlushCmds
  <2> QED
    BY <2>2, <2>3 DEF Cmd, Op, Res, Pages
<1> QED
  BY <1>1, <1>2, <1>3 DEF NoRegion

-----------------------------------------------------------------------------
(* The steps *)

\* The device has no resource at first.
LEMMA InitGpu == ASSUME GpuInit PROVE GpuInv
<1>1. /\ todo = <<>> /\ local = 0 /\ rect = 0 /\ frame_buffer_dma = 0 /\ cursor_buffer_dma = 0
      /\ memory = [r \in Region |-> 0] /\ display \in Displays
      /\ size = [i \in Id |-> 0] /\ backing = [i \in Id |-> 0]
      /\ scanout = FALSE /\ dropped = {} /\ left_behind = <<>>
  BY Zenon DEF GpuInit, None
<1>2. GpuTypes
  BY <1>1, Zenon DEF GpuTypes
<1>3. Position
  BY <1>1, Zenon DEF Position, NoRegion
<1>4. Owned /\ Behind
  BY <1>1, Zenon DEF Owned, Behind
<1>5. Shown /\ Reachable
  BY <1>1, Zenon DEF Shown, Reachable, Id
<1> QED
  BY <1>2, <1>3, <1>4, <1>5, Zenon DEF GpuInv

\* A step that changes neither memory nor the device, when no call had, or has, a
\* region.
LEMMA QuietGpu ==
  ASSUME GpuInv, NoRegion', display' \in Displays, local = 0, NoRegion,
         UNCHANGED <<local, rect, frame_buffer_dma, cursor_buffer_dma, dma, resources, queues>>
  PROVE  GpuInv'
<1>1. ASSUME NEW n \in Displays, NEW k \in 4 .. 5 PROVE ~FrameBufferAt(n, k)
  BY DEF FrameBufferAt
<1>2. ASSUME NEW k \in 4 .. 6 PROVE ~CursorAt(k)
  BY DEF CursorAt
<1>3. Reachable'
  BY <1>1, <1>2, Zenon DEF GpuInv, Reachable, dma, resources
<1>4. Owned' /\ Shown' /\ GpuTypes' /\ Position'
  BY Zenon DEF GpuInv, GpuTypes, Position, Owned, Shown, dma, resources
<1>5. Behind'
  BY Zenon DEF GpuInv, Behind, LeftBehind, dma, resources, queues
<1> QED
  BY <1>3, <1>4, <1>5, Zenon DEF GpuInv

\* The start of a call.
LEMMA CallGpu ==
  ASSUME GpuInv,
         setup_framebuffer \/ resolution \/ gpu_flush \/ SetupCursorInvalid \/ move_cursor
  PROVE  GpuInv'
<1>1. /\ UNCHANGED <<local, rect, frame_buffer_dma, cursor_buffer_dma, dma, display, resources,
                     queues>>
      /\ todo = <<>>
      /\ \/ todo' \in {<<>>, InfoCmds, MoveCmds}
         \/ todo' = FlushCmds(rect)
  BY Zenon DEF setup_framebuffer, resolution, gpu_flush, SetupCursorInvalid, move_cursor, Call,
     fields, InfoCmds, MoveCmds, FlushCmds
<1>2. local = 0
  <2>1. ASSUME NEW n \in Displays, NEW k \in 1 .. 5, FrameBufferAt(n, k) PROVE FALSE
    BY <1>1, <2>1, FrameBufferStep, Zenon DEF FrameBufferAt
  <2>2. ASSUME NEW k \in 1 .. 6, CursorAt(k) PROVE FALSE
    BY <1>1, <2>2, CursorStep, Zenon DEF CursorAt
  <2> QED
    BY <2>1, <2>2, Zenon DEF GpuInv, Position, NoRegion
<1>3. FlushCmds(rect) = Rest(FlushCmds(rect), 1)
  <2>1. PICK S : FlushCmds(rect) \in Seq(S)
    BY ProgramTypes, Zenon DEF IsSequence
  <2> QED
    BY <2>1, SubSeqFull, Zenon DEF Rest
<1>4. NoRegion /\ NoRegion'
  BY <1>1, <1>2, <1>3 DEF NoRegion, GpuInv, GpuTypes
<1> QED
  BY <1>1, <1>2, <1>4, QuietGpu, Zenon DEF GpuInv, GpuTypes

\* setup_cursor is called.
LEMMA SetupCursorGpu ==
  ASSUME GpuInv, setup_cursor
  PROVE  GpuInv'
<1>1. /\ UNCHANGED <<local, rect, frame_buffer_dma, cursor_buffer_dma, dma, display, resources,
                     queues>>
      /\ todo = <<>> /\ todo' = CursorCmds
  BY Zenon DEF setup_cursor, Call, fields, CursorCmds, CURSOR_RECT
<1>2. NoRegion
  <2>1. ASSUME NEW n \in Displays, NEW k \in 1 .. 5, FrameBufferAt(n, k) PROVE FALSE
    BY <1>1, <2>1, FrameBufferStep, Zenon DEF FrameBufferAt
  <2>2. ASSUME NEW k \in 1 .. 6, CursorAt(k) PROVE FALSE
    BY <1>1, <2>2, CursorStep, Zenon DEF CursorAt
  <2> QED
    BY <2>1, <2>2, Zenon DEF GpuInv, Position
<1>3. local = 0
  BY <1>2, Zenon DEF NoRegion
<1>4. CursorCmds = Rest(CursorCmds, 1)
  <2>1. PICK S : CursorCmds \in Seq(S)
    BY ProgramTypes, Zenon DEF IsSequence
  <2> QED
    BY <2>1, SubSeqFull, Zenon DEF Rest
<1>5. CursorAt(1)'
  BY <1>1, <1>3, <1>4 DEF CursorAt
<1>6. Reachable'
  <2>1. ASSUME NEW n \in Displays, NEW k \in 4 .. 5 PROVE ~FrameBufferAt(n, k)
    BY <1>3 DEF FrameBufferAt
  <2>2. ASSUME NEW k \in 4 .. 6 PROVE ~CursorAt(k)
    BY <1>3 DEF CursorAt
  <2> QED
    BY <1>1, <2>1, <2>2, Zenon DEF GpuInv, Reachable, dma, resources
<1>7. GpuTypes' /\ Owned' /\ Shown'
  BY <1>1, Zenon DEF GpuInv, GpuTypes, Owned, Shown, dma, resources
<1>8. Behind'
  BY <1>1, Zenon DEF GpuInv, Behind, LeftBehind, dma, resources, queues
<1>9. Position'
  BY <1>5 DEF Position
<1> QED
  BY <1>6, <1>7, <1>8, <1>9, Zenon DEF GpuInv

\* dma_alloc_buf of setup_framebuffer and of setup_cursor.
LEMMA AllocGpu ==
  ASSUME GpuInv, dma_alloc_buf
  PROVE  GpuInv'
<1>1. PICK r \in Region : memory[r] = 0 /\ local' = r
                            /\ memory' = [memory EXCEPT ![r] = Pages(Head(todo))]
  BY Zenon DEF dma_alloc_buf
<1>2. /\ UNCHANGED <<rect, frame_buffer_dma, cursor_buffer_dma, display, size, backing, scanout,
                     dropped, left_behind, control_full>>
      /\ todo # <<>> /\ Op(Head(todo)) = "dma_alloc_buf" /\ todo' = Tail(todo)
  BY Zenon DEF dma_alloc_buf, At, fields, resources, queues
<1>3. /\ Pages(Head(todo)) \in Nat \ {0} /\ local = 0
      /\ \/ \E n \in Displays : FrameBufferAt(n, 2) /\ FrameBufferAt(n, 3)'
         \/ CursorAt(1) /\ CursorAt(2)'
  <2>0. 0 \notin Region /\ memory \in [Region -> Nat]
    BY DEF Region, GpuInv, GpuTypes
  <2>1. ASSUME NEW n \in Displays, NEW k \in 1 .. 5, FrameBufferAt(n, k)
        PROVE  /\ Pages(Head(todo)) \in Nat \ {0} /\ local = 0
               /\ FrameBufferAt(n, 2) /\ FrameBufferAt(n, 3)'
    <3>1. todo = Rest(FrameBufferCmds(n), k)
      BY <2>1, Zenon DEF FrameBufferAt
    <3>2. k = 2 /\ Pages(Head(todo)) = n /\ Tail(todo) = Rest(FrameBufferCmds(n), 3)
      BY <1>2, <3>1, FrameBufferStep
    <3>3. local = 0 /\ size["FB"] = n /\ backing["FB"] = 0 /\ ~control_full
      BY <2>1, <3>2 DEF FrameBufferAt
    <3> QED
      BY <1>1, <1>2, <2>0, <2>1, <3>2, <3>3, DisplaysAssumption DEF FrameBufferAt
  <2>2. ASSUME NEW k \in 1 .. 6, CursorAt(k)
        PROVE  Pages(Head(todo)) \in Nat \ {0} /\ local = 0 /\ CursorAt(1) /\ CursorAt(2)'
    <3>1. todo = Rest(CursorCmds, k)
      BY <2>2, Zenon DEF CursorAt
    <3>2. k = 1 /\ Pages(Head(todo)) = 4 /\ Tail(todo) = Rest(CursorCmds, 2)
      BY <1>2, <3>1, CursorStep
    <3> QED
      BY <1>1, <1>2, <2>0, <2>2, <3>2 DEF CursorAt
  <2>3. ~NoRegion
    BY <1>2, OtherStep, Zenon
  <2> QED
    BY <2>1, <2>2, <2>3, Zenon DEF GpuInv, Position
<1>4. GpuTypes'
  BY <1>1, <1>2, <1>3, Zenon DEF GpuInv, GpuTypes
<1>5. Position'
  BY <1>3 DEF Position
<1>6. memory'[r] # 0 /\ \A q \in Region : q # r => memory'[q] = memory[q]
  BY <1>1, <1>3, Zenon DEF GpuInv, GpuTypes
<1>9. Owned'
  <2>1. \A q \in {frame_buffer_dma, cursor_buffer_dma} : q # 0 => q \in Region /\ memory[q] # 0
    BY Zenon DEF GpuInv, GpuTypes, Owned
  <2>2. \A q \in {frame_buffer_dma, cursor_buffer_dma} : q # 0 => q # r
    BY <1>1, <2>1, Zenon
  <2>3. \A q \in {frame_buffer_dma, cursor_buffer_dma, r} : q # 0 => memory'[q] # 0
    BY <1>6, <2>1, <2>2, Zenon
  <2>4. frame_buffer_dma # 0 => frame_buffer_dma # cursor_buffer_dma
    BY Zenon DEF GpuInv, Owned
  <2> QED
    BY <1>1, <1>2, <2>2, <2>3, <2>4, Zenon DEF Owned
<1>10. ASSUME NEW q \in Region, NEW m \in Nat, m <= memory[q] PROVE m <= memory'[q]
  <2>1. CASE q = r
    <3>1. m = 0 /\ memory'[q] \in Nat
      BY <1>1, <1>4, <1>10, <2>1 DEF GpuTypes
    <3> QED
      BY <3>1
  <2>2. CASE q # r
    BY <1>6, <1>10, <2>2, Zenon
  <2> QED
    BY <2>1, <2>2, Zenon
<1>11. Behind'
  <2>1. CASE left_behind = <<>>
    BY <1>2, <2>1, Zenon DEF Behind
  <2>2. CASE left_behind # <<>>
    <3>1. PICK c, q : c = left_behind[1] /\ q = left_behind[2]
      BY Zenon
    <3>2. control_full /\ LeftBehind(c, q)
      BY <2>2, <3>1, Zenon DEF GpuInv, Behind
    <3>3. LeftBehind(c, q)'
      <4>1. dropped \subseteq Region /\ size \in [Id -> Nat]
        BY Zenon DEF GpuInv, GpuTypes
      <4> QED
        BY <1>2, <1>10, <3>2, <4>1, Zenon DEF LeftBehind
    <3> QED
      BY <1>2, <3>1, <3>2, <3>3, Zenon DEF Behind
  <2> QED
    BY <2>1, <2>2, Zenon
<1>7. Shown'
  BY <1>2, Zenon DEF GpuInv, Shown
<1>8. Reachable'
  <2>1. ASSUME NEW n \in Displays, NEW k \in 4 .. 5 PROVE ~FrameBufferAt(n, k)
    BY <1>3 DEF FrameBufferAt
  <2>2. ASSUME NEW k \in 4 .. 6 PROVE ~CursorAt(k)
    BY <1>3 DEF CursorAt
  <2>3. ASSUME NEW i \in Id, backing[i] # 0
        PROVE  size[i] <= memory'[backing[i]]
    BY <1>10, <2>3, Zenon DEF GpuInv, GpuTypes, Reachable
  <2> QED
    BY <1>2, <2>1, <2>2, <2>3, Zenon DEF GpuInv, Reachable
<1> QED
  BY <1>4, <1>5, <1>7, <1>8, <1>9, <1>11, Zenon DEF GpuInv

\* A call is in one position only.
LEMMA OnePosition ==
  /\ \A n, m \in Displays, k, j \in 1 .. 5 : FrameBufferAt(n, k) /\ FrameBufferAt(m, j) => k = j
  /\ \A n \in Displays, k \in 1 .. 5, j \in 1 .. 6 : ~(FrameBufferAt(n, k) /\ CursorAt(j))
  /\ \A k, j \in 1 .. 6 : CursorAt(k) /\ CursorAt(j) => k = j
<1>1. ASSUME NEW n \in Displays, NEW m \in Displays, NEW k \in 1 .. 5, NEW j \in 1 .. 5,
             FrameBufferAt(n, k), FrameBufferAt(m, j)
      PROVE  k = j
  <2>1. todo = Rest(FrameBufferCmds(n), k) /\ todo = Rest(FrameBufferCmds(m), j)
    BY <1>1, Zenon DEF FrameBufferAt
  <2>2. /\ k = 1 => Op(Head(todo)) = "RESOURCE_CREATE_2D"
        /\ k = 2 => Op(Head(todo)) = "dma_alloc_buf"
        /\ k = 3 => Op(Head(todo)) = "RESOURCE_ATTACH_BACKING"
        /\ k = 4 => Op(Head(todo)) = "SET_SCANOUT"
        /\ k = 5 => Op(Head(todo)) = "store"
    BY <2>1, FrameBufferStep, Zenon
  <2>3. /\ j = 1 => Op(Head(todo)) = "RESOURCE_CREATE_2D"
        /\ j = 2 => Op(Head(todo)) = "dma_alloc_buf"
        /\ j = 3 => Op(Head(todo)) = "RESOURCE_ATTACH_BACKING"
        /\ j = 4 => Op(Head(todo)) = "SET_SCANOUT"
        /\ j = 5 => Op(Head(todo)) = "store"
    BY <2>1, FrameBufferStep, Zenon
  <2> QED
    BY <2>2, <2>3
<1>2. ASSUME NEW n \in Displays, NEW k \in 1 .. 5, NEW j \in 1 .. 6, FrameBufferAt(n, k), CursorAt(j)
      PROVE  FALSE
  <2>1. todo = Rest(FrameBufferCmds(n), k) /\ todo = Rest(CursorCmds, j)
    BY <1>2, Zenon DEF FrameBufferAt, CursorAt
  <2>2. Res(Head(todo)) = "FB"
    BY <2>1, FrameBufferStep, Zenon
  <2>3. Res(Head(todo)) = "CURSOR"
    BY <2>1, CursorStep, Zenon
  <2> QED
    BY <2>2, <2>3, Zenon
<1>3. ASSUME NEW k \in 1 .. 6, NEW j \in 1 .. 6, CursorAt(k), CursorAt(j)
      PROVE  k = j
  <2>1. todo = Rest(CursorCmds, k) /\ todo = Rest(CursorCmds, j)
    BY <1>3, Zenon DEF CursorAt
  <2>2. /\ k = 1 => Op(Head(todo)) = "dma_alloc_buf"
        /\ k = 2 => Op(Head(todo)) = "RESOURCE_CREATE_2D"
        /\ k = 3 => Op(Head(todo)) = "RESOURCE_ATTACH_BACKING"
        /\ k = 4 => Op(Head(todo)) = "TRANSFER_TO_HOST_2D"
        /\ k = 5 => Op(Head(todo)) = "UPDATE_CURSOR"
        /\ k = 6 => Op(Head(todo)) = "store"
    BY <2>1, CursorStep, Zenon
  <2>3. /\ j = 1 => Op(Head(todo)) = "dma_alloc_buf"
        /\ j = 2 => Op(Head(todo)) = "RESOURCE_CREATE_2D"
        /\ j = 3 => Op(Head(todo)) = "RESOURCE_ATTACH_BACKING"
        /\ j = 4 => Op(Head(todo)) = "TRANSFER_TO_HOST_2D"
        /\ j = 5 => Op(Head(todo)) = "UPDATE_CURSOR"
        /\ j = 6 => Op(Head(todo)) = "store"
    BY <2>1, CursorStep, Zenon
  <2> QED
    BY <2>2, <2>3
<1> QED
  BY <1>1, <1>2, <1>3, Zenon

\* The region of the call moves into its field, which was empty.
LEMMA StoreGpu ==
  ASSUME GpuInv, StoreRegion
  PROVE  GpuInv'
<1>1. /\ UNCHANGED <<rect, memory, display, size, backing, scanout, left_behind, control_full>>
      /\ todo # <<>> /\ Op(Head(todo)) = "store" /\ todo' = Tail(todo) /\ local' = 0
  BY Zenon DEF StoreRegion, At, resources, queues, None
<1>5. ASSUME dropped' = dropped PROVE Behind'
  BY <1>1, <1>5, Zenon DEF GpuInv, Behind, LeftBehind
<1>2. ~NoRegion
  BY <1>1, OtherStep, Zenon
<1>3. ASSUME NEW n \in Displays, NEW k \in 1 .. 5, FrameBufferAt(n, k)
      PROVE  GpuInv'
  <2>1. todo = Rest(FrameBufferCmds(n), k)
    BY <1>3, Zenon DEF FrameBufferAt
  <2>2. k = 5 /\ Res(Head(todo)) = "FB" /\ todo' = <<>>
    BY <1>1, <2>1, FrameBufferStep
  <2>3. local # 0 /\ backing["FB"] = local /\ scanout /\ local # frame_buffer_dma
    BY <1>3, <2>2 DEF FrameBufferAt, GpuInv, Owned
  <2>4. frame_buffer_dma = 0
    BY <2>3, Zenon DEF GpuInv, Shown
  <2>5. dropped' = dropped /\ frame_buffer_dma' = local /\ cursor_buffer_dma' = cursor_buffer_dma
    BY <2>2, <2>4, Zenon DEF StoreRegion, Drop, None
  <2>6. GpuTypes'
    BY <1>1, <2>5, Zenon DEF GpuInv, GpuTypes
  <2>7. Position'
    BY <1>1, <2>2, Zenon DEF Position, NoRegion
  <2>8. Owned'
    BY <1>1, <2>3, <2>4, <2>5, Zenon DEF GpuInv, Owned, Region
  <2>9. Shown'
    BY <1>1, <2>3, <2>5, Zenon DEF GpuInv, Shown
  <2>10. \A j \in 4 .. 6 : ~CursorAt(j)
    BY <1>3, OnePosition
  <2>11. Reachable'
    BY <1>1, <2>3, <2>5, <2>10, Zenon DEF GpuInv, Reachable
  <2> QED
    BY <1>5, <2>5, <2>6, <2>7, <2>8, <2>9, <2>11, Zenon DEF GpuInv
<1>4. ASSUME NEW k \in 1 .. 6, CursorAt(k)
      PROVE  GpuInv'
  <2>1. todo = Rest(CursorCmds, k)
    BY <1>4, Zenon DEF CursorAt
  <2>2. k = 6 /\ Res(Head(todo)) = "CURSOR" /\ todo' = <<>>
    BY <1>1, <2>1, CursorStep
  <2>3. local # 0 /\ backing["CURSOR"] = local /\ local # cursor_buffer_dma
    BY <1>4, <2>2 DEF CursorAt, GpuInv, Owned
  <2>4. cursor_buffer_dma = 0
    BY <2>3, Zenon DEF GpuInv, Shown
  <2>5. dropped' = dropped /\ cursor_buffer_dma' = local /\ frame_buffer_dma' = frame_buffer_dma
    BY <2>2, <2>4, Zenon DEF StoreRegion, Drop, None
  <2>6. GpuTypes'
    BY <1>1, <2>5, Zenon DEF GpuInv, GpuTypes
  <2>7. Position'
    BY <1>1, <2>2, Zenon DEF Position, NoRegion
  <2>8. Owned'
    BY <1>1, <2>3, <2>4, <2>5, Zenon DEF GpuInv, Owned, Region
  <2>9. Shown'
    BY <1>1, <2>3, <2>5, Zenon DEF GpuInv, Shown
  <2>10. \A n \in Displays, j \in 4 .. 5 : ~FrameBufferAt(n, j)
    BY <1>4, OnePosition
  <2>11. Reachable'
    BY <1>1, <2>3, <2>5, <2>10, Zenon DEF GpuInv, Reachable
  <2> QED
    BY <1>5, <2>5, <2>6, <2>7, <2>8, <2>9, <2>11, Zenon DEF GpuInv
<1> QED
  BY <1>2, <1>3, <1>4, Zenon DEF GpuInv, Position

\* A call returns an error and drops its region, which the device may have.
LEMMA AbandonGpu ==
  ASSUME GpuInv, NEW e, Abandon(e), UNCHANGED <<memory, display, resources>>, Behind'
  PROVE  GpuInv'
<1>1. /\ UNCHANGED <<rect, frame_buffer_dma, cursor_buffer_dma, memory, size, backing, scanout,
                     display>>
      /\ todo' = <<>> /\ local' = 0 /\ dropped' = dropped \cup ({local} \ {0})
  BY Zenon DEF Abandon, Drop, fields, resources, None
<1>2. GpuTypes'
  BY <1>1, Zenon DEF GpuInv, GpuTypes
<1>3. Position'
  BY <1>1, Zenon DEF Position, NoRegion
<1>4. Owned' /\ Shown'
  BY <1>1, Zenon DEF GpuInv, Owned, Shown
<1>5. backing["FB"] \in {0, frame_buffer_dma, local} \cup dropped
  <2>1. ASSUME NEW n \in Displays, NEW k \in 4 .. 5, FrameBufferAt(n, k) PROVE backing["FB"] = local
    BY <2>1 DEF FrameBufferAt
  <2> QED
    BY <2>1, Zenon DEF GpuInv, Reachable
<1>6. backing["CURSOR"] \in {0, cursor_buffer_dma, local} \cup dropped
  <2>1. ASSUME NEW k \in 4 .. 6, CursorAt(k) PROVE backing["CURSOR"] = local
    BY <2>1 DEF CursorAt
  <2> QED
    BY <2>1, Zenon DEF GpuInv, Reachable
<1>7. Reachable'
  BY <1>1, <1>5, <1>6, Zenon DEF GpuInv, Reachable
<1> QED
  BY <1>2, <1>3, <1>4, <1>7, Zenon DEF GpuInv

\* What an abandoned call left in the queue stays, as more regions are dropped.
LEMMA BehindStays ==
  ASSUME GpuInv, UNCHANGED <<memory, size, left_behind, control_full>>, dropped \subseteq dropped'
  PROVE  Behind'
BY Zenon DEF GpuInv, Behind, LeftBehind

\* A call returns an error, and its last command is not in the queue.
LEMMA RefusedGpu ==
  ASSUME GpuInv, NEW e, Abandon(e), UNCHANGED <<memory, display, resources, left_behind, control_full>>
  PROVE  GpuInv'
<1>1. Behind'
  <2>1. dropped \subseteq dropped'
    BY Zenon DEF Abandon, Drop
  <2> QED
    BY <2>1, BehindStays, Zenon DEF resources
<1> QED
  BY <1>1, AbandonGpu, Zenon

\* The next command of a call is about a resource; one that attaches a region
\* attaches the call's, which is as large as the resource.
LEMMA NextCommand ==
  ASSUME GpuInv, todo # <<>>, Op(Head(todo)) \in Control
  PROVE  /\ Res(Head(todo)) \in Id /\ Pages(Head(todo)) \in Nat
         /\ Op(Head(todo)) = "RESOURCE_ATTACH_BACKING" =>
              local # 0 /\ size[Res(Head(todo))] <= memory[local]
<1>1. CASE NoRegion
  <2>1. CASE todo = InfoCmds
    BY <2>1 DEF InfoCmds, Cmd, Op, Res, Pages, Id
  <2>2. ASSUME todo # InfoCmds
        PROVE  /\ Res(Head(todo)) = "FB" /\ Pages(Head(todo)) \in Nat
               /\ Op(Head(todo)) \in {"TRANSFER_TO_HOST_2D", "RESOURCE_FLUSH"}
    BY <1>1, <2>2, OtherStep, Zenon DEF Control
  <2> QED
    BY <2>1, <2>2, Zenon DEF Id
<1>2. ASSUME NEW n \in Displays, NEW k \in 1 .. 5, FrameBufferAt(n, k)
      PROVE  /\ Res(Head(todo)) \in Id /\ Pages(Head(todo)) \in Nat
             /\ Op(Head(todo)) = "RESOURCE_ATTACH_BACKING" =>
                  local # 0 /\ size[Res(Head(todo))] <= memory[local]
  <2>1. n \in Nat
    BY DisplaysAssumption
  <2>2. todo = Rest(FrameBufferCmds(n), k)
    BY <1>2, Zenon DEF FrameBufferAt
  <2>3. Res(Head(todo)) = "FB" /\ Pages(Head(todo)) \in Nat
    <3>1. Res(Head(todo)) = "FB" /\ (k \in {1, 2, 3, 4} => Pages(Head(todo)) = n)
                                /\ (k = 5 => Pages(Head(todo)) = 0)
      BY <2>2, FrameBufferStep, Zenon
    <3> QED
      BY <2>1, <3>1
  <2>4. Op(Head(todo)) = "RESOURCE_ATTACH_BACKING" => k = 3
    BY <2>2, FrameBufferStep
  <2>5. k = 3 => local # 0 /\ size["FB"] = n /\ memory[local] = n
    BY <1>2 DEF FrameBufferAt
  <2> QED
    BY <2>1, <2>3, <2>4, <2>5 DEF Id
<1>3. ASSUME NEW k \in 1 .. 6, CursorAt(k)
      PROVE  /\ Res(Head(todo)) \in Id /\ Pages(Head(todo)) \in Nat
             /\ Op(Head(todo)) = "RESOURCE_ATTACH_BACKING" =>
                  local # 0 /\ size[Res(Head(todo))] <= memory[local]
  <2>1. todo = Rest(CursorCmds, k)
    BY <1>3, Zenon DEF CursorAt
  <2>2. Res(Head(todo)) = "CURSOR" /\ Pages(Head(todo)) \in Nat
    BY <2>1, CursorStep DEF Control
  <2>3. Op(Head(todo)) = "RESOURCE_ATTACH_BACKING" => k = 3
    BY <2>1, CursorStep
  <2>4. k = 3 => local # 0 /\ size["CURSOR"] = 4 /\ memory[local] = 4
    BY <1>3 DEF CursorAt
  <2> QED
    BY <2>2, <2>3, <2>4 DEF Id
<1> QED
  BY <1>1, <1>2, <1>3, Zenon DEF GpuInv, Position

\* The notification of a command fails.
LEMMA UnnotifiedGpu ==
  ASSUME GpuInv, RequestUnnotified
  PROVE  GpuInv'
<1>1. /\ todo # <<>> /\ Op(Head(todo)) \in Control
      /\ left_behind' = <<Head(todo), local>> /\ control_full' = TRUE
      /\ Abandon("IoError") /\ UNCHANGED <<memory, display, resources>>
  BY Zenon DEF RequestUnnotified, ControlNext
<1>2. PICK c, q : c = Head(todo) /\ q = local
  BY Zenon
<1>3. /\ Res(c) \in Id /\ Pages(c) \in Nat
      /\ Op(c) = "RESOURCE_ATTACH_BACKING" => q # 0 /\ size[Res(c)] <= memory[q]
  BY <1>1, <1>2, NextCommand, Zenon
<1>4. q # 0 => q \in dropped'
  BY <1>1, <1>2, Zenon DEF Abandon, Drop, None
<1>5. LeftBehind(c, q)'
  BY <1>1, <1>3, <1>4, Zenon DEF LeftBehind, resources
<1>6. left_behind'[1] = c /\ left_behind'[2] = q /\ control_full'
  BY <1>1, <1>2
<1>7. Behind'
  BY <1>5, <1>6, Zenon DEF Behind
<1> QED
  BY <1>1, <1>7, AbandonGpu, Zenon

\* The device carries out a command that was left in the queue.
LEMMA LateGpu ==
  ASSUME GpuInv, DevLate
  PROVE  GpuInv'
<1>1. /\ left_behind # <<>> /\ left_behind' = <<>>
      /\ UNCHANGED <<todo, local, rect, frame_buffer_dma, cursor_buffer_dma, memory, dropped,
                     display, control_full>>
      /\ \/ Valid(left_behind[1]) /\ Execute(left_behind[1], left_behind[2])
         \/ UNCHANGED resources
  BY Zenon DEF DevLate, fields, dma
<1>2. PICK c, q : c = left_behind[1] /\ q = left_behind[2]
  BY Zenon
<1>3. control_full /\ LeftBehind(c, q)
  BY <1>1, <1>2, Zenon DEF GpuInv, Behind
<1>4. Res(c) \in Id /\ Pages(c) \in Nat /\ size \in [Id -> Nat] /\ backing \in [Id -> Region \cup {0}]
  BY <1>3, Zenon DEF LeftBehind, GpuInv, GpuTypes
<1>5. /\ \A n \in Displays, k \in 1 .. 5 : ~FrameBufferAt(n, k)
      /\ \A k \in 3 .. 6 : ~CursorAt(k)
  BY <1>3 DEF FrameBufferAt, CursorAt
<1>6. Position'
  <2>1. NoRegion => NoRegion'
    BY <1>1, Zenon DEF NoRegion
  <2>2. ASSUME NEW k \in 1 .. 6, CursorAt(k) PROVE CursorAt(k)'
    <3>1. k \in {1, 2}
      BY <1>5, <2>2
    <3> QED
      BY <1>1, <2>2, <3>1 DEF CursorAt
  <2> QED
    BY <1>5, <2>1, <2>2, Zenon DEF GpuInv, Position
<1>7. Owned' /\ Behind'
  BY <1>1, Zenon DEF GpuInv, Owned, Behind
<1>8. /\ backing["FB"] \in {0, frame_buffer_dma} \cup dropped
      /\ backing["CURSOR"] \in {0, cursor_buffer_dma} \cup dropped
      /\ \A i \in Id : backing[i] # 0 => size[i] <= memory[backing[i]]
  <2>1. /\ \A n \in Displays, k \in 4 .. 5 : ~FrameBufferAt(n, k)
        /\ \A k \in 4 .. 6 : ~CursorAt(k)
    BY <1>5
  <2> QED
    BY <2>1, Zenon DEF GpuInv, Reachable
<1>9. CASE UNCHANGED <<size, backing>> /\ scanout' \in BOOLEAN /\ (scanout => scanout')
  <2>1. GpuTypes' /\ Shown'
    BY <1>1, <1>9, Zenon DEF GpuInv, GpuTypes, Shown
  <2>2. Reachable'
    BY <1>1, <1>8, <1>9, Zenon DEF Reachable
  <2> QED
    BY <1>6, <1>7, <2>1, <2>2, Zenon DEF GpuInv
<1>10. CASE Valid(c) /\ Execute(c, q) /\ Op(c) = "RESOURCE_CREATE_2D"
  <2>1. size[Res(c)] = 0 /\ backing[Res(c)] = 0
    BY <1>4, <1>10, Zenon DEF Valid, GpuInv, Shown
  <2>2. size' = [size EXCEPT ![Res(c)] = Pages(c)] /\ backing' = backing /\ scanout' = scanout
    BY <1>10, Zenon DEF Execute, GpuInv, GpuTypes
  <2>3. GpuTypes'
    BY <1>1, <1>4, <2>2, Zenon DEF GpuInv, GpuTypes
  <2>4. \A i \in Id : i # Res(c) => size'[i] = size[i]
    BY <1>4, <2>2, Zenon
  <2>5. Shown'
    BY <1>1, <2>1, <2>2, <2>4, Zenon DEF GpuInv, Shown
  <2>6. Reachable'
    BY <1>1, <1>8, <2>1, <2>2, <2>4, Zenon DEF Reachable
  <2> QED
    BY <1>6, <1>7, <2>3, <2>5, <2>6, Zenon DEF GpuInv
<1>11. CASE Valid(c) /\ Execute(c, q) /\ Op(c) = "RESOURCE_ATTACH_BACKING"
  <2>1. /\ size[Res(c)] # 0 /\ backing[Res(c)] = 0 /\ q \in dropped
        /\ size[Res(c)] <= memory[q]
    BY <1>3, <1>11, Zenon DEF Valid, None, LeftBehind
  <2>2. size' = size /\ backing' = [backing EXCEPT ![Res(c)] = q] /\ scanout' = scanout
    BY <1>11, Zenon DEF Execute, GpuInv, GpuTypes
  <2>3. GpuTypes'
    BY <1>1, <1>4, <2>1, <2>2, Zenon DEF GpuInv, GpuTypes
  <2>4. backing'[Res(c)] = q /\ \A i \in Id : i # Res(c) => backing'[i] = backing[i]
    BY <1>4, <2>2, Zenon
  <2>5. "FB" \in Id /\ "CURSOR" \in Id
    BY DEF Id
  <2>6. Shown'
    <3>1. /\ frame_buffer_dma # 0 => Res(c) # "FB"
          /\ cursor_buffer_dma # 0 => Res(c) # "CURSOR"
      BY <2>1, Zenon DEF GpuInv, Shown
    <3>2. \A i \in Id : size[i] = 0 => backing'[i] = 0
      BY <2>1, <2>4, Zenon DEF GpuInv, Shown
    <3> QED
      BY <1>1, <2>2, <2>4, <2>5, <3>1, <3>2, Zenon DEF GpuInv, Shown
  <2>7. Reachable'
    <3>1. /\ backing'["FB"] \in {0, frame_buffer_dma} \cup dropped
          /\ backing'["CURSOR"] \in {0, cursor_buffer_dma} \cup dropped
      BY <1>8, <2>1, <2>4, <2>5, Zenon
    <3>2. ASSUME NEW i \in Id, backing'[i] # 0 PROVE size'[i] <= memory'[backing'[i]]
      <4>1. CASE i = Res(c)
        BY <1>1, <2>1, <2>2, <2>4, <4>1, Zenon
      <4>2. CASE i # Res(c)
        BY <1>1, <1>8, <2>2, <2>4, <3>2, <4>2, Zenon
      <4> QED
        BY <4>1, <4>2, Zenon
    <3> QED
      BY <1>1, <3>1, <3>2, Zenon DEF Reachable
  <2> QED
    BY <1>6, <1>7, <2>3, <2>6, <2>7, Zenon DEF GpuInv
<1> QED
  <2>1. ASSUME UNCHANGED resources PROVE UNCHANGED <<size, backing>> /\ scanout' = scanout
    BY <2>1, Zenon DEF resources
  <2>2. ASSUME Execute(c, q), Op(c) # "RESOURCE_CREATE_2D", Op(c) # "RESOURCE_ATTACH_BACKING"
        PROVE  UNCHANGED <<size, backing>> /\ scanout' \in BOOLEAN /\ (scanout => scanout')
    BY <2>2, Zenon DEF Execute, GpuInv, GpuTypes
  <2>3. scanout \in BOOLEAN
    BY Zenon DEF GpuInv, GpuTypes
  <2> QED
    BY <1>1, <1>2, <1>9, <1>10, <1>11, <2>1, <2>2, <2>3, Zenon

\* What an answer leaves alone.
Unmoved ==
  /\ UNCHANGED <<local, memory, dropped, frame_buffer_dma, cursor_buffer_dma, display,
                 left_behind, control_full>>
  /\ ~control_full

\* No command is left in the queue that answers.
LEMMA NothingBehind ==
  ASSUME GpuInv, Unmoved
  PROVE  Behind'
BY Zenon DEF GpuInv, Behind, Unmoved

\* The answer OK in a call that has no region of its own.
LEMMA AnsweredOther ==
  ASSUME GpuInv, NoRegion, todo # <<>>, Op(Head(todo)) \in Control,
         Execute(Head(todo), local), Proceed, Unmoved
  PROVE  GpuInv'
<1>1. Op(Head(todo)) \in {"GET_DISPLAY_INFO", "TRANSFER_TO_HOST_2D", "RESOURCE_FLUSH"}
  BY OtherStep, Zenon DEF Control
<1>2. UNCHANGED <<size, backing, scanout>>
  BY <1>1, Zenon DEF Execute, GpuInv, GpuTypes, Unmoved
<1>3. local = 0
  BY Zenon DEF NoRegion
<1>4. GpuTypes'
  <2>1. rect' \in Nat
    BY DisplaysAssumption, Zenon DEF Proceed, GpuInv, GpuTypes, Unmoved
  <2> QED
    BY <1>2, <2>1, Zenon DEF GpuInv, GpuTypes, Unmoved
<1>5. Position'
  <2>1. CASE Op(Head(todo)) = "GET_DISPLAY_INFO"
    <3>1. todo' = <<>> \/ todo' = FrameBufferCmds(display)
      BY <2>1, Zenon DEF Proceed
    <3>2. CASE todo' = <<>>
      BY <1>3, <3>2, Zenon DEF Position, NoRegion, Unmoved
    <3>3. CASE todo' = FrameBufferCmds(display)
      <4>1. PICK S : FrameBufferCmds(display) \in Seq(S)
        BY ProgramTypes, Zenon DEF IsSequence
      <4>2. todo' = Rest(FrameBufferCmds(display), 1)
        BY <3>3, <4>1, SubSeqFull, Zenon DEF Rest
      <4>3. FrameBufferAt(display, 1)'
        BY <1>3, <4>2 DEF FrameBufferAt, Unmoved
      <4> QED
        BY <4>3 DEF Position, GpuInv, GpuTypes, Unmoved
    <3> QED
      BY <3>1, <3>2, <3>3, Zenon
  <2>2. CASE Op(Head(todo)) # "GET_DISPLAY_INFO"
    <3>1. todo' = Tail(todo)
      BY <2>2, Zenon DEF Proceed
    <3>2. todo' = <<>> \/ \E n \in Nat : todo' = Rest(FlushCmds(n), 2)
      BY <2>2, <3>1, OtherStep, Zenon
    <3> QED
      BY <1>3, <3>2 DEF Position, NoRegion, Unmoved
  <2> QED
    BY <2>1, <2>2, Zenon
<1>6. Owned' /\ Shown'
  BY <1>2, Zenon DEF GpuInv, Owned, Shown, Unmoved
<1>7. Reachable'
  <2>1. ASSUME NEW n \in Displays, NEW k \in 4 .. 5 PROVE ~FrameBufferAt(n, k)
    BY <1>3 DEF FrameBufferAt, Unmoved
  <2>2. ASSUME NEW k \in 4 .. 6 PROVE ~CursorAt(k)
    BY <1>3 DEF CursorAt, Unmoved
  <2> QED
    BY <1>2, <2>1, <2>2, Zenon DEF GpuInv, Reachable, Unmoved
<1> QED
  BY <1>4, <1>5, <1>6, <1>7, NothingBehind, Zenon DEF GpuInv

\* The answer OK to the k-th command of setup_framebuffer.
LEMMA AnsweredFrameBuffer ==
  ASSUME GpuInv, Op(Head(todo)) \in Control,
         Valid(Head(todo)), Execute(Head(todo), local), Proceed,
         NEW n \in Displays, NEW k \in 1 .. 5, FrameBufferAt(n, k),
         Unmoved
  PROVE  GpuInv'
<1>1. todo = Rest(FrameBufferCmds(n), k)
  BY Zenon DEF FrameBufferAt, Unmoved
<1>2. /\ Tail(todo) = Rest(FrameBufferCmds(n), k + 1) /\ Res(Head(todo)) = "FB"
      /\ k = 1 => Op(Head(todo)) = "RESOURCE_CREATE_2D" /\ Pages(Head(todo)) = n
      /\ k = 3 => Op(Head(todo)) = "RESOURCE_ATTACH_BACKING"
      /\ k = 4 => Op(Head(todo)) = "SET_SCANOUT"
  BY <1>1, FrameBufferStep, Zenon
<1>3. k \in {1, 3, 4}
  BY <1>1, FrameBufferStep DEF Control
<1>4. todo' = Rest(FrameBufferCmds(n), k + 1) /\ rect' = rect
  <2>1. Op(Head(todo)) # "GET_DISPLAY_INFO"
    BY <1>2, <1>3, Zenon
  <2>2. todo' = Tail(todo) /\ rect' = rect
    BY <2>1, Zenon DEF Proceed
  <2> QED
    BY <1>2, <2>2, Zenon DEF Execute
<1>5. n \in Nat /\ n # 0
  BY DisplaysAssumption, Zenon
<1>6. ASSUME NEW j \in 4 .. 6 PROVE ~CursorAt(j)
  BY OnePosition
<1>7. backing["CURSOR"] \in {0, cursor_buffer_dma} \cup dropped
  BY <1>6, Zenon DEF GpuInv, Reachable, Unmoved
<1>8. CASE k = 1
  <2>1. size["FB"] = 0 /\ backing["FB"] = 0 /\ local = 0 /\ frame_buffer_dma = 0
    BY <1>2, <1>8 DEF Valid, FrameBufferAt, GpuInv, Shown, Id, Unmoved
  <2>2. size' = [size EXCEPT !["FB"] = n] /\ backing' = backing /\ scanout' = scanout
    BY <1>2, <1>8, Zenon DEF Execute, GpuInv, GpuTypes, Unmoved
  <2>3. GpuTypes'
    BY <1>4, <1>5, <2>2, Zenon DEF GpuInv, GpuTypes, Unmoved
  <2>4. FrameBufferAt(n, 2)'
    BY <1>4, <1>8, <2>1, <2>2 DEF FrameBufferAt, GpuInv, GpuTypes, Id, Unmoved
  <2>5. Owned'
    BY Zenon DEF GpuInv, Owned, Unmoved
  <2>6. Shown'
    BY <2>1, <2>2, Zenon DEF GpuInv, GpuTypes, Shown, Id, Unmoved
  <2>7. Reachable'
    BY <1>4, <1>7, <2>1, <2>2, Zenon DEF GpuInv, GpuTypes, Reachable, Id, Unmoved
  <2> QED
    BY <2>3, <2>4, <2>5, <2>6, <2>7, NothingBehind DEF GpuInv, Position
<1>9. CASE k = 3
  <2>1. /\ size["FB"] = n /\ backing["FB"] = 0 /\ local # 0 /\ memory[local] = n
        /\ frame_buffer_dma = 0
    BY <1>9 DEF FrameBufferAt, GpuInv, Shown, Unmoved
  <2>2. size' = size /\ backing' = [backing EXCEPT !["FB"] = local] /\ scanout' = scanout
    BY <1>2, <1>9, Zenon DEF Execute, GpuInv, GpuTypes, Unmoved
  <2>3. GpuTypes'
    BY <1>4, <2>2, Zenon DEF GpuInv, GpuTypes, Unmoved
  <2>4. FrameBufferAt(n, 4)'
    BY <1>4, <1>9, <2>1, <2>2 DEF FrameBufferAt, GpuInv, GpuTypes, Id, Unmoved
  <2>5. Owned'
    BY Zenon DEF GpuInv, Owned, Unmoved
  <2>6. Shown'
    BY <1>5, <2>1, <2>2, Zenon DEF GpuInv, GpuTypes, Shown, Id, Unmoved
  <2>7. Reachable'
    BY <1>4, <1>5, <1>7, <2>1, <2>2, <2>4 DEF GpuInv, GpuTypes, Reachable, Id, Unmoved
  <2> QED
    BY <2>3, <2>4, <2>5, <2>6, <2>7, NothingBehind DEF GpuInv, Position
<1>10. CASE k = 4
  <2>1. size["FB"] = n /\ backing["FB"] = local /\ local # 0 /\ memory[local] = n
    BY <1>10 DEF FrameBufferAt, Unmoved
  <2>2. size' = size /\ backing' = backing /\ scanout' = TRUE
    BY <1>2, <1>10, Zenon DEF Execute, GpuInv, GpuTypes, Unmoved
  <2>3. GpuTypes'
    BY <1>4, <2>2, Zenon DEF GpuInv, GpuTypes, Unmoved
  <2>4. FrameBufferAt(n, 5)'
    <3>1. todo' = Rest(FrameBufferCmds(n), 5)
      BY <1>4, <1>10
    <3>2. /\ local' # 0 /\ memory'[local'] = n /\ size'["FB"] = n
          /\ backing'["FB"] = local' /\ scanout'
      BY <2>1, <2>2, Zenon DEF Unmoved
    <3> QED
      BY <3>1, <3>2 DEF FrameBufferAt, Unmoved
  <2>5. Owned' /\ Shown'
    BY <2>2, Zenon DEF GpuInv, Owned, Shown, Unmoved
  <2>7. Reachable'
    BY <1>4, <1>7, <2>2, <2>4 DEF GpuInv, Reachable, Unmoved
  <2>8. Position'
    BY <2>4 DEF Position, Unmoved
  <2> QED
    BY <2>3, <2>5, <2>7, <2>8, NothingBehind, Zenon DEF GpuInv
<1> QED
  BY <1>3, <1>8, <1>9, <1>10, Zenon

\* The answer OK to the k-th command of setup_cursor.
LEMMA AnsweredCursor ==
  ASSUME GpuInv, Op(Head(todo)) \in Control,
         Valid(Head(todo)), Execute(Head(todo), local), Proceed,
         NEW k \in 1 .. 6, CursorAt(k),
         Unmoved
  PROVE  GpuInv'
<1>1. todo = Rest(CursorCmds, k)
  BY Zenon DEF CursorAt, Unmoved
<1>2. /\ Tail(todo) = Rest(CursorCmds, k + 1) /\ Res(Head(todo)) = "CURSOR"
      /\ k <= 4 => Pages(Head(todo)) = 4
      /\ k = 2 => Op(Head(todo)) = "RESOURCE_CREATE_2D"
      /\ k = 3 => Op(Head(todo)) = "RESOURCE_ATTACH_BACKING"
      /\ k = 4 => Op(Head(todo)) = "TRANSFER_TO_HOST_2D"
  BY <1>1, CursorStep, Zenon
<1>3. k \in {2, 3, 4}
  BY <1>1, CursorStep DEF Control
<1>4. todo' = Rest(CursorCmds, k + 1) /\ rect' = rect
  <2>1. Op(Head(todo)) # "GET_DISPLAY_INFO"
    BY <1>2, <1>3, Zenon
  <2>2. todo' = Tail(todo) /\ rect' = rect
    BY <2>1, Zenon DEF Proceed
  <2> QED
    BY <1>2, <2>2, Zenon DEF Execute
<1>5. local # 0 /\ memory[local] = 4
  BY <1>3 DEF CursorAt, Unmoved
<1>6. ASSUME NEW n \in Displays, NEW j \in 4 .. 5 PROVE ~FrameBufferAt(n, j)
  BY OnePosition
<1>7. backing["FB"] \in {0, frame_buffer_dma} \cup dropped
  BY <1>6, Zenon DEF GpuInv, Reachable, Unmoved
<1>8. CASE k = 2
  <2>1. size["CURSOR"] = 0 /\ backing["CURSOR"] = 0 /\ cursor_buffer_dma = 0
    BY <1>2, <1>8, Zenon DEF Valid, GpuInv, Shown, Id, Unmoved
  <2>2. size' = [size EXCEPT !["CURSOR"] = 4] /\ backing' = backing /\ scanout' = scanout
    <3>1. Op(Head(todo)) = "RESOURCE_CREATE_2D" /\ Pages(Head(todo)) = 4
      BY <1>2, <1>8
    <3> QED
      BY <1>2, <3>1, Zenon DEF Execute, GpuInv, GpuTypes, Unmoved
  <2>3. GpuTypes'
    BY <1>4, <2>2, Zenon DEF GpuInv, GpuTypes, Unmoved
  <2>4. CursorAt(3)'
    BY <1>4, <1>5, <1>8, <2>1, <2>2 DEF CursorAt, GpuInv, GpuTypes, Id, Unmoved
  <2>5. Owned'
    BY Zenon DEF GpuInv, Owned, Unmoved
  <2>6. Shown'
    BY <2>1, <2>2, Zenon DEF GpuInv, GpuTypes, Shown, Id, Unmoved
  <2>7. Reachable'
    BY <1>4, <1>7, <2>1, <2>2, Zenon DEF GpuInv, GpuTypes, Reachable, Id, Unmoved
  <2> QED
    BY <2>3, <2>4, <2>5, <2>6, <2>7, NothingBehind DEF GpuInv, Position
<1>9. CASE k = 3
  <2>1. size["CURSOR"] = 4 /\ backing["CURSOR"] = 0 /\ cursor_buffer_dma = 0
    BY <1>9 DEF CursorAt, GpuInv, Shown, Unmoved
  <2>2. size' = size /\ backing' = [backing EXCEPT !["CURSOR"] = local] /\ scanout' = scanout
    BY <1>2, <1>9, Zenon DEF Execute, GpuInv, GpuTypes, Unmoved
  <2>3. GpuTypes'
    BY <1>4, <2>2, Zenon DEF GpuInv, GpuTypes, Unmoved
  <2>4. CursorAt(4)'
    <3>1. backing'["CURSOR"] = local
      BY <2>2, Zenon DEF GpuInv, GpuTypes, Id
    <3> QED
      BY <1>4, <1>5, <1>9, <2>1, <2>2, <3>1 DEF CursorAt, Unmoved
  <2>5. Owned'
    BY Zenon DEF GpuInv, Owned, Unmoved
  <2>8. backing'["CURSOR"] = local /\ backing'["FB"] = backing["FB"]
    BY <2>2 DEF GpuInv, GpuTypes, Id
  <2>6. Shown'
    <3>1. \A i \in Id : size'[i] = 0 => backing'[i] = 0
      <4>1. size["CURSOR"] # 0
        BY <2>1
      <4>2. \A i \in Id : i = "FB" \/ i = "CURSOR"
        BY Zenon DEF Id
      <4> QED
        BY <2>2, <2>8, <4>1, <4>2, Zenon DEF GpuInv, Shown
    <3> QED
      BY <2>1, <2>2, <2>8, <3>1, Zenon DEF GpuInv, Shown, Unmoved
  <2>7. Reachable'
    BY <1>4, <1>5, <1>7, <2>1, <2>2, <2>4 DEF GpuInv, GpuTypes, Reachable, Id, Unmoved
  <2> QED
    BY <2>3, <2>4, <2>5, <2>6, <2>7, NothingBehind DEF GpuInv, Position
<1>10. CASE k = 4
  <2>1. size["CURSOR"] = 4 /\ backing["CURSOR"] = local
    BY <1>10 DEF CursorAt, Unmoved
  <2>2. size' = size /\ backing' = backing /\ scanout' = scanout
    BY <1>2, <1>10, Zenon DEF Execute, GpuInv, GpuTypes, Unmoved
  <2>3. GpuTypes'
    BY <1>4, <2>2, Zenon DEF GpuInv, GpuTypes, Unmoved
  <2>4. CursorAt(5)'
    BY <1>4, <1>5, <1>10, <2>1, <2>2 DEF CursorAt, Unmoved
  <2>5. Owned' /\ Shown'
    BY <2>2, Zenon DEF GpuInv, Owned, Shown, Unmoved
  <2>6. Reachable'
    BY <1>4, <1>7, <2>2, <2>4 DEF GpuInv, Reachable, Unmoved
  <2> QED
    BY <2>3, <2>4, <2>5, <2>6, NothingBehind DEF GpuInv, Position
<1> QED
  BY <1>3, <1>8, <1>9, <1>10, Zenon

\* The commands of the cursor queue.
LEMMA CursorRequestGpu ==
  ASSUME GpuInv, CursorRequest
  PROVE  GpuInv'
<1>1. /\ UNCHANGED <<local, rect, frame_buffer_dma, cursor_buffer_dma, dma, display, resources,
                     queues>>
      /\ todo # <<>> /\ Op(Head(todo)) \in {"UPDATE_CURSOR", "MOVE_CURSOR"}
      /\ todo' = Tail(todo)
  BY Zenon DEF CursorRequest, CursorNext, Cursor, fields
<1>2. CASE NoRegion
  <2>1. todo' = <<>>
    BY <1>1, <1>2, OtherStep, Zenon
  <2> QED
    BY <1>1, <1>2, <2>1, QuietGpu, Zenon DEF NoRegion, GpuInv, GpuTypes
<1>3. ASSUME NEW n \in Displays, NEW k \in 1 .. 5, FrameBufferAt(n, k) PROVE FALSE
  BY <1>1, <1>3, FrameBufferStep DEF FrameBufferAt
<1>4. ASSUME NEW k \in 1 .. 6, CursorAt(k) PROVE GpuInv'
  <2>1. todo = Rest(CursorCmds, k)
    BY <1>4, Zenon DEF CursorAt
  <2>2. k = 5 /\ todo' = Rest(CursorCmds, 6)
    BY <1>1, <2>1, CursorStep
  <2>3. CursorAt(6)'
    BY <1>1, <1>4, <2>2 DEF CursorAt, dma, resources, queues
  <2>4. \A n \in Displays, j \in 4 .. 5 : ~FrameBufferAt(n, j)
    BY <1>3
  <2>5. Reachable'
    BY <1>1, <2>3, <2>4 DEF GpuInv, Reachable, dma, resources
  <2>6. GpuTypes' /\ Owned' /\ Shown' /\ Behind'
    BY <1>1, Zenon DEF GpuInv, GpuTypes, Owned, Shown, Behind, LeftBehind, dma, resources, queues
  <2>7. Position'
    BY <2>3 DEF Position
  <2> QED
    BY <2>5, <2>6, <2>7, Zenon DEF GpuInv
<1> QED
  BY <1>2, <1>3, <1>4, Zenon DEF GpuInv, Position

\* Every step keeps the invariant of the display.
LEMMA NextGpu ==
  ASSUME GpuInv, [GpuNext]_gpu_vars
  PROVE  GpuInv'
<1>1. CASE setup_framebuffer \/ resolution \/ gpu_flush \/ SetupCursorInvalid \/ move_cursor
  BY <1>1, CallGpu, Zenon
<1>2. CASE setup_cursor
  BY <1>2, SetupCursorGpu, Zenon
<1>3. CASE dma_alloc_buf
  BY <1>3, AllocGpu, Zenon
<1>4. CASE StoreRegion
  BY <1>4, StoreGpu, Zenon
<1>5. CASE request
  <2>1. /\ todo # <<>> /\ Op(Head(todo)) \in Control /\ ~control_full
        /\ UNCHANGED <<memory, display, left_behind, control_full>>
    BY <1>5, Zenon DEF request, ControlNext, queues
  <2>2. \/ /\ Valid(Head(todo)) /\ Execute(Head(todo), local) /\ Proceed
           /\ UNCHANGED <<local, dropped, frame_buffer_dma, cursor_buffer_dma>>
        \/ UNCHANGED resources /\ Abandon("IoError")
    BY <1>5, Zenon DEF request, check_type
  <2>3. CASE UNCHANGED resources /\ Abandon("IoError")
    BY <2>1, <2>3, RefusedGpu, Zenon
  <2>4. CASE /\ Valid(Head(todo)) /\ Execute(Head(todo), local) /\ Proceed
             /\ UNCHANGED <<local, dropped, frame_buffer_dma, cursor_buffer_dma>>
    <3>4. Unmoved
      BY <2>1, <2>4, Zenon DEF Unmoved
    <3>1. CASE NoRegion
      BY <2>1, <2>4, <3>1, <3>4, AnsweredOther, Zenon
    <3>2. ASSUME NEW n \in Displays, NEW k \in 1 .. 5, FrameBufferAt(n, k) PROVE GpuInv'
      BY <2>1, <2>4, <3>2, <3>4, AnsweredFrameBuffer, Zenon
    <3>3. ASSUME NEW k \in 1 .. 6, CursorAt(k) PROVE GpuInv'
      BY <2>1, <2>4, <3>3, <3>4, AnsweredCursor, Zenon
    <3> QED
      BY <3>1, <3>2, <3>3, Zenon DEF GpuInv, Position
  <2> QED
    BY <2>2, <2>3, <2>4, Zenon
<1>6. CASE CursorRequest
  BY <1>6, CursorRequestGpu, Zenon
<1>8. CASE RequestUnnotified
  BY <1>8, UnnotifiedGpu, Zenon
<1>9. CASE CursorUnnotified \/ RequestFull
  <2>1. /\ \E e : Abandon(e)
        /\ UNCHANGED <<memory, display, resources, left_behind, control_full>>
    BY <1>9, Zenon DEF CursorUnnotified, RequestFull, queues
  <2> QED
    BY <2>1, RefusedGpu, Zenon
<1>10. CASE DevLate
  BY <1>10, LateGpu, Zenon
<1>7. CASE DevResize \/ UNCHANGED gpu_vars
  <2>1. /\ UNCHANGED <<todo, local, rect, frame_buffer_dma, cursor_buffer_dma, memory, dropped,
                       size, backing, scanout, left_behind, control_full>>
        /\ display' \in Displays
    BY <1>7, Zenon DEF DevResize, gpu_vars, fields, dma, resources, queues, GpuInv, GpuTypes
  <2>2. Position' /\ Reachable'
    <3>1. NoRegion => NoRegion'
      BY <2>1, Zenon DEF NoRegion
    <3>2. ASSUME NEW n, NEW k, FrameBufferAt(n, k) PROVE FrameBufferAt(n, k)'
      BY <2>1, <3>2, Zenon DEF FrameBufferAt
    <3>3. ASSUME NEW k, CursorAt(k) PROVE CursorAt(k)'
      BY <2>1, <3>3, Zenon DEF CursorAt
    <3>4. Position'
      BY <3>1, <3>2, <3>3, Zenon DEF GpuInv, Position
    <3>5. Reachable'
      BY <2>1, <3>2, <3>3, Zenon DEF GpuInv, Reachable
    <3> QED
      BY <3>4, <3>5, Zenon
  <2> QED
    BY <2>1, <2>2, Zenon DEF GpuInv, GpuTypes, Owned, Shown, Behind, LeftBehind
<1> QED
  BY <1>1, <1>2, <1>3, <1>4, <1>5, <1>6, <1>7, <1>8, <1>9, <1>10, Zenon DEF GpuNext

\* The invariant, always.
LEMMA GpuAlways == GpuSpec => []GpuInv
<1>1. GpuInit => GpuInv
  BY InitGpu, Zenon
<1>2. GpuInv /\ [GpuNext]_gpu_vars => GpuInv'
  BY NextGpu, Zenon
<1> QED
  BY <1>1, <1>2, PTL DEF GpuSpec

\* The device reads no memory but the driver's: the backing of a resource is as large
\* as the resource and is in a field, in the call that is not over, or was dropped by
\* a call that returned an error, whichever commands were refused or left in the queue.
THEOREM GpuReadsOwnMemory == GpuSpec => []DeviceReadsOwnMemory
<1>1. GpuInv => DeviceReadsOwnMemory
  <2> SUFFICES ASSUME GpuInv PROVE DeviceReadsOwnMemory
    OBVIOUS
  <2>1. backing["FB"] \in {0, frame_buffer_dma, local} \cup dropped
    <3>1. ASSUME NEW n \in Displays, NEW k \in 4 .. 5, FrameBufferAt(n, k) PROVE backing["FB"] = local
      BY <3>1 DEF FrameBufferAt
    <3> QED
      BY <3>1, Zenon DEF GpuInv, Reachable
  <2>2. backing["CURSOR"] \in {0, cursor_buffer_dma, local} \cup dropped
    <3>1. ASSUME NEW k \in 4 .. 6, CursorAt(k) PROVE backing["CURSOR"] = local
      BY <3>1 DEF CursorAt
    <3> QED
      BY <3>1, Zenon DEF GpuInv, Reachable
  <2> QED
    BY <2>1, <2>2, Zenon DEF GpuInv, Reachable, DeviceReadsOwnMemory, Id, None
<1> QED
  BY <1>1, GpuAlways, PTL

\* Between two calls the memory the program draws in is the memory that the device
\* shows, and the cursor has its own, whatever the device has refused.
THEOREM GpuShowsWhatIsDrawn == GpuSpec => []DrawsOnScreen
<1>1. GpuInv => DrawsOnScreen
  BY Zenon DEF GpuInv, Shown, Owned, DrawsOnScreen, None
<1> QED
  BY <1>1, GpuAlways, PTL

===============================================================================
