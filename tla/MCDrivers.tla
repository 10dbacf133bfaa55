----------------------------- MODULE MCDrivers -----------------------------
(***************************************************************************)
(* The block driver (Blk) and the GPU (Gpu), side by side.  They share     *)
(* nothing, so a behaviour is one of one of them: the other stands still.  *)
(***************************************************************************)
EXTENDS Blk, Gpu

VARIABLE running   \* the driver that runs

DriversInit ==
  /\ running \in {"blk", "gpu"}
  /\ Init /\ GpuInit
  /\ running = "blk" => \A n \in Displays : display <= n
  /\ running = "gpu" => ~debug /\ offered = {}

DriversNext ==
  /\ \/ running = "blk" /\ Next /\ UNCHANGED gpu_vars
     \/ running = "gpu" /\ GpuNext /\ UNCHANGED vars
  /\ UNCHANGED running

DriversSpec == DriversInit /\ [][DriversNext]_<<running, vars, gpu_vars>>

=============================================================================
