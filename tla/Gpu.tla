-------------------------------- MODULE Gpu --------------------------------
(***************************************************************************)
(* VirtIOGpu: setup_framebuffer, flush, setup_cursor and move_cursor as    *)
(* the sequences of commands they send, with the resources that the device *)
(* keeps from one command to the next and the DMA memory behind them.      *)
(*                                                                         *)
(* A command is one step: `request` blocks until the device has answered.  *)
(* When the notification fails it returns, and the device may carry the    *)
(* command out later (as it was sent: its buffers are on a stack that is   *)
(* gone).  A rectangle is abstracted to its number of pages, and the       *)
(* memory the device reads for a transfer is that many pages of the        *)
(* backing.                                                                *)
(***************************************************************************)
EXTENDS Integers, Sequences

CONSTANTS
  Displays,   \* sizes of the display, in pages
  MaxRegions  \* bound on the DMA regions allocated

ASSUME DisplaysAssumption == Displays \subseteq Nat \ {0}
\* The bytes of a display fit in the u32 that setup_framebuffer computes them in.
ASSUME DisplayBytesAssumption == \A n \in Displays : n <= 1048576
ASSUME MaxRegionsAssumption == MaxRegions \in Nat

VARIABLES
  call, todo,        \* the call in progress and the commands it has still to send
  result,            \* what the last call returned
  local,             \* the DMA region the call owns until it is stored
  rect, frame_buffer_dma, cursor_buffer_dma,   \* VirtIOGpu
  memory,            \* DMA memory: size of each region, 0 before it is allocated
  dropped,           \* history: regions whose owner was dropped
  display,           \* device: size of the display
  size, backing,     \* device: size (0: none) and backing of each resource
  scanout,           \* device: the resource shown is set
  left_behind,       \* <<command, region>> whose notification failed, or <<>>
  control_full,      \* its descriptors, all of control_queue, never come back
  cursor_lost        \* descriptors of cursor_queue that never come back

fields == <<rect, frame_buffer_dma, cursor_buffer_dma>>
dma == <<memory, dropped>>
resources == <<size, backing, scanout>>
queues == <<left_behind, control_full, cursor_lost>>
gpu_vars == <<call, todo, result, local, fields, dma, display, resources, queues>>

Id == {"FB", "CURSOR"}
Region == 1 .. MaxRegions
None == 0
CURSOR_RECT == 4
CURSOR_QUEUE_SIZE == 2

Cmd(op, id, n) == <<op, id, n>>
Op(c) == c[1]
Res(c) == c[2]
Pages(c) == c[3]

GpuInit ==
  /\ call = "new" /\ todo = << >> /\ result = "Ok" /\ local = None
  /\ rect = 0 /\ frame_buffer_dma = None /\ cursor_buffer_dma = None
  /\ memory = [r \in Region |-> 0] /\ dropped = {}
  /\ display \in Displays
  /\ size = [i \in Id |-> 0] /\ backing = [i \in Id |-> None] /\ scanout = FALSE
  /\ left_behind = << >> /\ control_full = FALSE /\ cursor_lost = 0

\* A DMA region is dropped: nothing is given back, as Page has no Drop.
Drop(r) == dropped' = dropped \cup ({r} \ {None})

-----------------------------------------------------------------------------
(* The calls *)

Call(name, cmds) ==
  /\ todo = << >>
  /\ call' = name /\ todo' = cmds /\ result' = "Ok"
  /\ UNCHANGED <<local, fields, dma, display, resources, queues>>

setup_framebuffer == Call("setup_framebuffer", <<Cmd("GET_DISPLAY_INFO", "FB", 0)>>)

resolution == Call("resolution", <<Cmd("GET_DISPLAY_INFO", "FB", 0)>>)

\* Mutant of FrameBufferCmds: one page is allocated whatever the display's size.
FrameBufferCmdsPage(n) ==
  <<Cmd("RESOURCE_CREATE_2D", "FB", n), Cmd("dma_alloc_buf", "FB", 1),
    Cmd("RESOURCE_ATTACH_BACKING", "FB", n), Cmd("SET_SCANOUT", "FB", n),
    Cmd("store", "FB", 0)>>

\* What setup_framebuffer does once it knows the display.
FrameBufferCmds(n) ==
  <<Cmd("RESOURCE_CREATE_2D", "FB", n), Cmd("dma_alloc_buf", "FB", n),
    Cmd("RESOURCE_ATTACH_BACKING", "FB", n), Cmd("SET_SCANOUT", "FB", n),
    Cmd("store", "FB", 0)>>

gpu_flush ==
  IF rect = 0
  THEN /\ todo = << >> /\ call' = "flush" /\ result' = "NotReady"
       /\ UNCHANGED <<todo, local, fields, dma, display, resources, queues>>
  ELSE Call("flush", <<Cmd("TRANSFER_TO_HOST_2D", "FB", rect),
                       Cmd("RESOURCE_FLUSH", "FB", rect)>>)

setup_cursor ==
  Call("setup_cursor",
       <<Cmd("dma_alloc_buf", "CURSOR", CURSOR_RECT),
         Cmd("RESOURCE_CREATE_2D", "CURSOR", CURSOR_RECT),
         Cmd("RESOURCE_ATTACH_BACKING", "CURSOR", CURSOR_RECT),
         Cmd("TRANSFER_TO_HOST_2D", "CURSOR", CURSOR_RECT),
         Cmd("UPDATE_CURSOR", "CURSOR", 0), Cmd("store", "CURSOR", 0)>>)

\* setup_cursor with an image of the wrong length
SetupCursorInvalid ==
  /\ todo = << >> /\ call' = "setup_cursor" /\ result' = "InvalidParam"
  /\ UNCHANGED <<todo, local, fields, dma, display, resources, queues>>

move_cursor == Call("move_cursor", <<Cmd("MOVE_CURSOR", "CURSOR", 0)>>)

-----------------------------------------------------------------------------
(* The steps of a call *)

At(op) == todo # << >> /\ Op(Head(todo)) = op

\* H::dma_alloc_buf takes the memory behind what it gave out before.
dma_alloc_buf ==
  /\ At("dma_alloc_buf")
  /\ \E r \in Region :
       /\ memory[r] = 0 /\ \A q \in Region : memory[q] = 0 => r <= q
       /\ memory' = [memory EXCEPT ![r] = Pages(Head(todo))] /\ local' = r
  /\ todo' = Tail(todo)
  /\ UNCHANGED <<call, result, fields, dropped, display, resources, queues>>

\* The region moves into its field and the one that was there is dropped.
StoreRegion ==
  /\ At("store")
  /\ IF Res(Head(todo)) = "FB"
     THEN /\ Drop(frame_buffer_dma)
          /\ frame_buffer_dma' = local /\ UNCHANGED cursor_buffer_dma
     ELSE /\ Drop(cursor_buffer_dma)
          /\ cursor_buffer_dma' = local /\ UNCHANGED frame_buffer_dma
  /\ local' = None /\ todo' = Tail(todo)
  /\ UNCHANGED <<call, result, rect, memory, display, resources, queues>>

-----------------------------------------------------------------------------
(* The device (external).  Valid says which commands it can carry out; it    *)
(* may refuse those too, when it is out of memory.                           *)

Valid(c) ==
  CASE Op(c) = "RESOURCE_CREATE_2D" -> size[Res(c)] = 0
    [] Op(c) = "RESOURCE_ATTACH_BACKING" -> size[Res(c)] # 0 /\ backing[Res(c)] = None
    [] Op(c) = "SET_SCANOUT" -> Pages(c) <= size[Res(c)]
    [] Op(c) = "TRANSFER_TO_HOST_2D" -> backing[Res(c)] # None /\ Pages(c) <= size[Res(c)]
    [] Op(c) = "RESOURCE_FLUSH" -> Pages(c) <= size[Res(c)]
    [] OTHER -> TRUE

\* What it does; region is the one that the command names.
Execute(c, region) ==
  /\ size' = IF Op(c) = "RESOURCE_CREATE_2D" THEN [size EXCEPT ![Res(c)] = Pages(c)] ELSE size
  /\ backing' = IF Op(c) = "RESOURCE_ATTACH_BACKING"
                THEN [backing EXCEPT ![Res(c)] = region] ELSE backing
  /\ scanout' = (scanout \/ Op(c) = "SET_SCANOUT")

\* The device comes to a command whose notification failed.
DevLate ==
  /\ left_behind # << >> /\ left_behind' = << >>
  /\ \/ Valid(left_behind[1]) /\ Execute(left_behind[1], left_behind[2])
     \/ UNCHANGED resources
  /\ UNCHANGED <<call, todo, result, local, fields, dma, display, control_full, cursor_lost>>

DevResize ==
  /\ display' \in Displays \ {display}
  /\ UNCHANGED <<call, todo, result, local, fields, dma, resources, queues>>

-----------------------------------------------------------------------------
(* Answers *)

\* The commands of control_queue, which are answered; those of cursor_queue are not.
Control == {"GET_DISPLAY_INFO", "RESOURCE_CREATE_2D", "RESOURCE_ATTACH_BACKING",
            "SET_SCANOUT", "TRANSFER_TO_HOST_2D", "RESOURCE_FLUSH"}
Cursor == {"UPDATE_CURSOR", "MOVE_CURSOR"}

\* Mutant of check_type: an error is not noticed.
check_type_never(rsp) == TRUE

check_type(rsp) == rsp = "OK"

\* The answer is OK and the call goes on; setup_framebuffer sets rect and knows
\* the rest of its commands once it has the display info.
Proceed ==
  LET c == Head(todo) IN
  CASE Op(c) # "GET_DISPLAY_INFO" -> todo' = Tail(todo) /\ UNCHANGED rect
    [] Op(c) = "GET_DISPLAY_INFO" /\ call = "resolution" -> todo' = << >> /\ UNCHANGED rect
    [] OTHER -> todo' = FrameBufferCmds(display) /\ rect' = display

\* `?` on an error: the call returns and its region is dropped.
Abandon(err) ==
  /\ todo' = << >> /\ result' = err
  /\ Drop(local) /\ local' = None
  /\ UNCHANGED fields

\* The next command goes to control_queue, and there are descriptors for it.
ControlNext == todo # << >> /\ Op(Head(todo)) \in Control /\ ~control_full
CursorNext == todo # << >> /\ Op(Head(todo)) \in Cursor /\ cursor_lost < CURSOR_QUEUE_SIZE

\* request and check_type
request ==
  /\ ControlNext
  /\ \E rsp \in {"OK", "ERR"} :
       /\ rsp = "OK" => Valid(Head(todo))
       /\ IF rsp = "OK" THEN Execute(Head(todo), local) ELSE UNCHANGED resources
       /\ IF check_type(rsp)
          THEN Proceed /\ UNCHANGED <<result, local, dropped, frame_buffer_dma, cursor_buffer_dma>>
          ELSE Abandon("IoError")
  /\ UNCHANGED <<call, memory, display, queues>>

\* The notification fails: `?` leaves the command in the queue.  A command and its
\* answer take the two descriptors of control_queue.
RequestUnnotified ==
  /\ ControlNext
  /\ left_behind' = <<Head(todo), local>> /\ control_full' = TRUE
  /\ Abandon("IoError")
  /\ UNCHANGED <<call, memory, display, resources, cursor_lost>>

\* cursor_request.  After a failed notification it may find the element of an earlier
\* command and return before the device has read this one, on which nothing depends.
CursorRequest ==
  /\ CursorNext
  /\ todo' = Tail(todo)
  /\ UNCHANGED <<call, result, local, fields, dma, display, resources, queues>>

CursorUnnotified ==
  /\ CursorNext
  /\ cursor_lost' = cursor_lost + 1
  /\ Abandon("IoError")
  /\ UNCHANGED <<call, memory, display, resources, left_behind, control_full>>

\* `add` finds no descriptors.
RequestFull ==
  /\ todo # << >> /\ Op(Head(todo)) \in Control \cup Cursor /\ ~ControlNext /\ ~CursorNext
  /\ Abandon("QueueFull")
  /\ UNCHANGED <<call, memory, display, resources, queues>>

GpuNext ==
  \/ setup_framebuffer \/ resolution \/ gpu_flush
  \/ setup_cursor \/ SetupCursorInvalid \/ move_cursor
  \/ dma_alloc_buf \/ StoreRegion
  \/ request \/ RequestUnnotified \/ CursorRequest \/ CursorUnnotified \/ RequestFull
  \/ DevLate \/ DevResize

GpuSpec == GpuInit /\ [][GpuNext]_gpu_vars

-----------------------------------------------------------------------------
(* Properties *)

\* The memory behind a resource is the driver's, and a transfer, which is no larger
\* than the resource, stays within it: the device was given a whole region that is in
\* its field, in the call that is not over, or in a call that returned an error.
\* (Then it is dropped while the device has it, which is harmless only because the
\* allocator never gives memory out twice.)
DeviceReadsOwnMemory ==
  \A i \in Id : backing[i] # None =>
    /\ size[i] <= memory[backing[i]]
    /\ \/ backing[i] \in dropped \cup {local}
       \/ i = "FB" /\ backing[i] = frame_buffer_dma
       \/ i = "CURSOR" /\ backing[i] = cursor_buffer_dma

\* Between two calls the memory the program draws in is the memory the device
\* reads for the frame buffer, the display shows it, and the cursor has its own,
\* whichever commands the device has refused, or was not told of.
DrawsOnScreen ==
  todo = << >> =>
    /\ frame_buffer_dma # None => backing["FB"] = frame_buffer_dma /\ scanout
    /\ cursor_buffer_dma # None => backing["CURSOR"] = cursor_buffer_dma
    /\ frame_buffer_dma = cursor_buffer_dma => frame_buffer_dma = None

=============================================================================
