------------------------------ MODULE Console ------------------------------
(***************************************************************************)
(* Receiving on VirtIOConsole: poll_retrieve, finish_receive, recv,        *)
(* recv_block and ack_interrupt.  Every call has the driver to itself      *)
(* (&mut self); the device fills receive buffers between any two steps.    *)
(* There is one buffer, queue_buf_rx, for every request: a request whose   *)
(* notification failed stays with the device and shares it with the next.  *)
(* A character is named by its place and by the fill that wrote it.        *)
(***************************************************************************)
EXTENDS Integers, Sequences

CONSTANTS
  MaxLen,      \* the most characters the device writes at a time
  NotifyFails  \* TRUE: Transport::notify may return an error

ASSUME MaxLenAssumption == MaxLen \in Nat \ {0}
ASSUME NotifyFailsAssumption == NotifyFails \in BOOLEAN

VARIABLES
  receive_token, cursor, pending_len,
  free,         \* avail_desc_index of receiveq
  posted,       \* receive requests the device has
  used,         \* the used ring from last_seen_used on
  call, pc,     \* the call in progress
  token,        \* the token add_notify_wait_pop waits for
  ret,          \* what the last call returned
  queue_buf_rx, \* the fill that wrote each place last, 0 at first
  fills,        \* how often the device filled the buffer
  returned      \* the characters that were returned and consumed (history)

queue == <<free, posted, used>>
content == <<queue_buf_rx, fills>>
vars == <<receive_token, cursor, pending_len, queue, call, pc, token, ret,
          content, returned>>

None == -1
Token == 0 .. 1   \* QUEUE_SIZE is 2

Init ==
  /\ receive_token = None /\ cursor = 0 /\ pending_len = 0
  /\ free = <<0, 1>> /\ posted = {} /\ used = <<>>
  /\ call = "recv" /\ pc = "idle" /\ token = 0 /\ ret = "none"
  /\ queue_buf_rx = [i \in 1 .. MaxLen |-> 0] /\ fills = 0 /\ returned = {}

-----------------------------------------------------------------------------
(* The receive queue *)

peek_used == IF used = <<>> THEN None ELSE used[1].id

can_pop(t) == \E k \in DOMAIN used : used[k].id = t

\* pop_used(t): the first element with that token is marked, and the window
\* moves past the marked elements at its start.
pop_used(t) ==
  \E k \in DOMAIN used :
    /\ used[k].id = t /\ \A j \in 1 .. k - 1 : used[j].id # t
    /\ LET ring == [used EXCEPT ![k].popped = TRUE]
       IN \E n \in 0 .. Len(ring) :
            /\ \A j \in 1 .. n : ring[j].popped
            /\ n < Len(ring) => ~ring[n + 1].popped
            /\ used' = SubSeq(ring, n + 1, Len(ring))
    /\ free' = Append(free, t)

-----------------------------------------------------------------------------
(* The calls *)

Begin(c, first) ==
  /\ pc = "idle"
  /\ call' = c /\ pc' = first
  /\ UNCHANGED <<receive_token, cursor, pending_len, queue, token, ret,
                 content, returned>>

\* recv(false) and recv(true)
recv == Begin("peek", "finish") \/ Begin("recv", "finish")

recv_block == Begin("recv_block", "finish")

\* With no interrupt pending the call returns false.
AckNone ==
  /\ pc = "idle"
  /\ call' = "ack" /\ ret' = "none"
  /\ UNCHANGED <<receive_token, cursor, pending_len, queue, pc, token,
                 content, returned>>

ack_interrupt == AckNone \/ Begin("ack", "finish")

\* Where a call goes on after finish_receive.
AfterFinish == CASE call = "ack" -> "idle"
                 [] call = "recv_block" -> "retrieve"
                 [] OTHER -> "check"

\* Where a call goes on after poll_retrieve.
AfterRetrieve == IF call = "recv_block" THEN "block_check" ELSE "idle"

finish_receive ==
  /\ pc = "finish"
  /\ pc' = AfterFinish
  /\ IF receive_token # None /\ receive_token = peek_used
     THEN /\ pop_used(receive_token)
          /\ cursor' = 0
          /\ pending_len' = used[1].len
          /\ receive_token' = None
          /\ ret' = IF call = "ack" THEN "some" ELSE ret
     ELSE /\ ret' = IF call = "ack" THEN "none" ELSE ret
          /\ UNCHANGED <<receive_token, cursor, pending_len, free, used>>
  /\ UNCHANGED <<posted, call, token, content, returned>>

\* Mutant of Consume: the cursor stays.
ConsumeNot ==
  /\ returned' = returned \cup {<<queue_buf_rx[cursor + 1], cursor + 1>>}
  /\ UNCHANGED cursor

\* The character at the cursor is returned, and consumed.
Consume ==
  /\ returned' = returned \cup {<<queue_buf_rx[cursor + 1], cursor + 1>>}
  /\ cursor' = cursor + 1

\* Mutant of RecvCheck: recv tries again where it should return None.
RecvCheckAgain ==
  /\ pc = "check"
  /\ IF cursor = pending_len THEN ret' = "none" /\ pc' = "finish" /\ UNCHANGED <<cursor, returned>>
     ELSE /\ ret' = "some"
          /\ IF call = "recv" THEN Consume /\ pc' = "retrieve"
                              ELSE pc' = "idle" /\ UNCHANGED <<cursor, returned>>
  /\ UNCHANGED <<receive_token, pending_len, queue, call, token, content>>

\* The rest of recv, up to its poll_retrieve.
RecvCheck ==
  /\ pc = "check"
  /\ IF cursor = pending_len THEN ret' = "none" /\ pc' = "idle" /\ UNCHANGED <<cursor, returned>>
     ELSE /\ ret' = "some"
          /\ IF call = "recv" THEN Consume /\ pc' = "retrieve"
                              ELSE pc' = "idle" /\ UNCHANGED <<cursor, returned>>
  /\ UNCHANGED <<receive_token, pending_len, queue, call, token, content>>

\* The rest of a turn of recv_block.
BlockCheck ==
  /\ pc = "block_check"
  /\ IF cursor = pending_len THEN pc' = "finish" /\ UNCHANGED <<cursor, ret, returned>>
                             ELSE pc' = "idle" /\ ret' = "some" /\ Consume
  /\ UNCHANGED <<receive_token, pending_len, queue, call, token, content>>

\* poll_retrieve asks for data only if nothing is outstanding and nothing unread.
MayRetrieve == receive_token = None /\ cursor = pending_len

RetrieveSkip ==
  /\ pc = "retrieve" /\ ~MayRetrieve
  /\ pc' = AfterRetrieve
  /\ UNCHANGED <<receive_token, cursor, pending_len, queue, call, token, ret,
                 content, returned>>

\* `add` returns QueueFull.
RetrieveFull ==
  /\ pc = "retrieve" /\ MayRetrieve /\ free = <<>>
  /\ pc' = "idle" /\ ret' = "error"
  /\ UNCHANGED <<receive_token, cursor, pending_len, queue, call, token,
                 content, returned>>

RetrieveAdd ==
  /\ pc = "retrieve" /\ MayRetrieve /\ free # <<>>
  /\ token' = Head(free) /\ free' = Tail(free)
  /\ posted' = posted \cup {Head(free)}
  /\ pc' = "notify"
  /\ UNCHANGED <<receive_token, cursor, pending_len, used, call, ret,
                 content, returned>>

Notify ==
  /\ pc = "notify"
  /\ pc' = "wait"
  /\ UNCHANGED <<receive_token, cursor, pending_len, queue, call, token, ret,
                 content, returned>>

\* The error is returned; the request stays in the queue.
NotifyError ==
  /\ NotifyFails /\ pc = "notify"
  /\ pc' = "idle" /\ ret' = "error"
  /\ UNCHANGED <<receive_token, cursor, pending_len, queue, call, token,
                 content, returned>>

\* add_notify_wait_pop finds its request used and pops it; the length is only
\* logged, and receive_token is set to 0.
RetrievePop ==
  /\ pc = "wait" /\ can_pop(token)
  /\ pop_used(token)
  /\ receive_token' = 0
  /\ pc' = AfterRetrieve
  /\ UNCHANGED <<cursor, pending_len, posted, call, token, ret, content, returned>>

\* A turn of the wait that finds nothing.
RetrieveSpin ==
  /\ pc = "wait" /\ ~can_pop(token)
  /\ UNCHANGED vars

-----------------------------------------------------------------------------
(* The device (external): it fills the requests it has in any order, each    *)
(* with a character at least, as finish_receive asserts.                     *)

DevUse(t, n) ==
  /\ t \in posted
  /\ posted' = posted \ {t}
  /\ used' = Append(used, [id |-> t, len |-> n, popped |-> FALSE])
  /\ fills' = fills + 1
  /\ queue_buf_rx' = [i \in 1 .. MaxLen |-> IF i <= n THEN fills + 1 ELSE queue_buf_rx[i]]
  /\ UNCHANGED <<receive_token, cursor, pending_len, free, call, pc, token, ret, returned>>

CallStep ==
  \/ finish_receive \/ RecvCheck \/ BlockCheck
  \/ RetrieveSkip \/ RetrieveFull \/ RetrieveAdd \/ RetrievePop
  \/ Notify

Next ==
  \/ recv \/ recv_block \/ ack_interrupt
  \/ CallStep \/ NotifyError \/ RetrieveSpin
  \/ \E t \in Token, n \in 1 .. MaxLen : DevUse(t, n)

Spec == Init /\ [][Next]_vars

\* A call that has begun goes on.  Nothing is asked of the device: characters
\* arrive when somebody types.
FairSpec == Spec /\ WF_vars(CallStep)

-----------------------------------------------------------------------------
(* Properties *)

\* Each read of queue_buf_rx returns a character that was received and was not
\* returned before: the places from the cursor to pending_len were written by the
\* device, and the device has no request that could write them again.  Which fill
\* wrote them is not said: after a notification that failed, two requests share
\* the buffer, and the characters of one come under the length of the other.
UnreadIsFresh ==
  /\ cursor <= pending_len
  /\ cursor < pending_len => posted = {}
  /\ \A i \in cursor + 1 .. pending_len :
       queue_buf_rx[i] # 0 /\ <<queue_buf_rx[i], i>> \notin returned

\* recv and ack_interrupt return, whatever the device does, but for one case:
\* recv(true) of the last character waits in poll_retrieve while the device has the
\* request it made, that is until the next character arrives.
RecvReturns ==
  (pc # "idle" /\ call \in {"peek", "recv", "ack"})
    ~> (pc = "idle" \/ (pc = "wait" /\ token \in posted))

\* A request finds the buffer free: "there are no other outstanding requests using
\* the buffer" (poll_retrieve).
BufferNotShared == pc \in {"notify", "wait"} => posted \subseteq {token}

\* Characters that the device has delivered are returned by the call that waits
\* for them: "Returns the next available character from the console, if any".
CharactersAreReturned == used # <<>> ~> (pc = "idle" /\ ret = "some")

=============================================================================
