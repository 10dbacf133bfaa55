---------------------------- MODULE RequestQueue ----------------------------
(***************************************************************************)
(* What a virtqueue promises its client, without rings or descriptors:     *)
(* requests are handed over under a token, the device completes each at    *)
(* most once and in any order, and the result is collected by token.       *)
(***************************************************************************)
EXTENDS Integers, Sequences, FiniteSets

CONSTANTS
  Token,      \* the tokens `add` may return
  Capacity,   \* the number of buffers that can be outstanding
  Requests,   \* the buffer lists a client may submit
  Lens        \* the lengths the device may report

VARIABLES
  request,    \* the buffers submitted under each token, or <<>>
  completed,  \* the length reported for it, or -1
  ret         \* the result of the last call

vars == <<request, completed, ret>>

Init ==
  /\ request = [t \in Token |-> <<>>]
  /\ completed = [t \in Token |-> -1]
  /\ ret = [kind |-> "Ok", val |-> 0]

\* The buffers submitted and not popped, by token and position.
InUse == Cardinality(UNION {{<<t, i>> : i \in 1 .. Len(request[t])} : t \in Token})

Submit(t, r) ==
  /\ request[t] = <<>>
  /\ InUse + Len(r) <= Capacity
  /\ request' = [request EXCEPT ![t] = r]
  /\ ret' = [kind |-> "Ok", val |-> t]
  /\ UNCHANGED completed

SubmitFull(r) ==
  /\ InUse + Len(r) > Capacity
  /\ ret' = [kind |-> "QueueFull", val |-> 0]
  /\ UNCHANGED <<request, completed>>

Complete(t, len) ==
  /\ request[t] # <<>>
  /\ completed[t] = -1
  /\ completed' = [completed EXCEPT ![t] = len]
  /\ UNCHANGED <<request, ret>>

Pop(t) ==
  /\ request[t] # <<>>
  /\ completed[t] # -1
  /\ ret' = [kind |-> "Ok", val |-> completed[t]]
  /\ request' = [request EXCEPT ![t] = <<>>]
  /\ completed' = [completed EXCEPT ![t] = -1]

PopNotReady(t) ==
  /\ request[t] # <<>>
  /\ completed[t] = -1
  /\ ret' = [kind |-> "NotReady", val |-> 0]
  /\ UNCHANGED <<request, completed>>

Next ==
  \/ \E r \in Requests : SubmitFull(r) \/ \E t \in Token : Submit(t, r)
  \/ \E t \in Token : Pop(t) \/ PopNotReady(t) \/ \E len \in Lens : Complete(t, len)

Spec == Init /\ [][Next]_vars

=============================================================================
