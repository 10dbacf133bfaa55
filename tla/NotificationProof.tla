--------------------------- MODULE NotificationProof ---------------------------
(***************************************************************************)
(* Proofs about Notification, for every set of tokens, for clients that    *)
(* block and that poll: no notification is lost, no buffer is given back   *)
(* while the device can reach it, and the free list holds only free        *)
(* descriptors.                                                            *)
(***************************************************************************)
EXTENDS Notification, SequenceTheorems, TLAPS

\* The empty sequence has every type.
LEMMA EmptyTyped == \A S : <<>> \in Seq(S)
  OBVIOUS

\* The types hold at first.
LEMMA InitTypeOK == Init => TypeOK
  BY EmptyTyped, ZenonT(30) DEF Init, TypeOK

\* pop_used leaves a used ring, a set of free descriptors and a set of loans.
LEMMA PopTyped ==
  ASSUME TypeOK, NEW t \in Token, pop_used(t)
  PROVE  used' \in Seq(UsedElem) /\ free' \subseteq Token /\ lent' \subseteq Token
<1>1. PICK k \in DOMAIN used :
        LET ring == [used EXCEPT ![k].popped = TRUE]
        IN \E n \in 0 .. Len(ring) : used' = SubSeq(ring, n + 1, Len(ring))
  BY ZenonT(30) DEF pop_used
<1> DEFINE ring == [used EXCEPT ![k].popped = TRUE]
<1>2. ring \in Seq(UsedElem)
  <2>1. used \in Seq(UsedElem) /\ k \in 1 .. Len(used) /\ used[k] \in UsedElem
    BY DEF TypeOK
  <2>2. [used[k] EXCEPT !.popped = TRUE] \in UsedElem
    BY <2>1, ZenonT(30) DEF UsedElem
  <2> QED
    BY <2>1, <2>2, ExceptSeq
<1>3. PICK n \in 0 .. Len(ring) : used' = SubSeq(ring, n + 1, Len(ring))
  BY <1>1
<1>4. used' \in Seq(UsedElem)
  <2> HIDE DEF ring
  <2> QED  BY <1>2, <1>3
<1> QED
  BY <1>4, ZenonT(30) DEF pop_used, TypeOK

\* Every step keeps the types.
LEMMA NextTypeOK == TypeOK /\ [Next]_vars => TypeOK'
<1> SUFFICES ASSUME TypeOK, [Next]_vars PROVE TypeOK'
  OBVIOUS
<1>1. ASSUME NEW t \in Token, AddOk(t) PROVE TypeOK'
  <2>1. avail' \in Seq(Token) /\ buffered' \in Seq(Token)
    <3>1. buffered \in Seq(Token) /\ avail \in Seq(Token) /\ Publish(t)
      BY <1>1 DEF TypeOK, AddOk
    <3>2. <<t>> \in Seq(Token)
      OBVIOUS
    <3>3. CASE store_buffer
      BY <3>1, <3>2, <3>3, ConcatProperties, ZenonT(30) DEF Publish
    <3>4. CASE ~store_buffer
      BY <3>1, <3>4, AppendProperties DEF Publish
    <3> QED  BY <3>3, <3>4
  <2> QED
    BY <1>1, <2>1 DEF TypeOK, AddOk, device, setting
<1>2. CASE ShouldNotify
  BY <1>2 DEF TypeOK, ShouldNotify, AfterNotify, rings, device, setting
<1>3. CASE Notify
  BY <1>3, EmptyTyped DEF TypeOK, Notify, AfterNotify, device, setting
<1>4. CASE NotifyError
  BY <1>4 DEF TypeOK, NotifyError, rings, device, setting
<1>5. CASE WaitPop
  BY <1>5, PopTyped DEF TypeOK, WaitPop, device, setting
<1>6. CASE PeekPop
  <2>1. used[1].id \in Token
    <3>1. used \in Seq(UsedElem) /\ used # <<>>
      BY <1>6 DEF TypeOK, PeekPop
    <3>2. 1 \in 1 .. Len(used)
      BY <3>1, EmptySeq
    <3>3. used[1] \in UsedElem
      BY <3>1, <3>2, ElementOfSeq
    <3> QED
      BY <3>3 DEF UsedElem
  <2> QED
    BY <1>6, <2>1, PopTyped DEF TypeOK, PeekPop, device, setting
<1>7. CASE Drain
  BY <1>7, EmptyTyped DEF TypeOK, Drain, device, setting
<1>8. CASE DevWake
  BY <1>8, ZenonT(30) DEF TypeOK, DevWake, rings, setting
<1>9. CASE DevFetch
  BY <1>9 DEF TypeOK, DevFetch, setting
<1>10. CASE DevAllow
  BY <1>10, ZenonT(30) DEF TypeOK, DevAllow, rings, setting
<1>11. CASE DevRecheck
  BY <1>11, ZenonT(30) DEF TypeOK, DevRecheck, rings, setting
<1>12. ASSUME NEW t \in Token, DevUse(t) PROVE TypeOK'
  BY <1>12 DEF TypeOK, DevUse, UsedElem, setting
<1>13. CASE UNCHANGED vars
  BY <1>13 DEF TypeOK, vars, setting
<1> QED
  BY <1>1, <1>2, <1>3, <1>4, <1>5, <1>6, <1>7, <1>8, <1>9, <1>10, <1>11, <1>12, <1>13
  DEF Next, CallStep, AddFull, WaitSpin

\* The state of a queue and of a call stays well formed.
THEOREM TypeCorrect == Spec => []TypeOK
  BY InitTypeOK, NextTypeOK, PTL DEF Spec

-----------------------------------------------------------------------------
(* NoLostKick needs to know that a device that sleeps, or that is about to *)
(* look again before it sleeps, does not suppress notifications, and that  *)
(* no store waits in a store buffer.                                       *)

WakeInv ==
  /\ NoLostKick
  /\ dev # "awake" => ~no_notify
  /\ ~store_buffer => buffered = <<>>

\* Nothing is in flight at first.
LEMMA InitWake == Init => WakeInv
  BY DEF Init, WakeInv, NoLostKick

\* Every step keeps the invariant.
LEMMA NextWake == TypeOK /\ WakeInv /\ [Next]_vars => WakeInv'
<1> SUFFICES ASSUME TypeOK, WakeInv, [Next]_vars PROVE WakeInv'
  OBVIOUS
<1> USE DEF WakeInv, NoLostKick, setting
<1>1. ASSUME NEW t \in Token, AddOk(t) PROVE WakeInv'
  BY <1>1 DEF AddOk, Publish, device
<1>2. CASE ShouldNotify
  BY <1>2 DEF ShouldNotify, rings, device
<1>3. CASE Notify
  BY <1>3 DEF Notify, device
<1>4. CASE NotifyError
  BY <1>4 DEF NotifyError, rings, device
<1>5. CASE WaitPop
  BY <1>5 DEF WaitPop, device
<1>6. CASE PeekPop
  BY <1>6 DEF PeekPop, device
<1>7. CASE Drain
  BY <1>7 DEF Drain, device
<1>8. CASE DevWake
  BY <1>8 DEF DevWake, rings
<1>9. CASE DevFetch
  BY <1>9 DEF DevFetch
<1>10. CASE DevAllow
  BY <1>10 DEF DevAllow, rings
<1>11. CASE DevRecheck
  BY <1>11, ZenonT(30) DEF DevRecheck, rings
<1>12. ASSUME NEW t \in Token, DevUse(t) PROVE WakeInv'
  BY <1>12 DEF DevUse
<1>13. CASE UNCHANGED vars
  BY <1>13 DEF vars
<1> HIDE DEF WakeInv, NoLostKick, setting
<1> QED
  BY <1>1, <1>2, <1>3, <1>4, <1>5, <1>6, <1>7, <1>8, <1>9, <1>10, <1>11, <1>12, <1>13
  DEF Next, CallStep, AddFull, WaitSpin

\* As long as a load cannot overtake an earlier store and no notification has
\* failed, the flag that should_notify reads never makes the driver skip a
\* notification the device needs.
THEOREM KickNeverLost == Spec => []NoLostKick
<1>1. WakeInv => NoLostKick
  BY DEF WakeInv
<1> QED
  BY <1>1, InitWake, NextWake, TypeCorrect, PTL DEF Spec

-----------------------------------------------------------------------------
(* Who has a token.  A token is free or in one place only: the store        *)
(* buffer, the available ring, the device or the used ring.  For a client   *)
(* that keeps to the contract nothing in the window of the used ring is     *)
(* popped already, because it pops the first element: a client that does    *)
(* not block pops what peek_used returns, and one that blocks has a single  *)
(* request.                                                                 *)

NoDup(s) == \A i, j \in DOMAIN s : s[i] = s[j] => i = j
UsedIds == {used[k].id : k \in DOMAIN used}
Outstanding == WithDevice \cup UsedIds

Places ==
  /\ NoDup(buffered) /\ NoDup(avail)
  /\ \A i, j \in DOMAIN used : used[i].id = used[j].id => i = j
  /\ \A k \in DOMAIN used : ~used[k].popped
  /\ free \cap Outstanding = {}
  /\ Elements(buffered) \cap Elements(avail) = {}
  /\ Elements(buffered) \cap fetched = {}
  /\ Elements(avail) \cap fetched = {}
  /\ WithDevice \cap UsedIds = {}

\* A blocking call has no request but its own.
OneRequest ==
  blocking => Outstanding \subseteq {token} /\ (pc = "idle" => Outstanding = {})

OwnInv ==
  /\ pc = "wait" => blocking
  /\ WithinContract => Places /\ OneRequest
  /\ ~failed => Outstanding \subseteq lent

\* What appending, concatenating and taking the tail do to the elements.
LEMMA AppendElements ==
  ASSUME NEW S, NEW s \in Seq(S), NEW e \in S
  PROVE  /\ Elements(Append(s, e)) = Elements(s) \cup {e}
         /\ NoDup(s) /\ e \notin Elements(s) => NoDup(Append(s, e))
  BY AppendProperties DEF Elements, NoDup

\* The elements of a concatenation.
LEMMA ConcatElements ==
  ASSUME NEW S, NEW s \in Seq(S), NEW t \in Seq(S)
  PROVE  /\ Elements(s \o t) = Elements(s) \cup Elements(t)
         /\ NoDup(s) /\ NoDup(t) /\ Elements(s) \cap Elements(t) = {} => NoDup(s \o t)
<1>1. /\ s \o t \in Seq(S) /\ Len(s \o t) = Len(s) + Len(t)
      /\ \A i \in 1 .. Len(s) + Len(t) :
           (s \o t)[i] = IF i <= Len(s) THEN s[i] ELSE t[i - Len(s)]
  BY ConcatProperties
<1>2. Len(s) \in Nat /\ Len(t) \in Nat /\ DOMAIN s = 1 .. Len(s) /\ DOMAIN t = 1 .. Len(t)
      /\ DOMAIN (s \o t) = 1 .. Len(s) + Len(t)
  BY <1>1, LenProperties
<1> DEFINE u == s \o t
<1> HIDE DEF u
<1>3. /\ \A i \in 1 .. Len(s) : i \in DOMAIN u /\ u[i] = s[i]
      /\ \A i \in 1 .. Len(t) : i + Len(s) \in DOMAIN u /\ u[i + Len(s)] = t[i]
      /\ \A i \in DOMAIN u :
           \/ i \in DOMAIN s /\ u[i] = s[i]
           \/ i - Len(s) \in DOMAIN t /\ u[i] = t[i - Len(s)]
  BY <1>1, <1>2 DEF u
<1>4. Elements(u) = Elements(s) \cup Elements(t)
  BY <1>2, <1>3 DEF Elements
<1>5. ASSUME NoDup(s), NoDup(t), Elements(s) \cap Elements(t) = {} PROVE NoDup(u)
  <2>1. \A i \in DOMAIN s, j \in DOMAIN t : s[i] # t[j]
    BY <1>5, Zenon DEF Elements
  <2> SUFFICES ASSUME NEW i \in DOMAIN u, NEW j \in DOMAIN u, u[i] = u[j] PROVE i = j
    BY DEF NoDup
  <2>2. i \in Int /\ j \in Int
    BY <1>2 DEF u
  <2> QED
    BY <1>2, <1>3, <1>5, <2>1, <2>2 DEF NoDup
<1> QED
  BY <1>4, <1>5 DEF u

\* The elements of a tail.
LEMMA TailElements ==
  ASSUME NEW S, NEW s \in Seq(S), s # <<>>, NoDup(s)
  PROVE  /\ Head(s) \in Elements(s)
         /\ Elements(Tail(s)) = Elements(s) \ {Head(s)}
         /\ NoDup(Tail(s))
<1>1. /\ Len(s) \in Nat /\ Len(s) > 0 /\ DOMAIN s = 1 .. Len(s)
      /\ Head(s) = s[1] /\ DOMAIN Tail(s) = 1 .. Len(s) - 1
      /\ \A i \in 1 .. Len(s) - 1 : Tail(s)[i] = s[i + 1]
  OBVIOUS
<1>2. \A i \in DOMAIN s : i = 1 \/ (i - 1 \in DOMAIN Tail(s) /\ Tail(s)[i - 1] = s[i])
  BY <1>1
<1>3. \A i \in DOMAIN Tail(s) : i + 1 \in DOMAIN s /\ i + 1 # 1 /\ Tail(s)[i] = s[i + 1]
  BY <1>1
<1>4. \A i \in DOMAIN s : i # 1 => s[i] # Head(s)
  BY <1>1 DEF NoDup
<1>5. Elements(Tail(s)) = Elements(s) \ {Head(s)}
  <2>1. ASSUME NEW x \in Elements(Tail(s)) PROVE x \in Elements(s) \ {Head(s)}
    <3>1. PICK i \in DOMAIN Tail(s) : x = Tail(s)[i]
      BY DEF Elements
    <3> QED
      BY <1>3, <1>4, <3>1 DEF Elements
  <2>2. ASSUME NEW x \in Elements(s), x # Head(s) PROVE x \in Elements(Tail(s))
    <3>1. PICK i \in DOMAIN s : x = s[i]
      BY DEF Elements
    <3> QED
      BY <1>1, <1>2, <2>2, <3>1, Zenon DEF Elements
  <2> QED
    BY <2>1, <2>2
<1>6. NoDup(Tail(s))
  BY <1>1, <1>3 DEF NoDup
<1> QED
  BY <1>1, <1>5, <1>6 DEF Elements

\* pop_used of the first element takes it out of the used ring, and only it.
LEMMA PopTakesFirst ==
  ASSUME TypeOK, Places, NEW t \in Token, pop_used(t), used # <<>>, used[1].id = t
  PROVE  /\ free' = free \cup {t} /\ lent' = lent \ {t}
         /\ t \in UsedIds /\ UsedIds' = UsedIds \ {t}
         /\ \A i, j \in DOMAIN used' : used'[i].id = used'[j].id => i = j
         /\ \A i \in DOMAIN used' : ~used'[i].popped
<1> DEFINE ring == [used EXCEPT ![1].popped = TRUE]
<1>1. used \in Seq(UsedElem) /\ Len(used) \in Nat /\ Len(used) > 0 /\ DOMAIN used = 1 .. Len(used)
  BY DEF TypeOK
<1>2. PICK k \in DOMAIN used :
        /\ Finds(t, k) /\ free' = free \cup {t} /\ lent' = lent \ {t}
        /\ LET r == [used EXCEPT ![k].popped = TRUE]
           IN \E n \in 0 .. Len(r) : Passes(r, n) /\ used' = SubSeq(r, n + 1, Len(r))
  BY Zenon DEF pop_used
<1>3. k = 1
  <2>1. k \in 1 .. Len(used) /\ \A j \in 1 .. k - 1 : used[j].id # t
    BY <1>1, <1>2, Zenon DEF Finds
  <2>2. 1 \notin 1 .. k - 1
    BY <2>1
  <2> QED
    BY <1>1, <2>1, <2>2
<1>4. PICK n \in 0 .. Len(ring) : Passes(ring, n) /\ used' = SubSeq(ring, n + 1, Len(ring))
  BY <1>2, <1>3, Zenon
<1>5. /\ ring \in Seq(UsedElem) /\ Len(ring) = Len(used) /\ DOMAIN ring = DOMAIN used
      /\ ring[1].popped /\ \A i \in 2 .. Len(used) : ring[i] = used[i]
  <2>1. 1 \in 1 .. Len(used) /\ used[1] \in UsedElem
    BY <1>1
  <2>2. /\ [used[1] EXCEPT !.popped = TRUE] \in UsedElem
        /\ [used[1] EXCEPT !.popped = TRUE].popped
    BY <2>1, Zenon DEF UsedElem
  <2> QED
    BY <1>1, <2>1, <2>2, ExceptSeq
<1> HIDE DEF ring
<1>6. n = 1
  <2>1. n # 0
    BY <1>1, <1>4, <1>5 DEF Passes
  <2>2. \A i \in 2 .. Len(used) : ~ring[i].popped
    BY <1>1, <1>5 DEF Places
  <2> QED
    BY <1>1, <1>4, <1>5, <2>1, <2>2 DEF Passes
<1>7. /\ DOMAIN used' = 1 .. Len(used) - 1
      /\ \A i \in 1 .. Len(used) - 1 : used'[i] = used[i + 1]
  BY <1>1, <1>4, <1>5, <1>6
<1>8. UsedIds' = UsedIds \ {t}
  <2>1. ASSUME NEW x \in UsedIds' PROVE x \in UsedIds /\ x # t
    <3>1. PICK i \in DOMAIN used' : x = used'[i].id
      BY DEF UsedIds
    <3>2. i + 1 \in DOMAIN used /\ i + 1 # 1 /\ x = used[i + 1].id
      BY <1>1, <1>7, <3>1
    <3>3. 1 \in DOMAIN used
      BY <1>1
    <3> QED
      BY <3>2, <3>3 DEF UsedIds, Places
  <2>2. ASSUME NEW x \in UsedIds, x # t PROVE x \in UsedIds'
    <3>1. PICK i \in DOMAIN used : x = used[i].id
      BY DEF UsedIds
    <3>2. i - 1 \in DOMAIN used' /\ x = used'[i - 1].id
      BY <1>1, <1>7, <2>2, <3>1
    <3> QED
      BY <3>2 DEF UsedIds
  <2> QED
    BY <2>1, <2>2
<1>9. t \in UsedIds
  BY <1>1 DEF UsedIds
<1>10. \A i \in DOMAIN used' : i + 1 \in DOMAIN used /\ used'[i] = used[i + 1] /\ i \in Int
  BY <1>1, <1>7
<1>11. \A i, j \in DOMAIN used' : used'[i].id = used'[j].id => i = j
  BY <1>10 DEF Places
<1>12. \A i \in DOMAIN used' : ~used'[i].popped
  BY <1>10 DEF Places
<1> QED
  BY <1>2, <1>8, <1>9, <1>11, <1>12, Zenon

\* When the request that pop_used takes was the first of the used ring, its
\* token is free and nobody has it.
LEMMA PopOwn ==
  ASSUME TypeOK, OwnInv, WithinContract, NEW t \in Token,
         pop_used(t), used # <<>>, used[1].id = t,
         UNCHANGED <<setting, token, buffered, avail, fetched, failed>>, pc' = "idle",
         blocking => Outstanding \subseteq {t}
  PROVE  OwnInv'
<1>1. /\ free' = free \cup {t} /\ lent' = lent \ {t}
      /\ t \in UsedIds /\ UsedIds' = UsedIds \ {t}
      /\ \A i, j \in DOMAIN used' : used'[i].id = used'[j].id => i = j
      /\ \A i \in DOMAIN used' : ~used'[i].popped
  BY PopTakesFirst DEF OwnInv
<1>2. UNCHANGED <<blocking, token, failed, fetched, NoDup(buffered), NoDup(avail),
                  Elements(buffered), Elements(avail), WithDevice>>
  BY DEF setting, NoDup, Elements, WithDevice
<1>3. Outstanding' = Outstanding \ {t}
  BY <1>1, <1>2 DEF OwnInv, Places, Outstanding
<1>4. Places'
  BY <1>1, <1>2, <1>3 DEF OwnInv, Places
<1>5. OneRequest'
  BY <1>2, <1>3 DEF OneRequest
<1>6. ~failed' => Outstanding' \subseteq lent'
  BY <1>1, <1>2, <1>3 DEF OwnInv
<1> QED
  BY <1>4, <1>5, <1>6 DEF OwnInv

\* A step that moves no token.
LEMMA FrameOwn ==
  ASSUME OwnInv, UNCHANGED <<setting, token, free, buffered, avail, used, fetched>>,
         failed => failed', lent' = lent \/ failed',
         pc' = "wait" => blocking,
         pc' = "idle" /\ WithinContract' => pc = "idle" \/ ~blocking
  PROVE  OwnInv'
<1>1. /\ WithinContract' => WithinContract
      /\ blocking' = blocking /\ Outstanding' = Outstanding
  BY DEF WithinContract, setting, Outstanding, WithDevice, UsedIds, Elements
<1>2. Places => Places'
  BY <1>1 DEF Places, NoDup, Elements, WithDevice, UsedIds
<1>3. WithinContract' => Places' /\ OneRequest'
  BY <1>1, <1>2 DEF OwnInv, OneRequest
<1> QED
  BY <1>1, <1>3 DEF OwnInv

\* `add` passes a token on to the device.
LEMMA AddOwn ==
  ASSUME TypeOK, OwnInv, NEW t \in Token, AddOk(t)
  PROVE  OwnInv'
<1>1. /\ UNCHANGED <<blocking, used, fetched, failed>> /\ pc = "idle" /\ pc' = "should_notify"
      /\ token' = t /\ t \in free /\ free' = free \ {t} /\ lent' = lent \cup {t}
  BY DEF AddOk, setting, device
<1>2. avail \in Seq(Token) /\ buffered \in Seq(Token) /\ Publish(t)
  BY DEF TypeOK, AddOk
<1>3. Elements(<<t>>) = {t} /\ NoDup(<<t>>)
  BY DEF Elements, NoDup
<1>4. WithDevice' = WithDevice \cup {t}
  <2>1. CASE store_buffer
    <3>1. avail' = avail \o buffered /\ buffered' = <<t>>
      BY <1>2, <2>1 DEF Publish
    <3>2. Elements(avail') = Elements(avail) \cup Elements(buffered)
      BY <1>2, <3>1, ConcatElements
    <3> QED
      BY <1>1, <1>3, <3>1, <3>2, Zenon DEF WithDevice
  <2>2. CASE ~store_buffer
    <3>1. avail' = Append(avail, t) /\ buffered' = buffered
      BY <1>2, <2>2 DEF Publish
    <3>2. Elements(avail') = Elements(avail) \cup {t}
      BY <1>2, <3>1, AppendElements
    <3> QED
      BY <1>1, <3>1, <3>2, Zenon DEF WithDevice
  <2> QED
    BY <2>1, <2>2
<1>5. UsedIds' = UsedIds /\ Outstanding' = Outstanding \cup {t}
  BY <1>1, <1>4 DEF UsedIds, Outstanding
<1>6. ASSUME Places PROVE Places'
  <2>1. t \notin Elements(buffered) /\ t \notin Elements(avail) /\ t \notin fetched
    BY <1>1, <1>6 DEF Places, Outstanding, WithDevice
  <2>2. CASE store_buffer
    <3>1. avail' = avail \o buffered /\ buffered' = <<t>>
      BY <1>2, <2>2 DEF Publish
    <3>2. Elements(avail') = Elements(avail) \cup Elements(buffered) /\ NoDup(avail')
      BY <1>2, <1>6, <3>1, ConcatElements DEF Places
    <3>3. Elements(buffered') = {t} /\ NoDup(buffered')
      BY <1>3, <3>1
    <3> QED
      BY <1>1, <1>4, <1>5, <1>6, <2>1, <3>2, <3>3 DEF Places, Outstanding
  <2>3. CASE ~store_buffer
    <3>1. avail' = Append(avail, t) /\ buffered' = buffered
      BY <1>2, <2>3 DEF Publish
    <3>2. Elements(avail') = Elements(avail) \cup {t} /\ NoDup(avail')
      BY <1>2, <1>6, <2>1, <3>1, AppendElements DEF Places
    <3> QED
      BY <1>1, <1>4, <1>5, <1>6, <2>1, <3>1, <3>2 DEF Places, Outstanding
  <2> QED
    BY <2>2, <2>3
<1>7. OneRequest => OneRequest'
  BY <1>1, <1>5 DEF OneRequest
<1>8. WithinContract' = WithinContract
  BY <1>1 DEF WithinContract
<1> QED
  BY <1>1, <1>5, <1>6, <1>7, <1>8 DEF OwnInv

\* Stores become visible.
LEMMA DrainOwn ==
  ASSUME TypeOK, OwnInv, avail' = avail \o buffered, buffered' = <<>>,
         UNCHANGED <<setting, token, free, used, fetched, failed, lent>>,
         pc' = "wait" => blocking, blocking /\ pc' = "idle" => pc = "idle"
  PROVE  OwnInv'
<1>1. avail \in Seq(Token) /\ buffered \in Seq(Token)
  BY DEF TypeOK
<1>2. /\ Elements(avail') = Elements(avail) \cup Elements(buffered)
      /\ Elements(buffered') = {} /\ NoDup(buffered')
  <2>1. Elements(avail') = Elements(avail) \cup Elements(buffered)
    BY <1>1, ConcatElements
  <2>2. Elements(buffered') = {} /\ NoDup(buffered')
    BY DEF Elements, NoDup
  <2> QED
    BY <2>1, <2>2
<1>3. /\ WithDevice' = WithDevice /\ UsedIds' = UsedIds /\ Outstanding' = Outstanding
      /\ blocking' = blocking /\ WithinContract' = WithinContract
  BY <1>2 DEF WithDevice, UsedIds, Outstanding, setting, WithinContract
<1>4. ASSUME Places PROVE Places'
  <2>1. NoDup(avail')
    BY <1>1, <1>4, ConcatElements DEF Places
  <2> QED
    BY <1>2, <1>3, <1>4, <2>1 DEF Places
<1>5. OneRequest => OneRequest'
  BY <1>3 DEF OneRequest
<1> QED
  BY <1>3, <1>4, <1>5 DEF OwnInv

\* The device takes a request out of the available ring.
LEMMA FetchOwn ==
  ASSUME TypeOK, OwnInv, DevFetch
  PROVE  OwnInv'
<1>1. /\ UNCHANGED <<blocking, token, free, buffered, used, failed, lent, pc>>
      /\ avail # <<>> /\ avail \in Seq(Token)
      /\ fetched' = fetched \cup {Head(avail)} /\ avail' = Tail(avail)
  BY DEF DevFetch, setting, TypeOK
<1>2. /\ UsedIds' = UsedIds /\ WithinContract' = WithinContract
      /\ Elements(buffered') = Elements(buffered) /\ NoDup(buffered') = NoDup(buffered)
  BY <1>1 DEF UsedIds, WithinContract
<1>3. Head(avail) \in Elements(avail) /\ Elements(avail') \subseteq Elements(avail)
  BY <1>1 DEF Elements
<1>4. Outstanding' \subseteq Outstanding
  BY <1>1, <1>2, <1>3 DEF Outstanding, WithDevice
<1>5. ASSUME Places PROVE Places'
  <2>1. NoDup(avail') /\ Elements(avail') = Elements(avail) \ {Head(avail)}
    BY <1>1, <1>5, TailElements DEF Places
  <2>2. WithDevice' = WithDevice
    BY <1>1, <1>2, <1>3, <2>1 DEF WithDevice
  <2>3. Outstanding' = Outstanding
    BY <1>2, <2>2 DEF Outstanding
  <2> QED
    BY <1>1, <1>2, <1>3, <1>5, <2>1, <2>2, <2>3 DEF Places
<1>6. OneRequest => OneRequest'
  BY <1>1, <1>4 DEF OneRequest
<1> QED
  BY <1>1, <1>2, <1>4, <1>5, <1>6 DEF OwnInv

\* The device finishes a request.
LEMMA UseOwn ==
  ASSUME TypeOK, OwnInv, NEW t \in Token, DevUse(t)
  PROVE  OwnInv'
<1> DEFINE e == [id |-> t, popped |-> FALSE]
<1>1. /\ UNCHANGED <<blocking, token, free, buffered, avail, failed, lent, pc>>
      /\ t \in fetched /\ fetched' = fetched \ {t} /\ used' = Append(used, e)
  BY DEF DevUse, setting
<1>2. used \in Seq(UsedElem) /\ Len(used) \in Nat /\ DOMAIN used = 1 .. Len(used)
  BY DEF TypeOK
<1>3. e.id = t /\ ~e.popped
  OBVIOUS
<1> HIDE DEF e
<1>4. /\ DOMAIN used' = 1 .. Len(used) + 1
      /\ \A i \in 1 .. Len(used) : used'[i] = used[i]
      /\ used'[Len(used) + 1] = e
  BY <1>1, <1>2
<1>5. UsedIds' = UsedIds \cup {t}
  BY <1>2, <1>3, <1>4 DEF UsedIds
<1>6. /\ Elements(buffered') = Elements(buffered) /\ NoDup(buffered') = NoDup(buffered)
      /\ Elements(avail') = Elements(avail) /\ NoDup(avail') = NoDup(avail)
      /\ WithinContract' = WithinContract
  BY <1>1 DEF WithinContract
<1>7. Outstanding' = Outstanding
  BY <1>1, <1>5, <1>6 DEF Outstanding, WithDevice
<1>8. ASSUME Places PROVE Places'
  <2>1. WithDevice' = WithDevice \ {t} /\ t \notin UsedIds
    BY <1>1, <1>6, <1>8 DEF WithDevice, Places
  <2>2. \A i \in DOMAIN used' : (i = Len(used) + 1 /\ used'[i] = e)
                                \/ (i \in DOMAIN used /\ used'[i] = used[i])
    BY <1>2, <1>4
  <2>3. \A i \in DOMAIN used : used[i].id # t
    BY <2>1 DEF UsedIds
  <2>4. \A i, j \in DOMAIN used' : used'[i].id = used'[j].id => i = j
    BY <1>3, <1>8, <2>2, <2>3 DEF Places
  <2>5. \A i \in DOMAIN used' : ~used'[i].popped
    BY <1>3, <1>8, <2>2 DEF Places
  <2> QED
    BY <1>1, <1>5, <1>6, <1>7, <1>8, <2>1, <2>4, <2>5 DEF Places
<1>9. OneRequest => OneRequest'
  BY <1>1, <1>7 DEF OneRequest
<1> QED
  BY <1>1, <1>6, <1>7, <1>8, <1>9 DEF OwnInv

\* pop_used by the call that waits, and by a client that does not block.
LEMMA PopsOwn ==
  ASSUME TypeOK, OwnInv, WaitPop \/ PeekPop
  PROVE  OwnInv'
<1>1. CASE ~WithinContract
  <2>1. /\ UNCHANGED <<blocking, failed>> /\ (pc' = "wait" => pc = "wait")
    BY DEF WaitPop, PeekPop, setting
  <2> QED
    BY <1>1, <2>1 DEF OwnInv, WithinContract
<1>2. CASE WithinContract /\ WaitPop
  <2>1. /\ pc = "wait" /\ pc' = "idle" /\ pop_used(token) /\ token \in Token
        /\ UNCHANGED <<setting, token, buffered, avail, fetched, failed>>
    BY <1>2 DEF WaitPop, device, TypeOK
  <2>2. used # <<>> /\ used \in Seq(UsedElem)
    BY <2>1 DEF pop_used, TypeOK
  <2>3. 1 \in DOMAIN used
    BY <2>2
  <2>4. Outstanding \subseteq {token} /\ used[1].id \in Outstanding
    BY <1>2, <2>1, <2>3 DEF OwnInv, OneRequest, Outstanding, UsedIds
  <2> QED
    BY <1>2, <2>1, <2>2, <2>4, PopOwn
<1>3. CASE WithinContract /\ PeekPop
  <2>1. /\ ~blocking /\ pc' = "idle" /\ used # <<>> /\ pop_used(used[1].id)
        /\ UNCHANGED <<setting, token, buffered, avail, fetched, failed>>
    BY <1>3 DEF PeekPop, device
  <2>2. used[1].id \in Token
    <3>1. used \in Seq(UsedElem) /\ 1 \in 1 .. Len(used)
      BY <2>1 DEF TypeOK
    <3>2. used[1] \in UsedElem
      BY <3>1
    <3> QED
      BY <3>2 DEF UsedElem
  <2> QED
    BY <1>3, <2>1, <2>2, PopOwn
<1> QED
  BY <1>1, <1>2, <1>3

\* No buffer is lent at first.
LEMMA InitOwn == Init => OwnInv
  BY DEF Init, OwnInv, Places, OneRequest, Outstanding, WithDevice, UsedIds, Elements, NoDup

\* Every step keeps the ownership of the buffers.
LEMMA NextOwn == TypeOK /\ OwnInv /\ [Next]_vars => OwnInv'
<1> SUFFICES ASSUME TypeOK, OwnInv, [Next]_vars PROVE OwnInv'
  OBVIOUS
<1>1. ASSUME NEW t \in Token, AddOk(t) PROVE OwnInv'
  BY <1>1, AddOwn
<1>2. CASE ShouldNotify
  BY <1>2, FrameOwn DEF ShouldNotify, AfterNotify, rings, device
<1>3. CASE Notify
  BY <1>3, DrainOwn DEF Notify, AfterNotify, device
<1>4. CASE NotifyError
  BY <1>4, FrameOwn DEF NotifyError, rings, device, WithinContract, setting
<1>5. CASE WaitPop \/ PeekPop
  BY <1>5, PopsOwn
<1>6. CASE Drain
  BY <1>6, DrainOwn DEF Drain, device, OwnInv
<1>7. CASE DevWake \/ DevAllow \/ DevRecheck
  <2>1. UNCHANGED <<setting, pc, token, free, buffered, avail, used, fetched, lent, failed>>
    BY <1>7, Zenon DEF DevWake, DevAllow, DevRecheck, rings
  <2> QED
    BY <2>1, FrameOwn DEF OwnInv
<1>8. CASE DevFetch
  BY <1>8, FetchOwn
<1>9. ASSUME NEW t \in Token, DevUse(t) PROVE OwnInv'
  BY <1>9, UseOwn
<1>10. CASE UNCHANGED vars
  BY <1>10, FrameOwn DEF vars, OwnInv
<1> QED
  BY <1>1, <1>2, <1>3, <1>4, <1>5, <1>6, <1>7, <1>8, <1>9, <1>10
  DEF Next, CallStep, AddFull, WaitSpin

\* The ownership, always.
LEMMA OwnAlways == Spec => []OwnInv
  BY InitOwn, NextOwn, TypeCorrect, PTL DEF Spec

\* As long as no notification has failed, the buffers of a request stay lent
\* while the device can reach it, whatever the client's and the device's steps:
\* pop_used gives back a token only after the device has let go of it.
THEOREM BuffersAlwaysOutlive == Spec => []BuffersOutliveRequest
<1>1. OwnInv => BuffersOutliveRequest
  BY DEF OwnInv, BuffersOutliveRequest, Outstanding
<1> QED
  BY <1>1, OwnAlways, PTL

\* A descriptor that `add` may take is with nobody else, also after failed
\* notifications if the client does not block.
THEOREM FreeAlwaysFree == Spec => []FreeIsFree
<1>1. OwnInv => FreeIsFree
  BY DEF OwnInv, FreeIsFree, Places, Outstanding, UsedIds
<1> QED
  BY <1>1, OwnAlways, PTL

=============================================================================
