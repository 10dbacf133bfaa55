----------------------------- MODULE ConsoleProof -----------------------------
(***************************************************************************)
(* Proofs about Console, for answers of any length and whichever           *)
(* notifications fail: what is returned was received, and only once.       *)
(***************************************************************************)
EXTENDS Console, SequenceTheorems, TLAPS

-----------------------------------------------------------------------------
(* The console, for characters in any number.  The queue has two tokens, so  *)
(* the free list and the used ring have few shapes: F and U are the tokens   *)
(* in them, without those that are popped and still in the ring.             *)

FreeIs(f, F) ==
  \/ f = <<>> /\ F = {}
  \/ \E a \in Token : f = <<a>> /\ F = {a}
  \/ \E a, b \in Token : a # b /\ f = <<a, b>> /\ F = {a, b}

Entry(a, n, p) == [id |-> a, len |-> n, popped |-> p]

\* The first element is never popped; the second may be when `late` is TRUE.
UsedIs(u, U, F, late) ==
  \/ u = <<>> /\ U = {}
  \/ \E a \in Token, n \in Nat : u = <<Entry(a, n, FALSE)>> /\ U = {a}
  \/ \E a, b \in Token, n, m \in Nat :
       a # b /\ u = <<Entry(a, n, FALSE), Entry(b, m, FALSE)>> /\ U = {a, b}
  \/ \E a, b \in Token, n, m \in Nat :
       /\ a # b /\ u = <<Entry(a, n, FALSE), Entry(b, m, TRUE)>> /\ U = {a}
       /\ late /\ b \in F

\* A token is free, with the device, or used.  Data is unread only while both are
\* free; a request is made only when nothing is unread or outstanding.
QueueIs(F, U) ==
  /\ FreeIs(free, F) /\ UsedIs(used, U, F, receive_token = 0)
  /\ F \cup posted \cup U = Token
  /\ F \cap posted = {} /\ F \cap U = {} /\ posted \cap U = {}
  /\ receive_token = 0 => F # {}
  /\ pc \in {"notify", "wait"} => token \in Token \ F
  /\ cursor < pending_len => posted = {} /\ U = {}

ConsoleInv ==
  /\ cursor \in Nat /\ pending_len \in Nat /\ cursor <= pending_len
  /\ receive_token \in {-1, 0}
  /\ pc \in {"notify", "wait"} => receive_token = -1
  /\ receive_token = 0 \/ pc \in {"notify", "wait"} => cursor = pending_len
  /\ \E F, U \in SUBSET Token : QueueIs(F, U)

-----------------------------------------------------------------------------
(* The free list and the used ring *)

\* Pairs of a buffer and its data.
LEMMA Pairs ==
  ASSUME NEW x, NEW y
  PROVE  /\ Append(<<>>, x) = <<x>> /\ Append(<<x>>, y) = <<x, y>>
         /\ Head(<<x>>) = x /\ Tail(<<x>>) = <<>>
         /\ Head(<<x, y>>) = x /\ Tail(<<x, y>>) = <<y>>
<1>1. Append(<<>>, x) = <<x>> /\ Head(<<x>>) = x /\ Tail(<<x>>) = <<>>
  OBVIOUS
<1>2. Append(<<x>>, y) = <<x, y>>
  <2>1. <<x>> \in Seq({x, y}) /\ Len(<<x>>) = 1 /\ <<x>>[1] = x /\ y \in {x, y}
    OBVIOUS
  <2>2. <<x, y>> \in Seq({x, y}) /\ Len(<<x, y>>) = 2 /\ <<x, y>>[1] = x /\ <<x, y>>[2] = y
    OBVIOUS
  <2>3. /\ Append(<<x>>, y) \in Seq({x, y}) /\ Len(Append(<<x>>, y)) = Len(<<x>>) + 1
        /\ \A i \in 1 .. Len(<<x>>) : Append(<<x>>, y)[i] = <<x>>[i]
        /\ Append(<<x>>, y)[Len(<<x>>) + 1] = y
    BY <2>1, AppendProperties
  <2>4. Len(Append(<<x>>, y)) = 2 /\ Append(<<x>>, y)[1] = x /\ Append(<<x>>, y)[2] = y
    BY <2>1, <2>3
  <2>5. \A i \in 1 .. 2 : Append(<<x>>, y)[i] = <<x, y>>[i]
    BY <2>2, <2>4
  <2> QED
    BY <2>2, <2>3, <2>4, <2>5, SeqEqual, Zenon
<1>3. Head(<<x, y>>) = x /\ Tail(<<x, y>>) = <<y>>
  OBVIOUS
<1> QED
  BY <1>1, <1>2, <1>3

\* A free buffer is taken.
LEMMA FreeHead ==
  ASSUME NEW f, NEW F \in SUBSET Token, FreeIs(f, F), f # <<>>
  PROVE  Head(f) \in F /\ FreeIs(Tail(f), F \ {Head(f)})
<1>1. ASSUME NEW a \in Token, f = <<a>>, F = {a}
      PROVE  Head(f) \in F /\ FreeIs(Tail(f), F \ {Head(f)})
  <2>1. Head(f) = a /\ Tail(f) = <<>>
    BY <1>1
  <2> QED
    BY <1>1, <2>1, Zenon DEF FreeIs
<1>2. ASSUME NEW a \in Token, NEW b \in Token, a # b, f = <<a, b>>, F = {a, b}
      PROVE  Head(f) \in F /\ FreeIs(Tail(f), F \ {Head(f)})
  <2>1. Head(f) = a /\ Tail(f) = <<b>>
    BY <1>2
  <2>2. F \ {a} = {b}
    BY <1>2
  <2> QED
    BY <1>2, <2>1, <2>2, Zenon DEF FreeIs
<1> QED
  BY <1>1, <1>2 DEF FreeIs

\* A buffer is given back.
LEMMA FreeAppend ==
  ASSUME NEW f, NEW F \in SUBSET Token, NEW t \in Token \ F, FreeIs(f, F)
  PROVE  FreeIs(Append(f, t), F \cup {t})
<1>1. CASE f = <<>> /\ F = {}
  <2>1. Append(f, t) = <<t>> /\ F \cup {t} = {t}
    BY <1>1
  <2> QED
    BY <2>1, Zenon DEF FreeIs
<1>2. ASSUME NEW a \in Token, f = <<a>>, F = {a}
      PROVE  FreeIs(Append(f, t), F \cup {t})
  <2>1. F \cup {t} = {a, t} /\ a # t
    BY <1>2
  <2>2. Append(f, t) = <<a, t>>
    BY <1>2, Pairs, Zenon
  <2> QED
    BY <2>1, <2>2, Zenon DEF FreeIs
<1>3. ASSUME NEW a \in Token, NEW b \in Token, a # b, f = <<a, b>>, F = {a, b}
      PROVE  FALSE
  BY <1>3 DEF Token
<1> QED
  BY <1>1, <1>2, <1>3 DEF FreeIs

\* The device appends an element to the used ring.
LEMMA UsedAppend ==
  ASSUME NEW u, NEW F \in SUBSET Token, NEW U \in SUBSET Token, NEW late,
         NEW t \in Token, t \notin F, t \notin U, NEW n \in Nat, UsedIs(u, U, F, late)
  PROVE  UsedIs(Append(u, Entry(t, n, FALSE)), U \cup {t}, F, late)
<1>1. CASE u = <<>> /\ U = {}
  <2>1. Append(u, Entry(t, n, FALSE)) = <<Entry(t, n, FALSE)>> /\ U \cup {t} = {t}
    BY <1>1
  <2> QED
    BY <2>1, Zenon DEF UsedIs
<1>2. ASSUME NEW a \in Token, NEW m \in Nat, u = <<Entry(a, m, FALSE)>>, U = {a}
      PROVE  UsedIs(Append(u, Entry(t, n, FALSE)), U \cup {t}, F, late)
  <2>1. U \cup {t} = {a, t} /\ a # t
    BY <1>2
  <2>2. Append(u, Entry(t, n, FALSE)) = <<Entry(a, m, FALSE), Entry(t, n, FALSE)>>
    BY <1>2, Pairs, Zenon
  <2> QED
    BY <2>1, <2>2, Zenon DEF UsedIs
<1>3. ASSUME NEW a \in Token, NEW b \in Token, a # b, U = {a, b} PROVE FALSE
  BY <1>3 DEF Token
<1>4. ASSUME NEW a \in Token, NEW b \in Token, a # b, U = {a}, b \in F PROVE FALSE
  BY <1>4 DEF Token
<1> QED
  BY <1>1, <1>2, <1>3, <1>4, Zenon DEF UsedIs

\* What is left of the ring once its first n elements are taken.
LEMMA PairFrom ==
  ASSUME NEW x, NEW y
  PROVE  /\ SubSeq(<<x, y>>, 1, 2) = <<x, y>> /\ SubSeq(<<x, y>>, 2, 2) = <<y>>
         /\ SubSeq(<<x, y>>, 3, 2) = <<>> /\ SubSeq(<<x>>, 2, 1) = <<>>
         /\ SubSeq(<<x>>, 1, 1) = <<x>>
<1>1. <<x, y>> \in Seq({x, y}) /\ Len(<<x, y>>) = 2 /\ <<x>> \in Seq({x}) /\ Len(<<x>>) = 1
  OBVIOUS
<1>2. SubSeq(<<x, y>>, 1, Len(<<x, y>>)) = <<x, y>> /\ SubSeq(<<x>>, 1, Len(<<x>>)) = <<x>>
  BY <1>1, SubSeqFull, Zenon
<1>3. SubSeq(<<x, y>>, 3, 2) = <<>> /\ SubSeq(<<x>>, 2, 1) = <<>>
  BY <1>1, SubSeqEmpty
<1>4. Tail(SubSeq(<<x, y>>, 1, 2)) = SubSeq(<<x, y>>, 1 + 1, 2)
  BY <1>1, HeadTailOfSubSeq
<1>5. SubSeq(<<x, y>>, 2, 2) = <<y>>
  <2>1. SubSeq(<<x, y>>, 1, 2) = <<x, y>>
    BY <1>1, <1>2, Zenon
  <2>2. Tail(<<x, y>>) = SubSeq(<<x, y>>, 1 + 1, 2)
    BY <1>4, <2>1, Zenon
  <2>3. 1 + 1 = 2
    OBVIOUS
  <2> QED
    BY <2>2, <2>3, Pairs, Zenon
<1> QED
  BY <1>1, <1>2, <1>3, <1>5, Zenon

\* An element of the ring is marked.
Mark(s, k) == [s EXCEPT ![k].popped = TRUE]

\* An entry is marked.
LEMMA MarkEntry ==
  ASSUME NEW a \in Token, NEW n \in Nat
  PROVE  [Entry(a, n, FALSE) EXCEPT !.popped = TRUE] = Entry(a, n, TRUE)
<1> DEFINE e == Entry(a, n, FALSE)
           Element == [id : Token, len : Nat, popped : BOOLEAN]
<1>1. e \in Element /\ e.id = a /\ e.len = n
  BY DEF Entry
<1>2. PICK r : r = [e EXCEPT !.popped = TRUE]
  BY Zenon
<1> HIDE DEF e
<1>3. r \in Element /\ r.id = e.id /\ r.len = e.len /\ r.popped
  BY <1>1, <1>2, Zenon
<1>4. r = Entry(a, n, TRUE)
  BY <1>1, <1>3 DEF Entry
<1> QED
  BY <1>2, <1>4, Zenon DEF e

\* The first entry.
LEMMA MarkFirst ==
  ASSUME NEW a \in Token, NEW n \in Nat, NEW y
  PROVE  /\ Mark(<<Entry(a, n, FALSE)>>, 1) = <<Entry(a, n, TRUE)>>
         /\ Mark(<<Entry(a, n, FALSE), y>>, 1) = <<Entry(a, n, TRUE), y>>
<1> DEFINE e == Entry(a, n, FALSE)
           d == Entry(a, n, TRUE)
<1>1. [e EXCEPT !.popped = TRUE] = d
  BY MarkEntry, Zenon
<1> HIDE DEF e, d
<1>2. ASSUME NEW s, NEW i, s[i] = e PROVE Mark(s, i) = [s EXCEPT ![i] = d]
  BY <1>1, <1>2, Zenon DEF Mark
<1>3. <<e>>[1] = e /\ <<e, y>>[1] = e
  OBVIOUS
<1>4. [<<e>> EXCEPT ![1] = d] = <<d>> /\ [<<e, y>> EXCEPT ![1] = d] = <<d, y>>
  OBVIOUS
<1>5. Mark(<<e>>, 1) = <<d>> /\ Mark(<<e, y>>, 1) = <<d, y>>
  BY <1>2, <1>3, <1>4, Zenon
<1> QED
  BY <1>5, Zenon DEF e, d

\* The second entry.
LEMMA MarkSecond ==
  ASSUME NEW a \in Token, NEW n \in Nat, NEW x
  PROVE  Mark(<<x, Entry(a, n, FALSE)>>, 2) = <<x, Entry(a, n, TRUE)>>
<1> DEFINE e == Entry(a, n, FALSE)
           d == Entry(a, n, TRUE)
<1>1. [e EXCEPT !.popped = TRUE] = d
  BY MarkEntry, Zenon
<1> HIDE DEF e, d
<1>2. ASSUME NEW s, NEW i, s[i] = e PROVE Mark(s, i) = [s EXCEPT ![i] = d]
  BY <1>1, <1>2, Zenon DEF Mark
<1>3. <<x, e>>[2] = e
  OBVIOUS
<1>4. [<<x, e>> EXCEPT ![2] = d] = <<x, d>>
  OBVIOUS
<1>5. Mark(<<x, e>>, 2) = <<x, d>>
  BY <1>2, <1>3, <1>4, Zenon
<1> QED
  BY <1>5, Zenon DEF e, d

\* pop_used of a token that is used and not yet popped.
LEMMA PopConsole ==
  ASSUME NEW F \in SUBSET Token, NEW U \in SUBSET Token, NEW t \in U, NEW late \in BOOLEAN,
         UsedIs(used, U, F, late), pop_used(t)
  PROVE  /\ free' = Append(free, t)
         /\ UsedIs(used', U \ {t}, F \cup {t}, TRUE)
         /\ U = {t} => used' = <<>>
<1> DEFINE After(ring) == \E n \in 0 .. Len(ring) :
                            /\ \A j \in 1 .. n : ring[j].popped
                            /\ n < Len(ring) => ~ring[n + 1].popped
                            /\ used' = SubSeq(ring, n + 1, Len(ring))
<1>1. PICK k \in DOMAIN used : /\ used[k].id = t /\ \A j \in 1 .. k - 1 : used[j].id # t
                               /\ After(Mark(used, k))
                               /\ free' = Append(free, t)
  BY Zenon DEF pop_used, Mark
<1>2. used # <<>>
  BY <1>1
<1>3. ASSUME NEW a \in Token, NEW m \in Nat, used = <<Entry(a, m, FALSE)>>, U = {a}
      PROVE  used' = <<>> /\ U \ {t} = {}
  <2>1. k = 1 /\ a = t
    BY <1>1, <1>3
  <2>2. Mark(used, k) = <<Entry(a, m, TRUE)>>
    BY <1>3, <2>1, MarkFirst, Zenon
  <2>3. After(<<Entry(a, m, TRUE)>>)
    BY <1>1, <2>2, Zenon
  <2>4. used' = SubSeq(<<Entry(a, m, TRUE)>>, 2, 1)
    BY <2>3 DEF Entry
  <2> QED
    BY <1>3, <2>1, <2>4, PairFrom
<1>4. ASSUME NEW a \in Token, NEW b \in Token, NEW n \in Nat, NEW m \in Nat, NEW p \in BOOLEAN,
             a # b, a = t, used = <<Entry(a, n, FALSE), Entry(b, m, p)>>
      PROVE  used' = IF p THEN <<>> ELSE <<Entry(b, m, FALSE)>>
  <2>1. k = 1
    BY <1>1, <1>4 DEF Entry
  <2>2. Mark(used, k) = <<Entry(a, n, TRUE), Entry(b, m, p)>>
    BY <1>4, <2>1, MarkFirst, Zenon
  <2>3. After(<<Entry(a, n, TRUE), Entry(b, m, p)>>)
    BY <1>1, <2>2, Zenon
  <2>4. used' = SubSeq(<<Entry(a, n, TRUE), Entry(b, m, p)>>, IF p THEN 3 ELSE 2, 2)
    BY <2>3 DEF Entry
  <2>5. CASE p
    BY <2>4, <2>5, PairFrom
  <2>6. CASE ~p
    BY <2>4, <2>6, PairFrom
  <2> QED
    BY <2>5, <2>6, Zenon
<1>5. ASSUME NEW a \in Token, NEW b \in Token, NEW n \in Nat, NEW m \in Nat,
             a # b, b = t, used = <<Entry(a, n, FALSE), Entry(b, m, FALSE)>>
      PROVE  used' = <<Entry(a, n, FALSE), Entry(b, m, TRUE)>>
  <2>1. k = 2
    BY <1>1, <1>5 DEF Entry
  <2>2. Mark(used, k) = <<Entry(a, n, FALSE), Entry(b, m, TRUE)>>
    BY <1>5, <2>1, MarkSecond, Zenon
  <2>3. After(<<Entry(a, n, FALSE), Entry(b, m, TRUE)>>)
    BY <1>1, <2>2, Zenon
  <2>4. used' = SubSeq(<<Entry(a, n, FALSE), Entry(b, m, TRUE)>>, 1, 2)
    <3>1. /\ Len(<<Entry(a, n, FALSE), Entry(b, m, TRUE)>>) = 2
          /\ ~<<Entry(a, n, FALSE), Entry(b, m, TRUE)>>[1].popped
      BY DEF Entry
    <3>2. PICK i \in 0 .. 2 : /\ \A j \in 1 .. i : <<Entry(a, n, FALSE), Entry(b, m, TRUE)>>[j].popped
                              /\ used' = SubSeq(<<Entry(a, n, FALSE), Entry(b, m, TRUE)>>, i + 1, 2)
      BY <2>3, <3>1, Zenon
    <3>3. i = 0
      <4>1. CASE 1 \in 1 .. i
        BY <3>1, <3>2, <4>1, Zenon
      <4> QED
        BY <4>1
    <3> QED
      BY <3>2, <3>3
  <2> QED
    BY <2>4, PairFrom, Zenon
<1>6. ASSUME NEW a \in Token, NEW b \in Token, NEW n \in Nat, NEW m \in Nat, NEW p \in BOOLEAN,
             a # b, used = <<Entry(a, n, FALSE), Entry(b, m, p)>>,
             U = IF p THEN {a} ELSE {a, b}
      PROVE  UsedIs(used', U \ {t}, F \cup {t}, TRUE) /\ (U = {t} => used' = <<>>)
  <2>1. CASE a = t /\ p
    <3>1. used' = <<>> /\ U \ {t} = {}
      BY <1>4, <1>6, <2>1, Zenon
    <3> QED
      BY <3>1, Zenon DEF UsedIs
  <2>2. CASE a = t /\ ~p
    <3>1. used' = <<Entry(b, m, FALSE)>>
      BY <1>4, <1>6, <2>2, Zenon
    <3>2. U \ {t} = {b} /\ U # {t}
      BY <1>6, <2>2
    <3> QED
      BY <3>1, <3>2, Zenon DEF UsedIs
  <2>3. CASE a # t
    <3>1. b = t /\ ~p
      BY <1>6, <2>3
    <3>2. used' = <<Entry(a, n, FALSE), Entry(b, m, TRUE)>>
      BY <1>5, <1>6, <3>1, Zenon
    <3>3. U \ {t} = {a} /\ U # {t} /\ b \in F \cup {t}
      BY <1>6, <2>3, <3>1
    <3> QED
      BY <1>6, <3>2, <3>3, Zenon DEF UsedIs
  <2> QED
    BY <2>1, <2>2, <2>3, Zenon
<1> QED
  <2>1. ASSUME used' = <<>>, U \ {t} = {} PROVE UsedIs(used', U \ {t}, F \cup {t}, TRUE)
    BY <2>1, Zenon DEF UsedIs
  <2>2. \/ \E a \in Token, n \in Nat : used = <<Entry(a, n, FALSE)>> /\ U = {a}
        \/ \E a, b \in Token, n, m \in Nat, p \in BOOLEAN :
              a # b /\ used = <<Entry(a, n, FALSE), Entry(b, m, p)>> /\ U = IF p THEN {a} ELSE {a, b}
    BY <1>2, Zenon DEF UsedIs
  <2>3. UsedIs(used', U \ {t}, F \cup {t}, TRUE) /\ (U = {t} => used' = <<>>)
    BY <1>3, <1>6, <2>1, <2>2, Zenon
  <2> QED
    BY <1>1, <2>3, Zenon

\* The first element of the ring is used and not popped.
LEMMA FirstInRing ==
  ASSUME NEW F, NEW U, NEW late, UsedIs(used, U, F, late), used # <<>>
  PROVE  used[1].id \in U /\ used[1].len \in Nat
<1>1. ASSUME NEW a, NEW n, NEW y PROVE /\ <<Entry(a, n, FALSE)>>[1].id = a
                                       /\ <<Entry(a, n, FALSE)>>[1].len = n
                                       /\ <<Entry(a, n, FALSE), y>>[1].id = a
                                       /\ <<Entry(a, n, FALSE), y>>[1].len = n
  BY DEF Entry
<1> QED
  <2>1. ASSUME NEW a \in Token, NEW n \in Nat, used = <<Entry(a, n, FALSE)>>, U = {a}
        PROVE  used[1].id \in U /\ used[1].len \in Nat
    BY <1>1, <2>1, Zenon
  <2>2. ASSUME NEW a \in Token, NEW n \in Nat, NEW y, used = <<Entry(a, n, FALSE), y>>, a \in U
        PROVE  used[1].id \in U /\ used[1].len \in Nat
    BY <1>1, <2>2, Zenon
  <2> QED
    BY <2>1, <2>2, Zenon DEF UsedIs

\* Without a popped element the free list does not matter.
LEMMA UsedAny ==
  ASSUME NEW F, NEW E, NEW U, UsedIs(used, U, F, FALSE)
  PROVE  UsedIs(used, U, E, FALSE)
BY Zenon DEF UsedIs

\* While no request is awaited every element of the ring is not popped.
LEMMA EachUsed ==
  ASSUME NEW F, NEW U, UsedIs(used, U, F, FALSE), NEW k \in DOMAIN used
  PROVE  used[k].id \in U
<1>1. ASSUME NEW a, NEW n, used = <<Entry(a, n, FALSE)>> PROVE used[k].id = a
  <2>1. k = 1
    BY <1>1
  <2> QED
    BY <1>1, <2>1 DEF Entry
<1>2. ASSUME NEW a, NEW n, NEW b, NEW m, used = <<Entry(a, n, FALSE), Entry(b, m, FALSE)>>
      PROVE  used[k].id \in {a, b}
  <2>1. k = 1 \/ k = 2
    BY <1>2
  <2> QED
    BY <1>2, <2>1 DEF Entry
<1>3. used # <<>>
  OBVIOUS
<1> QED
  BY <1>1, <1>2, <1>3, Zenon DEF UsedIs

-----------------------------------------------------------------------------
(* The steps *)

\* The console at first.
LEMMA InitConsole == ASSUME Init PROVE ConsoleInv
<1>1. /\ receive_token = -1 /\ cursor = 0 /\ pending_len = 0 /\ free = <<0, 1>> /\ posted = {}
      /\ used = <<>> /\ pc = "idle"
  BY DEF Init, None
<1>2. 0 \in Token /\ 1 \in Token /\ 0 # 1 /\ Token = {0, 1}
  BY DEF Token
<1>3. FreeIs(free, Token)
  BY <1>1, <1>2, Zenon DEF FreeIs
<1>4. UsedIs(used, {}, Token, receive_token = 0)
  BY <1>1, Zenon DEF UsedIs
<1>5. QueueIs(Token, {})
  BY <1>1, <1>2, <1>3, <1>4 DEF QueueIs
<1> QED
  BY <1>1, <1>5 DEF ConsoleInv

\* Steps that leave the queue alone and at most return a character.
LEMMA QuietConsole ==
  ASSUME ConsoleInv, UNCHANGED <<receive_token, pending_len, free, posted, used, token>>,
         cursor' = cursor \/ (cursor # pending_len /\ cursor' = cursor + 1),
         pc' \in {"notify", "wait"} => pc \in {"notify", "wait"}
  PROVE  ConsoleInv'
<1>1. PICK F \in SUBSET Token, U \in SUBSET Token : QueueIs(F, U)
  BY DEF ConsoleInv
<1>2. /\ cursor' \in Nat /\ cursor' <= pending_len /\ cursor \in Nat /\ pending_len \in Nat
      /\ cursor' < pending_len => cursor < pending_len
      /\ cursor = pending_len => cursor' = pending_len
  BY DEF ConsoleInv
<1>3. QueueIs(F, U)'
  BY <1>1, <1>2 DEF QueueIs
<1> QED
  BY <1>2, <1>3 DEF ConsoleInv

\* finish_receive takes the data of a request.
LEMMA FinishConsole ==
  ASSUME ConsoleInv, finish_receive, receive_token # -1, receive_token = peek_used
  PROVE  ConsoleInv'
<1>1. /\ pop_used(0) /\ receive_token = 0 /\ used # <<>> /\ used[1].id = 0
      /\ cursor' = 0 /\ pending_len' = used[1].len /\ receive_token' = -1 /\ posted' = posted
      /\ pc' \notin {"notify", "wait"}
  BY DEF ConsoleInv, finish_receive, None, peek_used, AfterFinish
<1>2. PICK F \in SUBSET Token, U \in SUBSET Token : QueueIs(F, U)
  BY DEF ConsoleInv
<1>3. UsedIs(used, U, F, TRUE) /\ FreeIs(free, F)
  <2>1. (receive_token = 0) = TRUE
    BY <1>1
  <2> QED
    BY <1>2, <2>1, Zenon DEF QueueIs
<1>4. 0 \in U /\ used[1].len \in Nat
  BY <1>1, <1>3, FirstInRing, Zenon
<1>5. F = {1} /\ U = {0} /\ posted = {}
  BY <1>1, <1>2, <1>4 DEF QueueIs, Token
<1>6. free' = Append(free, 0) /\ used' = <<>>
  BY <1>1, <1>3, <1>4, <1>5, PopConsole, Zenon
<1>7. FreeIs(free', F \cup {0})
  BY <1>3, <1>5, <1>6, FreeAppend DEF Token
<1>8. UsedIs(used', {}, F \cup {0}, receive_token' = 0)
  BY <1>6, Zenon DEF UsedIs
<1>9. QueueIs(F \cup {0}, {})'
  <2>1. /\ (F \cup {0}) \cup {} \cup {} = Token /\ F \cup {0} # {}
        /\ (F \cup {0}) \cap {} = {} /\ {} \cap {} = {}
    BY <1>5 DEF Token
  <2> QED
    BY <1>1, <1>5, <1>7, <1>8, <2>1, Zenon DEF QueueIs
<1> QED
  BY <1>1, <1>4, <1>5, <1>9 DEF ConsoleInv, Token

\* poll_retrieve adds a request.
LEMMA AddConsole ==
  ASSUME ConsoleInv, RetrieveAdd
  PROVE  ConsoleInv'
<1>1. /\ receive_token = -1 /\ cursor = pending_len /\ free # <<>> /\ free' = Tail(free)
      /\ token' = Head(free) /\ posted' = posted \cup {Head(free)}
      /\ UNCHANGED <<receive_token, cursor, pending_len, used>>
  BY DEF RetrieveAdd, MayRetrieve, None
<1>2. PICK F \in SUBSET Token, U \in SUBSET Token : QueueIs(F, U)
  BY DEF ConsoleInv
<1>3. Head(free) \in F /\ FreeIs(Tail(free), F \ {Head(free)})
  BY <1>1, <1>2, FreeHead DEF QueueIs
<1>4. PICK E \in SUBSET Token : E = F \ {Head(free)}
  BY Zenon
<1>5. UsedIs(used', U, E, receive_token' = 0)
  <2>1. (receive_token = 0) = FALSE /\ (receive_token' = 0) = FALSE
    BY <1>1
  <2>2. UsedIs(used, U, F, FALSE)
    BY <1>2, <2>1, Zenon DEF QueueIs
  <2> QED
    BY <1>1, <2>1, <2>2, UsedAny, Zenon
<1>6. QueueIs(E, U)'
  <2>1. /\ F \cup posted \cup U = Token
        /\ F \cap posted = {} /\ F \cap U = {} /\ posted \cap U = {}
    BY <1>2 DEF QueueIs
  <2>2. /\ E \cup posted' \cup U = Token
        /\ E \cap posted' = {} /\ E \cap U = {} /\ posted' \cap U = {}
        /\ token' \in Token \ E
    BY <1>1, <1>3, <1>4, <2>1
  <2>3. FreeIs(free', E) /\ receive_token' # 0 /\ ~(cursor' < pending_len')
    BY <1>1, <1>3, <1>4 DEF ConsoleInv
  <2> QED
    BY <1>5, <2>2, <2>3, Zenon DEF QueueIs
<1> QED
  BY <1>1, <1>6 DEF ConsoleInv

\* poll_retrieve pops its own request.
LEMMA PopOwnConsole ==
  ASSUME ConsoleInv, RetrievePop
  PROVE  ConsoleInv'
<1>1. /\ pc = "wait" /\ pop_used(token) /\ receive_token' = 0 /\ receive_token = -1
      /\ pc' \notin {"notify", "wait"} /\ cursor = pending_len
      /\ UNCHANGED <<cursor, pending_len, posted, token>>
  BY DEF RetrievePop, AfterRetrieve, ConsoleInv
<1>2. PICK F \in SUBSET Token, U \in SUBSET Token : QueueIs(F, U)
  BY DEF ConsoleInv
<1>3. UsedIs(used, U, F, FALSE) /\ FreeIs(free, F) /\ token \in Token \ F
  <2>1. (receive_token = 0) = FALSE
    BY <1>1
  <2> QED
    BY <1>1, <1>2, <2>1, Zenon DEF QueueIs
<1>4. token \in U
  <2>1. PICK k \in DOMAIN used : used[k].id = token
    BY <1>1, Zenon DEF pop_used
  <2> QED
    BY <1>3, <2>1, EachUsed, Zenon
<1>5. free' = Append(free, token) /\ UsedIs(used', U \ {token}, F \cup {token}, TRUE)
  BY <1>1, <1>3, <1>4, PopConsole, Zenon
<1>6. FreeIs(free', F \cup {token})
  BY <1>3, <1>5, FreeAppend
<1>7. (receive_token' = 0) = TRUE
  BY <1>1
<1>8. UsedIs(used', U \ {token}, F \cup {token}, receive_token' = 0)
  BY <1>5, <1>7, Zenon
<1>9. QueueIs(F \cup {token}, U \ {token})'
  BY <1>1, <1>2, <1>4, <1>6, <1>8 DEF QueueIs, ConsoleInv
<1>10. F \cup {token} \in SUBSET Token /\ U \ {token} \in SUBSET Token
  BY <1>3
<1> QED
  BY <1>1, <1>9, <1>10 DEF ConsoleInv

\* The device fills a request.
LEMMA UseConsole ==
  ASSUME ConsoleInv, NEW t \in Token, NEW n \in 1 .. MaxLen, DevUse(t, n)
  PROVE  ConsoleInv'
<1>1. /\ t \in posted /\ posted' = posted \ {t} /\ used' = Append(used, Entry(t, n, FALSE))
      /\ UNCHANGED <<receive_token, cursor, pending_len, free, pc, token>>
  BY DEF DevUse, Entry
<1>2. PICK F \in SUBSET Token, U \in SUBSET Token : QueueIs(F, U)
  BY DEF ConsoleInv
<1>3. t \notin F /\ t \notin U /\ n \in Nat
  BY <1>1, <1>2, MaxLenAssumption DEF QueueIs
<1>4. UsedIs(used', U \cup {t}, F, receive_token' = 0)
  <2>1. UsedIs(used, U, F, receive_token = 0)
    BY <1>2 DEF QueueIs
  <2>2. UsedIs(Append(used, Entry(t, n, FALSE)), U \cup {t}, F, receive_token = 0)
    BY <1>3, <2>1, UsedAppend, Zenon
  <2> QED
    BY <1>1, <2>2, Zenon
<1>5. QueueIs(F, U \cup {t})'
  <2>1. /\ F \cup posted \cup U = Token /\ FreeIs(free, F)
        /\ F \cap posted = {} /\ F \cap U = {} /\ posted \cap U = {}
        /\ receive_token = 0 => F # {}
        /\ pc \in {"notify", "wait"} => token \in Token \ F
        /\ cursor < pending_len => posted = {}
    BY <1>2 DEF QueueIs
  <2>2. /\ F \cup posted' \cup (U \cup {t}) = Token
        /\ F \cap posted' = {} /\ F \cap (U \cup {t}) = {} /\ posted' \cap (U \cup {t}) = {}
    BY <1>1, <1>3, <2>1
  <2>3. ~(cursor < pending_len)
    BY <1>1, <2>1
  <2> QED
    BY <1>1, <1>4, <2>1, <2>2, <2>3, Zenon DEF QueueIs
<1> QED
  BY <1>1, <1>5 DEF ConsoleInv

\* Every step keeps the invariant of the console.
LEMMA NextConsole ==
  ASSUME ConsoleInv, [Next]_vars
  PROVE  ConsoleInv'
<1>1. CASE \/ recv \/ recv_block \/ ack_interrupt \/ RecvCheck \/ BlockCheck
           \/ RetrieveSkip \/ RetrieveFull \/ Notify \/ NotifyError
           \/ RetrieveSpin \/ UNCHANGED vars
  <2>1. UNCHANGED <<receive_token, pending_len, free, posted, used, token>>
    BY <1>1 DEF recv, recv_block, ack_interrupt, AckNone, Begin, RecvCheck,
       BlockCheck, RetrieveSkip, RetrieveFull, Notify, NotifyError, RetrieveSpin,
       vars, queue
  <2>2. cursor' = cursor \/ (cursor # pending_len /\ cursor' = cursor + 1)
    BY <1>1 DEF recv, recv_block, ack_interrupt, AckNone, Begin, RecvCheck, Consume,
       BlockCheck, RetrieveSkip, RetrieveFull, Notify, NotifyError, RetrieveSpin,
       vars
  <2>3. pc' \in {"notify", "wait"} => pc \in {"notify", "wait"}
    BY <1>1 DEF recv, recv_block, ack_interrupt, AckNone, Begin, RecvCheck,
       BlockCheck, RetrieveSkip, RetrieveFull, Notify, NotifyError, RetrieveSpin,
       vars, AfterRetrieve
  <2> QED
    BY <2>1, <2>2, <2>3, QuietConsole
<1>2. CASE finish_receive
  <2>1. CASE receive_token # -1 /\ receive_token = peek_used
    BY <1>2, <2>1, FinishConsole
  <2>2. CASE ~(receive_token # -1 /\ receive_token = peek_used)
    <3>1. /\ UNCHANGED <<receive_token, cursor, pending_len, free, posted, used, token>>
          /\ pc' \notin {"notify", "wait"}
      BY <1>2, <2>2 DEF finish_receive, AfterFinish, None
    <3> QED
      BY <3>1, QuietConsole
  <2> QED
    BY <2>1, <2>2
<1>3. CASE RetrieveAdd
  BY <1>3, AddConsole
<1>4. CASE RetrievePop
  BY <1>4, PopOwnConsole
<1>5. ASSUME NEW t \in Token, NEW n \in 1 .. MaxLen, DevUse(t, n) PROVE ConsoleInv'
  BY <1>5, UseConsole
<1> QED
  BY <1>1, <1>2, <1>3, <1>4, <1>5 DEF Next, CallStep

-----------------------------------------------------------------------------
(* What is in the buffer *)

\* A place that was received and not yet returned.
Fresh(i) == queue_buf_rx[i] # 0 /\ <<queue_buf_rx[i], i>> \notin returned

\* The places of every answer in the used ring are fresh, and those that are left
\* of the answer that is being read.
ReceivedInv ==
  /\ fills \in Nat /\ queue_buf_rx \in [1 .. MaxLen -> 0 .. fills]
  /\ \A x \in returned : x[1] \in 0 .. fills
  /\ \A k \in DOMAIN used : used[k].len <= MaxLen /\ \A i \in 1 .. used[k].len : Fresh(i)
  /\ pending_len <= MaxLen
  /\ \A i \in cursor + 1 .. pending_len : Fresh(i)

\* While something is unread the device has nothing and the ring is empty.
LEMMA UnreadAlone ==
  ASSUME ConsoleInv, cursor # pending_len
  PROVE  posted = {} /\ used = <<>>
<1>1. PICK F \in SUBSET Token, U \in SUBSET Token : QueueIs(F, U)
  BY DEF ConsoleInv
<1>2. cursor < pending_len
  BY DEF ConsoleInv
<1>3. posted = {} /\ U = {} /\ UsedIs(used, U, F, receive_token = 0)
  BY <1>1, <1>2, Zenon DEF QueueIs
<1> QED
  BY <1>3, Zenon DEF UsedIs

Element == [id : Token, len : Nat, popped : BOOLEAN]

\* The used ring is a sequence of entries.
LEMMA UsedSeq ==
  ASSUME NEW F, NEW U, NEW late, UsedIs(used, U, F, late)
  PROVE  used \in Seq(Element)
<1>1. ASSUME NEW a \in Token, NEW n \in Nat, NEW p \in BOOLEAN PROVE Entry(a, n, p) \in Element
  BY DEF Entry, Element
<1>2. \A x \in Element : <<x>> \in Seq(Element)
  OBVIOUS
<1>3. \A x, y \in Element : <<x, y>> \in Seq(Element)
  OBVIOUS
<1>4. ASSUME NEW a \in Token, NEW n \in Nat, used = <<Entry(a, n, FALSE)>>
      PROVE  used \in Seq(Element)
  BY <1>1, <1>2, <1>4, Zenon
<1>5. ASSUME NEW a \in Token, NEW b \in Token, NEW n \in Nat, NEW m \in Nat, NEW p \in BOOLEAN,
             used = <<Entry(a, n, FALSE), Entry(b, m, p)>>
      PROVE  used \in Seq(Element)
  BY <1>1, <1>3, <1>5, Zenon
<1>6. CASE used = <<>>
  BY <1>6, EmptySeq, Zenon
<1>7. \/ used = <<>>
      \/ \E a \in Token, n \in Nat : used = <<Entry(a, n, FALSE)>>
      \/ \E a, b \in Token, n, m \in Nat : used = <<Entry(a, n, FALSE), Entry(b, m, FALSE)>>
      \/ \E a, b \in Token, n, m \in Nat : used = <<Entry(a, n, FALSE), Entry(b, m, TRUE)>>
  BY Zenon DEF UsedIs
<1>8. TRUE \in BOOLEAN /\ FALSE \in BOOLEAN
  OBVIOUS
<1> QED
  BY <1>4, <1>5, <1>6, <1>7, <1>8, Zenon

\* An entry of the ring is marked: the lengths stay.
LEMMA MarkLengths ==
  ASSUME NEW s \in Seq(Element), NEW k \in 1 .. Len(s)
  PROVE  /\ Mark(s, k) \in Seq(Element) /\ Len(Mark(s, k)) = Len(s)
         /\ \A i \in 1 .. Len(s) : Mark(s, k)[i].len = s[i].len
<1>1. PICK e : e = [s[k] EXCEPT !.popped = TRUE]
  BY Zenon
<1>2. s[k] \in Element
  BY ElementOfSeq, Zenon
<1>3. e \in Element /\ e.len = s[k].len
  BY <1>1, <1>2 DEF Element
<1>4. Mark(s, k) = [s EXCEPT ![k] = e]
  BY <1>1, Zenon DEF Mark
<1>5. /\ Mark(s, k) \in Seq(Element) /\ Len(Mark(s, k)) = Len(s)
      /\ \A i \in 1 .. Len(s) : Mark(s, k)[i] = IF i = k THEN e ELSE s[i]
  BY <1>3, <1>4, ExceptSeq
<1> QED
  BY <1>3, <1>5, Zenon

\* The elements of the end of a ring.
LEMMA EndOfRing ==
  ASSUME NEW s \in Seq(Element), NEW n \in 0 .. Len(s),
         NEW j \in DOMAIN SubSeq(s, n + 1, Len(s))
  PROVE  n + j \in 1 .. Len(s) /\ SubSeq(s, n + 1, Len(s))[j] = s[n + j]
<1>1. Len(s) \in Nat /\ n \in Nat /\ n <= Len(s) /\ n + 1 \in Int /\ Len(s) \in Int
  BY LenProperties
<1>2. \A i \in n + 1 .. Len(s) : i \in 1 .. Len(s)
  BY <1>1
<1>3. \A i \in n + 1 .. Len(s) : s[i] \in Element
  BY <1>2, ElementOfSeq, Zenon
<1>4. PICK u : u = SubSeq(s, n + 1, Len(s))
  BY Zenon
<1>5. /\ u \in Seq(Element) /\ Len(u) = IF n + 1 <= Len(s) THEN Len(s) - (n + 1) + 1 ELSE 0
      /\ \A i \in 1 .. Len(s) - (n + 1) + 1 : u[i] = s[n + 1 + i - 1]
  BY <1>1, <1>3, <1>4, SubSeqProperties
<1>6. j \in 1 .. Len(u)
  BY <1>4, <1>5, LenProperties, Zenon
<1>7. j \in Int /\ n + j \in 1 .. Len(s) /\ n + 1 + j - 1 = n + j /\ j \in 1 .. Len(s) - (n + 1) + 1
  <2>1. PICK l : l = Len(s)
    BY Zenon
  <2>2. PICK m : m = Len(u)
    BY Zenon
  <2>3. m = IF n + 1 <= l THEN l - (n + 1) + 1 ELSE 0
    BY <1>5, <2>1, <2>2, Zenon
  <2>4. l \in Nat /\ n \in Nat /\ n <= l /\ j \in 1 .. m
    BY <1>1, <1>6, <2>1, <2>2, Zenon
  <2>5. j \in Int /\ n + j \in 1 .. l /\ n + 1 + j - 1 = n + j /\ j \in 1 .. l - (n + 1) + 1
    BY <2>3, <2>4
  <2> QED
    BY <2>1, <2>5, Zenon
<1> QED
  BY <1>4, <1>5, <1>7, Zenon

\* pop_used takes entries out of the ring, and adds none.
LEMMA PopLengths ==
  ASSUME NEW F, NEW U, NEW late, UsedIs(used, U, F, late), NEW t, pop_used(t),
         NEW j \in DOMAIN used'
  PROVE  \E k \in DOMAIN used : used'[j].len = used[k].len
<1>1. used \in Seq(Element) /\ DOMAIN used = 1 .. Len(used)
  BY UsedSeq, LenProperties, Zenon
<1>2. PICK k \in DOMAIN used : \E n \in 0 .. Len(Mark(used, k)) :
                                 used' = SubSeq(Mark(used, k), n + 1, Len(Mark(used, k)))
  BY Zenon DEF pop_used, Mark
<1>3. PICK ring : ring = Mark(used, k)
  BY Zenon
<1>4. /\ ring \in Seq(Element) /\ Len(ring) = Len(used)
      /\ \A i \in 1 .. Len(used) : ring[i].len = used[i].len
  BY <1>1, <1>3, MarkLengths, Zenon
<1>5. PICK n \in 0 .. Len(ring) : used' = SubSeq(ring, n + 1, Len(ring))
  BY <1>2, <1>3, Zenon
<1>6. n + j \in 1 .. Len(ring) /\ used'[j] = ring[n + j]
  BY <1>4, <1>5, EndOfRing, Zenon
<1> QED
  BY <1>1, <1>4, <1>6, Zenon

\* The buffer at first.
LEMMA InitReceived == ASSUME Init PROVE ReceivedInv
BY MaxLenAssumption DEF Init, ReceivedInv

\* A character is returned.
LEMMA ConsumeReceived ==
  ASSUME ConsoleInv, ReceivedInv, cursor # pending_len, Consume,
         UNCHANGED <<pending_len, used, content>>
  PROVE  ReceivedInv'
<1>1. /\ cursor \in Nat /\ pending_len \in Nat /\ cursor < pending_len /\ pending_len <= MaxLen
      /\ used' = <<>> /\ cursor' = cursor + 1
      /\ returned' = returned \cup {<<queue_buf_rx[cursor + 1], cursor + 1>>}
      /\ UNCHANGED <<pending_len, queue_buf_rx, fills>>
  BY UnreadAlone DEF ConsoleInv, ReceivedInv, Consume, content
<1>2. queue_buf_rx[cursor + 1] \in 0 .. fills
  BY <1>1, MaxLenAssumption DEF ReceivedInv
<1>3. \A x \in returned' : x[1] \in 0 .. fills
  BY <1>1, <1>2 DEF ReceivedInv
<1>4. ASSUME NEW i \in cursor' + 1 .. pending_len' PROVE Fresh(i)'
  <2>1. i \in cursor + 1 .. pending_len /\ i # cursor + 1
    BY <1>1
  <2>2. Fresh(i)
    BY <2>1, Zenon DEF ReceivedInv
  <2>3. <<queue_buf_rx[i], i>> # <<queue_buf_rx[cursor + 1], cursor + 1>>
    BY <2>1
  <2> QED
    BY <1>1, <2>2, <2>3, Zenon DEF Fresh
<1>5. \A k \in DOMAIN used' : FALSE
  BY <1>1
<1> QED
  BY <1>1, <1>3, <1>4, <1>5 DEF ReceivedInv

\* Steps that write and return nothing.
LEMMA QuietReceived ==
  ASSUME ReceivedInv, UNCHANGED <<queue_buf_rx, fills, returned, cursor, pending_len>>,
         \A j \in DOMAIN used' : \E k \in DOMAIN used : used'[j].len = used[k].len
  PROVE  ReceivedInv'
<1>1. \A i : Fresh(i)' <=> Fresh(i)
  BY Zenon DEF Fresh
<1>2. ASSUME NEW j \in DOMAIN used'
      PROVE  used'[j].len <= MaxLen /\ \A i \in 1 .. used'[j].len : Fresh(i)'
  BY <1>1, Zenon DEF ReceivedInv
<1> QED
  BY <1>1, <1>2, Zenon DEF ReceivedInv

\* The answer of a request is about to be read.
LEMMA FinishReceived ==
  ASSUME ConsoleInv, ReceivedInv, finish_receive
  PROVE  ReceivedInv'
<1>1. UNCHANGED <<queue_buf_rx, fills, returned>>
  BY DEF finish_receive, content
<1>2. PICK F \in SUBSET Token, U \in SUBSET Token : QueueIs(F, U)
  BY DEF ConsoleInv
<1>3. CASE receive_token # None /\ receive_token = peek_used
  <2>1. /\ pop_used(receive_token) /\ cursor' = 0 /\ pending_len' = used[1].len /\ used # <<>>
    BY <1>3 DEF finish_receive, peek_used
  <2>2. UsedIs(used, U, F, receive_token = 0)
    BY <1>2 DEF QueueIs
  <2>3. 1 \in DOMAIN used
    <3>1. used \in Seq(Element)
      BY <2>2, UsedSeq, Zenon
    <3> QED
      BY <2>1, <3>1
  <2>4. \A i : Fresh(i)' <=> Fresh(i)
    BY <1>1, Zenon DEF Fresh
  <2>5. \A j \in DOMAIN used' : \E k \in DOMAIN used : used'[j].len = used[k].len
    BY <2>1, <2>2, PopLengths
  <2>6. ASSUME NEW j \in DOMAIN used'
        PROVE  used'[j].len <= MaxLen /\ \A i \in 1 .. used'[j].len : Fresh(i)'
    BY <2>4, <2>5, Zenon DEF ReceivedInv
  <2>7. pending_len' <= MaxLen /\ \A i \in 1 .. pending_len' : Fresh(i)'
    BY <2>1, <2>3, <2>4, Zenon DEF ReceivedInv
  <2>8. cursor' + 1 = 1
    BY <2>1
  <2> QED
    BY <1>1, <2>6, <2>7, <2>8, Zenon DEF ReceivedInv
<1>4. CASE ~(receive_token # None /\ receive_token = peek_used)
  <2>1. UNCHANGED <<cursor, pending_len, used>>
    BY <1>4 DEF finish_receive
  <2> QED
    BY <1>1, <2>1, QuietReceived
<1> QED
  BY <1>3, <1>4

\* The device fills a request: the places it writes are fresh.
LEMMA UseReceived ==
  ASSUME ConsoleInv, ReceivedInv, NEW t \in Token, NEW n \in 1 .. MaxLen, DevUse(t, n)
  PROVE  ReceivedInv'
<1>1. /\ t \in posted /\ used' = Append(used, Entry(t, n, FALSE)) /\ fills' = fills + 1
      /\ queue_buf_rx' = [i \in 1 .. MaxLen |-> IF i <= n THEN fills + 1 ELSE queue_buf_rx[i]]
      /\ UNCHANGED <<cursor, pending_len, returned>>
  BY DEF DevUse, Entry
<1>2. cursor = pending_len /\ cursor \in Nat /\ pending_len <= MaxLen
  BY <1>1, UnreadAlone DEF ConsoleInv, ReceivedInv
<1>3. /\ fills \in Nat /\ queue_buf_rx \in [1 .. MaxLen -> 0 .. fills]
      /\ \A x \in returned : x[1] \in 0 .. fills
  BY DEF ReceivedInv
<1>4. queue_buf_rx' \in [1 .. MaxLen -> 0 .. fills']
  BY <1>1, <1>3, MaxLenAssumption
<1>5. ASSUME NEW i \in 1 .. n PROVE Fresh(i)'
  <2>1. queue_buf_rx'[i] = fills + 1
    BY <1>1, MaxLenAssumption
  <2>2. <<fills + 1, i>> \notin returned
    BY <1>3
  <2>3. queue_buf_rx'[i] # 0
    BY <1>3, <2>1
  <2>4. returned' = returned
    BY <1>1, Zenon
  <2>5. <<queue_buf_rx'[i], i>> \notin returned'
    BY <2>1, <2>2, <2>4, Zenon
  <2> QED
    BY <2>3, <2>5, Zenon DEF Fresh
<1>6. ASSUME NEW i \in 1 .. MaxLen, Fresh(i) PROVE Fresh(i)'
  <2>1. CASE i <= n
    BY <1>5, <2>1, MaxLenAssumption
  <2>2. CASE ~(i <= n)
    <3>1. queue_buf_rx'[i] = queue_buf_rx[i]
      BY <1>1, <2>2
    <3> QED
      BY <1>1, <1>6, <3>1, Zenon DEF Fresh
  <2> QED
    BY <2>1, <2>2
<1>7. PICK F \in SUBSET Token, U \in SUBSET Token : QueueIs(F, U)
  BY DEF ConsoleInv
<1>8. used \in Seq(Element) /\ Entry(t, n, FALSE) \in Element
  <2>1. Entry(t, n, FALSE) \in Element
    BY MaxLenAssumption DEF Entry, Element
  <2> QED
    BY <1>7, <2>1, UsedSeq, Zenon DEF QueueIs
<1>9. /\ DOMAIN used = 1 .. Len(used) /\ Len(used) \in Nat
      /\ DOMAIN used' = 1 .. Len(used) + 1
      /\ \A i \in 1 .. Len(used) : used'[i] = used[i] /\ used[i] \in Element
      /\ used'[Len(used) + 1] = Entry(t, n, FALSE)
  <2>1. /\ used' \in Seq(Element) /\ Len(used') = Len(used) + 1
        /\ \A i \in 1 .. Len(used) : used'[i] = used[i]
        /\ used'[Len(used) + 1] = Entry(t, n, FALSE)
    <3>1. PICK e \in Element : e = Entry(t, n, FALSE)
      BY <1>8, Zenon
    <3>2. /\ Append(used, e) \in Seq(Element) /\ Len(Append(used, e)) = Len(used) + 1
          /\ \A i \in 1 .. Len(used) : Append(used, e)[i] = used[i]
          /\ Append(used, e)[Len(used) + 1] = e
      BY <1>8, AppendProperties
    <3>3. used' = Append(used, e)
      BY <1>1, <3>1, Zenon
    <3> QED
      BY <3>1, <3>2, <3>3, Zenon
  <2>2. DOMAIN used = 1 .. Len(used) /\ Len(used) \in Nat /\ DOMAIN used' = 1 .. Len(used')
    BY <1>8, <2>1, LenProperties, Zenon
  <2>3. \A i \in 1 .. Len(used) : used[i] \in Element
    BY <1>8, ElementOfSeq, Zenon
  <2> QED
    BY <2>1, <2>2, <2>3, Zenon
<1>10. ASSUME NEW j \in DOMAIN used'
      PROVE  used'[j].len <= MaxLen /\ \A i \in 1 .. used'[j].len : Fresh(i)'
  <2>1. CASE j \in DOMAIN used
    <3>1. used'[j] = used[j] /\ used[j].len \in Nat
      <4>1. used'[j] = used[j] /\ used[j] \in Element
        BY <1>9, <2>1, Zenon
      <4> QED
        BY <4>1 DEF Element
    <3>2. used[j].len <= MaxLen /\ \A i \in 1 .. used[j].len : Fresh(i)
      BY <2>1, Zenon DEF ReceivedInv
    <3>3. \A i \in 1 .. used[j].len : i \in 1 .. MaxLen
      BY <3>1, <3>2, MaxLenAssumption
    <3> QED
      BY <1>6, <3>1, <3>2, <3>3, Zenon
  <2>2. CASE j \notin DOMAIN used
    <3>1. used'[j] = Entry(t, n, FALSE)
      <4>1. used'[Len(used) + 1] = Entry(t, n, FALSE)
        BY <1>9, Zenon
      <4>2. j = Len(used) + 1
        BY <1>9, <2>2
      <4> QED
        BY <4>1, <4>2
    <3>2. used'[j].len = n /\ n <= MaxLen
      BY <3>1, MaxLenAssumption DEF Entry
    <3> QED
      BY <1>5, <3>2, Zenon
  <2> QED
    BY <2>1, <2>2
<1>11. \A x \in returned' : x[1] \in 0 .. fills'
  BY <1>1, <1>3
<1>12. \A i \in cursor' + 1 .. pending_len' : FALSE
  BY <1>1, <1>2
<1>13. fills' \in Nat /\ pending_len' <= MaxLen
  BY <1>1, <1>2, <1>3
<1> QED
  BY <1>4, <1>10, <1>11, <1>12, <1>13, Zenon DEF ReceivedInv

\* Every step keeps the buffer's invariant.
LEMMA NextReceived ==
  ASSUME ConsoleInv, ReceivedInv, [Next]_vars
  PROVE  ReceivedInv'
<1>1. ASSUME UNCHANGED <<queue_buf_rx, fills, returned, cursor, pending_len, used>>
      PROVE  ReceivedInv'
  BY <1>1, QuietReceived
<1>2. CASE \/ recv \/ recv_block \/ ack_interrupt
           \/ RetrieveSkip \/ RetrieveFull \/ RetrieveAdd \/ Notify \/ NotifyError
           \/ RetrieveSpin \/ UNCHANGED vars
  <2>1. UNCHANGED <<queue_buf_rx, fills, returned, cursor, pending_len, used>>
    BY <1>2 DEF recv, recv_block, ack_interrupt, AckNone, Begin, RetrieveSkip, RetrieveFull,
       RetrieveAdd, Notify, NotifyError, RetrieveSpin, vars, queue, content
  <2> QED
    BY <1>1, <2>1
<1>3. CASE RecvCheck \/ BlockCheck
  <2>1. UNCHANGED <<pending_len, used, content>>
    BY <1>3 DEF RecvCheck, BlockCheck, queue
  <2>2. UNCHANGED <<cursor, returned>> \/ (cursor # pending_len /\ Consume)
    BY <1>3 DEF RecvCheck, BlockCheck
  <2>3. CASE UNCHANGED <<cursor, returned>>
    BY <1>1, <2>1, <2>3 DEF content
  <2> QED
    BY <2>1, <2>2, <2>3, ConsumeReceived
<1>4. CASE finish_receive
  BY <1>4, FinishReceived
<1>5. CASE RetrievePop
  <2>1. pop_used(token) /\ UNCHANGED <<queue_buf_rx, fills, returned, cursor, pending_len>>
    BY <1>5 DEF RetrievePop, content
  <2>2. PICK F \in SUBSET Token, U \in SUBSET Token : QueueIs(F, U)
    BY DEF ConsoleInv
  <2>3. \A j \in DOMAIN used' : \E k \in DOMAIN used : used'[j].len = used[k].len
    BY <2>1, <2>2, PopLengths DEF QueueIs
  <2> QED
    BY <2>1, <2>3, QuietReceived
<1>6. ASSUME NEW t \in Token, NEW n \in 1 .. MaxLen, DevUse(t, n) PROVE ReceivedInv'
  BY <1>6, UseReceived
<1> QED
  BY <1>2, <1>3, <1>4, <1>5, <1>6 DEF Next, CallStep

\* What recv and recv_block return was received, was not returned before, and cannot
\* be overwritten before it is returned, for answers of any length and whichever
\* notifications failed.
THEOREM UnreadAlwaysFresh == Spec => []UnreadIsFresh
<1>1. Init => ConsoleInv /\ ReceivedInv
  BY InitConsole, InitReceived
<1>2. ConsoleInv /\ ReceivedInv /\ [Next]_vars => ConsoleInv' /\ ReceivedInv'
  BY NextConsole, NextReceived
<1>3. ConsoleInv /\ ReceivedInv => UnreadIsFresh
  <2>1. ConsoleInv => cursor <= pending_len /\ (cursor < pending_len => posted = {})
    BY DEF ConsoleInv, QueueIs
  <2> QED
    BY <2>1, Zenon DEF ReceivedInv, UnreadIsFresh, Fresh
<1> QED
  BY <1>1, <1>2, <1>3, PTL DEF Spec

=============================================================================
