-------------------------------- MODULE MCPci --------------------------------
(***************************************************************************)
(* Configuration spaces for Pci: one that works, and variations of it that *)
(* the code has a case for.                                                *)
(***************************************************************************)
EXTENDS Pci, TLC

Unused == [kind |-> "none", size |-> 0, type |-> 0]
Upper == [kind |-> "upper", size |-> 0, type |-> 0]
Memory(type, size) == [kind |-> "memory", size |-> size, type |-> type]
Io(size) == [kind |-> "io", size |-> size, type |-> 0]

\* BARs 0, 1 and the rest.
Bars(b0, b1) == [b \in Bar |-> CASE b = 0 -> b0 [] b = 1 -> b1 [] OTHER -> Unused]

Cap(type, bar_, offset, length, next_) ==
  [id |-> PCI_CAP_ID_VNDR, len |-> 16, type |-> type, bar |-> bar_, offset |-> offset,
   length |-> length, multiplier |-> 0, next |-> next_]

\* Structures in a BAR of 128 bytes.
Common == Cap(1, 0, 0, 56, 80)
Notify == [Cap(2, 0, 64, 16, 100) EXCEPT !.len = 20, !.multiplier = 4]
Isr == Cap(3, 0, 60, 1, 116)
Device == Cap(4, 0, 96, 32, 0)
Good == (64 :> Common) @@ (80 :> Notify) @@ (100 :> Isr) @@ (116 :> Device)

Layout(bars, caps) ==
  [virtio |-> TRUE, list |-> TRUE, first |-> 65, caps |-> caps, bars |-> bars,
   allocated |-> TRUE, notify_off |-> [q \in Queue |-> q]]

Wide == Bars(Memory(2, 128), Upper)
Narrow == Bars(Memory(0, 128), Io(16))

\* The second has no device configuration.
Working == {Layout(Wide, Good), Layout(Narrow, [Good EXCEPT ![100].next = 0])}

\* A capability of another kind, one that is too short, and a second one of
\* each kind behind the first.
Crowded ==
  Layout(Narrow,
    [Good EXCEPT ![116].next = 136]
    @@ (136 :> [Cap(1, 0, 0, 128, 152) EXCEPT !.id = 5])
    @@ (152 :> [Notify EXCEPT !.offset = 80, !.next = 172])
    @@ (172 :> Cap(1, 0, 64, 64, 0)))
Short == Layout(Narrow, [Good EXCEPT ![80].len = 16])
Loop == Layout(Narrow, [Good EXCEPT ![116].next = 80])
BadPointer == Layout(Narrow, [Good EXCEPT ![80].next = 102])

Broken == {
  Crowded, Short, Loop, BadPointer,
  [Layout(Narrow, Good) EXCEPT !.virtio = FALSE],
  [Layout(Narrow, Good) EXCEPT !.list = FALSE],
  [Layout(Wide, Good) EXCEPT !.allocated = FALSE],
  Layout(Narrow, [Good EXCEPT ![80].multiplier = 3]),
  Layout(Narrow, [Good EXCEPT ![116].bar = 1]),
  Layout(Narrow, [Good EXCEPT ![116].length = 64]),
  Layout(Narrow, [Good EXCEPT ![80].length = WORD - 32]),
  Layout(Narrow, [Good EXCEPT ![64].offset = 4]),
  Layout(Narrow, [Good EXCEPT ![80].multiplier = 16]),
  Layout(Bars(Memory(3, 128), Unused), Good),
  Layout([Narrow EXCEPT ![5] = Memory(2, 128)], [Good EXCEPT ![100].bar = 5]),
  Layout(Bars(Memory(2, WORD), Upper), Good)}

\* At most two functions that work, anywhere; or one that may not, alone or
\* beside one that does.
SmallBuses ==
  {c \in [Function -> Working \cup {Absent}] : Cardinality({f \in Function : c[f] # Absent}) <= 2}
  \cup {[f \in Function |-> CASE f = <<0, 1>> -> w [] f = <<1, 0>> -> l [] OTHER -> Absent] :
          w \in Working \cup {Absent}, l \in Broken}

=============================================================================
