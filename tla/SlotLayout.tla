---------------------------- MODULE SlotLayout -------------------------------
(***************************************************************************)
(* The place in storage of each variable of a list, by the variables'      *)
(* sizes (compute_storage_layout of                                        *)
(* src/slither/slither/core/compilation_unit.py), and the checks of        *)
(* variables_order.py, which compare two such lists.                       *)
(***************************************************************************)
EXTENDS Integers, Sequences

SlotBytes == 32

\* What storage_size returns of a type.
Size(bytes, newSlot) == [bytes |-> bytes, newSlot |-> newSlot]

----------------------------------------------------------------------------
(* compute_storage_layout *)

Slots(bytes) == (bytes + SlotBytes - 1) \div SlotBytes

At(slot, offset) == [slot |-> slot, offset |-> offset]

\* Where the next variable is, after the first ones of a list: slot, offset and
\* whether a variable of this size fits behind them.
Fits(at, size, newSlot) ==
    IF newSlot THEN at.offset = 0 ELSE at.offset + size.bytes <= SlotBytes

\* Mistake: a type that starts a new slot may start in a half-used one.
PackedAfter(at, size) ==
    IF at.offset + size.bytes <= SlotBytes THEN at ELSE At(at.slot + 1, 0)

Placed(at, size) ==
    IF Fits(at, size, size.newSlot) THEN at ELSE At(at.slot + 1, 0)

Behind(at, size) ==
    IF size.newSlot THEN At(at.slot + Slots(size.bytes), at.offset)
    ELSE At(at.slot, at.offset + size.bytes)

\* slot and offset after the first n sizes of a list.
Ends(sizes) ==
    LET end[n \in 0..Len(sizes)] ==
            IF n = 0 THEN At(0, 0) ELSE Behind(Placed(end[n - 1], sizes[n]), sizes[n])
    IN  end

\* The place of each size of a list, and the place behind the last.
PlacesOf(sizes) ==
    LET end == Ends(sizes)
    IN  [place |-> [n \in DOMAIN sizes |-> Placed(end[n - 1], sizes[n])],
         end |-> end[Len(sizes)]]

\* The size of a struct whose elements end there.
StructBytes(end) == SlotBytes * (IF end.offset > 0 THEN end.slot + 1 ELSE end.slot)

----------------------------------------------------------------------------
(* variables_order.py, of two lists of variables that are kept in storage. *)

MissingFrom(order1, order2) == {order1[n] : n \in {k \in DOMAIN order1 : Len(order2) < k}}

\* Mistake: only the names are compared.
SameName(v1, v2) == v1.name = v2.name

SameVariable(v1, v2) == v1.name = v2.name /\ v1.type.name = v2.type.name

DifferentBetween(order1, order2) ==
    {<<order1[n], order2[n]>> :
        n \in {k \in DOMAIN order1 \cap DOMAIN order2 : ~ SameVariable(order1[k], order2[k])}}

\* Counted from 0, idx = len(order2) - len(order1).
FirstExtra(len1, len2) == len2 - len1

ExtraIn(order1, order2) ==
    IF Len(order2) <= Len(order1) THEN {}
    ELSE {order2[n + 1] : n \in FirstExtra(Len(order1), Len(order2))..(Len(order2) - 1)}

----------------------------------------------------------------------------
(* What Solidity does *)

\* Solidity's layout, in bytes from the start of slot 0: a new slot is the next
\* multiple of 32 and nothing crosses one.
AtSlot(b) == SlotBytes * Slots(b)

SolidityStart(end, size) ==
    IF size.newSlot \/ (end % SlotBytes) + size.bytes > SlotBytes THEN AtSlot(end) ELSE end

\* The bytes that no other variable may use.
Occupied(size) == IF size.newSlot THEN AtSlot(size.bytes) ELSE size.bytes

SolidityEnds(sizes) ==
    LET end[n \in 0..Len(sizes)] ==
            IF n = 0 THEN 0 ELSE SolidityStart(end[n - 1], sizes[n]) + Occupied(sizes[n])
    IN  end

SolidityPlacesOf(sizes) ==
    LET end == SolidityEnds(sizes)
    IN  [place |-> [n \in DOMAIN sizes |-> SolidityStart(end[n - 1], sizes[n])],
         end |-> end[Len(sizes)]]

=============================================================================
