---------------------------- MODULE SlitherProofs ----------------------------
(***************************************************************************)
(* Proofs about what slither computes. SlotLayout, for lists of any length *)
(* of variables of any size: slither's slots and offsets are Solidity's    *)
(* bytes, and checks that report nothing leave every variable where it     *)
(* was. Dominators, for graphs of any size: dominators, immediate          *)
(* dominators and frontiers are those of the graph's paths. UpgradeChecks, *)
(* for any two lists of variables: each is compared with its counterpart;  *)
(* and for any contracts: no id that the proxy takes goes unreported.      *)
(***************************************************************************)
EXTENDS SlotLayout, UpgradeChecks, Dominators, FiniteSetTheorems, NaturalsInduction,
        WellFoundedInduction, TLAPS


\* What storage_size may return: what does not start a slot fits in one.
SlotSize == {s \in [bytes : Nat, newSlot : BOOLEAN] : s.newSlot \/ s.bytes <= SlotBytes}

\* Between two variables; an offset may be just behind the slot.
Place == [slot : Nat, offset : 0..SlotBytes]

FirstByte(at) == SlotBytes * at.slot + at.offset

----------------------------------------------------------------------------
(* Recursion over a list *)

\* A non-empty set of naturals has a least element.
LEMMA LeastExists ==
    ASSUME NEW S \in SUBSET Nat, S # {}
    PROVE  \E x \in S : \A y \in S : x <= y
<1>1. PICK x \in S : \A y \in S : ~ (<<y, x>> \in OpToRel(<, Nat))
  BY NatLessThanWellFounded, WFMin
<1>2. \A y \in S : ~ (y < x)
  BY <1>1 DEF OpToRel
<1> QED BY <1>2

LEMMA SeqElement ==
    ASSUME NEW S, NEW s \in Seq(S), NEW i \in DOMAIN s
    PROVE  s[i] \in S
OBVIOUS

\* f has been computed up to n, from start and one step for each position.
Computed(f, n, X, start, step) ==
    /\ f \in [0..n -> X]
    /\ f[0] = start
    /\ \A k \in 1..n : f[k] = step[k][f[k - 1]]

\* What is defined by recursion on the position in a list exists.
LEMMA RecursionExists ==
    ASSUME NEW X, NEW start \in X, NEW length \in Nat, NEW step \in [1..length -> [X -> X]]
    PROVE  \E f : Computed(f, length, X, start, step)
<1> DEFINE short == {n \in 0..length : ~ \E f : Computed(f, n, X, start, step)}
<1> SUFFICES ASSUME short # {} PROVE FALSE
  <2>1. length \in 0..length
    OBVIOUS
  <2>2. length \notin short => \E f : Computed(f, length, X, start, step)
    BY <2>1
  <2> HIDE DEF short
  <2> QED BY <2>2
<1>1. PICK n \in short : \A m \in short : n <= m
  <2>1. short \in SUBSET Nat
    OBVIOUS
  <2> HIDE DEF short
  <2> QED BY <2>1, LeastExists
<1>2. n # 0
  <2>1. Computed([k \in 0..0 |-> start], 0, X, start, step)
    BY DEF Computed
  <2> QED BY <2>1
<1>3. n \in 1..length /\ n - 1 \in 0..length /\ n - 1 \notin short
  BY <1>1, <1>2
<1>4. PICK f : Computed(f, n - 1, X, start, step)
  BY <1>3
<1> DEFINE g == [k \in 0..n |-> IF k < n THEN f[k] ELSE step[n][f[n - 1]]]
<1>5. f[n - 1] \in X /\ step[n][f[n - 1]] \in X
  <2>1. f[n - 1] \in X
    BY <1>3, <1>4 DEF Computed
  <2> QED BY <1>3, <2>1
<1>6. g \in [0..n -> X]
  BY <1>3, <1>4, <1>5 DEF Computed
<1>7. g[0] = start
  BY <1>3, <1>4 DEF Computed
<1>8. ASSUME NEW k \in 1..n
      PROVE  g[k] = step[k][g[k - 1]]
  <2>1. g[k - 1] = f[k - 1]
    BY <1>3
  <2>2. CASE k < n
    <3>1. g[k] = f[k] /\ k \in 1..(n - 1)
      BY <1>3, <2>2
    <3> QED BY <1>4, <2>1, <3>1 DEF Computed
  <2>3. CASE k = n
    BY <1>3, <2>1, <2>3
  <2> QED BY <1>3, <2>2, <2>3
<1>9. Computed(g, n, X, start, step)
  <2> HIDE DEF g
  <2> QED BY <1>6, <1>7, <1>8 DEF Computed
<1> QED BY <1>9

----------------------------------------------------------------------------
(* One variable *)

\* The place behind a variable is a place again.
LEMMA PlacesType ==
    ASSUME NEW at \in Place, NEW size \in SlotSize
    PROVE  Placed(at, size) \in Place /\ Behind(Placed(at, size), size) \in Place
<1>1. at.slot \in Nat /\ at.offset \in 0..SlotBytes /\ at = At(at.slot, at.offset)
  BY DEF Place, At
<1>2. size.bytes \in Nat /\ size.newSlot \in BOOLEAN /\ (size.newSlot \/ size.bytes <= SlotBytes)
  BY DEF SlotSize
<1>3. Slots(size.bytes) \in Nat
  BY <1>2 DEF Slots, SlotBytes
<1>4. Placed(at, size) \in Place
  BY <1>1 DEF Placed, Place, At, SlotBytes
<1>5. CASE size.newSlot
  <2>1. Placed(at, size).offset = 0
    BY <1>1, <1>5 DEF Placed, Fits, At
  <2> QED BY <1>3, <1>4, <1>5, <2>1 DEF Behind, Place, At
<1>6. CASE ~ size.newSlot
  <2>1. Placed(at, size).offset + size.bytes \in 0..SlotBytes
    BY <1>1, <1>2, <1>6 DEF Placed, Fits, At, SlotBytes
  <2> QED BY <1>4, <1>6, <2>1 DEF Behind, Place, At
<1> QED BY <1>4, <1>5, <1>6

\* One step of slither's layout is one of Solidity's.
LEMMA StepSame ==
    ASSUME NEW at \in Place, NEW size \in SlotSize
    PROVE  /\ FirstByte(Placed(at, size)) = SolidityStart(FirstByte(at), size)
           /\ FirstByte(Behind(Placed(at, size), size))
                = SolidityStart(FirstByte(at), size) + Occupied(size)
<1> DEFINE s == at.slot
           o == at.offset
<1>1. s \in Nat /\ o \in 0..SlotBytes /\ at = At(s, o)
  BY DEF Place, At
<1>2. size.bytes \in Nat /\ size.newSlot \in BOOLEAN /\ (size.newSlot \/ size.bytes <= SlotBytes)
  BY DEF SlotSize
<1>3. FirstByte(at) = SlotBytes * s + o
  BY DEF FirstByte
<1>4. AtSlot(SlotBytes * s + o) = IF o = 0 THEN SlotBytes * s ELSE SlotBytes * (s + 1)
  <2> HIDE DEF s, o
  <2> QED BY <1>1 DEF AtSlot, Slots, SlotBytes
<1>5. (SlotBytes * s + o) % SlotBytes = IF o = SlotBytes THEN 0 ELSE o
  <2> HIDE DEF s, o
  <2> QED BY <1>1 DEF SlotBytes
<1>6. FirstByte(Placed(at, size)) = SolidityStart(FirstByte(at), size)
  <2>1. FirstByte(At(s + 1, 0)) = SlotBytes * (s + 1)
    BY <1>1 DEF FirstByte, At, SlotBytes
  <2>2. CASE size.newSlot
    BY <1>1, <1>3, <1>4, <2>1, <2>2 DEF Placed, Fits, SolidityStart, SlotBytes
  <2>3. CASE ~ size.newSlot
    BY <1>1, <1>2, <1>3, <1>4, <1>5, <2>1, <2>3 DEF Placed, Fits, SolidityStart, SlotBytes
  <2> QED BY <2>2, <2>3
<1>7. FirstByte(Behind(Placed(at, size), size)) = FirstByte(Placed(at, size)) + Occupied(size)
  <2>1. PICK put \in Place : put = Placed(at, size)
    BY PlacesType
  <2>2. put.slot \in Nat /\ put.offset \in 0..SlotBytes
    BY DEF Place
  <2>3. Slots(size.bytes) \in Nat
    BY <1>2 DEF Slots, SlotBytes
  <2> QED BY <1>2, <2>1, <2>2, <2>3 DEF Behind, FirstByte, Occupied, At, AtSlot, SlotBytes
<1> QED BY <1>6, <1>7

----------------------------------------------------------------------------
(* Lists *)

\* What Ends is defined to be.
LEMMA EndsUnfold ==
    ASSUME NEW sizes \in Seq(SlotSize)
    PROVE  /\ Ends(sizes) \in [0..Len(sizes) -> Place]
           /\ Ends(sizes)[0] = At(0, 0)
           /\ \A n \in 1..Len(sizes) :
                Ends(sizes)[n] = Behind(Placed(Ends(sizes)[n - 1], sizes[n]), sizes[n])
<1> DEFINE step == [n \in 1..Len(sizes) |-> [at \in Place |-> Behind(Placed(at, sizes[n]), sizes[n])]]
           Def(end) == [n \in 0..Len(sizes) |->
                IF n = 0 THEN At(0, 0) ELSE Behind(Placed(end[n - 1], sizes[n]), sizes[n])]
<1>1. Len(sizes) \in Nat /\ \A n \in 1..Len(sizes) : sizes[n] \in SlotSize
  OBVIOUS
<1>2. step \in [1..Len(sizes) -> [Place -> Place]]
  BY <1>1, PlacesType
<1>3. At(0, 0) \in Place
  BY DEF At, Place, SlotBytes
<1>4. PICK f : Computed(f, Len(sizes), Place, At(0, 0), step)
  <2> HIDE DEF step
  <2> QED BY <1>1, <1>2, <1>3, RecursionExists
<1>5. f = Def(f)
  <2>1. ASSUME NEW n \in 0..Len(sizes)
        PROVE  f[n] = Def(f)[n]
    <3>1. CASE n = 0
      BY <1>4, <3>1 DEF Computed
    <3>2. CASE n # 0
      <4>1. n \in 1..Len(sizes) /\ n - 1 \in 0..Len(sizes)
        BY <3>2
      <4>2. f[n - 1] \in Place
        BY <1>4, <4>1 DEF Computed
      <4>3. f[n] = step[n][f[n - 1]]
        <5> HIDE DEF step
        <5> QED BY <1>4, <4>1 DEF Computed
      <4> QED BY <4>1, <4>2, <4>3
    <3> QED BY <3>1, <3>2
  <2>2. f \in [0..Len(sizes) -> Place]
    BY <1>4 DEF Computed
  <2> QED BY <2>1, <2>2
<1>6. \E end : end = Def(end)
  BY <1>5
<1>7. Ends(sizes) = Def(Ends(sizes))
  BY <1>6 DEF Ends
<1>8. Ends(sizes) = [n \in 0..Len(sizes) |-> Ends(sizes)[n]]
  BY <1>7
<1>9. \A n \in 0..Len(sizes) : Ends(sizes)[n] =
        IF n = 0 THEN At(0, 0) ELSE Behind(Placed(Ends(sizes)[n - 1], sizes[n]), sizes[n])
  BY <1>7
<1>10. \A n \in 0..Len(sizes) : Ends(sizes)[n] \in Place
  <2> DEFINE bad == {n \in 0..Len(sizes) : Ends(sizes)[n] \notin Place}
  <2> SUFFICES ASSUME bad # {} PROVE FALSE
    OBVIOUS
  <2>1. PICK n \in bad : \A m \in bad : n <= m
    <3>1. bad \in SUBSET Nat
      OBVIOUS
    <3> HIDE DEF bad
    <3> QED BY <3>1, LeastExists
  <2>2. n # 0
    BY <1>3, <1>9
  <2>3. n \in 1..Len(sizes) /\ n - 1 \in 0..Len(sizes) /\ n - 1 \notin bad
    BY <2>1, <2>2
  <2>4. Ends(sizes)[n - 1] \in Place
    BY <2>3
  <2>5. Ends(sizes)[n] = Behind(Placed(Ends(sizes)[n - 1], sizes[n]), sizes[n])
    BY <1>9, <2>2
  <2>6. Ends(sizes)[n] \in Place
    BY <1>1, <2>3, <2>4, <2>5, PlacesType
  <2> QED BY <2>6
<1>11. Ends(sizes) \in [0..Len(sizes) -> Place]
  BY <1>8, <1>10
<1>12. Ends(sizes)[0] = At(0, 0)
  BY <1>1, <1>9
<1>13. ASSUME NEW n \in 1..Len(sizes)
       PROVE  Ends(sizes)[n] = Behind(Placed(Ends(sizes)[n - 1], sizes[n]), sizes[n])
  <2>1. n \in 0..Len(sizes) /\ n # 0
    OBVIOUS
  <2> QED BY <1>9, <2>1
<1> QED BY <1>11, <1>12, <1>13

\* Solidity's places are bytes.
LEMMA StartType ==
    ASSUME NEW end \in Nat, NEW size \in SlotSize
    PROVE  /\ SolidityStart(end, size) \in Nat /\ end <= SolidityStart(end, size)
           /\ Occupied(size) \in Nat /\ size.bytes <= Occupied(size)
<1>1. size.bytes \in Nat /\ size.newSlot \in BOOLEAN
  BY DEF SlotSize
<1>2. \A b \in Nat : AtSlot(b) \in Nat /\ b <= AtSlot(b)
  BY DEF AtSlot, Slots, SlotBytes
<1> QED BY <1>1, <1>2 DEF SolidityStart, Occupied

\* What SolidityEnds is defined to be.
LEMMA SolidityEndsUnfold ==
    ASSUME NEW sizes \in Seq(SlotSize)
    PROVE  /\ SolidityEnds(sizes) \in [0..Len(sizes) -> Nat]
           /\ SolidityEnds(sizes)[0] = 0
           /\ \A n \in 1..Len(sizes) :
                SolidityEnds(sizes)[n]
                    = SolidityStart(SolidityEnds(sizes)[n - 1], sizes[n]) + Occupied(sizes[n])
<1> DEFINE step == [n \in 1..Len(sizes) |->
                        [end \in Nat |-> SolidityStart(end, sizes[n]) + Occupied(sizes[n])]]
           Def(end) == [n \in 0..Len(sizes) |->
                IF n = 0 THEN 0 ELSE SolidityStart(end[n - 1], sizes[n]) + Occupied(sizes[n])]
<1>1. Len(sizes) \in Nat /\ \A n \in 1..Len(sizes) : sizes[n] \in SlotSize
  OBVIOUS
<1>2. step \in [1..Len(sizes) -> [Nat -> Nat]]
  <2>1. \A n \in 1..Len(sizes), end \in Nat :
            SolidityStart(end, sizes[n]) + Occupied(sizes[n]) \in Nat
    <3> TAKE n \in 1..Len(sizes), end \in Nat
    <3>1. sizes[n] \in SlotSize
      BY <1>1
    <3>2. SolidityStart(end, sizes[n]) \in Nat /\ Occupied(sizes[n]) \in Nat
      BY <3>1, StartType
    <3> QED BY <3>2
  <2> QED BY <2>1
<1>3. PICK f : Computed(f, Len(sizes), Nat, 0, step)
  <2> HIDE DEF step
  <2> QED BY <1>1, <1>2, RecursionExists
<1>4. f = Def(f)
  <2>1. ASSUME NEW n \in 0..Len(sizes)
        PROVE  f[n] = Def(f)[n]
    <3>1. CASE n = 0
      BY <1>3, <3>1 DEF Computed
    <3>2. CASE n # 0
      <4>1. n \in 1..Len(sizes) /\ n - 1 \in 0..Len(sizes)
        BY <3>2
      <4>2. f[n - 1] \in Nat
        BY <1>3, <4>1 DEF Computed
      <4>3. f[n] = step[n][f[n - 1]]
        <5> HIDE DEF step
        <5> QED BY <1>3, <4>1 DEF Computed
      <4> QED BY <4>1, <4>2, <4>3
    <3> QED BY <3>1, <3>2
  <2>2. f \in [0..Len(sizes) -> Nat]
    BY <1>3 DEF Computed
  <2> QED BY <2>1, <2>2
<1>5. \E end : end = Def(end)
  BY <1>4
<1>6. SolidityEnds(sizes) = Def(SolidityEnds(sizes))
  BY <1>5 DEF SolidityEnds
<1>7. SolidityEnds(sizes) = [n \in 0..Len(sizes) |-> SolidityEnds(sizes)[n]]
  BY <1>6
<1>8. \A n \in 0..Len(sizes) : SolidityEnds(sizes)[n] =
        IF n = 0 THEN 0 ELSE SolidityStart(SolidityEnds(sizes)[n - 1], sizes[n]) + Occupied(sizes[n])
  BY <1>6
<1>9. \A n \in 0..Len(sizes) : SolidityEnds(sizes)[n] \in Nat
  <2> DEFINE bad == {n \in 0..Len(sizes) : SolidityEnds(sizes)[n] \notin Nat}
  <2> SUFFICES ASSUME bad # {} PROVE FALSE
    OBVIOUS
  <2>1. PICK n \in bad : \A m \in bad : n <= m
    <3>1. bad \in SUBSET Nat
      OBVIOUS
    <3> HIDE DEF bad
    <3> QED BY <3>1, LeastExists
  <2>2. n # 0
    BY <1>8
  <2>3. n \in 1..Len(sizes) /\ n - 1 \in 0..Len(sizes) /\ n - 1 \notin bad
    BY <2>1, <2>2
  <2>4. SolidityEnds(sizes)[n - 1] \in Nat
    BY <2>3
  <2>5. SolidityEnds(sizes)[n]
            = SolidityStart(SolidityEnds(sizes)[n - 1], sizes[n]) + Occupied(sizes[n])
    BY <1>8, <2>2
  <2>6. SolidityStart(SolidityEnds(sizes)[n - 1], sizes[n]) \in Nat /\ Occupied(sizes[n]) \in Nat
    BY <1>1, <2>3, <2>4, StartType
  <2>7. SolidityEnds(sizes)[n] \in Nat
    BY <2>5, <2>6
  <2> QED BY <2>3, <2>7
<1>10. SolidityEnds(sizes) \in [0..Len(sizes) -> Nat]
  BY <1>7, <1>9
<1>11. SolidityEnds(sizes)[0] = 0
  BY <1>1, <1>8
<1>12. ASSUME NEW n \in 1..Len(sizes)
       PROVE  SolidityEnds(sizes)[n]
                = SolidityStart(SolidityEnds(sizes)[n - 1], sizes[n]) + Occupied(sizes[n])
  <2>1. n \in 0..Len(sizes) /\ n # 0
    OBVIOUS
  <2> QED BY <1>8, <2>1
<1> QED BY <1>10, <1>11, <1>12

\* After any number of variables both layouts are at the same byte.
LEMMA EndsSame ==
    ASSUME NEW sizes \in Seq(SlotSize), NEW n \in 0..Len(sizes)
    PROVE  FirstByte(Ends(sizes)[n]) = SolidityEnds(sizes)[n]
<1> DEFINE differ == {k \in 0..Len(sizes) : FirstByte(Ends(sizes)[k]) # SolidityEnds(sizes)[k]}
<1> SUFFICES ASSUME differ # {} PROVE FALSE
  OBVIOUS
<1>1. PICK k \in differ : \A m \in differ : k <= m
  <2>1. differ \in SUBSET Nat
    OBVIOUS
  <2> HIDE DEF differ
  <2> QED BY <2>1, LeastExists
<1>2. k # 0
  BY EndsUnfold, SolidityEndsUnfold DEF FirstByte, At, SlotBytes
<1>3. k \in 1..Len(sizes) /\ k - 1 \in 0..Len(sizes) /\ k - 1 \notin differ
  BY <1>1, <1>2
<1>4. PICK at \in Place : at = Ends(sizes)[k - 1]
  BY <1>3, EndsUnfold
<1>5. PICK size \in SlotSize : size = sizes[k]
  BY <1>3
<1>6. FirstByte(at) = SolidityEnds(sizes)[k - 1]
  BY <1>3, <1>4
<1>7. Ends(sizes)[k] = Behind(Placed(at, size), size)
  BY <1>3, <1>4, <1>5, EndsUnfold
<1>8. SolidityEnds(sizes)[k] = SolidityStart(FirstByte(at), size) + Occupied(size)
  BY <1>3, <1>5, <1>6, SolidityEndsUnfold
<1>9. FirstByte(Ends(sizes)[k]) = SolidityEnds(sizes)[k]
  BY <1>7, <1>8, StepSame
<1> QED BY <1>9

\* What compute_storage_layout computes is Solidity's layout: for any list of
\* variables, whatever their sizes, each one's slot and offset are the byte it
\* starts at, and a struct of these elements has the size it has in Solidity
\* (compilation_unit.py:247, user_defined_type.py:41).
THEOREM LayoutIsSoliditys ==
    ASSUME NEW sizes \in Seq(SlotSize)
    PROVE  /\ \A n \in DOMAIN sizes :
                FirstByte(PlacesOf(sizes).place[n]) = SolidityPlacesOf(sizes).place[n]
           /\ StructBytes(PlacesOf(sizes).end) = AtSlot(SolidityPlacesOf(sizes).end)
<1>1. ASSUME NEW n \in DOMAIN sizes
      PROVE  FirstByte(PlacesOf(sizes).place[n]) = SolidityPlacesOf(sizes).place[n]
  <2>1. n \in 1..Len(sizes) /\ n - 1 \in 0..Len(sizes)
    OBVIOUS
  <2>2. PICK at \in Place : at = Ends(sizes)[n - 1]
    BY <2>1, EndsUnfold
  <2>3. PICK size \in SlotSize : size = sizes[n]
    BY <2>1
  <2>4. FirstByte(at) = SolidityEnds(sizes)[n - 1]
    BY <2>1, <2>2, EndsSame
  <2>5. PlacesOf(sizes).place[n] = Placed(at, size)
    BY <2>2, <2>3 DEF PlacesOf
  <2>6. SolidityPlacesOf(sizes).place[n] = SolidityStart(FirstByte(at), size)
    BY <2>3, <2>4 DEF SolidityPlacesOf
  <2> QED BY <2>5, <2>6, StepSame
<1>2. StructBytes(PlacesOf(sizes).end) = AtSlot(SolidityPlacesOf(sizes).end)
  <2>1. Len(sizes) \in 0..Len(sizes)
    OBVIOUS
  <2>2. PICK at \in Place : at = Ends(sizes)[Len(sizes)]
    BY <2>1, EndsUnfold
  <2>3. PlacesOf(sizes).end = at
    BY <2>2 DEF PlacesOf
  <2>4. SolidityPlacesOf(sizes).end = FirstByte(at)
    BY <2>1, <2>2, EndsSame DEF SolidityPlacesOf
  <2>5. StructBytes(at) = AtSlot(FirstByte(at))
    <3> DEFINE s == at.slot
               o == at.offset
    <3>1. s \in Nat /\ o \in 0..SlotBytes
      BY DEF Place
    <3>2. SlotBytes * (IF o > 0 THEN s + 1 ELSE s) = AtSlot(SlotBytes * s + o)
      <4> HIDE DEF s, o
      <4> QED BY <3>1 DEF AtSlot, Slots, SlotBytes
    <3> QED BY <3>2 DEF StructBytes, FirstByte
  <2> QED BY <2>3, <2>4, <2>5
<1> QED BY <1>1, <1>2

\* What is behind some variables is not before any of them.
LEMMA EndsGrow ==
    ASSUME NEW sizes \in Seq(SlotSize), NEW m \in 0..Len(sizes), NEW n \in m..Len(sizes)
    PROVE  SolidityEnds(sizes)[m] <= SolidityEnds(sizes)[n]
<1> DEFINE back == {k \in m..Len(sizes) : ~ SolidityEnds(sizes)[m] <= SolidityEnds(sizes)[k]}
<1> SUFFICES ASSUME back # {} PROVE FALSE
  OBVIOUS
<1>1. PICK k \in back : \A i \in back : k <= i
  <2>1. back \in SUBSET Nat
    OBVIOUS
  <2> HIDE DEF back
  <2> QED BY <2>1, LeastExists
<1>2. \A i \in 0..Len(sizes) : SolidityEnds(sizes)[i] \in Nat
  BY SolidityEndsUnfold
<1>3. k # m
  <2>1. SolidityEnds(sizes)[m] <= SolidityEnds(sizes)[m]
    BY <1>2
  <2> QED BY <2>1
<1>4. k \in 1..Len(sizes) /\ k - 1 \in m..Len(sizes) /\ k - 1 \in 0..Len(sizes) /\ k - 1 \notin back
  BY <1>1, <1>3
<1>5. PICK end \in Nat : end = SolidityEnds(sizes)[k - 1]
  BY <1>2, <1>4
<1>6. PICK size \in SlotSize : size = sizes[k]
  BY <1>4
<1>7. SolidityEnds(sizes)[k] = SolidityStart(end, size) + Occupied(size)
  BY <1>4, <1>5, <1>6, SolidityEndsUnfold
<1>8. end <= SolidityStart(end, size) + Occupied(size)
  <2>1. SolidityStart(end, size) \in Nat /\ end <= SolidityStart(end, size) /\ Occupied(size) \in Nat
    BY StartType
  <2> QED BY <2>1
<1>9. SolidityEnds(sizes)[m] <= end
  BY <1>4, <1>5
<1>10. SolidityEnds(sizes)[m] <= SolidityEnds(sizes)[k]
  <2>1. SolidityEnds(sizes)[m] \in Nat /\ SolidityEnds(sizes)[k] \in Nat
    BY <1>2, <1>4
  <2> QED BY <2>1, <1>7, <1>8, <1>9
<1> QED BY <1>10

\* No two variables of a contract share a byte of its storage, and none crosses
\* the end of a slot unless it starts one (compilation_unit.py:259).
THEOREM PlacesApart ==
    ASSUME NEW sizes \in Seq(SlotSize)
    PROVE  /\ \A m, n \in DOMAIN sizes : m < n =>
                FirstByte(PlacesOf(sizes).place[m]) + Occupied(sizes[m])
                    <= FirstByte(PlacesOf(sizes).place[n])
           /\ \A n \in DOMAIN sizes :
                IF sizes[n].newSlot THEN PlacesOf(sizes).place[n].offset = 0
                ELSE PlacesOf(sizes).place[n].offset + sizes[n].bytes <= SlotBytes
<1>1. ASSUME NEW m \in DOMAIN sizes, NEW n \in DOMAIN sizes, m < n
      PROVE  FirstByte(PlacesOf(sizes).place[m]) + Occupied(sizes[m])
                <= FirstByte(PlacesOf(sizes).place[n])
  <2>1. /\ m \in 1..Len(sizes) /\ n \in 1..Len(sizes)
        /\ m \in 0..Len(sizes) /\ n - 1 \in m..Len(sizes) /\ n - 1 \in 0..Len(sizes)
    BY <1>1
  <2>2. FirstByte(PlacesOf(sizes).place[m]) + Occupied(sizes[m]) = SolidityEnds(sizes)[m]
    <3>1. FirstByte(PlacesOf(sizes).place[m]) = SolidityPlacesOf(sizes).place[m]
      BY LayoutIsSoliditys
    <3>2. SolidityPlacesOf(sizes).place[m] = SolidityStart(SolidityEnds(sizes)[m - 1], sizes[m])
      BY DEF SolidityPlacesOf
    <3> QED BY <2>1, <3>1, <3>2, SolidityEndsUnfold
  <2>3. PICK end \in Nat : end = SolidityEnds(sizes)[n - 1]
    BY <2>1, SolidityEndsUnfold
  <2>4. FirstByte(PlacesOf(sizes).place[n]) = SolidityStart(end, sizes[n])
    <3>1. FirstByte(PlacesOf(sizes).place[n]) = SolidityPlacesOf(sizes).place[n]
      BY LayoutIsSoliditys
    <3> QED BY <2>3, <3>1 DEF SolidityPlacesOf
  <2>5. SolidityEnds(sizes)[m] <= end
    BY <2>1, <2>3, EndsGrow
  <2>6. SolidityStart(end, sizes[n]) \in Nat /\ end <= SolidityStart(end, sizes[n])
    <3>1. sizes[n] \in SlotSize
      BY SeqElement
    <3> QED BY <3>1, StartType
  <2>7. SolidityEnds(sizes)[m] \in Nat
    BY <2>1, SolidityEndsUnfold
  <2> QED BY <2>2, <2>3, <2>4, <2>5, <2>6, <2>7
<1>2. ASSUME NEW n \in DOMAIN sizes
      PROVE  IF sizes[n].newSlot THEN PlacesOf(sizes).place[n].offset = 0
             ELSE PlacesOf(sizes).place[n].offset + sizes[n].bytes <= SlotBytes
  <2>1. n - 1 \in 0..Len(sizes)
    OBVIOUS
  <2>2. PICK at \in Place : at = Ends(sizes)[n - 1]
    BY <2>1, EndsUnfold
  <2>3. PICK size \in SlotSize : size = sizes[n]
    OBVIOUS
  <2>4. PlacesOf(sizes).place[n] = Placed(at, size)
    BY <2>2, <2>3 DEF PlacesOf
  <2>5. /\ size.bytes \in Nat /\ size.newSlot \in BOOLEAN
        /\ size.newSlot \/ size.bytes <= SlotBytes
    BY DEF SlotSize
  <2>6. IF size.newSlot THEN Placed(at, size).offset = 0
        ELSE Placed(at, size).offset + size.bytes <= SlotBytes
    BY <2>5 DEF Placed, Fits, At, Place, SlotBytes
  <2> QED BY <2>3, <2>4, <2>6
<1> QED BY <1>1, <1>2

\* The places of the first variables do not depend on those behind them.
LEMMA FirstPlaces ==
    ASSUME NEW sizes1 \in Seq(SlotSize), NEW sizes2 \in Seq(SlotSize),
           Len(sizes1) <= Len(sizes2), \A n \in DOMAIN sizes1 : sizes1[n] = sizes2[n],
           NEW n \in 0..Len(sizes1)
    PROVE  Ends(sizes1)[n] = Ends(sizes2)[n]
<1> DEFINE differ == {k \in 0..Len(sizes1) : Ends(sizes1)[k] # Ends(sizes2)[k]}
<1> SUFFICES ASSUME differ # {} PROVE FALSE
  OBVIOUS
<1>1. PICK k \in differ : \A m \in differ : k <= m
  <2>1. differ \in SUBSET Nat
    OBVIOUS
  <2> HIDE DEF differ
  <2> QED BY <2>1, LeastExists
<1>2. k # 0
  BY EndsUnfold
<1>3. k \in 1..Len(sizes1) /\ k \in 1..Len(sizes2) /\ k - 1 \in 0..Len(sizes1) /\ k - 1 \notin differ
  BY <1>1, <1>2
<1>4. Ends(sizes1)[k - 1] = Ends(sizes2)[k - 1] /\ sizes1[k] = sizes2[k]
  BY <1>3
<1>5. /\ Ends(sizes1)[k] = Behind(Placed(Ends(sizes1)[k - 1], sizes1[k]), sizes1[k])
      /\ Ends(sizes2)[k] = Behind(Placed(Ends(sizes2)[k - 1], sizes2[k]), sizes2[k])
  BY <1>3, EndsUnfold
<1>6. Ends(sizes1)[k] = Ends(sizes2)[k]
  BY <1>4, <1>5
<1> QED BY <1>6

----------------------------------------------------------------------------
(* The checks on the order of variables *)

\* When MissingVariable and DifferentVariables report nothing of two versions of
\* a contract, or of a proxy and its logic contract, every variable of the first
\* is in the second, by the same name, and at the same place, if types of one
\* name have one size (variables_order.py:50, 111).
THEOREM SilenceKeepsPlaces ==
    ASSUME NEW Name, NEW Type, NEW sizeOf \in [Type -> SlotSize],
           \A s, t \in Type : s.name = t.name => sizeOf[s] = sizeOf[t],
           NEW order1 \in Seq([name : Name, type : Type]),
           NEW order2 \in Seq([name : Name, type : Type]),
           MissingFrom(order1, order2) = {}, DifferentBetween(order1, order2) = {},
           NEW sizes1, sizes1 = [n \in DOMAIN order1 |-> sizeOf[order1[n].type]],
           NEW sizes2, sizes2 = [n \in DOMAIN order2 |-> sizeOf[order2[n].type]],
           NEW n \in DOMAIN order1
    PROVE  /\ n \in DOMAIN order2 /\ order1[n].name = order2[n].name
           /\ PlacesOf(sizes1).place[n] = PlacesOf(sizes2).place[n]
<1>1. DOMAIN order1 = 1..Len(order1) /\ DOMAIN order2 = 1..Len(order2)
      /\ Len(order1) \in Nat /\ Len(order2) \in Nat
  OBVIOUS
<1>2. ASSUME NEW k \in DOMAIN order1
      PROVE  k <= Len(order2)
  <2>1. SUFFICES ASSUME Len(order2) < k PROVE FALSE
    BY <1>1
  <2>2. order1[k] \in MissingFrom(order1, order2)
    BY <2>1 DEF MissingFrom
  <2> QED BY <2>2
<1>3. DOMAIN order1 \subseteq DOMAIN order2 /\ Len(order1) <= Len(order2)
  <2>1. DOMAIN order1 \subseteq DOMAIN order2
    BY <1>1, <1>2
  <2>2. Len(order1) = 0 \/ Len(order1) \in DOMAIN order1
    BY <1>1
  <2> QED BY <1>1, <1>2, <2>1, <2>2
<1>4. \A k \in DOMAIN order1 :
            order1[k].name = order2[k].name /\ order1[k].type.name = order2[k].type.name
  BY <1>3 DEF DifferentBetween, SameVariable
<1>5. sizes1 \in Seq(SlotSize) /\ Len(sizes1) = Len(order1)
      /\ sizes2 \in Seq(SlotSize) /\ Len(sizes2) = Len(order2)
  <2>1. /\ \A k \in DOMAIN order1 : sizeOf[order1[k].type] \in SlotSize
        /\ \A k \in DOMAIN order2 : sizeOf[order2[k].type] \in SlotSize
    <3>1. /\ \A k \in 1..Len(order1) : order1[k] \in [name : Name, type : Type]
          /\ \A k \in 1..Len(order2) : order2[k] \in [name : Name, type : Type]
      BY <1>1, SeqElement, Zenon
    <3>2. \A v \in [name : Name, type : Type] : sizeOf[v.type] \in SlotSize
      OBVIOUS
    <3> QED BY <1>1, <3>1, <3>2
  <2> QED BY <1>1, <2>1
<1>6. \A k \in DOMAIN sizes1 : sizes1[k] = sizes2[k]
  <2>1. ASSUME NEW k \in DOMAIN order1
        PROVE  sizeOf[order1[k].type] = sizeOf[order2[k].type]
    <3>1. order1[k].type \in Type /\ order2[k].type \in Type
      <4>1. order1[k] \in [name : Name, type : Type] /\ order2[k] \in [name : Name, type : Type]
        BY <1>1, <1>3, SeqElement
      <4> QED BY <4>1
    <3> QED BY <1>4, <3>1
  <2> QED BY <1>3, <2>1
<1>7. n - 1 \in 0..Len(sizes1) /\ n \in DOMAIN sizes1 /\ n \in DOMAIN sizes2
  BY <1>1, <1>3, <1>5
<1>8. Ends(sizes1)[n - 1] = Ends(sizes2)[n - 1] /\ sizes1[n] = sizes2[n]
  BY <1>3, <1>5, <1>6, <1>7, FirstPlaces
<1>9. PlacesOf(sizes1).place[n] = PlacesOf(sizes2).place[n]
  BY <1>7, <1>8 DEF PlacesOf
<1> QED BY <1>3, <1>4, <1>9

\* What the proxy has behind the contract's variables is all reported if it is
\* not more than the contract has; if it is less, the last one they share is
\* reported with it; and if it is more, its first one is not
\* (variables_order.py:253).
THEOREM ExtraAreReported ==
    ASSUME NEW V, NEW order1 \in Seq(V), NEW order2 \in Seq(V), Len(order1) < Len(order2),
           \A n, k \in 1..Len(order2) : order2[n] = order2[k] => n = k
    PROVE  LET reported == ExtraIn(order1, order2)
               extra == Len(order2) - Len(order1)
           IN  /\ extra <= Len(order1) =>
                    \A n \in (Len(order1) + 1)..Len(order2) : order2[n] \in reported
               /\ extra < Len(order1) => order2[Len(order1)] \in reported
               /\ extra > Len(order1) => order2[Len(order1) + 1] \notin reported
<1> DEFINE first == FirstExtra(Len(order1), Len(order2))
<1>1. /\ first = Len(order2) - Len(order1) /\ Len(order1) \in Nat /\ Len(order2) \in Nat
      /\ ExtraIn(order1, order2) = {order2[n + 1] : n \in first..(Len(order2) - 1)}
  BY DEF FirstExtra, ExtraIn
<1> HIDE DEF first
<1>2. ASSUME NEW n \in (first + 1)..Len(order2)
      PROVE  order2[n] \in ExtraIn(order1, order2)
  <2>1. n - 1 \in first..(Len(order2) - 1) /\ (n - 1) + 1 = n
    BY <1>1
  <2> QED BY <1>1, <2>1
<1>3. ASSUME NEW n \in 1..first, order2[n] \in ExtraIn(order1, order2)
      PROVE  FALSE
  <2>1. PICK k \in first..(Len(order2) - 1) : order2[n] = order2[k + 1]
    BY <1>1, <1>3
  <2>2. n \in 1..Len(order2) /\ k + 1 \in 1..Len(order2) /\ n # k + 1
    BY <1>1, <2>1
  <2> QED BY <2>1, <2>2
<1>4. Len(order2) - Len(order1) > Len(order1) => Len(order1) + 1 \in 1..first
  BY <1>1
<1>5. Len(order2) - Len(order1) < Len(order1) => Len(order1) \in (first + 1)..Len(order2)
  BY <1>1
<1>6. Len(order2) - Len(order1) <= Len(order1) =>
        \A n \in (Len(order1) + 1)..Len(order2) : n \in (first + 1)..Len(order2)
  BY <1>1
<1> QED BY <1>2, <1>3, <1>4, <1>5, <1>6

----------------------------------------------------------------------------
(* Dominators *)


USE FlowGraphAssumption DEF Nodes

\* A node is on every path to itself.
LEMMA OnPathToItself ==
    ASSUME NEW n \in Nodes
    PROVE  OnEveryPath(n, n)
<1>1. Encloses(Nodes \ {n}, n)
  BY DEF Encloses
<1> QED
  BY <1>1 DEF OnEveryPath

\* Only the entry is on the paths to the entry.
LEMMA OnPathToEntry ==
    ASSUME NEW d \in Nodes, OnEveryPath(d, 1)
    PROVE  d = 1
BY DEF OnEveryPath, Encloses

\* The entry is on every path.
LEMMA EntryOnPath ==
    ASSUME NEW n \in Nodes, Rooted
    PROVE  OnEveryPath(1, n)
<1>1. Encloses({}, 1)
  BY DEF Encloses
<1> QED
  BY <1>1 DEF OnEveryPath

\* What is on every path to a node on every path to n is on every path to n.
LEMMA OnPathTransitive ==
    ASSUME NEW n \in Nodes, NEW d \in Nodes, NEW e \in Nodes,
           OnEveryPath(d, e), OnEveryPath(e, n)
    PROVE  OnEveryPath(d, n)
<1>1. CASE d = e
  BY <1>1
<1>2. CASE d # e
  <2>1. PICK S \in SUBSET Nodes : Encloses(S, d) /\ e \notin S
    BY DEF OnEveryPath
  <2>2. PICK T \in SUBSET Nodes : Encloses(T, e) /\ n \notin T
    BY DEF OnEveryPath
  <2>3. Encloses(S \cap T, d)
    BY <1>2, <2>1, <2>2 DEF Encloses
  <2> QED
    BY <2>2, <2>3 DEF OnEveryPath
<1> QED
  BY <1>1, <1>2

\* Of two nodes only one can be on every path to the other.
LEMMA OnPathAntisymmetric ==
    ASSUME NEW d \in Nodes, NEW e \in Nodes, Rooted,
           OnEveryPath(d, e), OnEveryPath(e, d)
    PROVE  d = e
<1> SUFFICES ASSUME d # e PROVE FALSE
  OBVIOUS
<1>1. PICK S \in SUBSET Nodes : Encloses(S, d) /\ e \notin S
  BY DEF OnEveryPath
<1>2. PICK T \in SUBSET Nodes : Encloses(T, e) /\ d \notin T
  BY DEF OnEveryPath
<1>3. Encloses(S \cap T, 0)
  BY <1>1, <1>2 DEF Encloses
<1>4. S \cap T = Nodes
  BY <1>3 DEF Rooted
<1> QED
  BY <1>1, <1>4

\* Of two nodes that are on every path to n one is on every path to the other.
LEMMA OnPathTotal ==
    ASSUME NEW n \in Nodes, NEW d \in Nodes, NEW e \in Nodes, Rooted,
           OnEveryPath(d, n), OnEveryPath(e, n)
    PROVE  OnEveryPath(d, e) \/ OnEveryPath(e, d)
<1> SUFFICES ASSUME ~ OnEveryPath(d, e), ~ OnEveryPath(e, d) PROVE FALSE
  OBVIOUS
<1>1. PICK S \in SUBSET Nodes : Encloses(S, d) /\ n \notin S
  BY DEF OnEveryPath
<1>2. PICK T \in SUBSET Nodes : Encloses(T, e) /\ n \notin T
  BY DEF OnEveryPath
<1>3. e \in S /\ d \in T
  BY <1>1, <1>2 DEF OnEveryPath
<1>4. Encloses(S \cup T, 0)
  BY <1>1, <1>2, <1>3 DEF Encloses
<1> QED
  BY <1>1, <1>2, <1>4 DEF Rooted

\* What is on every path to a node is on every path to its fathers, or the node.
LEMMA OnPathToFathers ==
    ASSUME NEW n \in Nodes, NEW d \in Nodes, NEW f \in FathersOf(n), f \in Nodes,
           OnEveryPath(d, n), d # n
    PROVE  OnEveryPath(d, f)
BY DEF OnEveryPath, Encloses

\* Every node but the entry has a father.
LEMMA HasFather ==
    ASSUME NEW n \in Nodes, Rooted, n # 1
    PROVE  \E f \in FathersOf(n) : f # n
<1> SUFFICES ASSUME \A f \in FathersOf(n) : f = n PROVE FALSE
  OBVIOUS
<1>1. Encloses(Nodes \ {n}, 0)
  BY DEF Encloses
<1> QED
  BY <1>1 DEF Rooted

\* Fathers are nodes.
LEMMA FathersAreNodes ==
    ASSUME graph \in FlowGraphs, NEW n \in Nodes
    PROVE  /\ FathersOf(n) \subseteq Nodes
           /\ graph.fathers[n] \in Seq(Nodes)
BY DEF FathersOf

----------------------------------------------------------------------------
(* From the sets that do not change any more to the paths *)

\* No node's set of dominators would change.
Stable == \A n \in Nodes : dominators[n] = NewSet(n)

\* No set has lost a dominator.
Sound == \A n \in Nodes : DominatorsByPaths(n) \subseteq dominators[n]

\* A visit takes no dominator away.
LEMMA VisitSound ==
    ASSUME graph \in FlowGraphs, Rooted, Sound, NEW n \in Nodes
    PROVE  DominatorsByPaths(n) \subseteq NewSet(n)
<1> SUFFICES ASSUME NEW d \in Nodes, OnEveryPath(d, n), d # n
             PROVE  d \in IntersectionPredecessor(n)
  BY DEF DominatorsByPaths, NewSet
<1>1. n # 1
  BY OnPathToEntry
<1>2. FathersOf(n) # {}
  BY <1>1, HasFather
<1>3. \A f \in FathersOf(n) : d \in dominators[f]
  BY OnPathToFathers, FathersAreNodes DEF Sound, DominatorsByPaths
<1> QED
  BY <1>2, <1>3 DEF IntersectionPredecessor

\* Where d is no dominator, it need not be passed: the nodes it does not
\* dominate enclose the paths without d.
LEMMA StableIsRight ==
    ASSUME graph \in FlowGraphs, Rooted, Sound, Stable, NEW n \in Nodes,
           dominators \in [Nodes -> SUBSET Nodes]
    PROVE  dominators[n] = DominatorsByPaths(n)
<1> SUFFICES ASSUME NEW d \in dominators[n] PROVE OnEveryPath(d, n)
  BY DEF Sound, DominatorsByPaths
<1>1. CASE d = n
  BY <1>1, OnPathToItself
<1>2. CASE d # n
  <2> DEFINE S == {m \in Nodes : d \notin dominators[m]}
  <2>1. 1 \in S \/ d = 1
    <3>1. 1 \in Nodes
      OBVIOUS
    <3>2. dominators[1] = {1}
      BY <3>1 DEF Stable, NewSet, IntersectionPredecessor, Rooted
    <3> QED
      BY <3>1, <3>2
  <2>2. ASSUME NEW m \in Nodes \ {d}, FathersOf(m) \cap S # {}
        PROVE  m \in S
    <3>1. PICK f \in FathersOf(m) : f \in Nodes /\ d \notin dominators[f]
      BY <2>2
    <3>2. d \notin IntersectionPredecessor(m)
      BY <3>1 DEF IntersectionPredecessor
    <3>3. dominators[m] = IntersectionPredecessor(m) \cup {m}
      BY DEF Stable, NewSet
    <3> QED
      BY <3>2, <3>3
  <2>3. Encloses(S, d)
    BY <2>1, <2>2 DEF Encloses
  <2>4. n \notin S /\ S \in SUBSET Nodes /\ d \in Nodes
    OBVIOUS
  <2> HIDE DEF S
  <2> QED
    BY <2>3, <2>4 DEF OnEveryPath
<1> QED
  BY <1>1, <1>2

\* What the rest of the computation relies on: dominance is an order in which
\* the dominators of a node are a chain from the entry to the node, and they
\* dominate its fathers.
Chains ==
    /\ \A n \in Nodes : n \in dominators[n] /\ 1 \in dominators[n]
    /\ \A n, d \in Nodes : d \in dominators[n] => dominators[d] \subseteq dominators[n]
    /\ \A n, d \in Nodes : d \in dominators[n] /\ n \in dominators[d] => n = d
    /\ \A n, d, e \in Nodes :
            d \in dominators[n] /\ e \in dominators[n] => d \in dominators[e] \/ e \in dominators[d]
    /\ dominators[1] = {1}
    /\ \A n \in Nodes : \A f \in FathersOf(n) : dominators[n] \ {n} \subseteq dominators[f]

LEMMA StableChains ==
    ASSUME graph \in FlowGraphs, Rooted, Sound, Stable,
           dominators \in [Nodes -> SUBSET Nodes]
    PROVE  Chains
<1>1. \A n \in Nodes : dominators[n] = {d \in Nodes : OnEveryPath(d, n)}
  BY StableIsRight DEF DominatorsByPaths
<1>2. \A n, d \in Nodes : d \in dominators[n] <=> OnEveryPath(d, n)
  BY <1>1
<1>3. 1 \in Nodes
  OBVIOUS
<1>4. \A n \in Nodes : n \in dominators[n] /\ 1 \in dominators[n]
  BY <1>2, <1>3, OnPathToItself, EntryOnPath
<1>5. \A n, d \in Nodes : d \in dominators[n] => dominators[d] \subseteq dominators[n]
  BY <1>2, OnPathTransitive
<1>6. \A n, d \in Nodes : d \in dominators[n] /\ n \in dominators[d] => n = d
  BY <1>2, OnPathAntisymmetric
<1>7. \A n, d, e \in Nodes :
        d \in dominators[n] /\ e \in dominators[n] => d \in dominators[e] \/ e \in dominators[d]
  BY <1>2, OnPathTotal
<1>8. dominators[1] = {1}
  BY <1>2, <1>3, <1>4, OnPathToEntry
<1>9. \A n \in Nodes : \A f \in FathersOf(n) : dominators[n] \ {n} \subseteq dominators[f]
  BY DEF Stable, NewSet, IntersectionPredecessor
<1> QED
  BY <1>4, <1>5, <1>6, <1>7, <1>8, <1>9 DEF Chains

----------------------------------------------------------------------------
(* The immediate dominator *)

\* The entry has none, and any other node's is the last of its dominators.
Closest(n) ==
    /\ n = 1 => immediate[n] = {}
    /\ n # 1 => \E m \in dominators[n] \ {n} :
                    immediate[n] = {m} /\ dominators[n] = dominators[m] \cup {n}

\* Among the candidates of a node there is one that all others dominate.
LEMMA NearestExists ==
    ASSUME graph \in FlowGraphs, dominators \in [Nodes -> SUBSET Nodes], Chains,
           NEW n \in Nodes, n # 1
    PROVE  \E m \in dominators[n] \ {n} : dominators[n] = dominators[m] \cup {n}
<1> DEFINE candidates == dominators[n] \ {n}
           sizes == {Len(graph.type) - Cardinality(dominators[m]) : m \in candidates}
<1>1. Len(graph.type) \in Nat
  OBVIOUS
<1>2. \A m \in Nodes : /\ IsFiniteSet(dominators[m])
                       /\ Cardinality(dominators[m]) \in Nat
                       /\ Cardinality(dominators[m]) <= Len(graph.type)
  <2>1. IsFiniteSet(1..Len(graph.type)) /\ Cardinality(1..Len(graph.type)) = Len(graph.type)
    BY <1>1, FS_Interval
  <2> TAKE m \in Nodes
  <2>2. dominators[m] \subseteq 1..Len(graph.type)
    OBVIOUS
  <2> QED
    BY <2>1, <2>2, FS_Subset, FS_CardinalityType
<1>3. candidates \subseteq Nodes /\ 1 \in candidates
  BY DEF Chains
<1>4. sizes \subseteq Nat /\ sizes # {}
  BY <1>1, <1>2, <1>3
<1>5. PICK least \in sizes : \A s \in sizes : <<s, least>> \notin OpToRel(<, Nat)
  <2> HIDE DEF sizes
  <2> QED
    BY <1>4, NatLessThanWellFounded, WFMin
<1>6. PICK m \in candidates : least = Len(graph.type) - Cardinality(dominators[m])
  BY <1>5
<1>7. ASSUME NEW e \in candidates PROVE e \in dominators[m]
  <2> SUFFICES ASSUME e \notin dominators[m] PROVE FALSE
    OBVIOUS
  <2>1. dominators[m] \subseteq dominators[e] /\ e \in dominators[e] /\ e \in Nodes /\ m \in Nodes
    BY <1>3 DEF Chains
  <2>2. Cardinality(dominators[m]) < Cardinality(dominators[e])
    <3>1. Cardinality(dominators[m]) <= Cardinality(dominators[e])
      BY <1>2, <2>1, FS_Subset
    <3>2. Cardinality(dominators[m]) # Cardinality(dominators[e])
      BY <1>2, <2>1, FS_Subset
    <3> QED
      BY <1>2, <2>1, <3>1, <3>2
  <2>3. Len(graph.type) - Cardinality(dominators[e]) \in sizes
    OBVIOUS
  <2>4. <<Len(graph.type) - Cardinality(dominators[e]), least>> \in OpToRel(<, Nat)
    <3> DEFINE size == Len(graph.type) - Cardinality(dominators[e])
    <3>1. size \in Nat /\ least \in Nat /\ size < least
      <4>1. /\ Cardinality(dominators[e]) \in Nat /\ Cardinality(dominators[e]) <= Len(graph.type)
            /\ Cardinality(dominators[m]) \in Nat
        BY <1>2, <2>1
      <4>2. least \in Nat
        BY <1>4, <1>5
      <4> QED
        BY <1>1, <1>6, <2>2, <4>1, <4>2
    <3> HIDE DEF size
    <3>2. <<size, least>> \in OpToRel(<, Nat)
      BY <3>1 DEF OpToRel
    <3> QED
      BY <3>2 DEF size
  <2> QED
    BY <1>5, <2>3, <2>4
<1>8. dominators[m] \subseteq dominators[n]
  BY <1>3 DEF Chains
<1>9. n \in dominators[n] /\ dominators[n] = dominators[m] \cup {n}
  BY <1>3, <1>7, <1>8 DEF Chains
<1> QED
  BY <1>9

\* The inner loop has looked at the candidates that are not pending.
Gathered ==
    /\ pending \subseteq Candidates
    /\ \A e \in Nodes :
            e \in above <=> \E d \in Candidates \ pending : e \in dominators[d] \ {d}

\* At its end the assertion holds, and what is left is the immediate dominator.
LEMMA NearestIsClosest ==
    ASSUME graph \in FlowGraphs, dominators \in [Nodes -> SUBSET Nodes], Chains,
           node \in Nodes, above \subseteq Nodes, Gathered, Single \/ pending = {}
    PROVE  /\ Cardinality(Nearest) <= 1 /\ Nearest \subseteq Nodes
           /\ node = 1 => Nearest = {}
           /\ node # 1 => \E m \in Candidates :
                    Nearest = {m} /\ dominators[node] = dominators[m] \cup {node}
<1>1. Cardinality({}) = 0 /\ \A m \in Nodes : Cardinality({m}) = 1
  BY FS_EmptySet, FS_Singleton
<1>2. CASE node = 1
  <2>1. Candidates = {}
    BY <1>2 DEF Candidates, Chains
  <2>2. above = {}
    BY <2>1 DEF Gathered
  <2>3. Nearest = {}
    BY <2>1, <2>2, <1>1 DEF Nearest
  <2> QED
    BY <1>1, <1>2, <2>3
<1>3. CASE node # 1
  <2>1. PICK m \in Candidates : dominators[node] = dominators[m] \cup {node}
    BY <1>3, NearestExists DEF Candidates
  <2>2. Candidates \subseteq Nodes /\ m \in Nodes
    BY DEF Candidates
  <2>3. CASE Single
    <3>1. PICK c : Candidates = {c}
      <4>1. IsFiniteSet(Candidates)
        <5>1. IsFiniteSet(1..Len(graph.type))
          BY FS_Interval
        <5> QED
          BY <2>2, <5>1, FS_Subset
      <4> QED
        BY <2>3, <4>1, FS_Singleton DEF Single
    <3>2. Nearest = {m}
      BY <2>1, <2>3, <3>1 DEF Nearest
    <3>9. Cardinality(Nearest) <= 1 /\ Nearest \subseteq Nodes
      <4>1. Cardinality({m}) = 1
        BY <1>1, <2>2
      <4> QED
        BY <2>2, <3>2, <4>1
    <3> QED
      BY <1>3, <2>1, <3>2, <3>9
  <2>4. CASE ~ Single
    <3>1. pending = {}
      BY <2>4
    <3>2. above \subseteq Candidates
      <4> SUFFICES ASSUME NEW e \in above PROVE e \in Candidates
        OBVIOUS
      <4>1. PICK d \in Candidates : e \in dominators[d] \ {d}
        BY DEF Gathered
      <4>2. d \in Nodes /\ e \in Nodes /\ d \in dominators[node] /\ d # node
        BY <2>2 DEF Candidates
      <4>3. e \in dominators[node]
        BY <4>1, <4>2 DEF Chains
      <4>4. e # node
        BY <4>1, <4>2 DEF Chains
      <4> QED
        BY <4>3, <4>4 DEF Candidates
    <3>3. m \notin above
      <4> SUFFICES ASSUME NEW d \in Candidates, m \in dominators[d] \ {d} PROVE FALSE
        BY <2>2 DEF Gathered
      <4>1. d \in dominators[m] /\ d \in Nodes
        BY <2>1, <2>2 DEF Candidates
      <4> QED
        BY <2>2, <4>1 DEF Chains
    <3>4. ASSUME NEW e \in Candidates, e # m PROVE e \in above
      <4>1. e \in dominators[m] \ {m}
        BY <2>1, <3>4 DEF Candidates
      <4> QED
        BY <2>1, <2>2, <3>1, <4>1 DEF Gathered
    <3>5. Nearest = {m}
      BY <2>1, <2>4, <3>2, <3>3, <3>4 DEF Nearest
    <3>9. Cardinality(Nearest) <= 1 /\ Nearest \subseteq Nodes
      <4>1. Cardinality({m}) = 1
        BY <1>1, <2>2
      <4> QED
        BY <2>2, <3>5, <4>1
    <3> QED
      BY <1>3, <2>1, <3>5, <3>9
  <2> QED
    BY <2>3, <2>4
<1> QED
  BY <1>2, <1>3

----------------------------------------------------------------------------
(* The frontier *)

\* What going up from the k-th father puts in the frontiers: the nodes that
\* dominate it but not n, and the if of an if without else.
Passed(r, n, k) ==
    LET f == graph.fathers[n][k]
    IN  r \in dominators[f] \ (dominators[n] \ {n}) \/ (r = f /\ Corner(r, n))

\* A node with a single father is in no frontier: what dominates the father
\* dominates the node.
LEMMA FewFathers ==
    ASSUME graph \in FlowGraphs, dominators \in [Nodes -> SUBSET Nodes], Rooted, Chains, Stable,
           NEW n \in Nodes, Len(graph.fathers[n]) < 2, NEW r \in Nodes
    PROVE  ~ InFrontier(r, n)
<1> SUFFICES ASSUME Borders(r, n) PROVE FALSE
  BY FathersAreNodes DEF InFrontier
<1>1. PICK f \in FathersOf(n) : r \in dominators[f] \ (dominators[n] \ {n})
  BY DEF Borders
<1>2. f \in Nodes /\ n # 1
  BY FathersAreNodes DEF Rooted
<1>3. \A e \in FathersOf(n) : e = f
  <2>1. graph.fathers[n] \in Seq(Nodes) /\ Len(graph.fathers[n]) < 2
    BY FathersAreNodes
  <2> QED
    BY <2>1 DEF FathersOf
<1>4. f # n
  BY <1>2, <1>3, HasFather
<1>5. dominators[n] = dominators[f] \cup {n}
  BY <1>2, <1>3 DEF Stable, NewSet, IntersectionPredecessor
<1>6. r = n
  BY <1>1, <1>5
<1>7. f \in dominators[n] /\ n \in dominators[f]
  BY <1>1, <1>2, <1>5, <1>6 DEF Chains
<1> QED
  BY <1>2, <1>4, <1>7 DEF Chains

\* The frontiers that have a node with several fathers.
LEMMA ManyFathers ==
    ASSUME graph \in FlowGraphs, NEW n \in Nodes, Len(graph.fathers[n]) >= 2, NEW r \in Nodes
    PROVE  InFrontier(r, n) <=> \E k \in 1..Len(graph.fathers[n]) : Passed(r, n, k)
<1>1. DOMAIN graph.fathers[n] = 1..Len(graph.fathers[n])
  BY FathersAreNodes
<1> QED
  BY <1>1 DEF InFrontier, Borders, Passed, FathersOf

\* Going up from r, a node above the immediate dominator of n.
LEMMA ClimbStep ==
    ASSUME graph \in FlowGraphs, dominators \in [Nodes -> SUBSET Nodes], Chains,
           \A n \in Nodes : Closest(n),
           NEW n \in Nodes, n # 1, NEW r \in Nodes,
           immediate[n] \subseteq dominators[r], {r} # immediate[n]
    PROVE  \E u \in Nodes : /\ immediate[r] = {u}
                            /\ dominators[r] = dominators[u] \cup {r} /\ r \notin dominators[u]
                            /\ immediate[n] \subseteq dominators[u]
<1>1. PICK i \in dominators[n] : immediate[n] = {i}
  BY DEF Closest
<1>2. r # 1
  BY <1>1 DEF Chains
<1>3. PICK u \in dominators[r] \ {r} : immediate[r] = {u} /\ dominators[r] = dominators[u] \cup {r}
  BY <1>2 DEF Closest
<1>4. u \in Nodes
  BY <1>3
<1>5. r \notin dominators[u]
  BY <1>3, <1>4 DEF Chains
<1>6. immediate[n] \subseteq dominators[u]
  BY <1>1, <1>3
<1> QED
  BY <1>3, <1>4, <1>5, <1>6

----------------------------------------------------------------------------
(* The inductive invariant *)

Phases == {"idle", "dominators", "immediate", "frontier", "climb", "done", "raised"}

DomTypeOK ==
    /\ phase \in Phases
    /\ phase = "idle" => pending = {} /\ above = {} /\ father = 1 /\ runner = {}
    /\ phase = "climb" => node \in Nodes
    /\ phase # "idle" =>
        /\ graph \in FlowGraphs
        /\ dominators \in [Nodes -> SUBSET Nodes]
        /\ immediate \in [Nodes -> SUBSET Nodes]
        /\ frontier \in [Nodes -> SUBSET Nodes]
        /\ node \in 1..(Len(graph.type) + 1) /\ changed \in BOOLEAN
        /\ pending \subseteq Nodes /\ above \subseteq Nodes
        /\ father \in Nat \ {0} /\ runner \subseteq Nodes

\* The father from which the frontier is being looked for.
Origin == graph.fathers[node][father]

\* The nodes passed on the way to the runner.
PassedNow(r) ==
    (\E u \in runner : r \in dominators[Origin] \ dominators[u]) \/ (r = Origin /\ Corner(r, node))

\* What the frontiers have: all earlier nodes that belong there, and the node
\* as far as its fathers have been looked at.
FrontierSoFar ==
    \A r, n \in Nodes :
        n \in frontier[r] <=>
            \/ n < node /\ InFrontier(r, n)
            \/ /\ n = node
               /\ \/ \E k \in 1..(father - 1) :
                        k <= Len(graph.fathers[n]) /\ Len(graph.fathers[n]) >= 2 /\ Passed(r, n, k)
                  \/ phase = "climb" /\ PassedNow(r)

\* The runner is on the chain from the father to the node's immediate dominator.
OnTheWay ==
    /\ node \in Nodes
    /\ Len(graph.fathers[node]) >= 2 /\ father <= Len(graph.fathers[node])
    /\ \E u \in Nodes : runner = {u} /\ u \in dominators[Origin] /\ immediate[node] \subseteq dominators[u]

\* What each loop has done so far.
LoopsRight ==
    /\ phase # "raised"
    /\ Sound
    /\ phase = "dominators" /\ ~ changed => \A n \in Nodes : n < node => dominators[n] = NewSet(n)
    /\ phase # "dominators" => Stable
    /\ phase = "immediate" =>
        /\ node \in Nodes => Gathered
        /\ \A n \in Nodes : n < node => Closest(n)
    /\ phase \in {"frontier", "climb", "done"} => \A n \in Nodes : Closest(n)
    /\ phase \in {"dominators", "immediate"} => \A n \in Nodes : frontier[n] = {}
    /\ phase \in {"frontier", "climb"} => FrontierSoFar
    /\ phase = "climb" => OnTheWay
    /\ phase = "done" => \A r, n \in Nodes : n \in frontier[r] <=> InFrontier(r, n)

DomInvariant == DomTypeOK /\ (phase # "idle" /\ Rooted => LoopsRight)

\* What the assumption says of a graph and of its number of nodes.
LEMMA GraphSize ==
    \A g \in FlowGraphs : Len(g.type) \in Nat \ {0} /\ 1 \in 1..Len(g.type) /\ 1 \in 1..(Len(g.type) + 1)
<1> TAKE g \in FlowGraphs
<1>1. Len(g.type) \in Nat \ {0}
  OBVIOUS
<1> QED
  BY <1>1

HIDE FlowGraphAssumption

\* Every step keeps the types.
LEMMA DomTypeStep ==
    ASSUME DomTypeOK, [DomNext]_domVars
    PROVE  DomTypeOK'
<1>0. phase # "idle" => Len(graph.type) \in Nat \ {0} /\ 1 \in Nodes /\ 1 \in 1..(Len(graph.type) + 1)
  BY GraphSize DEF DomTypeOK
<1> USE DEF DomTypeOK, Phases
<1>1. ASSUME phase = "idle", NEW g \in FlowGraphs, ComputeDominators(g) PROVE DomTypeOK'
  <2>1. Len(g.type) \in Nat \ {0} /\ graph' = g /\ phase = "idle" /\ 1 \in 1..(Len(g.type) + 1)
    BY <1>1, GraphSize DEF ComputeDominators
  <2>2. /\ dominators' \in [1..Len(g.type) -> SUBSET (1..Len(g.type))]
        /\ immediate' \in [1..Len(g.type) -> SUBSET (1..Len(g.type))]
        /\ frontier' \in [1..Len(g.type) -> SUBSET (1..Len(g.type))]
    BY <1>1 DEF ComputeDominators
  <2>3. phase' = "dominators" /\ node' = 1 /\ changed' = FALSE /\ UNCHANGED innerVars
    BY <1>1 DEF ComputeDominators
  <2>4. pending' = {} /\ above' = {} /\ father' = 1 /\ runner' = {}
    BY <2>1, <2>3 DEF innerVars
  <2>5. Nodes' = 1..Len(g.type) /\ node' \in 1..(Len(graph.type) + 1)'
    BY <2>1, <2>3
  <2>6. /\ dominators' \in [Nodes' -> SUBSET Nodes']
        /\ immediate' \in [Nodes' -> SUBSET Nodes']
        /\ frontier' \in [Nodes' -> SUBSET Nodes']
    BY <2>2, <2>5
  <2>7. graph' \in FlowGraphs /\ phase' = "dominators" /\ changed' \in BOOLEAN
    BY <2>1, <2>3
  <2> HIDE DEF Nodes
  <2> QED
    BY <2>4, <2>5, <2>6, <2>7
<1>2. CASE Visit
  BY <1>2 DEF Visit, innerVars, NewSet, IntersectionPredecessor
<1>3. CASE EndRound
  <2>1. phase # "idle" /\ graph' = graph /\ UNCHANGED <<foundVars, father, runner>>
    BY <1>3 DEF EndRound
  <2>2. CASE changed
    <3>1. changed' = FALSE /\ node' = 1 /\ UNCHANGED <<phase, pending, above>>
      BY <1>3, <2>2 DEF EndRound
    <3> QED
      BY <1>0, <2>1, <3>1 DEF foundVars
  <2>3. CASE ~ changed
    <3>1. phase' = "immediate" /\ GoesTo(1) /\ UNCHANGED changed
      BY <1>3, <2>3 DEF EndRound
    <3>2. pending' \subseteq Nodes /\ above' = {} /\ node' = 1
      BY <2>1, <3>1 DEF GoesTo
    <3> QED
      BY <1>0, <2>1, <3>1, <3>2 DEF foundVars
  <2> QED
    BY <2>2, <2>3
<1>4. CASE Gather
  BY <1>4 DEF Gather, foundVars
<1>5. CASE Choose
  <2>1. Candidates \subseteq Nodes /\ Nearest \subseteq Nodes
    BY <1>5 DEF Choose, Candidates, Nearest
  <2>2. phase = "immediate" /\ node \in Nodes /\ UNCHANGED <<graph, dominators, frontier, changed, father, runner>>
    BY <1>5 DEF Choose
  <2>3. CASE Cardinality(Nearest) <= 1
    <3>1. immediate' = [immediate EXCEPT ![node] = Nearest] /\ GoesTo(node + 1) /\ UNCHANGED phase
      BY <1>5, <2>3 DEF Choose
    <3>2. pending' \subseteq Nodes /\ above' = {} /\ node' = node + 1
      BY <2>2, <3>1 DEF GoesTo
    <3>3. immediate' \in [Nodes -> SUBSET Nodes]
      BY <2>1, <2>2, <3>1
    <3> QED
      BY <1>0, <2>2, <3>1, <3>2, <3>3
  <2>4. CASE ~ (Cardinality(Nearest) <= 1)
    <3>1. phase' = "raised" /\ UNCHANGED <<immediate, node, pending, above>>
      BY <1>5, <2>4 DEF Choose
    <3> QED
      BY <2>2, <3>1
  <2> QED
    BY <2>3, <2>4
<1>6. CASE AllChosen
  BY <1>6 DEF AllChosen, foundVars
<1>7. CASE Enter
  <2>1. graph.fathers[node][father] \in Nodes
    <3>1. graph \in FlowGraphs /\ node \in Nodes /\ father \in 1..Len(graph.fathers[node])
      BY <1>7, FathersAreNodes DEF Enter
    <3>2. graph.fathers[node] \in Seq(Nodes)
      BY <3>1, FathersAreNodes
    <3> QED
      BY <3>1, <3>2
  <2> QED
    BY <1>7, <2>1 DEF Enter
<1>8. CASE Climb
  <2>1. phase = "climb" /\ UNCHANGED <<graph, dominators, immediate, node, changed, pending, above, father>>
    BY <1>8 DEF Climb
  <2>2. CASE phase' = "raised" /\ UNCHANGED <<frontier, runner>>
    BY <2>1, <2>2
  <2>3. ASSUME NEW r \in runner,
               frontier' = [frontier EXCEPT ![r] = @ \cup {node}] /\ runner' = immediate[r] /\ UNCHANGED phase
        PROVE  DomTypeOK'
    <3>1. node \in Nodes
      BY <2>1
    <3> QED
      BY <2>1, <2>3, <3>1
  <2> QED
    BY <1>8, <2>2, <2>3 DEF Climb
<1>9. CASE Arrive
  BY <1>9 DEF Arrive, foundVars
<1>10. CASE NextNode
  BY <1>10 DEF NextNode, foundVars
<1>11. CASE AllEntered
  BY <1>11 DEF AllEntered, foundVars, innerVars
<1>12. CASE UNCHANGED domVars
  BY <1>12 DEF domVars
<1> QED
  BY <1>1, <1>2, <1>3, <1>4, <1>5, <1>6, <1>7, <1>8, <1>9, <1>10, <1>11, <1>12 DEF DomNext

----------------------------------------------------------------------------
(* What each loop does *)

\* What the graph alone says stays.
LEMMA SameGraph ==
    ASSUME UNCHANGED graph
    PROVE  /\ Rooted' <=> Rooted
           /\ Nodes' = Nodes
           /\ \A n : FathersOf(n)' = FathersOf(n) /\ DominatorsByPaths(n)' = DominatorsByPaths(n)
BY DEF Rooted, Nodes, FathersOf, DominatorsByPaths, OnEveryPath, Encloses

\* What the dominators say stays.
LEMMA SameDominators ==
    ASSUME UNCHANGED <<graph, dominators>>
    PROVE  /\ Sound' <=> Sound
           /\ Stable' <=> Stable
           /\ \A n : NewSet(n)' = NewSet(n)
<1>1. \A n : FathersOf(n)' = FathersOf(n) /\ DominatorsByPaths(n)' = DominatorsByPaths(n)
  BY SameGraph
<1>2. \A n : NewSet(n)' = NewSet(n)
  BY <1>1 DEF NewSet, IntersectionPredecessor
<1>3. Sound' <=> Sound
  BY <1>1 DEF Sound
<1>4. Stable' <=> Stable
  BY <1>2 DEF Stable
<1> QED
  BY <1>2, <1>3, <1>4

\* What the immediate dominators say stays.
LEMMA SameImmediate ==
    ASSUME UNCHANGED <<graph, dominators, immediate>>
    PROVE  /\ \A n : Closest(n)' <=> Closest(n)
           /\ \A r, n : InFrontier(r, n)' <=> InFrontier(r, n)
           /\ \A r, n, k : Passed(r, n, k)' <=> Passed(r, n, k)
           /\ \A r, n : Corner(r, n)' <=> Corner(r, n)
<1>1. \A n : FathersOf(n)' = FathersOf(n)
  BY SameGraph
<1>2. \A r, n : Corner(r, n)' <=> Corner(r, n)
  BY DEF Corner
<1>3. \A n : Closest(n)' <=> Closest(n)
  BY DEF Closest
<1>4. \A r, n : InFrontier(r, n)' <=> InFrontier(r, n)
  BY <1>1, <1>2 DEF InFrontier, Borders
<1>5. \A r, n, k : Passed(r, n, k)' <=> Passed(r, n, k)
  BY <1>2 DEF Passed
<1> QED
  BY <1>2, <1>3, <1>4, <1>5

\* At the start every node has all dominators, and nothing else is known.
LEMMA StartRight ==
    ASSUME NEW g \in FlowGraphs, ComputeDominators(g)
    PROVE  LoopsRight'
<1>1. /\ phase' = "dominators" /\ node' = 1 /\ graph' = g
      /\ dominators' = [n \in 1..Len(g.type) |-> 1..Len(g.type)]
      /\ frontier' = [n \in 1..Len(g.type) |-> {}]
  BY DEF ComputeDominators
<1>2. Nodes' = 1..Len(g.type)
  BY <1>1
<1>3. Sound'
  BY <1>1, <1>2 DEF Sound, DominatorsByPaths
<1>4. \A n \in Nodes' : ~ n < node'
  BY <1>1, <1>2, GraphSize
<1> QED
  BY <1>1, <1>2, <1>3, <1>4 DEF LoopsRight

\* A visit is sound, and a round without a change has visited all in vain.
LEMMA VisitRight ==
    ASSUME DomTypeOK, Rooted, LoopsRight, Visit
    PROVE  LoopsRight'
<1>1. /\ phase = "dominators" /\ node \in Nodes /\ phase' = phase
      /\ dominators' = [dominators EXCEPT ![node] = NewSet(node)]
      /\ changed' = (changed \/ NewSet(node) # dominators[node])
      /\ node' = node + 1 /\ UNCHANGED <<graph, immediate, frontier>>
  BY DEF Visit
<1>2. /\ graph \in FlowGraphs /\ dominators \in [Nodes -> SUBSET Nodes]
      /\ changed \in BOOLEAN /\ node \in Nat
  BY <1>1, GraphSize DEF DomTypeOK
<1>3. Sound /\ (~ changed => \A n \in Nodes : n < node => dominators[n] = NewSet(n))
  BY <1>1 DEF LoopsRight
<1>4. Sound'
  <2> SUFFICES ASSUME NEW n \in Nodes PROVE DominatorsByPaths(n) \subseteq dominators'[n]
    BY <1>1, SameGraph DEF Sound
  <2>1. CASE n = node
    BY <1>1, <1>2, <1>3, <2>1, VisitSound
  <2>2. CASE n # node
    BY <1>1, <1>2, <1>3, <2>2 DEF Sound
  <2> QED
    BY <2>1, <2>2
<1>5. ~ changed' => \A n \in Nodes : n < node' => dominators'[n] = NewSet(n)'
  <2> SUFFICES ASSUME ~ changed', NEW n \in Nodes, n < node'
               PROVE  dominators'[n] = NewSet(n)'
    OBVIOUS
  <2>1. ~ changed /\ NewSet(node) = dominators[node]
    BY <1>1, <1>2
  <2>2. dominators' = dominators
    BY <1>1, <1>2, <2>1
  <2>3. NewSet(n)' = NewSet(n)
    BY <1>1, <2>2, SameDominators
  <2>4. n < node \/ n = node
    BY <1>1, <1>2, GraphSize
  <2> QED
    BY <1>3, <2>1, <2>2, <2>3, <2>4
<1>6. \A n \in Nodes : frontier[n] = {}
  BY <1>1 DEF LoopsRight
<1>7. Nodes' = Nodes
  BY <1>1
<1> HIDE DEF Nodes
<1> QED
  BY <1>1, <1>4, <1>5, <1>6, <1>7 DEF LoopsRight

\* No candidate has been looked at when the inner loop begins.
LEMMA NothingGathered ==
    ASSUME DomTypeOK, phase # "idle", UNCHANGED <<graph, dominators>>, NEW m \in Nat, GoesTo(m)
    PROVE  node' \in Nodes' => Gathered'
<1>1. Nodes' = Nodes
  OBVIOUS
<1>2. ASSUME m \in Nodes PROVE Gathered'
  <2>1. node' = m /\ pending' = dominators'[m] \ {m} /\ above' = {}
    BY <1>2 DEF GoesTo
  <2> QED
    BY <2>1 DEF Gathered, Candidates
<1> QED
  BY <1>1, <1>2 DEF GoesTo

\* The rounds end when no set would change.
LEMMA EndRoundRight ==
    ASSUME DomTypeOK, Rooted, LoopsRight, EndRound
    PROVE  LoopsRight'
<1>1. phase = "dominators" /\ node \notin Nodes /\ UNCHANGED <<graph, dominators, immediate, frontier>>
  BY DEF EndRound, foundVars
<1>2. Len(graph.type) \in Nat \ {0} /\ node = Len(graph.type) + 1 /\ Nodes' = Nodes
  BY <1>1, GraphSize DEF DomTypeOK
<1>3. Sound /\ Sound' /\ \A n \in Nodes : frontier[n] = {}
  BY <1>1, SameDominators DEF LoopsRight
<1>4. CASE changed
  <2>1. node' = 1 /\ phase' = "dominators"
    BY <1>1, <1>4 DEF EndRound
  <2>2. \A n \in Nodes : ~ n < node'
    BY <2>1
  <2> HIDE DEF Nodes
  <2> QED
    BY <1>1, <1>2, <1>3, <2>1, <2>2 DEF LoopsRight
<1>5. CASE ~ changed
  <2>1. phase' = "immediate" /\ GoesTo(1)
    BY <1>5 DEF EndRound
  <2>2. \A n \in Nodes : n < node
    BY <1>2
  <2>3. Stable'
    BY <1>1, <1>5, <2>2, SameDominators DEF LoopsRight, Stable
  <2>4. node' \in Nodes' => Gathered'
    BY <1>1, <2>1, NothingGathered
  <2>5. \A n \in Nodes : ~ n < node'
    BY <2>1 DEF GoesTo
  <2> HIDE DEF Nodes
  <2> QED
    BY <1>1, <1>2, <1>3, <2>1, <2>3, <2>4, <2>5 DEF LoopsRight
<1> QED
  BY <1>4, <1>5

\* A candidate above another may be passed over: so are those above it.
LEMMA GatherRight ==
    ASSUME DomTypeOK, Rooted, LoopsRight, Gather
    PROVE  LoopsRight'
<1>1. /\ phase = "immediate" /\ node \in Nodes
      /\ UNCHANGED <<graph, dominators, immediate, frontier, phase, node>>
  BY DEF Gather, foundVars
<1>2. graph \in FlowGraphs /\ dominators \in [Nodes -> SUBSET Nodes] /\ above \subseteq Nodes
  BY <1>1 DEF DomTypeOK
<1>3. /\ Sound /\ Stable /\ Gathered /\ \A n \in Nodes : frontier[n] = {}
      /\ \A n \in Nodes : n < node => Closest(n)
  BY <1>1 DEF LoopsRight
<1>4. Chains
  BY <1>2, <1>3, StableChains
<1>5. PICK d \in pending :
        /\ pending' = pending \ {d}
        /\ above' = IF d \in above THEN above ELSE above \cup (dominators[d] \ {d})
  BY DEF Gather
<1>6. d \in Candidates /\ d \in Nodes /\ Candidates' = Candidates /\ Candidates \subseteq Nodes
  BY <1>1, <1>2, <1>3 DEF Gathered, Candidates
<1>7. d \in above => dominators[d] \ {d} \subseteq above
  <2> SUFFICES ASSUME d \in above, NEW e \in dominators[d] \ {d} PROVE e \in above
    OBVIOUS
  <2>1. PICK c \in Candidates \ pending : d \in dominators[c] \ {c}
    BY <1>3, <1>6 DEF Gathered
  <2>2. e \in Nodes /\ c \in Nodes
    BY <1>2, <1>6
  <2>3. e \in dominators[c]
    BY <1>4, <1>6, <2>1, <2>2 DEF Chains
  <2>4. e # c
    BY <1>4, <1>6, <2>1, <2>2 DEF Chains
  <2> QED
    BY <1>3, <2>1, <2>2, <2>3, <2>4 DEF Gathered
<1>8. above' = above \cup (dominators[d] \ {d})
  BY <1>5, <1>7
<1>9. Gathered'
  <2>1. pending' \subseteq Candidates
    BY <1>3, <1>5 DEF Gathered
  <2>2. Candidates \ pending' = (Candidates \ pending) \cup {d}
    BY <1>5, <1>6
  <2>3. \A e \in Nodes : e \in above' <=> \E c \in Candidates \ pending' : e \in dominators[c] \ {c}
    BY <1>3, <1>8, <2>2 DEF Gathered
  <2> QED
    BY <1>1, <1>6, <2>1, <2>3 DEF Gathered
<1>10. Sound' /\ Stable' /\ \A n \in Nodes : Closest(n)' <=> Closest(n)
  BY <1>1, <1>3, SameDominators, SameImmediate
<1>11. Nodes' = Nodes
  BY <1>1
<1> HIDE DEF Nodes
<1> QED
  BY <1>1, <1>3, <1>9, <1>10, <1>11 DEF LoopsRight

\* The assertion holds, and the node gets the nearest of its dominators.
LEMMA ChooseRight ==
    ASSUME DomTypeOK, Rooted, LoopsRight, Choose
    PROVE  LoopsRight'
<1>1. /\ phase = "immediate" /\ node \in Nodes /\ (Single \/ pending = {})
      /\ UNCHANGED <<graph, dominators, frontier>>
  BY DEF Choose
<1>2. /\ graph \in FlowGraphs /\ dominators \in [Nodes -> SUBSET Nodes] /\ above \subseteq Nodes
      /\ immediate \in [Nodes -> SUBSET Nodes] /\ Len(graph.type) \in Nat
  BY <1>1, GraphSize DEF DomTypeOK
<1>3. /\ Sound /\ Stable /\ Gathered /\ \A n \in Nodes : frontier[n] = {}
      /\ \A n \in Nodes : n < node => Closest(n)
  BY <1>1 DEF LoopsRight
<1>4. Chains
  BY <1>2, <1>3, StableChains
<1>5. /\ Cardinality(Nearest) <= 1 /\ Nearest \subseteq Nodes
      /\ node = 1 => Nearest = {}
      /\ node # 1 => \E m \in Candidates :
                Nearest = {m} /\ dominators[node] = dominators[m] \cup {node}
  BY <1>1, <1>2, <1>3, <1>4, NearestIsClosest
<1>6. immediate' = [immediate EXCEPT ![node] = Nearest] /\ GoesTo(node + 1) /\ phase' = phase
  BY <1>5 DEF Choose
<1>7. node' = node + 1 /\ (node' \in Nodes' => Gathered')
  <2>1. node + 1 \in Nat
    BY <1>1, <1>2
  <2> QED
    BY <1>1, <1>6, <2>1, NothingGathered DEF GoesTo
<1>8. ASSUME NEW n \in Nodes, n < node' PROVE Closest(n)'
  <2>1. CASE n = node
    <3>1. immediate'[n] = Nearest
      BY <1>2, <1>6, <2>1
    <3> QED
      BY <1>1, <1>5, <2>1, <3>1 DEF Closest, Candidates
  <2>2. CASE n # node
    <3>1. n < node /\ immediate'[n] = immediate[n]
      BY <1>1, <1>2, <1>6, <1>7, <1>8, <2>2
    <3> QED
      BY <1>1, <1>3, <3>1 DEF Closest
  <2> QED
    BY <2>1, <2>2
<1>9. Sound' /\ Stable' /\ Nodes' = Nodes
  BY <1>1, <1>3, SameDominators
<1> HIDE DEF Nodes
<1> QED
  BY <1>1, <1>3, <1>6, <1>7, <1>8, <1>9 DEF LoopsRight

\* All nodes have their immediate dominators, and no frontier has a node.
LEMMA AllChosenRight ==
    ASSUME DomTypeOK, Rooted, LoopsRight, AllChosen
    PROVE  LoopsRight'
<1>1. /\ phase = "immediate" /\ node \notin Nodes
      /\ UNCHANGED <<graph, dominators, immediate, frontier>>
      /\ phase' = "frontier" /\ node' = 1 /\ father' = 1
  BY DEF AllChosen, foundVars
<1>2. Len(graph.type) \in Nat \ {0} /\ node = Len(graph.type) + 1
  BY <1>1, GraphSize DEF DomTypeOK
<1>3. \A n \in Nodes : n < node
  BY <1>2
<1>4. Sound /\ Stable /\ \A n \in Nodes : Closest(n) /\ frontier[n] = {}
  BY <1>1, <1>3 DEF LoopsRight
<1>5. Sound' /\ Stable' /\ Nodes' = Nodes /\ \A n : Closest(n)' <=> Closest(n)
  BY <1>1, <1>4, SameDominators, SameImmediate
<1>6. FrontierSoFar'
  <2>1. \A n \in Nodes : ~ n < 1
    OBVIOUS
  <2>2. 1..(father' - 1) = {}
    BY <1>1
  <2> HIDE DEF Nodes
  <2> QED
    BY <1>1, <1>4, <1>5, <2>1, <2>2 DEF FrontierSoFar
<1> HIDE DEF Nodes
<1> QED
  BY <1>1, <1>4, <1>5, <1>6 DEF LoopsRight

\* What holds while the frontiers are being looked for.
LEMMA WhileClimbing ==
    ASSUME DomTypeOK, Rooted, LoopsRight, phase \in {"frontier", "climb"}
    PROVE  /\ graph \in FlowGraphs /\ Len(graph.type) \in Nat \ {0}
           /\ dominators \in [Nodes -> SUBSET Nodes] /\ immediate \in [Nodes -> SUBSET Nodes]
           /\ frontier \in [Nodes -> SUBSET Nodes]
           /\ node \in 1..(Len(graph.type) + 1) /\ father \in Nat \ {0}
           /\ Sound /\ Stable /\ Chains /\ FrontierSoFar /\ \A n \in Nodes : Closest(n)
<1>1. phase # "idle" /\ phase # "dominators" /\ phase \in {"frontier", "climb", "done"}
  OBVIOUS
<1>2. /\ graph \in FlowGraphs /\ dominators \in [Nodes -> SUBSET Nodes]
      /\ immediate \in [Nodes -> SUBSET Nodes] /\ frontier \in [Nodes -> SUBSET Nodes]
      /\ node \in 1..(Len(graph.type) + 1) /\ father \in Nat \ {0}
  BY <1>1 DEF DomTypeOK
<1>3. Sound /\ Stable /\ FrontierSoFar /\ \A n \in Nodes : Closest(n)
  BY <1>1 DEF LoopsRight
<1> QED
  BY <1>2, <1>3, GraphSize, StableChains

\* The way up begins at a father, which the immediate dominator dominates.
LEMMA EnterRight ==
    ASSUME DomTypeOK, Rooted, LoopsRight, Enter
    PROVE  LoopsRight'
<1>1. /\ phase = "frontier" /\ node \in Nodes /\ phase' = "climb" /\ node' = node /\ father' = father
      /\ Len(graph.fathers[node]) >= 2 /\ father <= Len(graph.fathers[node])
      /\ UNCHANGED <<graph, dominators, immediate>>
      /\ runner' = {Origin}
      /\ frontier' = IF Corner(Origin, node) THEN [frontier EXCEPT ![Origin] = @ \cup {node}] ELSE frontier
  BY DEF Enter, Origin
<1>2. /\ graph \in FlowGraphs /\ frontier \in [Nodes -> SUBSET Nodes] /\ father \in Nat \ {0}
      /\ dominators \in [Nodes -> SUBSET Nodes]
      /\ Sound /\ Stable /\ Chains /\ FrontierSoFar /\ \A n \in Nodes : Closest(n)
  BY <1>1, WhileClimbing
<1>3. Origin \in FathersOf(node) /\ Origin \in Nodes
  <2>1. graph.fathers[node] \in Seq(Nodes) /\ FathersOf(node) \subseteq Nodes
    BY <1>1, <1>2, FathersAreNodes
  <2>2. father \in DOMAIN graph.fathers[node]
    BY <1>1, <1>2, <2>1
  <2> QED
    BY <2>1, <2>2 DEF Origin, FathersOf
<1>4. /\ Sound' /\ Stable' /\ Nodes' = Nodes /\ Origin' = Origin
      /\ \A n : Closest(n)' <=> Closest(n)
      /\ \A r, n : InFrontier(r, n)' <=> InFrontier(r, n)
      /\ \A r, n, k : Passed(r, n, k)' <=> Passed(r, n, k)
      /\ \A r, n : Corner(r, n)' <=> Corner(r, n)
  BY <1>1, <1>2, SameDominators, SameImmediate DEF Origin
<1>5. OnTheWay'
  <2>1. node # 1
    BY <1>3 DEF Rooted
  <2>2. PICK i \in dominators[node] \ {node} : immediate[node] = {i}
    BY <1>1, <1>2, <2>1 DEF Closest
  <2>3. Origin \in dominators[Origin] /\ immediate[node] \subseteq dominators[Origin]
    BY <1>1, <1>2, <1>3, <2>2 DEF Chains
  <2> QED
    BY <1>1, <1>3, <1>4, <2>3 DEF OnTheWay
<1>6. \A r \in Nodes : PassedNow(r)' <=> r = Origin /\ Corner(r, node)
  BY <1>1, <1>4 DEF PassedNow
<1>7. \A r, n \in Nodes : n \in frontier'[r] <=> n \in frontier[r] \/ (n = node /\ r = Origin /\ Corner(r, node))
  BY <1>1, <1>2, <1>3
<1>8. FrontierSoFar'
  <2> SUFFICES ASSUME NEW r \in Nodes, NEW n \in Nodes
               PROVE  n \in frontier'[r] <=>
                        \/ n < node /\ InFrontier(r, n)
                        \/ /\ n = node
                           /\ \/ \E k \in 1..(father - 1) :
                                    k <= Len(graph.fathers[n]) /\ Len(graph.fathers[n]) >= 2 /\ Passed(r, n, k)
                              \/ PassedNow(r)'
    BY <1>1, <1>4 DEF FrontierSoFar
  <2> HIDE DEF Nodes
  <2>1. phase # "climb"
    BY <1>1
  <2> QED
    BY <1>2, <1>6, <1>7, <2>1 DEF FrontierSoFar
<1> HIDE DEF Nodes
<1> QED
  BY <1>1, <1>2, <1>4, <1>5, <1>8 DEF LoopsRight

\* The way up goes along the chain: what it has passed is what dominates the
\* father but not the runner, and there is always a next one.
LEMMA ClimbRight ==
    ASSUME DomTypeOK, Rooted, LoopsRight, Climb
    PROVE  LoopsRight'
<1>1. phase = "climb" /\ runner # immediate[node] /\ UNCHANGED <<graph, dominators, immediate, node, father>>
  BY DEF Climb
<1>2. /\ graph \in FlowGraphs /\ frontier \in [Nodes -> SUBSET Nodes] /\ father \in Nat \ {0}
      /\ dominators \in [Nodes -> SUBSET Nodes]
      /\ Sound /\ Stable /\ Chains /\ FrontierSoFar /\ \A n \in Nodes : Closest(n)
  BY <1>1, WhileClimbing
<1>3. OnTheWay
  BY <1>1 DEF LoopsRight
<1>4. PICK u \in Nodes : runner = {u} /\ u \in dominators[Origin] /\ immediate[node] \subseteq dominators[u]
  BY <1>3 DEF OnTheWay
<1>5. /\ frontier' = [frontier EXCEPT ![u] = @ \cup {node}]
      /\ runner' = immediate[u] /\ phase' = phase
  BY <1>4 DEF Climb
<1>6. Origin \in FathersOf(node) /\ Origin \in Nodes /\ node \in Nodes
  <2>1. graph.fathers[node] \in Seq(Nodes) /\ FathersOf(node) \subseteq Nodes /\ node \in Nodes
    BY <1>2, <1>3, FathersAreNodes DEF OnTheWay
  <2>2. father \in DOMAIN graph.fathers[node]
    BY <1>2, <1>3, <2>1 DEF OnTheWay
  <2> QED
    BY <2>1, <2>2 DEF Origin, FathersOf
<1>7. node # 1
  BY <1>6 DEF Rooted
<1>8. PICK v \in Nodes : /\ immediate[u] = {v}
                         /\ dominators[u] = dominators[v] \cup {u} /\ u \notin dominators[v]
                         /\ immediate[node] \subseteq dominators[v]
  BY <1>1, <1>2, <1>4, <1>6, <1>7, ClimbStep
<1>9. /\ Sound' /\ Stable' /\ Nodes' = Nodes /\ Origin' = Origin
      /\ \A n : Closest(n)' <=> Closest(n)
      /\ \A r, n : InFrontier(r, n)' <=> InFrontier(r, n)
      /\ \A r, n, k : Passed(r, n, k)' <=> Passed(r, n, k)
      /\ \A r, n : Corner(r, n)' <=> Corner(r, n)
  BY <1>1, <1>2, SameDominators, SameImmediate DEF Origin
<1>10. OnTheWay'
  <2>1. v \in dominators[Origin]
    <3>1. v \in dominators[v] /\ dominators[u] \subseteq dominators[Origin]
      BY <1>2, <1>4, <1>6 DEF Chains
    <3> QED
      BY <1>8, <3>1
  <2>2. runner' = {v}
    BY <1>5, <1>8
  <2> HIDE DEF Nodes
  <2> QED
    BY <1>1, <1>3, <1>8, <1>9, <2>1, <2>2 DEF OnTheWay
<1>11. \A r \in Nodes : PassedNow(r)' <=> PassedNow(r) \/ r = u
  <2> TAKE r \in Nodes
  <2>1. PassedNow(r)' <=> (r \in dominators[Origin] \ dominators[v]) \/ (r = Origin /\ Corner(r, node))
    BY <1>1, <1>5, <1>8, <1>9 DEF PassedNow
  <2>2. PassedNow(r) <=> (r \in dominators[Origin] \ dominators[u]) \/ (r = Origin /\ Corner(r, node))
    BY <1>4 DEF PassedNow
  <2> QED
    BY <1>4, <1>8, <2>1, <2>2
<1>12. \A r, n \in Nodes : n \in frontier'[r] <=> n \in frontier[r] \/ (n = node /\ r = u)
  BY <1>2, <1>5, <1>6
<1>13. FrontierSoFar'
  <2> SUFFICES ASSUME NEW r \in Nodes, NEW n \in Nodes
               PROVE  n \in frontier'[r] <=>
                        \/ n < node /\ InFrontier(r, n)
                        \/ /\ n = node
                           /\ \/ \E k \in 1..(father - 1) :
                                    k <= Len(graph.fathers[n]) /\ Len(graph.fathers[n]) >= 2 /\ Passed(r, n, k)
                              \/ PassedNow(r)'
    BY <1>1, <1>5, <1>9 DEF FrontierSoFar
  <2> HIDE DEF Nodes
  <2> QED
    BY <1>1, <1>2, <1>11, <1>12 DEF FrontierSoFar
<1> HIDE DEF Nodes
<1> QED
  BY <1>1, <1>2, <1>5, <1>9, <1>10, <1>13 DEF LoopsRight

\* At the immediate dominator all that belongs to the father has been passed.
LEMMA ArriveRight ==
    ASSUME DomTypeOK, Rooted, LoopsRight, Arrive
    PROVE  LoopsRight'
<1>1. /\ phase = "climb" /\ runner = immediate[node] /\ phase' = "frontier" /\ father' = father + 1
      /\ UNCHANGED <<graph, dominators, immediate, frontier, node>>
  BY DEF Arrive, foundVars
<1>2. /\ graph \in FlowGraphs /\ father \in Nat \ {0}
      /\ Sound /\ Stable /\ Chains /\ FrontierSoFar /\ \A n \in Nodes : Closest(n)
  BY <1>1, WhileClimbing
<1>3. OnTheWay /\ node \in Nodes
  BY <1>1 DEF LoopsRight, OnTheWay
<1>4. PICK u \in Nodes : runner = {u} /\ u \in dominators[Origin]
  BY <1>3 DEF OnTheWay
<1>5. dominators[u] = dominators[node] \ {node}
  <2>1. node # 1
    BY <1>1, <1>2, <1>3, <1>4 DEF Closest
  <2>2. PICK m \in dominators[node] \ {node} :
            immediate[node] = {m} /\ dominators[node] = dominators[m] \cup {node}
    BY <1>2, <1>3, <2>1 DEF Closest
  <2>3. m = u
    BY <1>1, <1>4, <2>2
  <2>4. node \notin dominators[m]
    BY <1>2, <1>3, <1>4, <2>2, <2>3 DEF Chains
  <2> QED
    BY <2>2, <2>3, <2>4
<1>6. \A r \in Nodes : PassedNow(r) <=> Passed(r, node, father)
  BY <1>4, <1>5 DEF PassedNow, Passed, Origin
<1>7. /\ Sound' /\ Stable' /\ Nodes' = Nodes
      /\ \A n : Closest(n)' <=> Closest(n)
      /\ \A r, n : InFrontier(r, n)' <=> InFrontier(r, n)
      /\ \A r, n, k : Passed(r, n, k)' <=> Passed(r, n, k)
  BY <1>1, <1>2, SameDominators, SameImmediate
<1>8. FrontierSoFar'
  <2> SUFFICES ASSUME NEW r \in Nodes, NEW n \in Nodes
               PROVE  n \in frontier[r] <=>
                        \/ n < node /\ InFrontier(r, n)
                        \/ /\ n = node
                           /\ \E k \in 1..father :
                                k <= Len(graph.fathers[n]) /\ Len(graph.fathers[n]) >= 2 /\ Passed(r, n, k)
    <3>1. father' - 1 = father
      BY <1>1, <1>2
    <3> HIDE DEF Nodes
    <3> QED
      BY <1>1, <1>7, <3>1 DEF FrontierSoFar
  <2>1. 1..father = 1..(father - 1) \cup {father}
    BY <1>2
  <2>2. father <= Len(graph.fathers[node]) /\ Len(graph.fathers[node]) >= 2
    BY <1>3 DEF OnTheWay
  <2> HIDE DEF Nodes
  <2> QED
    BY <1>1, <1>2, <1>6, <2>1, <2>2 DEF FrontierSoFar
<1> HIDE DEF Nodes
<1> QED
  BY <1>1, <1>2, <1>7, <1>8 DEF LoopsRight

\* A node whose fathers have been looked at is where it belongs.
LEMMA NextNodeRight ==
    ASSUME DomTypeOK, Rooted, LoopsRight, NextNode
    PROVE  LoopsRight'
<1>1. /\ phase = "frontier" /\ node \in Nodes /\ phase' = phase /\ node' = node + 1 /\ father' = 1
      /\ Len(graph.fathers[node]) < 2 \/ father > Len(graph.fathers[node])
      /\ UNCHANGED <<graph, dominators, immediate, frontier>>
  BY DEF NextNode, foundVars
<1>2. /\ graph \in FlowGraphs /\ father \in Nat \ {0} /\ Len(graph.type) \in Nat
      /\ dominators \in [Nodes -> SUBSET Nodes]
      /\ Sound /\ Stable /\ Chains /\ FrontierSoFar /\ \A n \in Nodes : Closest(n)
  BY <1>1, WhileClimbing
<1>3. Len(graph.fathers[node]) \in Nat
  BY <1>1, <1>2, FathersAreNodes
<1>4. ASSUME NEW r \in Nodes PROVE node \in frontier[r] <=> InFrontier(r, node)
  <2>1. node \in frontier[r] <=>
            \E k \in 1..(father - 1) :
                k <= Len(graph.fathers[node]) /\ Len(graph.fathers[node]) >= 2 /\ Passed(r, node, k)
    <3>1. ~ node < node /\ phase # "climb"
      BY <1>1, <1>2
    <3> QED
      BY <1>1, <1>2, <3>1 DEF FrontierSoFar
  <2>2. CASE Len(graph.fathers[node]) < 2
    BY <1>1, <1>2, <1>3, <2>1, <2>2, FewFathers
  <2>3. CASE Len(graph.fathers[node]) >= 2
    <3>1. \A k : k \in 1..(father - 1) /\ k <= Len(graph.fathers[node]) <=> k \in 1..Len(graph.fathers[node])
      BY <1>1, <1>2, <1>3, <2>3
    <3>2. InFrontier(r, node) <=> \E k \in 1..Len(graph.fathers[node]) : Passed(r, node, k)
      BY <1>1, <1>2, <2>3, ManyFathers
    <3> QED
      BY <2>1, <2>3, <3>1, <3>2
  <2> QED
    BY <1>3, <2>2, <2>3
<1>5. /\ Sound' /\ Stable' /\ Nodes' = Nodes
      /\ \A n : Closest(n)' <=> Closest(n)
      /\ \A r, n : InFrontier(r, n)' <=> InFrontier(r, n)
  BY <1>1, <1>2, SameDominators, SameImmediate
<1>6. FrontierSoFar'
  <2> SUFFICES ASSUME NEW r \in Nodes, NEW n \in Nodes
               PROVE  n \in frontier[r] <=> n < node + 1 /\ InFrontier(r, n)
    <3>1. 1..(father' - 1) = {}
      BY <1>1
    <3> HIDE DEF Nodes
    <3> QED
      BY <1>1, <1>5, <3>1 DEF FrontierSoFar
  <2>1. CASE n = node
    BY <1>1, <1>2, <1>4, <2>1
  <2>2. CASE n # node
    <3>1. n < node + 1 <=> n < node
      BY <1>1, <1>2, <2>2
    <3> HIDE DEF Nodes
    <3> QED
      BY <1>2, <2>2, <3>1 DEF FrontierSoFar
  <2> QED
    BY <2>1, <2>2
<1> HIDE DEF Nodes
<1> QED
  BY <1>1, <1>2, <1>5, <1>6 DEF LoopsRight

\* When all nodes have been looked at, the frontiers are complete.
LEMMA AllEnteredRight ==
    ASSUME DomTypeOK, Rooted, LoopsRight, AllEntered
    PROVE  LoopsRight'
<1>1. /\ phase = "frontier" /\ node \notin Nodes /\ phase' = "done"
      /\ UNCHANGED <<graph, dominators, immediate, frontier>>
  BY DEF AllEntered, foundVars
<1>2. /\ Len(graph.type) \in Nat \ {0} /\ node \in 1..(Len(graph.type) + 1)
      /\ Sound /\ Stable /\ FrontierSoFar /\ \A n \in Nodes : Closest(n)
  BY <1>1, WhileClimbing
<1>3. \A n \in Nodes : n < node /\ n # node
  BY <1>1, <1>2
<1>4. /\ Sound' /\ Stable' /\ Nodes' = Nodes
      /\ \A n : Closest(n)' <=> Closest(n)
      /\ \A r, n : InFrontier(r, n)' <=> InFrontier(r, n)
  BY <1>1, <1>2, SameDominators, SameImmediate
<1> HIDE DEF Nodes
<1>5. \A r, n \in Nodes : n \in frontier[r] <=> InFrontier(r, n)
  BY <1>2, <1>3 DEF FrontierSoFar
<1> QED
  BY <1>1, <1>2, <1>4, <1>5 DEF LoopsRight

----------------------------------------------------------------------------
(* The theorem *)

LEMMA DomInvariantInit == DomInit => DomInvariant
BY DEF DomInit, DomInvariant, DomTypeOK, Phases

LEMMA DomInvariantStep ==
    ASSUME DomInvariant, [DomNext]_domVars
    PROVE  DomInvariant'
<1>1. DomTypeOK /\ DomTypeOK'
  BY DomTypeStep DEF DomInvariant
<1> SUFFICES ASSUME phase' # "idle", Rooted' PROVE LoopsRight'
  BY <1>1 DEF DomInvariant
<1>2. ASSUME phase = "idle", NEW g \in FlowGraphs, ComputeDominators(g) PROVE LoopsRight'
  BY <1>2, StartRight
<1>3. ASSUME phase # "idle", UNCHANGED graph PROVE Rooted /\ LoopsRight
  BY <1>3, SameGraph DEF DomInvariant
<1>4. CASE Visit
  BY <1>1, <1>3, <1>4, VisitRight DEF Visit
<1>5. CASE EndRound
  BY <1>1, <1>3, <1>5, EndRoundRight DEF EndRound
<1>6. CASE Gather
  BY <1>1, <1>3, <1>6, GatherRight DEF Gather
<1>7. CASE Choose
  BY <1>1, <1>3, <1>7, ChooseRight DEF Choose
<1>8. CASE AllChosen
  BY <1>1, <1>3, <1>8, AllChosenRight DEF AllChosen
<1>9. CASE Enter
  BY <1>1, <1>3, <1>9, EnterRight DEF Enter
<1>10. CASE Climb
  BY <1>1, <1>3, <1>10, ClimbRight DEF Climb
<1>11. CASE Arrive
  BY <1>1, <1>3, <1>11, ArriveRight DEF Arrive
<1>12. CASE NextNode
  BY <1>1, <1>3, <1>12, NextNodeRight DEF NextNode
<1>13. CASE AllEntered
  BY <1>1, <1>3, <1>13, AllEnteredRight DEF AllEntered
<1>14. CASE UNCHANGED domVars
  <2>1. LoopsRight /\ UNCHANGED domVars
    BY <1>3, <1>14 DEF domVars
  <2>2. /\ UNCHANGED <<graph, dominators, immediate, frontier, phase, node, changed>>
        /\ UNCHANGED <<pending, above, father, runner>>
    BY <1>14 DEF domVars
  <2>3. Gathered' <=> Gathered
    BY <2>2 DEF Gathered, Candidates
  <2>4. /\ Sound' <=> Sound
        /\ Stable' <=> Stable
        /\ \A n : NewSet(n)' = NewSet(n)
        /\ \A n : Closest(n)' <=> Closest(n)
        /\ \A r, n : InFrontier(r, n)' <=> InFrontier(r, n)
        /\ \A r, n, k : Passed(r, n, k)' <=> Passed(r, n, k)
        /\ \A r, n : Corner(r, n)' <=> Corner(r, n)
    BY <2>2, SameDominators, SameImmediate
  <2>5. FrontierSoFar' <=> FrontierSoFar
    BY <2>2, <2>4 DEF FrontierSoFar, PassedNow, Origin
  <2>6. OnTheWay' <=> OnTheWay
    BY <2>2 DEF OnTheWay, Origin
  <2>7. Nodes' = Nodes
    BY <2>2
  <2> HIDE DEF Nodes
  <2> QED
    BY <2>1, <2>2, <2>3, <2>4, <2>5, <2>6, <2>7 DEF LoopsRight
<1> QED
  BY <1>2, <1>4, <1>5, <1>6, <1>7, <1>8, <1>9, <1>10, <1>11, <1>12, <1>13, <1>14 DEF DomNext

\* slither's dominators, immediate dominators and dominance frontiers are those
\* of the paths, and its assertion never fails, on every graph whose nodes can
\* all be reached from its entry.
THEOREM DominatorsAreRight == DomSpec => []DominatorsRight
<1>1. DomInvariant => DominatorsRight
  <2> SUFFICES ASSUME DomInvariant, phase \in {"done", "raised"}, Rooted
               PROVE  DominatorsRight
    BY DEF DominatorsRight
  <2>1. LoopsRight /\ phase = "done"
    BY DEF DomInvariant, LoopsRight
  <2>2. /\ graph \in FlowGraphs /\ dominators \in [Nodes -> SUBSET Nodes]
        /\ frontier \in [Nodes -> SUBSET Nodes]
    BY <2>1 DEF DomInvariant, DomTypeOK
  <2>3. /\ Sound /\ Stable /\ \A n \in Nodes : Closest(n)
        /\ \A r, n \in Nodes : n \in frontier[r] <=> InFrontier(r, n)
    BY <2>1 DEF LoopsRight
  <2>4. \A n \in Nodes : dominators[n] = DominatorsByPaths(n)
    BY <2>2, <2>3, StableIsRight
  <2>5. \A n \in Nodes : frontier[n] = {m \in Nodes : InFrontier(n, m)}
    <3> TAKE n \in Nodes
    <3>1. frontier[n] \subseteq Nodes
      BY <2>2
    <3> HIDE DEF Nodes
    <3> QED
      BY <2>3, <3>1
  <2> HIDE DEF Nodes
  <2> QED
    BY <2>1, <2>3, <2>4, <2>5 DEF DominatorsRight, Closest
<1> QED
  BY <1>1, DomInvariantInit, DomInvariantStep, PTL DEF DomSpec

----------------------------------------------------------------------------
(* functions_ids.py *)

\* Whatever signature the dictionaries of the contract and of the proxy keep for
\* an id, and whatever the ids have to do with the selectors: a call of a
\* function that both have is reported; one that the proxy takes by an equal
\* selector is, where the ids follow the selectors; only calls with an id that
\* both answer are, and receive functions; and no collision is as long as the
\* ids differ, whether the selectors do or not (functions_ids.py:85).
THEOREM IdsAreReported ==
    ASSUME NEW contract, NEW proxy, NEW id, NEW selector
    PROVE  IdsReported(contract, proxy, id, selector)
<1> DEFINE compilers(m) ==
        IF m.kind = "variable" THEN m.canonical = <<>> ELSE m.types = m.canonical
           receives == {id[<<m.name, m.types>>] : m \in {n \in contract \cup proxy : n.kind = "receive"}}
           of(calls) == {id[s] : s \in calls}
           taken == Taken(contract, proxy, selector)
           found == Taken(contract, proxy, id)
<1> SUFFICES ASSUME \A m \in contract \cup proxy : compilers(m),
                    NEW implem \in BySignature(contract, id), NEW own \in BySignature(proxy, id)
             PROVE  LET reported == Collisions(implem, own) \cup Shadowings(implem, own)
                        unique == \A s, t \in Answered(contract) \cup Answered(proxy) :
                                    id[s] = id[t] => s = t
                    IN  /\ of(taken \cap Answered(proxy)) \subseteq reported
                        /\ Follows(contract, proxy, id, selector) => of(taken) \subseteq reported
                        /\ reported \subseteq of(found) \cup receives
                        /\ Follows(contract, proxy, selector, id) => reported \subseteq of(taken) \cup receives
                        /\ unique /\ receives = {} => Collisions(implem, own) = {}
  BY DEF IdsReported
<1>1. ASSUME NEW members \in {contract, proxy}
      PROVE  /\ Answered(members) \subseteq GetSignatures(members)
             /\ \A s \in GetSignatures(members) : s \in Answered(members) \/ id[s] \in receives
  <2>1. \A m \in members : compilers(m)
    OBVIOUS
  <2>2. ASSUME NEW s \in Answered(members)
        PROVE  s \in GetSignatures(members)
    <3>1. PICK m \in members : /\ m.kind \in {"external", "variable"}
                               /\ s = <<m.name, m.canonical>>
      BY DEF Answered
    <3>2. CASE m.kind = "external"
      <4>1. s = <<m.name, m.types>>
        BY <2>1, <3>1, <3>2
      <4> QED BY <3>2, <4>1 DEF GetSignatures
    <3>3. CASE m.kind = "variable"
      <4>1. s = <<m.name, <<>>>>
        BY <2>1, <3>1, <3>3
      <4> QED BY <3>3, <4>1 DEF GetSignatures, Variables
    <3> QED BY <3>1, <3>2, <3>3
  <2>3. ASSUME NEW s \in GetSignatures(members)
        PROVE  s \in Answered(members) \/ id[s] \in receives
    <3>1. CASE \E m \in members : m.kind \in {"external", "receive"} /\ s = <<m.name, m.types>>
      <4>1. PICK m \in members : m.kind \in {"external", "receive"} /\ s = <<m.name, m.types>>
        BY <3>1
      <4>2. CASE m.kind = "receive"
        BY <4>1, <4>2
      <4>3. CASE m.kind = "external"
        <5>1. s = <<m.name, m.canonical>>
          BY <2>1, <4>1, <4>3
        <5> QED BY <4>3, <5>1 DEF Answered
      <4> QED BY <4>1, <4>2, <4>3
    <3>2. CASE \E v \in members : v.kind = "variable" /\ s = <<v.name, <<>>>>
      <4>1. PICK v \in members : v.kind = "variable" /\ s = <<v.name, <<>>>>
        BY <3>2
      <4>2. s = <<v.name, v.canonical>>
        BY <2>1, <4>1
      <4> QED BY <4>1, <4>2 DEF Answered
    <3> QED BY <3>1, <3>2 DEF GetSignatures, Variables
  <2> QED BY <2>2, <2>3
<1>2. ASSUME NEW members \in {contract, proxy}, NEW d \in BySignature(members, id)
      PROVE  /\ DOMAIN d = {id[s] : s \in GetSignatures(members)}
             /\ \A k \in DOMAIN d : d[k] \in GetSignatures(members) /\ id[d[k]] = k
  BY DEF BySignature
<1> HIDE DEF receives
<1>3. of(found) \subseteq DOMAIN implem \cap DOMAIN own
  <2>1. ASSUME NEW s \in Answered(contract)
        PROVE  id[s] \in DOMAIN implem
    BY <1>1, <1>2
  <2>2. ASSUME NEW t \in Answered(proxy)
        PROVE  id[t] \in DOMAIN own
    BY <1>1, <1>2
  <2>3. ASSUME NEW s \in found
        PROVE  id[s] \in DOMAIN implem /\ id[s] \in DOMAIN own
    BY <2>1, <2>2 DEF Taken
  <2> QED BY <2>3
<1>4. ASSUME NEW k \in DOMAIN implem \cap DOMAIN own
      PROVE  \/ k \in receives
             \/ /\ implem[k] \in Answered(contract) /\ own[k] \in Answered(proxy)
                /\ id[implem[k]] = k /\ id[own[k]] = k
  <2>1. id[implem[k]] = k /\ implem[k] \in GetSignatures(contract)
    BY <1>2
  <2>2. id[own[k]] = k /\ own[k] \in GetSignatures(proxy)
    BY <1>2
  <2> QED BY <1>1, <2>1, <2>2
<1>5. Collisions(implem, own) \cup Shadowings(implem, own) = DOMAIN implem \cap DOMAIN own
  BY DEF Collisions, Shadowings
<1>6. ASSUME NEW k \in DOMAIN implem \cap DOMAIN own
      PROVE  k \in of(found) \cup receives
  <2>1. CASE k \notin receives
    <3>1. implem[k] \in found /\ id[implem[k]] = k
      BY <1>4, <2>1 DEF Taken
    <3> QED BY <3>1
  <2> QED BY <2>1
<1>7. ASSUME \A s, t \in Answered(contract) \cup Answered(proxy) : id[s] = id[t] => s = t,
             receives = {}
      PROVE  Collisions(implem, own) = {}
  <2>1. ASSUME NEW k \in DOMAIN implem \cap DOMAIN own
        PROVE  implem[k] = own[k]
    BY <1>4, <1>7
  <2> QED BY <2>1 DEF Collisions
<1>8. taken \cap Answered(proxy) \subseteq found
  BY DEF Taken
<1>9. Follows(contract, proxy, id, selector) => taken \subseteq found
  BY DEF Taken, Follows
<1>10. Follows(contract, proxy, selector, id) => found \subseteq taken
  BY DEF Taken, Follows
<1> HIDE DEF taken, found
<1> QED BY <1>3, <1>5, <1>6, <1>7, <1>8, <1>9, <1>10

----------------------------------------------------------------------------
(* constant.py *)

Position == [n1 : Nat, n2 : Nat, additional : Nat]

LEMMA UpTo ==
    ASSUME NEW n \in Nat, NEW S, 0 \in S, \A k \in 1..n : k - 1 \in S => k \in S
    PROVE  \A k \in 0..n : k \in S
<1> DEFINE others == {k \in 0..n : k \notin S}
<1>1. others \in SUBSET Nat
  OBVIOUS
<1>2. ASSUME others # {} PROVE FALSE
  <2>1. PICK k \in others : \A m \in others : k <= m
    <3> HIDE DEF others
    <3> QED BY <1>1, <1>2, LeastExists
  <2>2. k \in 1..n /\ k - 1 \in 0..n /\ k - 1 \notin others
    BY <2>1
  <2> QED BY <2>1, <2>2
<1> QED BY <1>2

\* f repeats one step.
Repeats(f, length, X, start, after) ==
    /\ f \in [0..length -> X]
    /\ f[0] = start
    /\ \A k \in 1..length : f[k] = after[f[k - 1]]

\* What is defined by repeating one step exists.
LEMMA RepetitionExists ==
    ASSUME NEW X, NEW start \in X, NEW length \in Nat, NEW after \in [X -> X]
    PROVE  \E f : Repeats(f, length, X, start, after)
<1> DEFINE step == [k \in 1..length |-> after]
<1>1. step \in [1..length -> [X -> X]]
  OBVIOUS
<1>2. PICK f : Computed(f, length, X, start, step)
  <2> HIDE DEF step
  <2> QED BY <1>1, RecursionExists
<1>3. f \in [0..length -> X] /\ f[0] = start
  BY <1>2 DEF Computed
<1>4. \A k \in 1..length : f[k] = after[f[k - 1]]
  <2>1. \A k \in 1..length : f[k] = step[k][f[k - 1]]
    <3> HIDE DEF step
    <3> QED BY <1>2 DEF Computed
  <2> QED BY <2>1
<1> QED BY <1>3, <1>4 DEF Repeats

LEMMA PositionsType ==
    ASSUME NEW V, NEW vars1 \in Seq(V), NEW vars2 \in Seq(V), NEW equal, NEW at \in Position
    PROVE  /\ Iterations(vars1, vars2) \in Nat
           /\ Start(vars1, vars2) \in Position
           /\ SkipOld(at) \in Position /\ SkipBoth(at) \in Position
           /\ Skips(vars1, vars2, equal, at) => SkipNew(at) \in Position
<1>1. Len(vars1) \in Nat /\ Len(vars2) \in Nat
  OBVIOUS
<1>2. at.n1 \in Nat /\ at.n2 \in Nat /\ at.additional \in Nat
  BY DEF Position
<1>3. Start(vars1, vars2) \in Position
  BY <1>1 DEF Start, Positions, Position
<1>4. Skips(vars1, vars2, equal, at) => SkipNew(at) \in Position
  <2>1. ASSUME Skips(vars1, vars2, equal, at) PROVE at.additional > 0
    BY <2>1 DEF Skips
  <2> QED BY <1>2, <2>1 DEF SkipNew, Positions, Position
<1> QED BY <1>1, <1>2, <1>3, <1>4 DEF Iterations, SkipOld, SkipBoth, Positions, Position

\* What WerePositions is defined to be.
LEMMA WereUnfold ==
    ASSUME NEW V, NEW vars1 \in Seq(V), NEW vars2 \in Seq(V), NEW equal
    PROVE  LET at == WerePositions(vars1, vars2, equal)
               length == Iterations(vars1, vars2)
           IN  /\ at \in [0..length -> Position] /\ at[0] = Start(vars1, vars2)
               /\ \A k \in 1..length : at[k] = AfterWere(vars1, vars2, equal, at[k - 1])
<1> DEFINE length == Iterations(vars1, vars2)
           start == Start(vars1, vars2)
           After(at) == AfterWere(vars1, vars2, equal, at)
           Def(g) == [k \in 0..length |-> IF k = 0 THEN start ELSE After(g[k - 1])]
           W == WerePositions(vars1, vars2, equal)
<1>1. \A at \in Position : After(at) \in Position
  BY PositionsType DEF AfterWere
<1>2. start \in Position /\ length \in Nat
  <2>1. Positions(0, 0, 0) \in Position
    BY DEF Positions, Position
  <2> QED BY <2>1, PositionsType
<1> HIDE DEF length, start, After
<1>3. PICK f \in [0..length -> Position] :
            f[0] = start /\ \A k \in 1..length : f[k] = [at \in Position |-> After(at)][f[k - 1]]
  <2> DEFINE after == [at \in Position |-> After(at)]
  <2>1. after \in [Position -> Position]
    BY <1>1
  <2> HIDE DEF after
  <2>2. \E f : Repeats(f, length, Position, start, after)
    BY <1>2, <2>1, RepetitionExists
  <2> QED BY <2>2 DEF after, Repeats
<1>4. f = Def(f)
  <2>1. ASSUME NEW k \in 0..length PROVE f[k] = Def(f)[k]
    <3>1. CASE k = 0
      BY <1>3, <3>1
    <3>2. CASE k # 0
      <4>1. k \in 1..length /\ k - 1 \in 0..length
        BY <1>2, <3>2
      <4> QED BY <1>3, <3>2, <4>1
    <3> QED BY <3>1, <3>2
  <2> QED BY <1>3, <2>1
<1>5. \E at : at = Def(at)
  BY <1>4
<1>6. W = Def(W)
  <2>1. W = CHOOSE at : at = Def(at)
    BY DEF WerePositions, length, start, After
  <2> HIDE DEF W
  <2> QED BY <1>5, <2>1
<1> HIDE DEF W
<1>7. DOMAIN W = 0..length /\ W[0] = start /\ \A k \in 1..length : W[k] = After(W[k - 1])
  <2>1. W = [k \in 0..length |-> W[k]]
    BY <1>6
  <2>2. \A k \in 0..length : W[k] = IF k = 0 THEN start ELSE After(W[k - 1])
    BY <1>6
  <2>3. DOMAIN W = 0..length
    BY <2>1
  <2>4. 0 \in 0..length /\ \A k \in 1..length : k \in 0..length /\ k # 0
    BY <1>2
  <2> QED BY <2>2, <2>3, <2>4
<1>8. \A k \in 0..length : W[k] \in Position
  <2> DEFINE S == {k \in 0..length : W[k] \in Position}
  <2>1. 0 \in S
    BY <1>2, <1>7
  <2>2. \A k \in 1..length : k - 1 \in S => k \in S
    BY <1>1, <1>7
  <2> HIDE DEF S
  <2>3. \A k \in 0..length : k \in S
    BY <1>2, <2>1, <2>2, UpTo
  <2> QED BY <2>3 DEF S
<1>9. W \in [0..length -> Position]
  <2>1. W = [k \in 0..length |-> W[k]]
    BY <1>6
  <2> QED BY <1>8, <2>1
<1> QED BY <1>7, <1>9 DEF W, length, start, After

\* What BecamePositions is defined to be.
LEMMA BecameUnfold ==
    ASSUME NEW V, NEW vars1 \in Seq(V), NEW vars2 \in Seq(V), NEW equal
    PROVE  LET at == BecamePositions(vars1, vars2, equal)
               length == Iterations(vars1, vars2)
           IN  /\ at \in [0..length -> Position] /\ at[0] = Start(vars1, vars2)
               /\ \A k \in 1..length : at[k] = AfterBecame(vars1, vars2, equal, at[k - 1])
<1> DEFINE length == Iterations(vars1, vars2)
           start == Start(vars1, vars2)
           After(at) == AfterBecame(vars1, vars2, equal, at)
           Def(g) == [k \in 0..length |-> IF k = 0 THEN start ELSE After(g[k - 1])]
           W == BecamePositions(vars1, vars2, equal)
<1>1. \A at \in Position : After(at) \in Position
  BY PositionsType DEF AfterBecame
<1>2. start \in Position /\ length \in Nat
  <2>1. Positions(0, 0, 0) \in Position
    BY DEF Positions, Position
  <2> QED BY <2>1, PositionsType
<1> HIDE DEF length, start, After
<1>3. PICK f \in [0..length -> Position] :
            f[0] = start /\ \A k \in 1..length : f[k] = [at \in Position |-> After(at)][f[k - 1]]
  <2> DEFINE after == [at \in Position |-> After(at)]
  <2>1. after \in [Position -> Position]
    BY <1>1
  <2> HIDE DEF after
  <2>2. \E f : Repeats(f, length, Position, start, after)
    BY <1>2, <2>1, RepetitionExists
  <2> QED BY <2>2 DEF after, Repeats
<1>4. f = Def(f)
  <2>1. ASSUME NEW k \in 0..length PROVE f[k] = Def(f)[k]
    <3>1. CASE k = 0
      BY <1>3, <3>1
    <3>2. CASE k # 0
      <4>1. k \in 1..length /\ k - 1 \in 0..length
        BY <1>2, <3>2
      <4> QED BY <1>3, <3>2, <4>1
    <3> QED BY <3>1, <3>2
  <2> QED BY <1>3, <2>1
<1>5. \E at : at = Def(at)
  BY <1>4
<1>6. W = Def(W)
  <2>1. W = CHOOSE at : at = Def(at)
    BY DEF BecamePositions, length, start, After
  <2> HIDE DEF W
  <2> QED BY <1>5, <2>1
<1> HIDE DEF W
<1>7. DOMAIN W = 0..length /\ W[0] = start /\ \A k \in 1..length : W[k] = After(W[k - 1])
  <2>1. W = [k \in 0..length |-> W[k]]
    BY <1>6
  <2>2. \A k \in 0..length : W[k] = IF k = 0 THEN start ELSE After(W[k - 1])
    BY <1>6
  <2>3. DOMAIN W = 0..length
    BY <2>1
  <2>4. 0 \in 0..length /\ \A k \in 1..length : k \in 0..length /\ k # 0
    BY <1>2
  <2> QED BY <2>2, <2>3, <2>4
<1>8. \A k \in 0..length : W[k] \in Position
  <2> DEFINE S == {k \in 0..length : W[k] \in Position}
  <2>1. 0 \in S
    BY <1>2, <1>7
  <2>2. \A k \in 1..length : k - 1 \in S => k \in S
    BY <1>1, <1>7
  <2> HIDE DEF S
  <2>3. \A k \in 0..length : k \in S
    BY <1>2, <2>1, <2>2, UpTo
  <2> QED BY <2>3 DEF S
<1>9. W \in [0..length -> Position]
  <2>1. W = [k \in 0..length |-> W[k]]
    BY <1>6
  <2> QED BY <1>8, <2>1
<1> QED BY <1>7, <1>9 DEF W, length, start, After

\* A matching leaves room for the variables before and behind.
LEMMA MatchBounds ==
    ASSUME NEW V, NEW vars1 \in Seq(V), NEW vars2 \in Seq(V), NEW equal,
           NEW match \in [DOMAIN vars1 -> DOMAIN vars2], Matches(vars1, vars2, equal, match)
    PROVE  \A n \in DOMAIN vars1 : n <= match[n] /\ match[n] - n <= Len(vars2) - Len(vars1)
<1>1. Len(vars1) \in Nat /\ DOMAIN vars1 = 1..Len(vars1)
  OBVIOUS
<1>2. Len(vars2) \in Nat /\ DOMAIN vars2 = 1..Len(vars2)
  OBVIOUS
<1>3. \A n, k \in DOMAIN vars1 : n < k => match[n] < match[k]
  BY DEF Matches
<1>4. \A n \in DOMAIN vars1 : match[n] \in 1..Len(vars2)
  BY <1>2
<1>5. \A n \in DOMAIN vars1 : n <= match[n]
  <2> DEFINE S == {n \in 0..Len(vars1) : n \in DOMAIN vars1 => n <= match[n]}
  <2>1. 0 \in S
    BY <1>1
  <2>2. ASSUME NEW n \in 1..Len(vars1), n - 1 \in S PROVE n \in S
    <3>1. CASE n = 1
      BY <1>1, <1>4, <3>1
    <3>2. CASE n # 1
      <4>1. n - 1 \in DOMAIN vars1 /\ n \in DOMAIN vars1 /\ n - 1 < n
        BY <1>1, <3>2
      <4>2. n - 1 <= match[n - 1] /\ match[n - 1] < match[n]
        BY <1>3, <2>2, <4>1
      <4> QED BY <1>4, <4>1, <4>2
    <3> QED BY <3>1, <3>2
  <2> HIDE DEF S
  <2>3. \A n \in 0..Len(vars1) : n \in S
    BY <1>1, <2>1, <2>2, UpTo
  <2> QED BY <1>1, <2>3 DEF S
<1>6. \A n \in DOMAIN vars1 : match[n] - n <= Len(vars2) - Len(vars1)
  <2> DEFINE S == {i \in 0..Len(vars1) : Len(vars1) - i \in DOMAIN vars1 =>
                        match[Len(vars1) - i] <= Len(vars2) - i}
  <2>1. 0 \in S
    BY <1>1, <1>4
  <2>2. ASSUME NEW i \in 1..Len(vars1), i - 1 \in S PROVE i \in S
    <3>1. SUFFICES ASSUME Len(vars1) - i \in DOMAIN vars1
                   PROVE  match[Len(vars1) - i] <= Len(vars2) - i
      OBVIOUS
    <3> DEFINE n == Len(vars1) - i
    <3>2. n + 1 = Len(vars1) - (i - 1) /\ n + 1 \in DOMAIN vars1 /\ n < n + 1
      BY <1>1, <3>1
    <3>3. match[n + 1] <= Len(vars2) - (i - 1)
      BY <2>2, <3>2
    <3>4. match[n] < match[n + 1]
      BY <1>3, <3>1, <3>2
    <3>5. match[n] \in Nat /\ match[n + 1] \in Nat
      BY <1>4, <3>1, <3>2
    <3> QED BY <1>2, <3>3, <3>4, <3>5
  <2> HIDE DEF S
  <2>3. \A i \in 0..Len(vars1) : i \in S
    BY <1>1, <2>1, <2>2, UpTo
  <2>4. ASSUME NEW n \in DOMAIN vars1 PROVE match[n] - n <= Len(vars2) - Len(vars1)
    <3>1. Len(vars1) - n \in 0..Len(vars1) /\ Len(vars1) - (Len(vars1) - n) = n
      BY <1>1
    <3>2. match[n] <= Len(vars2) - (Len(vars1) - n)
      BY <2>3, <3>1 DEF S
    <3> QED BY <1>1, <1>2, <1>4, <3>2
  <2> QED BY <2>4
<1> QED BY <1>5, <1>6

Aligned(vars1, match) == \A n \in DOMAIN vars1 : match[n] = n

\* What is known where an iteration of WereConstant starts: the old version's next
\* variable is still to come in the new one, those that were constant have been
\* met there, and as many may be skipped as have not been yet.
InStep(vars1, vars2, match, at) ==
    /\ at.n1 \in 1..(Len(vars1) + 1) /\ at.n1 <= at.n2
    /\ at.n1 <= Len(vars1) =>
            /\ at.n2 <= match[at.n1]
            /\ at.additional = (Len(vars2) - Len(vars1)) - (at.n2 - at.n1)
    /\ \A j \in DOMAIN vars1 : j < at.n1 /\ Fixed(vars1[j]) => match[j] < at.n2
    /\ Aligned(vars1, match) => at.n1 = at.n2

\* No other variable of the new version is taken for the match.
LEMMA MatchIsOnly ==
    ASSUME NEW V, NEW vars1 \in Seq(V), NEW vars2 \in Seq(V), NEW equal,
           NEW match \in [DOMAIN vars1 -> DOMAIN vars2], Matches(vars1, vars2, equal, match),
           NEW n1 \in DOMAIN vars1, NEW n2 \in DOMAIN vars2
    PROVE  Other(vars1[n1], vars2[n2], equal) <=> n2 # match[n1]
<1>1. ~ Other(vars1[n1], vars2[match[n1]], equal)
  BY DEF Matches
<1>2. match[n1] \in DOMAIN vars2
  OBVIOUS
<1>3. vars2[n2].name = vars2[match[n1]].name => n2 = match[n1]
  BY <1>2 DEF Matches
<1> QED BY <1>1, <1>3 DEF Other

\* Whatever was constant is compared with its match, and every iteration keeps in
\* step.
LEMMA StepInStep ==
    ASSUME NEW V, NEW vars1 \in Seq(V), NEW vars2 \in Seq(V), NEW equal,
           NEW match \in [DOMAIN vars1 -> DOMAIN vars2], Matches(vars1, vars2, equal, match),
           \/ \A n \in DOMAIN vars1 : ~ BecameFixed(<<vars1[n], vars2[match[n]]>>)
           \/ Aligned(vars1, match),
           NEW at \in Position, InStep(vars1, vars2, match, at), at.n1 <= Len(vars1)
    PROVE  /\ Within(vars1, vars2, at)
           /\ Fixed(vars1[at.n1]) /\ ~ Skips(vars1, vars2, equal, at) => at.n2 = match[at.n1]
           /\ InStep(vars1, vars2, match, AfterWere(vars1, vars2, equal, at))
<1> DEFINE n1 == at.n1
           n2 == at.n2
           m == match[n1]
<1>1. Len(vars1) \in Nat /\ Len(vars2) \in Nat /\ DOMAIN vars1 = 1..Len(vars1)
        /\ DOMAIN vars2 = 1..Len(vars2)
  OBVIOUS
<1>2. n1 \in DOMAIN vars1 /\ n2 \in Nat /\ at.additional \in Nat /\ n1 <= n2 /\ n2 <= m
  BY <1>1 DEF InStep, Position
<1>3. m \in DOMAIN vars2 /\ n2 \in DOMAIN vars2
  BY <1>1, <1>2
<1>4. n1 <= m /\ m - n1 <= Len(vars2) - Len(vars1)
  BY <1>2, MatchBounds
<1>5. Within(vars1, vars2, at)
  BY <1>1, <1>2, <1>3 DEF Within
<1>6. Other(vars1[n1], vars2[n2], equal) <=> n2 # m
  BY <1>2, <1>3, MatchIsOnly
<1>7. at.additional = (Len(vars2) - Len(vars1)) - (n2 - n1)
  BY DEF InStep
<1>8. ASSUME Fixed(vars1[n1]), n2 # m PROVE Skips(vars1, vars2, equal, at)
  <2>1. ~ Aligned(vars1, match)
    BY <1>2, <1>8 DEF Aligned, InStep
  <2>2. ~ Fixed(vars2[n2])
    <3>1. CASE vars2[n2].kept = "storage"
      BY <3>1 DEF Fixed
    <3>2. CASE \E j \in DOMAIN vars1 : match[j] = n2
      <4>1. PICK j \in DOMAIN vars1 : match[j] = n2
        BY <3>2
      <4>2. j < n1
        <5>1. n1 < j => m < match[j]
          BY <1>2 DEF Matches
        <5>2. n1 # j
          BY <1>8, <4>1
        <5> QED BY <1>1, <1>2, <1>3, <4>1, <5>1, <5>2
      <4>3. ~ Fixed(vars1[j])
        BY <1>2, <4>1, <4>2 DEF InStep
      <4> QED BY <2>1, <4>1, <4>3 DEF BecameFixed
    <3> QED BY <1>3, <3>1, <3>2 DEF Matches
  <2>3. at.additional > 0
    BY <1>1, <1>2, <1>3, <1>4, <1>7, <1>8
  <2> QED BY <1>6, <1>8, <2>2, <2>3 DEF Skips
<1>9. CASE Skips(vars1, vars2, equal, at)
  <2>1. n2 # m
    BY <1>6, <1>9 DEF Skips
  <2>2. AfterWere(vars1, vars2, equal, at) = Positions(n1, n2 + 1, at.additional - 1)
    BY <1>5, <1>9 DEF AfterWere, SkipNew
  <2>3. ~ Aligned(vars1, match)
    BY <1>2, <2>1 DEF Aligned, InStep
  <2>4. \A j \in DOMAIN vars1 : j < n1 /\ Fixed(vars1[j]) => match[j] < n2 + 1
    <3>1. \A j \in DOMAIN vars1 : match[j] \in Nat
      BY <1>1
    <3> QED BY <1>2, <3>1 DEF InStep
  <2>5. n2 + 1 <= m /\ n1 <= n2 + 1
           /\ at.additional - 1 = (Len(vars2) - Len(vars1)) - ((n2 + 1) - n1)
    <3>1. n1 \in Nat /\ m \in Nat
      BY <1>1, <1>2, <1>3
    <3>2. n2 + 1 <= m /\ n1 <= n2 + 1
      BY <1>2, <2>1, <3>1
    <3>3. ((Len(vars2) - Len(vars1)) - (n2 - n1)) - 1 = (Len(vars2) - Len(vars1)) - ((n2 + 1) - n1)
      BY <1>1, <1>2, <3>1
    <3> QED BY <1>7, <3>2, <3>3
  <2>6. InStep(vars1, vars2, match, Positions(n1, n2 + 1, at.additional - 1))
    BY <1>1, <1>2, <2>3, <2>4, <2>5 DEF InStep, Positions
  <2> QED BY <1>5, <1>9, <2>2, <2>6
<1>10. CASE ~ Skips(vars1, vars2, equal, at)
  <2>1. AfterWere(vars1, vars2, equal, at) = Positions(n1 + 1, n2 + 1, at.additional)
    BY <1>5, <1>10 DEF AfterWere, SkipBoth
  <2>2. ASSUME NEW j \in DOMAIN vars1, j < n1 + 1, Fixed(vars1[j])
        PROVE  match[j] < n2 + 1
    <3>1. match[j] \in Nat
      BY <1>1
    <3>2. CASE j < n1
      BY <1>2, <2>2, <3>1, <3>2 DEF InStep
    <3>3. CASE j = n1
      BY <1>2, <1>8, <1>10, <2>2, <3>3
    <3> QED BY <1>1, <1>2, <2>2, <3>2, <3>3
  <2>3. ASSUME n1 + 1 <= Len(vars1) PROVE n2 + 1 <= match[n1 + 1]
    <3>1. n1 + 1 \in DOMAIN vars1 /\ n1 < n1 + 1
      BY <1>1, <1>2, <2>3
    <3>2. m < match[n1 + 1] /\ match[n1 + 1] \in DOMAIN vars2
      BY <1>2, <3>1 DEF Matches
    <3> QED BY <1>1, <1>2, <1>3, <3>2
  <2>4. n1 + 1 \in 1..(Len(vars1) + 1) /\ n1 + 1 <= n2 + 1
           /\ at.additional = (Len(vars2) - Len(vars1)) - ((n2 + 1) - (n1 + 1))
    <3>1. n1 \in 1..Len(vars1)
      BY <1>1, <1>2
    <3>2. (n2 + 1) - (n1 + 1) = n2 - n1
      BY <1>2, <3>1
    <3>3. at.additional = (Len(vars2) - Len(vars1)) - ((n2 + 1) - (n1 + 1))
      BY <1>7, <3>2
    <3>4. n1 + 1 \in 1..(Len(vars1) + 1) /\ n1 + 1 <= n2 + 1
      BY <1>1, <1>2, <3>1
    <3> QED BY <3>3, <3>4
  <2>5. Aligned(vars1, match) => n1 + 1 = n2 + 1
    BY DEF InStep
  <2>6. InStep(vars1, vars2, match, Positions(n1 + 1, n2 + 1, at.additional))
    BY <2>2, <2>3, <2>4, <2>5 DEF InStep, Positions
  <2> QED BY <1>5, <1>8, <2>1, <2>6
<1> QED BY <1>9, <1>10

\* How far the loop is before the k-th iteration.
Reached(vars1, vars2, match, at, k) ==
    /\ InStep(vars1, vars2, match, at[k])
    /\ at[k].n1 <= Len(vars1) => k + 2 <= at[k].n1 + at[k].n2
    /\ \A j \in DOMAIN vars1 : j < at[k].n1 /\ Fixed(vars1[j]) =>
            \E i \in DOMAIN at : at[i].n1 = j /\ at[i].n2 = match[j]

LEMMA WereReached ==
    ASSUME NEW V, NEW vars1 \in Seq(V), NEW vars2 \in Seq(V), NEW equal,
           NEW match \in [DOMAIN vars1 -> DOMAIN vars2], Matches(vars1, vars2, equal, match),
           \/ \A n \in DOMAIN vars1 : ~ BecameFixed(<<vars1[n], vars2[match[n]]>>)
           \/ Aligned(vars1, match)
    PROVE  LET at == WerePositions(vars1, vars2, equal)
           IN  \A k \in DOMAIN at : Reached(vars1, vars2, match, at, k)
<1> DEFINE W == WerePositions(vars1, vars2, equal)
           length == Iterations(vars1, vars2)
           S == {k \in 0..length : Reached(vars1, vars2, match, W, k)}
<1> HIDE DEF W
<1>1. W \in [0..length -> Position] /\ W[0] = Start(vars1, vars2)
        /\ \A k \in 1..length : W[k] = AfterWere(vars1, vars2, equal, W[k - 1])
  BY WereUnfold DEF W
<1>2. Len(vars1) \in Nat /\ Len(vars2) \in Nat /\ DOMAIN vars1 = 1..Len(vars1)
        /\ DOMAIN vars2 = 1..Len(vars2) /\ length \in Nat
  BY DEF Iterations
<1> HIDE DEF length
<1>3. 0 \in S
  <2>1. W[0].n1 = 1 /\ W[0].n2 = 1
    BY <1>1 DEF Start, Positions
  <2>2. ASSUME 1 <= Len(vars1)
        PROVE  1 <= match[1] /\ W[0].additional = (Len(vars2) - Len(vars1)) - (1 - 1)
    <3>1. 1 \in DOMAIN vars1
      BY <1>2, <2>2
    <3>2. 1 <= match[1] /\ match[1] \in 1..Len(vars2) /\ match[1] - 1 <= Len(vars2) - Len(vars1)
      BY <1>2, <3>1, MatchBounds
    <3>3. Len(vars1) <= Len(vars2)
      BY <1>2, <3>2
    <3>4. W[0].additional = IF Len(vars2) > Len(vars1) THEN Len(vars2) - Len(vars1) ELSE 0
      BY <1>1 DEF Start, Positions
    <3>5. (Len(vars2) - Len(vars1)) - (1 - 1) = Len(vars2) - Len(vars1)
      BY <1>2
    <3>6. W[0].additional = Len(vars2) - Len(vars1)
      <4>1. CASE Len(vars2) > Len(vars1)
        BY <3>4, <4>1
      <4>2. CASE Len(vars2) = Len(vars1)
        <5>1. Len(vars2) - Len(vars1) = 0 /\ ~ (Len(vars2) > Len(vars1))
          BY <1>2, <4>2
        <5> QED BY <3>4, <5>1
      <4>3. Len(vars2) > Len(vars1) \/ Len(vars2) = Len(vars1)
        <5>1. \A a, b \in Nat : a <= b => b > a \/ b = a
          OBVIOUS
        <5>2. Len(vars1) \in Nat /\ Len(vars2) \in Nat
          BY <1>2
        <5> HIDE <1>2
        <5> QED BY <3>3, <5>1, <5>2
      <4> QED BY <4>1, <4>2, <4>3
    <3> QED BY <3>2, <3>5, <3>6
  <2>3. InStep(vars1, vars2, match, W[0])
    BY <1>2, <2>1, <2>2 DEF InStep
  <2> QED BY <1>2, <2>1, <2>3 DEF Reached
<1>4. ASSUME NEW k \in 1..length, k - 1 \in S PROVE k \in S
  <2> DEFINE at == W[k - 1]
             next == W[k]
  <2>1. k - 1 \in 0..length /\ at \in Position /\ next \in Position
            /\ next = AfterWere(vars1, vars2, equal, at)
    BY <1>1, <1>2
  <2>2. InStep(vars1, vars2, match, at)
    BY <1>4 DEF Reached
  <2>3. at.n1 <= Len(vars1) => (k - 1) + 2 <= at.n1 + at.n2
    BY <1>4 DEF Reached
  <2>4. ASSUME NEW j \in DOMAIN vars1, j < at.n1, Fixed(vars1[j])
        PROVE  \E i \in DOMAIN W : W[i].n1 = j /\ W[i].n2 = match[j]
    BY <1>4, <2>4 DEF Reached
  <2>5. at.n1 \in Nat /\ at.n2 \in Nat
    BY <2>1 DEF Position
  <2> HIDE DEF S, at, next
  <2>6. CASE at.n1 <= Len(vars1)
    <3>1. /\ Within(vars1, vars2, at)
          /\ Fixed(vars1[at.n1]) /\ ~ Skips(vars1, vars2, equal, at) => at.n2 = match[at.n1]
          /\ InStep(vars1, vars2, match, next)
      BY <2>1, <2>2, <2>6, StepInStep
    <3>2. CASE Skips(vars1, vars2, equal, at)
      <4>1. next.n1 = at.n1 /\ next.n2 = at.n2 + 1
        BY <2>1, <3>1, <3>2 DEF AfterWere, SkipNew, Positions
      <4>2. k + 2 <= next.n1 + next.n2
        BY <2>3, <2>5, <2>6, <4>1
      <4>3. Reached(vars1, vars2, match, W, k)
        BY <2>4, <3>1, <4>1, <4>2 DEF Reached, next
      <4> QED BY <1>2, <4>3 DEF S
    <3>3. CASE ~ Skips(vars1, vars2, equal, at)
      <4>1. next.n1 = at.n1 + 1 /\ next.n2 = at.n2 + 1
        BY <2>1, <3>1, <3>3 DEF AfterWere, SkipBoth, Positions
      <4>2. k + 2 <= next.n1 + next.n2
        BY <2>3, <2>5, <2>6, <4>1
      <4>3. ASSUME NEW j \in DOMAIN vars1, j < next.n1, Fixed(vars1[j])
            PROVE  \E i \in DOMAIN W : W[i].n1 = j /\ W[i].n2 = match[j]
        <5>1. CASE j < at.n1
          BY <2>4, <4>3, <5>1
        <5>2. CASE j = at.n1
          <6>1. k - 1 \in DOMAIN W
            BY <1>1, <2>1
          <6>2. at.n1 = j /\ at.n2 = match[j]
            BY <3>1, <3>3, <4>3, <5>2
          <6> QED BY <6>1, <6>2 DEF at
        <5> QED BY <1>2, <2>5, <4>1, <4>3, <5>1, <5>2
      <4>4. Reached(vars1, vars2, match, W, k)
        BY <3>1, <4>2, <4>3 DEF Reached, next
      <4> QED BY <1>2, <4>4 DEF S
    <3> QED BY <3>2, <3>3
  <2>7. CASE ~ at.n1 <= Len(vars1)
    <3>1. next = at
      BY <2>1, <2>7 DEF AfterWere, Within
    <3>2. Reached(vars1, vars2, match, W, k)
      BY <2>2, <2>4, <2>7, <3>1 DEF Reached, next
    <3> QED BY <1>2, <3>2 DEF S
  <2> QED BY <2>6, <2>7
<1> HIDE DEF S
<1>5. \A k \in 0..length : k \in S
  BY <1>2, <1>3, <1>4, UpTo
<1> QED BY <1>1, <1>5 DEF S, W

\* Every constant of the old version is compared with its match.
AllMet(vars1, match, at) ==
    \A j \in DOMAIN vars1 : Fixed(vars1[j]) =>
        \E i \in DOMAIN at : at[i].n1 = j /\ at[i].n2 = match[j]

\* The last iterations have nothing left to do.
LEMMA WereEnds ==
    ASSUME NEW V, NEW vars1 \in Seq(V), NEW vars2 \in Seq(V), NEW equal,
           NEW match \in [DOMAIN vars1 -> DOMAIN vars2], Matches(vars1, vars2, equal, match),
           \/ \A n \in DOMAIN vars1 : ~ BecameFixed(<<vars1[n], vars2[match[n]]>>)
           \/ Aligned(vars1, match)
    PROVE  AllMet(vars1, match, WerePositions(vars1, vars2, equal))
<1> DEFINE W == WerePositions(vars1, vars2, equal)
           length == Iterations(vars1, vars2)
<1> HIDE DEF W
<1>1. W \in [0..length -> Position]
  BY WereUnfold DEF W
<1>2. Len(vars1) \in Nat /\ Len(vars2) \in Nat /\ DOMAIN vars1 = 1..Len(vars1)
        /\ DOMAIN vars2 = 1..Len(vars2) /\ length = Len(vars1) + Len(vars2)
  BY DEF Iterations
<1> HIDE DEF length
<1>3. length \in DOMAIN W /\ W[length].n1 \in Nat /\ W[length].n2 \in Nat
  <2>1. length \in 0..length
    BY <1>2
  <2> QED BY <1>1, <2>1 DEF Position
<1>4. Reached(vars1, vars2, match, W, length)
  BY <1>3, WereReached DEF W
<1>5. W[length].n1 > Len(vars1)
  <2>1. SUFFICES ASSUME W[length].n1 <= Len(vars1) PROVE FALSE
    BY <1>2, <1>3
  <2>2. length + 2 <= W[length].n1 + W[length].n2
    BY <1>4, <2>1 DEF Reached
  <2>3. W[length].n2 <= match[W[length].n1] /\ W[length].n1 \in DOMAIN vars1
    BY <1>2, <1>3, <1>4, <2>1 DEF Reached, InStep
  <2>4. match[W[length].n1] \in 1..Len(vars2)
    BY <1>2, <2>3
  <2> QED BY <1>2, <1>3, <2>1, <2>2, <2>3, <2>4
<1>6. \A j \in DOMAIN vars1 : j < W[length].n1
  BY <1>2, <1>3, <1>5
<1> QED BY <1>4, <1>6 DEF Reached, AllMet, W

\* The n-th iteration of BecameConstant compares the n-th variables.
LEMMA BecameReached ==
    ASSUME NEW V, NEW vars1 \in Seq(V), NEW vars2 \in Seq(V), NEW equal,
           NEW match \in [DOMAIN vars1 -> DOMAIN vars2], Matches(vars1, vars2, equal, match),
           Aligned(vars1, match)
    PROVE  LET at == BecamePositions(vars1, vars2, equal)
           IN  /\ \A k \in DOMAIN at : at[k].n1 = at[k].n2 /\ at[k].n1 >= 1
               /\ \A n \in DOMAIN vars1 : n - 1 \in DOMAIN at /\ at[n - 1].n1 = n
<1> DEFINE B == BecamePositions(vars1, vars2, equal)
           length == Iterations(vars1, vars2)
           S == {k \in 0..length : /\ B[k].n1 = B[k].n2 /\ B[k].n1 >= 1
                                   /\ k <= Len(vars1) => B[k].n1 = k + 1}
<1> HIDE DEF B
<1>1. B \in [0..length -> Position] /\ B[0] = Start(vars1, vars2)
        /\ \A k \in 1..length : B[k] = AfterBecame(vars1, vars2, equal, B[k - 1])
  BY BecameUnfold DEF B
<1>2. Len(vars1) \in Nat /\ Len(vars2) \in Nat /\ DOMAIN vars1 = 1..Len(vars1)
        /\ DOMAIN vars2 = 1..Len(vars2) /\ length \in Nat /\ length = Len(vars1) + Len(vars2)
  BY DEF Iterations
<1> HIDE DEF length
<1>3. 0 \in S
  <2>1. B[0].n1 = 1 /\ B[0].n2 = 1
    BY <1>1 DEF Start, Positions
  <2> QED BY <1>2, <2>1
<1>4. ASSUME NEW k \in 1..length, k - 1 \in S PROVE k \in S
  <2> DEFINE at == B[k - 1]
             next == B[k]
  <2>1. k - 1 \in 0..length /\ at \in Position /\ next = AfterBecame(vars1, vars2, equal, at)
    <3>1. k - 1 \in 0..length
      BY <1>2
    <3> QED BY <1>1, <3>1
  <2>2. /\ at.n1 \in Nat /\ at.n2 = at.n1 /\ at.n1 >= 1
        /\ k - 1 <= Len(vars1) => at.n1 = (k - 1) + 1
    BY <1>4, <2>1 DEF Position
  <2> HIDE DEF S, at, next
  <2>3. CASE at.n1 <= Len(vars1)
    <3>1. at.n1 \in DOMAIN vars1
      BY <1>2, <2>2, <2>3
    <3>2. match[at.n1] = at.n1 /\ at.n1 \in DOMAIN vars2
      BY <3>1 DEF Aligned
    <3>3. ~ Other(vars1[at.n1], vars2[at.n2], equal)
      BY <2>2, <3>1, <3>2, MatchIsOnly
    <3>4. Within(vars1, vars2, at)
      BY <1>2, <2>2, <2>3, <3>2 DEF Within
    <3>5. next = SkipBoth(at)
      BY <2>1, <3>3, <3>4 DEF AfterBecame, Skips, PassesOver
    <3>6. next.n1 = at.n1 + 1 /\ next.n2 = at.n2 + 1
      BY <3>5 DEF SkipBoth, Positions
    <3> QED BY <1>2, <2>2, <3>6 DEF S, next
  <2>4. CASE ~ at.n1 <= Len(vars1)
    <3>1. next = at
      BY <2>1, <2>4 DEF AfterBecame, Within
    <3>2. ~ k <= Len(vars1)
      BY <1>2, <2>2, <2>4
    <3> QED BY <1>2, <2>2, <3>1, <3>2 DEF S, next
  <2> QED BY <2>3, <2>4
<1> HIDE DEF S
<1>5. \A k \in 0..length : k \in S
  BY <1>2, <1>3, <1>4, UpTo
<1>6. \A n \in DOMAIN vars1 : n - 1 \in 0..length /\ n - 1 <= Len(vars1) /\ (n - 1) + 1 = n
  BY <1>2
<1>7. \A n \in DOMAIN vars1 : B[n - 1].n1 = n
  <2>1. ASSUME NEW n \in DOMAIN vars1 PROVE B[n - 1].n1 = n
    BY <1>5, <1>6 DEF S
  <2> QED BY <2>1
<1>8. \A k \in 0..length : B[k].n1 = B[k].n2 /\ B[k].n1 >= 1
  BY <1>5 DEF S
<1> QED BY <1>1, <1>6, <1>7, <1>8 DEF B

\* Wherever the new version has additional variables in storage, WereConstant
\* reports the variables that were constant and are no longer, and nothing else,
\* although it counts the additional ones for the whole contract and skips one
\* only at a constant (constant.py:80); and BecameConstant those that have become
\* constant, if the additional ones are all at the end.
THEOREM ConstantsAreReported ==
    ASSUME NEW V, NEW vars1 \in Seq(V), NEW vars2 \in Seq(V), NEW equal
    PROVE  ConstantsReported(vars1, vars2, equal)
<1> SUFFICES ASSUME NEW match \in [DOMAIN vars1 -> DOMAIN vars2],
                    Matches(vars1, vars2, equal, match)
             PROVE  LET pairs == {<<vars1[n], vars2[match[n]]>> : n \in DOMAIN vars1}
                    IN  /\ (\A p \in pairs : ~ BecameFixed(p)) \/ Aligned(vars1, match) =>
                                WereConstant(vars1, vars2, equal)
                                    = {p \in pairs : Fixed(p[1]) /\ ~ Fixed(p[2])}
                        /\ Aligned(vars1, match) => BecameConstant(vars1, vars2, equal)
                                    = {p \in pairs : ~ Fixed(p[1]) /\ p[2].kept = "constant"}
  BY DEF ConstantsReported, Aligned
<1> DEFINE pairs == {<<vars1[n], vars2[match[n]]>> : n \in DOMAIN vars1}
<1>1. Len(vars1) \in Nat /\ DOMAIN vars1 = 1..Len(vars1)
        /\ Len(vars2) \in Nat /\ DOMAIN vars2 = 1..Len(vars2)
  OBVIOUS
<1>2. ASSUME (\A p \in pairs : ~ BecameFixed(p)) \/ Aligned(vars1, match)
      PROVE  WereConstant(vars1, vars2, equal) = {p \in pairs : Fixed(p[1]) /\ ~ Fixed(p[2])}
  <2> DEFINE W == WerePositions(vars1, vars2, equal)
             seen == {W[k] : k \in DOMAIN W}
  <2> HIDE DEF W
  <2>1. \/ \A n \in DOMAIN vars1 : ~ BecameFixed(<<vars1[n], vars2[match[n]]>>)
        \/ Aligned(vars1, match)
    BY <1>2
  <2>2. \A k \in DOMAIN W : W[k] \in Position /\ InStep(vars1, vars2, match, W[k])
    <3>1. \A k \in DOMAIN W : W[k] \in Position
      <4>1. W \in [0..Iterations(vars1, vars2) -> Position]
        BY WereUnfold DEF W
      <4> QED BY <4>1
    <3>2. \A k \in DOMAIN W : Reached(vars1, vars2, match, W, k)
      BY <2>1, WereReached DEF W
    <3> QED BY <3>1, <3>2 DEF Reached
  <2>3. ASSUME NEW p \in Compared(vars1, vars2, equal, seen), Fixed(p[1]), ~ Fixed(p[2])
        PROVE  p \in pairs
    <3>1. PICK at \in seen : /\ Within(vars1, vars2, at) /\ ~ Skips(vars1, vars2, equal, at)
                             /\ p = <<vars1[at.n1], vars2[at.n2]>>
      BY DEF Compared
    <3>2. at \in Position /\ InStep(vars1, vars2, match, at)
      BY <2>2
    <3>3. at.n1 <= Len(vars1) /\ at.n1 \in DOMAIN vars1
      BY <1>1, <3>1, <3>2 DEF Within, InStep, Position
    <3>4. Fixed(vars1[at.n1])
      BY <2>3, <3>1
    <3>5. at.n2 = match[at.n1]
      BY <2>1, <3>1, <3>2, <3>3, <3>4, StepInStep
    <3> QED BY <3>1, <3>3, <3>5
  <2>4. ASSUME NEW n \in DOMAIN vars1, Fixed(vars1[n])
        PROVE  <<vars1[n], vars2[match[n]]>> \in Compared(vars1, vars2, equal, seen)
    <3>1. PICK i \in DOMAIN W : W[i].n1 = n /\ W[i].n2 = match[n]
      <4>1. AllMet(vars1, match, W)
        BY <2>1, WereEnds DEF W
      <4> QED BY <2>4, <4>1 DEF AllMet
    <3>2. match[n] \in DOMAIN vars2
      OBVIOUS
    <3>3. Within(vars1, vars2, W[i])
      BY <1>1, <3>1, <3>2 DEF Within
    <3>4. ~ Other(vars1[n], vars2[match[n]], equal)
      BY DEF Matches
    <3>5. ~ Skips(vars1, vars2, equal, W[i])
      BY <3>1, <3>4 DEF Skips
    <3> QED BY <3>1, <3>3, <3>5 DEF Compared
  <2>5. WereConstant(vars1, vars2, equal)
            = {p \in Compared(vars1, vars2, equal, seen) : Fixed(p[1]) /\ ~ Fixed(p[2])}
    BY DEF WereConstant, W
  <2>6. ASSUME NEW p \in pairs, Fixed(p[1])
        PROVE  p \in Compared(vars1, vars2, equal, seen)
    <3>1. PICK n \in DOMAIN vars1 : p = <<vars1[n], vars2[match[n]]>>
      OBVIOUS
    <3> HIDE DEF seen
    <3> QED BY <2>4, <2>6, <3>1
  <2> HIDE DEF seen, pairs
  <2> QED BY <2>3, <2>5, <2>6
<1>3. ASSUME Aligned(vars1, match)
      PROVE  BecameConstant(vars1, vars2, equal)
                = {p \in pairs : ~ Fixed(p[1]) /\ p[2].kept = "constant"}
  <2> DEFINE B == BecamePositions(vars1, vars2, equal)
             seen == {B[k] : k \in DOMAIN B}
  <2> HIDE DEF B
  <2>1. /\ \A k \in DOMAIN B : B[k].n1 = B[k].n2 /\ B[k].n1 >= 1
        /\ \A n \in DOMAIN vars1 : n - 1 \in DOMAIN B /\ B[n - 1].n1 = n
    BY <1>3, BecameReached DEF B
  <2>2. \A k \in DOMAIN B : B[k] \in Position
    <3>1. B \in [0..Iterations(vars1, vars2) -> Position]
      BY BecameUnfold DEF B
    <3> QED BY <3>1
  <2>3. ASSUME NEW p \in Compared(vars1, vars2, equal, seen)
        PROVE  p \in pairs
    <3>1. PICK at \in seen : /\ Within(vars1, vars2, at)
                             /\ p = <<vars1[at.n1], vars2[at.n2]>>
      BY DEF Compared
    <3>2. at.n1 \in DOMAIN vars1 /\ at.n2 = at.n1
      BY <1>1, <2>1, <2>2, <3>1 DEF Within, Position
    <3> QED BY <1>3, <3>1, <3>2 DEF Aligned
  <2>4. ASSUME NEW p \in pairs
        PROVE  p \in Compared(vars1, vars2, equal, seen) /\ ~ Other(p[1], p[2], equal)
    <3>1. PICK n \in DOMAIN vars1 : p = <<vars1[n], vars2[match[n]]>>
      OBVIOUS
    <3>2. match[n] = n /\ n \in DOMAIN vars2 /\ ~ Other(vars1[n], vars2[n], equal)
      BY <1>3 DEF Aligned, Matches
    <3> DEFINE at == B[n - 1]
    <3>3. at \in seen /\ at.n1 = n /\ at.n2 = n
      BY <2>1
    <3> HIDE DEF at
    <3>4. Within(vars1, vars2, at) /\ ~ Skips(vars1, vars2, equal, at)
      BY <1>1, <3>2, <3>3 DEF Within, Skips
    <3>5. p = <<vars1[at.n1], vars2[at.n2]>>
      BY <3>1, <3>2, <3>3
    <3>6. p \in Compared(vars1, vars2, equal, seen)
      <4> HIDE DEF seen
      <4> QED BY <3>3, <3>4, <3>5 DEF Compared
    <3> QED BY <3>1, <3>2, <3>6
  <2>5. BecameConstant(vars1, vars2, equal)
            = {p \in Compared(vars1, vars2, equal, seen) :
                    ~ Fixed(p[1]) /\ p[2].kept = "constant" /\ ~ Other(p[1], p[2], equal)}
    BY DEF BecameConstant, B
  <2> HIDE DEF seen, pairs
  <2> QED BY <2>3, <2>4, <2>5
<1> QED BY <1>2, <1>3

=============================================================================
