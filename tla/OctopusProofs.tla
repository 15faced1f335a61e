---------------------------- MODULE OctopusProofs ----------------------------
(***************************************************************************)
(* Proofs about the parts of octopus. EvmMemory, for every word size,      *)
(* every set of bytes and every bound: the memory stays well typed under   *)
(* all instructions, and a regular instruction changes it as the EVM does. *)
(* The work is in two lemmas: extending the memory, however far, changes   *)
(* no byte, and a slice that is replaced by as many bytes moves no other   *)
(* byte. ControlFlow, for every code and every table of opcodes: the       *)
(* emulator, which jumps to the index of an instruction, goes where the    *)
(* EVM goes, which jumps to an offset, because the disassembled            *)
(* instructions are those that the EVM finds. WordArithmetic, for words of *)
(* any width: the results of Python's integers are the EVM's words.        *)
(***************************************************************************)
EXTENDS EvmMemory, ControlFlow, WordArithmetic, SequenceTheorems, TLAPS


----------------------------------------------------------------------------
(* The bytearray *)

\* A slice has the bytes of its range and is cut at the end of the sequence.
LEMMA SliceProperties ==
    ASSUME NEW s \in Seq(Byte), NEW from \in Nat, NEW to \in Nat
    PROVE  /\ Slice(s, from, to) \in Seq(Byte)
           /\ from <= to /\ to <= Len(s) =>
                /\ Len(Slice(s, from, to)) = to - from
                /\ \A i \in 1..(to - from) : Slice(s, from, to)[i] = s[from + i]
<1> DEFINE n == Least(to, Len(s))
<1>1. n \in Int /\ n <= Len(s) /\ (to <= Len(s) => n = to)
    BY LenProperties DEF Least
<1>2. \A i \in (from + 1)..n : s[i] \in Byte
    BY <1>1, LenProperties, ElementOfSeq
<1>3. /\ SubSeq(s, from + 1, n) \in Seq(Byte)
      /\ Len(SubSeq(s, from + 1, n)) =
            IF from + 1 <= n THEN n - (from + 1) + 1 ELSE 0
      /\ \A i \in 1..(n - (from + 1) + 1) :
            SubSeq(s, from + 1, n)[i] = s[(from + 1) + i - 1]
    BY <1>1, <1>2, SubSeqProperties
<1>4. Slice(s, from, to) = SubSeq(s, from + 1, n)
    BY DEF Slice
<1> HIDE DEF n
<1>5. QED
    BY <1>1, <1>3, <1>4

\* Zeros are bytes.
LEMMA ZerosProperties ==
    ASSUME NEW n \in Nat
    PROVE  /\ Zeros(n) \in Seq(Byte)
           /\ Len(Zeros(n)) = n
           /\ \A i \in 1..n : Zeros(n)[i] = ZeroByte
<1>1. Zeros(n) \in [1..n -> Byte]
    BY ByteAssumption DEF Zeros
<1>2. Zeros(n) \in Seq(Byte)
    BY <1>1, SeqDef
<1>3. Len(Zeros(n)) = n
    BY <1>1, <1>2, LenProperties
<1>4. QED
    BY <1>2, <1>3 DEF Zeros

\* The memory reaches as far as it must, and has the same bytes as before.
LEMMA CoveringProperties ==
    ASSUME NEW m \in Seq(Byte), NEW end \in Nat
    PROVE  /\ Covering(m, end) \in Seq(Byte)
           /\ end <= Len(Covering(m, end))
           /\ Len(m) <= Len(Covering(m, end))
           /\ end <= Len(m) => Covering(m, end) = m
           /\ \A a \in Nat : ByteAt(Covering(m, end), a) = ByteAt(m, a)
<1>1. Len(m) \in Nat
    BY LenProperties
<1>2. CASE Len(m) < end
    <2>1. /\ m \o Zeros(end) \in Seq(Byte)
          /\ Len(m \o Zeros(end)) = Len(m) + end
          /\ \A i \in 1..(Len(m) + end) : (m \o Zeros(end))[i] =
                IF i <= Len(m) THEN m[i] ELSE Zeros(end)[i - Len(m)]
        BY ConcatProperties, ZerosProperties
    <2>2. Covering(m, end) = m \o Zeros(end)
        BY <1>2 DEF Covering, Extended
    <2>3. ASSUME NEW a \in Nat
          PROVE  ByteAt(m \o Zeros(end), a) = ByteAt(m, a)
        <3>1. \A i \in 1..end : Zeros(end)[i] = ZeroByte
            BY ZerosProperties
        <3>2. CASE a < Len(m)
            BY <1>1, <2>1, <3>2 DEF ByteAt
        <3>3. CASE Len(m) <= a /\ a < Len(m) + end
            <4>1. /\ a + 1 \in 1..(Len(m) + end) /\ ~ (a + 1 <= Len(m))
                  /\ a + 1 - Len(m) \in 1..end
                BY <1>1, <3>3
            <4>2. (m \o Zeros(end))[a + 1] = ZeroByte
                BY <2>1, <3>1, <4>1
            <4>3. QED
                BY <1>1, <2>1, <3>3, <4>2 DEF ByteAt
        <3>4. CASE Len(m) + end <= a
            BY <1>1, <2>1, <3>4 DEF ByteAt
        <3>5. QED
            BY <1>1, <3>2, <3>3, <3>4
    <2>4. QED
        BY <1>1, <1>2, <2>1, <2>2, <2>3
<1>3. CASE ~ (Len(m) < end)
    BY <1>1, <1>3 DEF Covering
<1>4. QED
    BY <1>2, <1>3

\* Assigning to a slice gives bytes again, whatever the lengths.
LEMMA SetSliceType ==
    ASSUME NEW s \in Seq(Byte), NEW from \in Nat, NEW to \in Nat, NEW v \in Seq(Byte)
    PROVE  SetSlice(s, from, to, v) \in Seq(Byte)
<1>1. Len(s) \in Nat
    BY LenProperties
<1>2. SubSeq(s, 1, Least(from, Len(s))) \in Seq(Byte)
    <2>1. \A i \in 1..Least(from, Len(s)) : s[i] \in Byte
        BY <1>1, ElementOfSeq DEF Least
    <2>2. QED
        BY <1>1, <2>1, SubSeqProperties DEF Least
<1>3. SubSeq(s, Least(to, Len(s)) + 1, Len(s)) \in Seq(Byte)
    <2>1. \A i \in (Least(to, Len(s)) + 1)..Len(s) : s[i] \in Byte
        BY <1>1, ElementOfSeq DEF Least
    <2>2. QED
        BY <1>1, <2>1, SubSeqProperties DEF Least
<1>4. QED
    BY <1>2, <1>3, ConcatProperties DEF SetSlice

\* What is left of a sequence behind its first n elements.
LEMMA RestProperties ==
    ASSUME NEW s \in Seq(Byte), NEW n \in Nat, n <= Len(s)
    PROVE  /\ SubSeq(s, n + 1, Len(s)) \in Seq(Byte)
           /\ Len(SubSeq(s, n + 1, Len(s))) = Len(s) - n
           /\ \A i \in 1..(Len(s) - n) : SubSeq(s, n + 1, Len(s))[i] = s[n + i]
<1>1. Len(s) \in Nat
    BY LenProperties
<1>2. \A i \in (n + 1)..Len(s) : s[i] \in Byte
    BY <1>1, ElementOfSeq
<1>3. /\ SubSeq(s, n + 1, Len(s)) \in Seq(Byte)
      /\ Len(SubSeq(s, n + 1, Len(s))) =
            IF n + 1 <= Len(s) THEN Len(s) - (n + 1) + 1 ELSE 0
      /\ \A i \in 1..(Len(s) - (n + 1) + 1) :
            SubSeq(s, n + 1, Len(s))[i] = s[(n + 1) + i - 1]
    BY <1>1, <1>2, SubSeqProperties
<1>4. QED
    BY <1>1, <1>3

\* A slice that starts inside the sequence is replaced: what is before it stays,
\* what is behind it moves by the difference of the lengths.
LEMMA SetSliceBytes ==
    ASSUME NEW s \in Seq(Byte), NEW from \in Nat, NEW to \in Nat, NEW v \in Seq(Byte),
           from <= Len(s), from <= to
    PROVE  \A a \in Nat :
              ByteAt(SetSlice(s, from, to, v), a) =
                IF a < from THEN ByteAt(s, a)
                ELSE IF a < from + Len(v) THEN v[a - from + 1]
                ELSE ByteAt(s, a - (from + Len(v)) + to)
<1> DEFINE front == SubSeq(s, 1, from)
           cut == Least(to, Len(s))
           back == SubSeq(s, cut + 1, Len(s))
           fv == front \o v
           e == from + Len(v)
           r == fv \o back
<1>1. Len(s) \in Nat /\ Len(v) \in Nat /\ e \in Nat /\ from <= e
    BY LenProperties
<1>2. cut \in Nat /\ cut <= to /\ cut <= Len(s) /\ (cut = to \/ cut = Len(s))
    BY <1>1 DEF Least
<1>3. SetSlice(s, from, to, v) = r
    BY <1>1 DEF SetSlice, Least
<1>4. /\ front \in Seq(Byte) /\ Len(front) = from
      /\ \A i \in 1..from : front[i] = s[i]
    <2>1. \A i \in 1..from : s[i] \in Byte
        BY <1>1, ElementOfSeq
    <2>2. QED
        BY <1>1, <2>1, SubSeqProperties
<1> HIDE DEF cut
<1>5. /\ back \in Seq(Byte) /\ Len(back) = Len(s) - cut
      /\ \A i \in 1..(Len(s) - cut) : back[i] = s[cut + i]
    BY <1>2, RestProperties
<1> HIDE DEF front, back
<1>6. /\ fv \in Seq(Byte) /\ Len(fv) = e
      /\ \A i \in 1..e : fv[i] = IF i <= from THEN s[i] ELSE v[i - from]
    <2>1. /\ front \o v \in Seq(Byte) /\ Len(front \o v) = Len(front) + Len(v)
          /\ \A i \in 1..(Len(front) + Len(v)) :
                (front \o v)[i] = IF i <= Len(front) THEN front[i] ELSE v[i - Len(front)]
        BY <1>4, ConcatProperties
    <2>2. Len(front) + Len(v) = e
        BY <1>4
    <2>3. QED
        BY <1>4, <2>1, <2>2 DEF fv
<1> HIDE DEF fv
<1>7. /\ Len(r) = e + (Len(s) - cut)
      /\ \A i \in 1..(e + (Len(s) - cut)) :
            r[i] = IF i <= e THEN fv[i] ELSE back[i - e]
    <2>1. fv \in Seq(Byte) /\ back \in Seq(Byte) /\ Len(fv) = e /\ Len(back) = Len(s) - cut
        BY <1>5, <1>6
    <2>2. /\ Len(r) = Len(fv) + Len(back)
          /\ \A i \in 1..(Len(fv) + Len(back)) :
                r[i] = IF i <= Len(fv) THEN fv[i] ELSE back[i - Len(fv)]
        BY <2>1, ConcatProperties DEF r
    <2>3. QED
        BY <2>1, <2>2
<1> HIDE DEF r
<1>8. ASSUME NEW a \in Nat
      PROVE  ByteAt(r, a) = IF a < from THEN ByteAt(s, a)
                            ELSE IF a < e THEN v[a - from + 1]
                            ELSE ByteAt(s, a - e + to)
    <2> HIDE DEF e
    <2>1. CASE a < e
        <3>1. a + 1 \in 1..(e + (Len(s) - cut)) /\ a + 1 \in 1..e /\ a < Len(r)
            BY <1>1, <1>2, <1>7, <2>1
        <3>2. r[a + 1] = fv[a + 1]
            BY <1>7, <3>1
        <3>3. ByteAt(r, a) = fv[a + 1]
            BY <3>1, <3>2 DEF ByteAt
        <3>4. CASE a < from
            BY <1>1, <1>6, <3>1, <3>3, <3>4 DEF ByteAt
        <3>5. CASE from <= a
            <4>1. ~ (a + 1 <= from) /\ a + 1 - from = a - from + 1
                BY <3>5
            <4>2. fv[a + 1] = v[a - from + 1]
                BY <1>6, <3>1, <4>1
            <4>3. QED
                BY <2>1, <3>3, <3>5, <4>2
        <3>6. QED
            BY <3>4, <3>5
    <2>2. CASE e <= a /\ cut = to
        <3>1. CASE a - e + to < Len(s)
            <4>1. /\ a + 1 \in 1..(e + (Len(s) - cut)) /\ ~ (a + 1 <= e)
                  /\ a + 1 - e \in 1..(Len(s) - cut) /\ a < Len(r)
                BY <1>1, <1>2, <1>7, <2>2, <3>1
            <4>2. r[a + 1] = back[a + 1 - e]
                BY <1>1, <1>2, <1>7, <4>1, SMTT(20)
            <4>3. back[a + 1 - e] = s[cut + (a + 1 - e)]
                BY <1>5, <4>1
            <4>4. cut + (a + 1 - e) = (a - e + to) + 1
                BY <1>1, <2>2
            <4>5. QED
                BY <1>1, <2>2, <3>1, <4>1, <4>2, <4>3, <4>4 DEF ByteAt
        <3>2. CASE Len(s) <= a - e + to
            BY <1>1, <1>7, <2>2, <3>2 DEF ByteAt
        <3>3. QED
            BY <1>1, <2>2, <3>1, <3>2
    <2>3. CASE e <= a /\ cut = Len(s)
        BY <1>1, <1>2, <1>7, <2>3 DEF ByteAt
    <2>4. QED
        BY <1>1, <1>2, <2>1, <2>2, <2>3
<1>9. QED
    BY <1>3, <1>8

\* A word is a sequence of bytes, of the length of a word.
LEMMA WordProperties ==
    /\ \A w \in Word : w \in Seq(Byte) /\ Len(w) = WordSize
    /\ \A s \in Seq(Byte) : Len(s) = WordSize => s \in Word
<1>1. WordSize \in Nat
    BY SizeAssumption
<1>2. ASSUME NEW w \in Word PROVE w \in Seq(Byte) /\ Len(w) = WordSize
    <2>1. w \in Seq(Byte)
        BY <1>1, SeqDef DEF Word
    <2>2. QED
        BY <1>1, <2>1, LenProperties DEF Word
<1>3. ASSUME NEW s \in Seq(Byte), Len(s) = WordSize PROVE s \in Word
    BY <1>3, LenProperties DEF Word
<1>4. QED
    BY <1>2, <1>3

\* As many bytes as the slice has replace it and move nothing.
LEMMA ReplaceProperties ==
    ASSUME NEW m \in Seq(Byte), NEW p \in Nat, NEW n \in Nat, NEW v \in Seq(Byte),
           p <= Len(m), Len(v) = n
    PROVE  \A a \in Nat : ByteAt(SetSlice(m, p, p + n, v), a) =
                IF Within(a, p, n) THEN v[a - p + 1] ELSE ByteAt(m, a)
<1> DEFINE to == p + n
<1>1. to \in Nat /\ p <= to /\ p <= Len(m)
    OBVIOUS
<1> HIDE DEF to
<1>2. \A a \in Nat : ByteAt(SetSlice(m, p, to, v), a) =
                IF a < p THEN ByteAt(m, a)
                ELSE IF a < p + Len(v) THEN v[a - p + 1]
                ELSE ByteAt(m, a - (p + Len(v)) + to)
    BY ONLY m \in Seq(Byte), p \in Nat, v \in Seq(Byte), <1>1, SetSliceBytes
<1>3. ASSUME NEW a \in Nat
      PROVE  ByteAt(SetSlice(m, p, to, v), a) =
                IF Within(a, p, n) THEN v[a - p + 1] ELSE ByteAt(m, a)
    <2>1. a - (p + Len(v)) + to = a
        BY DEF to
    <2>2. QED
        BY <1>2, <2>1 DEF Within
<1>4. QED
    BY <1>3 DEF to

\* The same of a slice the memory is extended to hold.
LEMMA CoveredReplaceProperties ==
    ASSUME NEW m \in Seq(Byte), NEW p \in Nat, NEW n \in Nat, NEW v \in Seq(Byte),
           Len(v) = n
    PROVE  \A a \in Nat : ByteAt(SetSlice(Covering(m, p + n), p, p + n, v), a) =
                IF Within(a, p, n) THEN v[a - p + 1] ELSE ByteAt(m, a)
<1> DEFINE c == Covering(m, p + n)
<1>1. p + n \in Nat
    OBVIOUS
<1>2. /\ c \in Seq(Byte) /\ p + n <= Len(c)
      /\ \A a \in Nat : ByteAt(c, a) = ByteAt(m, a)
    BY <1>1, CoveringProperties
<1>3. Len(c) \in Nat
    BY <1>2, LenProperties
<1> HIDE DEF c
<1>4. p <= Len(c)
    BY <1>2, <1>3
<1>5. \A a \in Nat : ByteAt(SetSlice(c, p, p + n, v), a) =
                IF Within(a, p, n) THEN v[a - p + 1] ELSE ByteAt(c, a)
    BY <1>2, <1>4, ReplaceProperties
<1>6. \A a \in Nat : ByteAt(SetSlice(c, p, p + n, v), a) =
                IF Within(a, p, n) THEN v[a - p + 1] ELSE ByteAt(m, a)
    BY <1>2, <1>5
<1>7. QED
    BY <1>6 DEF c

\* A byte inserted behind all others: what is behind the empty slice is zero
\* before and after.
LEMMA InsertProperties ==
    ASSUME NEW m \in Seq(Byte), NEW p \in Nat, NEW b \in Byte, Len(m) <= p
    PROVE  \A a \in Nat : ByteAt(Stored8(m, p, b), a) = IF a = p THEN b ELSE ByteAt(m, a)
<1> DEFINE c == Covering(m, p)
           one == <<b>>
<1>1. /\ c \in Seq(Byte) /\ p <= Len(c)
      /\ \A a \in Nat : ByteAt(c, a) = ByteAt(m, a)
    BY CoveringProperties
<1>2. one \in Seq(Byte) /\ Len(one) = 1 /\ one[1] = b /\ p <= p
    OBVIOUS
<1>3. Len(m) \in Nat
    BY LenProperties
<1>4. Stored8(m, p, b) = SetSlice(c, p, p, one)
    BY DEF Stored8
<1> HIDE DEF c, one
<1>5. \A a \in Nat : ByteAt(SetSlice(c, p, p, one), a) =
                IF a < p THEN ByteAt(c, a)
                ELSE IF a < p + Len(one) THEN one[a - p + 1]
                ELSE ByteAt(c, a - (p + Len(one)) + p)
    BY <1>1, <1>2, SetSliceBytes, ZenonT(30)
<1>6. ASSUME NEW a \in Nat
      PROVE  ByteAt(SetSlice(c, p, p, one), a) = IF a = p THEN b ELSE ByteAt(m, a)
    <2>1. CASE a < p
        BY <1>1, <1>5, <2>1
    <2>2. CASE a = p
        <3>1. a - p + 1 = 1 /\ ~ (a < p) /\ a < p + Len(one)
            BY <1>2, <2>2
        <3>2. ByteAt(SetSlice(c, p, p, one), a) = one[a - p + 1]
            BY <1>5, <3>1
        <3>3. QED
            BY <1>2, <2>2, <3>1, <3>2
    <2>3. CASE p < a
        <3>1. /\ a - (p + Len(one)) + p = a - 1 /\ ~ (a < p)
              /\ ~ (a < p + Len(one)) /\ a - 1 \in Nat
            BY <1>2, <2>3
        <3>2. ByteAt(SetSlice(c, p, p, one), a) = ByteAt(c, a - 1)
            BY <1>5, <3>1
        <3>3. ByteAt(c, a - 1) = ByteAt(m, a - 1)
            BY <1>1, <3>1
        <3>4. ByteAt(m, a - 1) = ZeroByte /\ ByteAt(m, a) = ZeroByte
            BY <1>3, <2>3 DEF ByteAt
        <3>5. QED
            BY <2>3, <3>2, <3>3, <3>4
    <2>4. QED
        BY <2>1, <2>2, <2>3
<1>7. QED
    BY <1>4, <1>6

----------------------------------------------------------------------------
\* The operands of an instruction are natural numbers and bytes.
LEMMA Operands ==
    ASSUME NEW p \in Offsets, NEW off \in Offsets, NEW len \in Lengths, NEW data \in Sources
    PROVE  /\ p \in Nat /\ off \in Nat /\ len \in Nat /\ WordSize \in Nat
           /\ p + len \in Nat /\ p + WordSize \in Nat /\ off + len \in Nat
           /\ data \in Seq(Byte) /\ Len(data) \in Nat
           /\ Slice(data, off, off + len) \in Seq(Byte)
<1>1. p \in Nat /\ off \in Nat /\ len \in Nat /\ WordSize \in Nat /\ data \in Seq(Byte)
    BY SizeAssumption
<1>2. off + len \in Nat /\ p + len \in Nat /\ p + WordSize \in Nat
    BY <1>1
<1>3. QED
    BY <1>1, <1>2, SliceProperties, LenProperties

\* The memory is a sequence of bytes after every instruction, and MLOAD, which
\* makes the memory long enough first, always finds a whole word.
THEOREM TypeCorrect == Spec => []TypeOK
<1>1. Init => TypeOK
    <2>1. WordSize \in Nat
        BY SizeAssumption
    <2>2. Zeros(WordSize) \in Word
        BY <2>1, ZerosProperties, WordProperties
    <2>3. QED
        BY <2>2 DEF Init, TypeOK
<1>2. TypeOK /\ [Next]_vars => TypeOK'
    <2> SUFFICES ASSUME TypeOK, [Next]_vars PROVE TypeOK'
        OBVIOUS
    <2> USE DEF TypeOK
    <2>1. CASE MStore
        <3>1. PICK p \in Offsets, w \in Word :
                    memory' = Stored(memory, p, w) /\ UNCHANGED word
            BY <2>1 DEF MStore
        <3>2. p \in Nat /\ p + WordSize \in Nat /\ w \in Seq(Byte)
            BY SizeAssumption, WordProperties
        <3>3. Covering(memory, p + WordSize) \in Seq(Byte)
            BY <3>2, CoveringProperties
        <3>4. memory' \in Seq(Byte)
            BY <3>1, <3>2, <3>3, SetSliceType DEF Stored
        <3>5. QED
            BY <3>1, <3>4
    <2>2. CASE MStore8
        <3>1. PICK p \in Offsets, b \in Byte :
                    memory' = Stored8(memory, p, b) /\ UNCHANGED word
            BY <2>2 DEF MStore8
        <3>2. p \in Nat /\ <<b>> \in Seq(Byte)
            BY SizeAssumption
        <3>3. Covering(memory, p) \in Seq(Byte)
            BY <3>2, CoveringProperties
        <3>4. memory' \in Seq(Byte)
            BY <3>1, <3>2, <3>3, SetSliceType DEF Stored8
        <3>5. QED
            BY <3>1, <3>4
    <2>3. CASE MLoad
        <3>1. PICK p \in Offsets : /\ memory' = Covering(memory, p + WordSize)
                                   /\ word' = WordAt(memory', p)
            BY <2>3 DEF MLoad
        <3>2. p \in Nat /\ WordSize \in Nat /\ p + WordSize \in Nat /\ p <= p + WordSize
            BY SizeAssumption
        <3>3. memory' \in Seq(Byte) /\ p + WordSize <= Len(memory')
            BY <3>1, <3>2, CoveringProperties
        <3>4. /\ WordAt(memory', p) \in Seq(Byte)
              /\ Len(WordAt(memory', p)) = (p + WordSize) - p
            BY <3>2, <3>3, SliceProperties DEF WordAt
        <3>5. (p + WordSize) - p = WordSize
            BY <3>2
        <3>6. QED
            BY <3>1, <3>3, <3>4, <3>5, WordProperties
    <2>4. CASE Copy
        <3>1. PICK op \in CopyOps, dst \in Offsets, off \in Offsets, len \in Lengths,
                   data \in Sources :
                    /\ memory' = Copied(memory, dst, len, Slice(data, off, off + len))
                    /\ UNCHANGED word
            BY <2>4 DEF Copy
        <3>2. /\ dst \in Nat /\ dst + len \in Nat
              /\ Slice(data, off, off + len) \in Seq(Byte)
            BY Operands
        <3>3. Covering(memory, dst + len) \in Seq(Byte)
            BY <3>2, CoveringProperties
        <3>4. memory' \in Seq(Byte)
            BY <3>1, <3>2, <3>3, SetSliceType DEF Copied
        <3>5. QED
            BY <3>1, <3>4
    <2>5. CASE CopyToWindow
        <3>1. PICK op \in WindowOps, dst \in Offsets, off \in Offsets, len \in Lengths,
                   data \in Sources :
                    /\ memory' = SetSlice(memory, dst, dst + len, Slice(data, off, off + len))
                    /\ UNCHANGED word
            BY <2>5 DEF CopyToWindow
        <3>2. /\ dst \in Nat /\ dst + len \in Nat
              /\ Slice(data, off, off + len) \in Seq(Byte)
            BY Operands
        <3>3. memory' \in Seq(Byte)
            BY <3>1, <3>2, SetSliceType
        <3>4. QED
            BY <3>1, <3>3
    <2>6. CASE UNCHANGED vars
        BY <2>6 DEF vars
    <2>7. QED
        BY <2>1, <2>2, <2>3, <2>4, <2>5, <2>6 DEF Next
<1>3. QED
    BY <1>1, <1>2, PTL DEF Spec

----------------------------------------------------------------------------
\* What a copy takes from a source that is long enough.
LEMMA SourceBytes ==
    ASSUME NEW data \in Seq(Byte), NEW off \in Nat, NEW len \in Nat, NEW dst \in Nat,
           off + len <= Len(data)
    PROVE  /\ Slice(data, off, off + len) \in Seq(Byte)
           /\ Len(Slice(data, off, off + len)) = len
           /\ \A a \in Nat : Within(a, dst, len) =>
                Slice(data, off, off + len)[a - dst + 1] = ByteAt(data, off + a - dst)
<1> DEFINE to == off + len
           v == Slice(data, off, to)
<1>1. to \in Nat /\ off <= to /\ to <= Len(data) /\ to - off = len /\ Len(data) \in Nat
    BY LenProperties
<1> HIDE DEF to
<1>2. v \in Seq(Byte) /\ Len(v) = to - off /\ \A i \in 1..(to - off) : v[i] = data[off + i]
    BY <1>1, SliceProperties
<1> HIDE DEF v
<1>3. ASSUME NEW a \in Nat, Within(a, dst, len)
      PROVE  v[a - dst + 1] = ByteAt(data, off + a - dst)
    <2>1. /\ a - dst + 1 \in 1..(to - off) /\ off + (a - dst + 1) = (off + a - dst) + 1
          /\ off + a - dst < Len(data)
        BY <1>1, <1>3 DEF Within, to
    <2>2. QED
        BY <1>2, <2>1 DEF ByteAt
<1>4. QED
    BY <1>1, <1>2, <1>3 DEF v, to

\* A step agrees with the EVM when every byte of the memory does.
LEMMA Agreement ==
    ASSUME memory \in Seq(Byte), memory' \in Seq(Byte), instr'.op # "MLOAD",
           Regular(instr', memory) =>
                \A a \in Nat : ByteAt(memory', a) = EvmByte(instr', memory, a)
    PROVE  StepAgrees
<1>1. Len(memory) + Len(memory') \in Nat
    BY LenProperties
<1>2. QED
    BY <1>1 DEF StepAgrees

\* MSTORE writes its word and nothing else.
LEMMA MStoreAgrees == TypeOK /\ TypeOK' /\ MStore => StepAgrees
<1> SUFFICES ASSUME TypeOK, TypeOK', MStore PROVE StepAgrees
    OBVIOUS
<1>1. PICK p \in Offsets, w \in Word :
            /\ memory' = Stored(memory, p, w)
            /\ instr' = Instruction("MSTORE", p, 0, WordSize, w)
    BY DEF MStore
<1>2. p \in Nat /\ WordSize \in Nat /\ w \in Seq(Byte) /\ Len(w) = WordSize
    BY SizeAssumption, WordProperties
<1>3. \A a \in Nat : ByteAt(memory', a) =
            IF Within(a, p, WordSize) THEN w[a - p + 1] ELSE ByteAt(memory, a)
    <2>1. memory \in Seq(Byte)
        BY DEF TypeOK
    <2>2. \A a \in Nat :
            ByteAt(SetSlice(Covering(memory, p + WordSize), p, p + WordSize, w), a) =
                IF Within(a, p, WordSize) THEN w[a - p + 1] ELSE ByteAt(memory, a)
        BY ONLY <1>2, <2>1, CoveredReplaceProperties, SMTT(20)
    <2>3. QED
        BY <1>1, <2>2 DEF Stored
<1>4. ASSUME NEW a \in Nat PROVE ByteAt(memory', a) = EvmByte(instr', memory, a)
    <2>1. EvmByte(instr', memory, a) =
            IF Within(a, p, WordSize) THEN ByteAt(w, 0 + a - p) ELSE ByteAt(memory, a)
        BY <1>1 DEF EvmByte, Written, Instruction
    <2>2. CASE Within(a, p, WordSize)
        <3>1. 0 + a - p < Len(w) /\ (0 + a - p) + 1 = a - p + 1
            BY <1>2, <2>2 DEF Within
        <3>2. ByteAt(w, 0 + a - p) = w[a - p + 1]
            BY <3>1 DEF ByteAt
        <3>3. QED
            BY <1>3, <2>1, <2>2, <3>2
    <2>3. CASE ~ Within(a, p, WordSize)
        BY <1>3, <2>1, <2>3
    <2>4. QED
        BY <2>2, <2>3
<1>5. instr'.op # "MLOAD"
    BY <1>1 DEF Instruction
<1>6. QED
    BY <1>4, <1>5, Agreement DEF TypeOK

\* MSTORE8 behind all other bytes writes its byte and nothing else.
LEMMA MStore8Agrees == TypeOK /\ TypeOK' /\ MStore8 => StepAgrees
<1> SUFFICES ASSUME TypeOK, TypeOK', MStore8 PROVE StepAgrees
    OBVIOUS
<1>1. PICK p \in Offsets, b \in Byte :
            /\ memory' = Stored8(memory, p, b)
            /\ instr' = Instruction("MSTORE8", p, 0, 1, <<b>>)
    BY DEF MStore8
<1>2. p \in Nat /\ Len(memory) \in Nat
    BY SizeAssumption, LenProperties DEF TypeOK
<1>3. ASSUME Regular(instr', memory), NEW a \in Nat
      PROVE  ByteAt(memory', a) = EvmByte(instr', memory, a)
    <2>1. Len(memory) <= p
        BY <1>1, <1>2, <1>3 DEF Regular, Instruction, CopyOps, WindowOps
    <2>2. ByteAt(memory', a) = IF a = p THEN b ELSE ByteAt(memory, a)
        BY <1>1, <1>2, <2>1, InsertProperties DEF TypeOK
    <2>3. EvmByte(instr', memory, a) =
            IF Within(a, p, 1) THEN ByteAt(<<b>>, 0 + a - p) ELSE ByteAt(memory, a)
        BY <1>1 DEF EvmByte, Written, Instruction
    <2>4. Within(a, p, 1) <=> a = p
        BY <1>2 DEF Within
    <2>5. ByteAt(<<b>>, 0) = b
        BY DEF ByteAt
    <2>6. a = p => 0 + a - p = 0
        BY <1>2
    <2>7. QED
        BY <2>2, <2>3, <2>4, <2>5, <2>6
<1>4. instr'.op # "MLOAD"
    BY <1>1 DEF Instruction
<1>5. QED
    BY <1>3, <1>4, Agreement DEF TypeOK

\* MLOAD changes no byte and loads the word the EVM would load.
LEMMA MLoadAgrees == TypeOK /\ TypeOK' /\ MLoad => StepAgrees
<1> SUFFICES ASSUME TypeOK, TypeOK', MLoad PROVE StepAgrees
    OBVIOUS
<1>1. PICK p \in Offsets :
            /\ memory' = Covering(memory, p + WordSize)
            /\ word' = WordAt(memory', p)
            /\ instr' = Instruction("MLOAD", p, 0, WordSize, <<>>)
    BY DEF MLoad
<1>2. p \in Nat /\ WordSize \in Nat /\ p + WordSize \in Nat /\ p <= p + WordSize
    BY SizeAssumption
<1>3. /\ memory' \in Seq(Byte) /\ Len(memory') \in Nat /\ Len(memory) \in Nat
      /\ word' \in Word
    BY LenProperties DEF TypeOK
<1>4. /\ p + WordSize <= Len(memory')
      /\ \A a \in Nat : ByteAt(memory', a) = ByteAt(memory, a)
    BY <1>1, <1>2, CoveringProperties DEF TypeOK
<1>5. \A a \in Nat : EvmByte(instr', memory, a) = ByteAt(memory, a)
    BY <1>1 DEF EvmByte, Instruction
<1>6. ASSUME NEW k \in 1..WordSize
      PROVE  word'[k] = ByteAt(memory, p + k - 1)
    <2>1. (p + WordSize) - p = WordSize
        BY <1>2
    <2>2. WordAt(memory', p)[k] = memory'[p + k]
        BY <1>2, <1>3, <1>4, <2>1, SliceProperties DEF WordAt
    <2>3. p + k - 1 \in Nat /\ p + k - 1 < Len(memory') /\ (p + k - 1) + 1 = p + k
        BY <1>2, <1>3, <1>4
    <2>4. memory'[p + k] = ByteAt(memory', p + k - 1)
        BY <2>3 DEF ByteAt
    <2>5. ByteAt(memory', p + k - 1) = ByteAt(memory, p + k - 1)
        BY <1>4, <2>3
    <2>6. QED
        BY <1>1, <2>2, <2>4, <2>5
<1>7. word' = [k \in 1..WordSize |-> ByteAt(memory, p + k - 1)]
    BY <1>3, <1>6 DEF Word
<1>8. instr'.dst = p
    BY <1>1 DEF Instruction
<1>9. QED
    BY <1>3, <1>4, <1>5, <1>7, <1>8 DEF StepAgrees

\* A copy from a source that is long enough writes what it should.
LEMMA CopyAgrees == TypeOK /\ TypeOK' /\ Copy => StepAgrees
<1> SUFFICES ASSUME TypeOK, TypeOK', Copy PROVE StepAgrees
    OBVIOUS
<1>1. PICK op \in CopyOps, dst \in Offsets, off \in Offsets, len \in Lengths,
           data \in Sources :
            /\ memory' = Copied(memory, dst, len, Slice(data, off, off + len))
            /\ instr' = Instruction(op, dst, off, len, data)
    BY DEF Copy
<1>2. op \notin WindowOps \cup {"MSTORE", "MLOAD", "MSTORE8"}
    BY DEF CopyOps, WindowOps
<1>3. dst \in Nat /\ off \in Nat /\ len \in Nat /\ data \in Seq(Byte)
    BY Operands
<1>4. ASSUME Regular(instr', memory), NEW a \in Nat
      PROVE  ByteAt(memory', a) = EvmByte(instr', memory, a)
    <2> DEFINE v == Slice(data, off, off + len)
    <2>1. off + len <= Len(data)
        BY <1>1, <1>2, <1>4 DEF Regular, Instruction
    <2>2. /\ v \in Seq(Byte) /\ Len(v) = len
          /\ Within(a, dst, len) => v[a - dst + 1] = ByteAt(data, off + a - dst)
        BY <1>3, <2>1, SourceBytes
    <2> HIDE DEF v
    <2>3. memory' = SetSlice(Covering(memory, dst + len), dst, dst + len, v)
        BY <1>1 DEF Copied, v
    <2>4. ByteAt(memory', a) =
            IF Within(a, dst, len) THEN v[a - dst + 1] ELSE ByteAt(memory, a)
        <3>1. /\ memory \in Seq(Byte) /\ v \in Seq(Byte)
              /\ dst \in Nat /\ len \in Nat /\ Len(v) = len
            BY <1>3, <2>2 DEF TypeOK
        <3>2. \A b \in Nat :
                ByteAt(SetSlice(Covering(memory, dst + len), dst, dst + len, v), b) =
                    IF Within(b, dst, len) THEN v[b - dst + 1] ELSE ByteAt(memory, b)
            BY ONLY <3>1, CoveredReplaceProperties, SMTT(20)
        <3>3. QED
            BY <2>3, <3>2
    <2>5. EvmByte(instr', memory, a) =
            IF Within(a, dst, len) THEN ByteAt(data, off + a - dst) ELSE ByteAt(memory, a)
        BY <1>1, <1>2 DEF EvmByte, Written, Instruction, WindowOps
    <2>6. QED
        BY <2>2, <2>4, <2>5
<1>5. instr'.op # "MLOAD"
    BY <1>1, <1>2 DEF Instruction
<1>6. QED
    BY <1>4, <1>5, Agreement DEF TypeOK

\* So does a copy into a window that starts inside the memory.
LEMMA CopyToWindowAgrees == TypeOK /\ TypeOK' /\ CopyToWindow => StepAgrees
<1> SUFFICES ASSUME TypeOK, TypeOK', CopyToWindow PROVE StepAgrees
    OBVIOUS
<1>1. PICK op \in WindowOps, dst \in Offsets, off \in Offsets, len \in Lengths,
           data \in Sources :
            /\ op = "CALL" => off = 0
            /\ memory' = SetSlice(memory, dst, dst + len, Slice(data, off, off + len))
            /\ instr' = Instruction(op, dst, off, len, data)
    BY DEF CopyToWindow
<1>2. op \notin CopyOps \cup {"MSTORE", "MLOAD", "MSTORE8"}
    BY DEF CopyOps, WindowOps
<1>3. /\ dst \in Nat /\ off \in Nat /\ len \in Nat /\ data \in Seq(Byte)
      /\ Len(data) \in Nat
    BY Operands
<1>4. ASSUME Regular(instr', memory), NEW a \in Nat
      PROVE  ByteAt(memory', a) = EvmByte(instr', memory, a)
    <2> DEFINE v == Slice(data, off, off + len)
    <2>1. off + len <= Len(data) /\ dst <= Len(memory)
        BY <1>1, <1>2, <1>4 DEF Regular, Instruction
    <2>2. /\ v \in Seq(Byte) /\ Len(v) = len
          /\ Within(a, dst, len) => v[a - dst + 1] = ByteAt(data, off + a - dst)
        BY <1>3, <2>1, SourceBytes
    <2> HIDE DEF v
    <2>3. memory' = SetSlice(memory, dst, dst + len, v)
        BY <1>1 DEF v
    <2>4. ByteAt(memory', a) =
            IF Within(a, dst, len) THEN v[a - dst + 1] ELSE ByteAt(memory, a)
        <3>1. memory \in Seq(Byte)
            BY DEF TypeOK
        <3>2. \A b \in Nat : ByteAt(SetSlice(memory, dst, dst + len, v), b) =
                IF Within(b, dst, len) THEN v[b - dst + 1] ELSE ByteAt(memory, b)
            BY ONLY <1>3, <2>1, <2>2, <3>1, ReplaceProperties
        <3>3. QED
            BY <2>3, <3>2
    <2>5. Written(instr') = len
        BY <1>1, <1>3, <2>1 DEF Written, Instruction, Least
    <2>6. EvmByte(instr', memory, a) =
            IF Within(a, dst, len) THEN ByteAt(data, off + a - dst) ELSE ByteAt(memory, a)
        BY <1>1, <1>2, <2>5 DEF EvmByte, Instruction
    <2>7. QED
        BY <2>2, <2>4, <2>6
<1>5. instr'.op # "MLOAD"
    BY <1>1, <1>2 DEF Instruction
<1>6. QED
    BY <1>4, <1>5, Agreement DEF TypeOK

\* Every regular instruction leaves, at every address, the byte the EVM would
\* leave there, whatever memory it finds.
THEOREM RegularStepsCorrect == Spec => RegularStepsAgree
<1>1. TypeOK /\ TypeOK' /\ [Next]_vars => [StepAgrees]_vars
    BY MStoreAgrees, MStore8Agrees, MLoadAgrees, CopyAgrees, CopyToWindowAgrees DEF Next
<1>2. QED
    BY <1>1, TypeCorrect, PTL DEF Spec, RegularStepsAgree

----------------------------------------------------------------------------
(* Control flow *)


Instr == {Decoded(o) : o \in 0..(Len(code) - 1)}

OffsetsRead == {instrs[k].offset : k \in DOMAIN instrs}

\* The instructions are those at their offsets, one behind the other.
Read ==
    /\ instrs \in Seq(Instr) /\ offset \in Nat
    /\ IF instrs = <<>> THEN offset = 0
       ELSE instrs[1].offset = 0 /\ offset = NextOffset(instrs[Len(instrs)])
    /\ \A k \in 1..(Len(instrs) - 1) : instrs[k + 1].offset = NextOffset(instrs[k])

Increasing ==
    /\ \A k \in DOMAIN instrs : NextOffset(instrs[k]) <= offset
    /\ \A j, k \in DOMAIN instrs : j < k => NextOffset(instrs[j]) <= instrs[k].offset

InClosed ==
    \A S \in SUBSET (0..(Len(code) - 1)) :
        Follows(S) => OffsetsRead \subseteq S /\ (offset < Len(code) => offset \in S)

\* Where no operand is before an instruction, its index is its offset.
NoOperand ==
    \A k \in DOMAIN instrs :
        0..(instrs[k].offset - 1) \subseteq OffsetsRead => k = instrs[k].offset + 1

ReadInv == stage # "idle" => code \in Codes /\ Read /\ Increasing /\ InClosed /\ NoOperand

\* A block is whole up to its last instruction, and only that one ends it.
BlockRight(b) ==
    /\ b # <<>>
    /\ \A i \in DOMAIN b :
        /\ b[i] \in 1..index /\ b[i] = b[1] + i - 1
        /\ LastOfBlock(b[i]) <=> i = Len(b)

CutInv ==
    /\ index \in 0..Len(instrs)
    /\ open \in Seq(Nat) /\ blocks \in Seq(Seq(Nat))
    /\ Len(open) <= index
    /\ \A i \in DOMAIN open : open[i] = index - Len(open) + i /\ ~ LastOfBlock(open[i])
    /\ IF blocks = <<>> THEN index = Len(open)
       ELSE blocks[1][1] = 1 /\ LastOf(blocks[Len(blocks)]) = index - Len(open)
    /\ \A b \in DOMAIN blocks : BlockRight(blocks[b])
    /\ \A b \in 1..(Len(blocks) - 1) : blocks[b + 1][1] = LastOf(blocks[b]) + 1

IsMachine(m) == m = Machine(m.pc, m.stack, m.status)

\* The inductive invariant.
RunInv ==
    /\ ReadInv
    /\ stage \in {"idle", "disassemble"} => index = 0 /\ open = <<>> /\ blocks = <<>>
    /\ stage = "idle" => offset = 0 /\ instrs = <<>>
    /\ stage \in {"cut", "run"} => offset >= Len(code) /\ CutInv
    /\ stage = "run" => IsMachine(machine) /\ IsMachine(evm) /\ SameMachine

----------------------------------------------------------------------------
(* Instructions *)

\* What the table says of a byte of the code.
LEMMA EntryFields ==
    ASSUME code \in Codes, NEW o \in 0..(Len(code) - 1)
    PROVE  /\ EntryAt(o).name \in Opcodes /\ EntryAt(o).operand \in Nat
           /\ EntryAt(o).name # "PUSH" => EntryAt(o).operand = 0
<1>1. code \in Seq(DOMAIN Table) /\ Len(code) \in Nat
  BY CodeAssumption
<1>2. o + 1 \in 1..Len(code)
  BY <1>1
<1>3. code[o + 1] \in DOMAIN Table
  BY <1>1, <1>2
<1>4. EntryAt(o) = Table[code[o + 1]]
  BY DEF EntryAt
<1>5. EntryAt(o) \in [name : Opcodes, operand : Nat]
  BY <1>3, <1>4, TableAssumption
<1>6. EntryAt(o).name # "PUSH" => EntryAt(o).operand = 0
  BY <1>3, <1>4, TableAssumption
<1> QED
  BY <1>5, <1>6

LEMMA DecodedFields ==
    ASSUME code \in Codes, NEW o \in 0..(Len(code) - 1)
    PROVE  /\ Decoded(o).offset = o /\ Decoded(o).name = EntryAt(o).name
           /\ Decoded(o).size = 1 + EntryAt(o).operand
           /\ NextOffset(Decoded(o)) = o + 1 + EntryAt(o).operand
<1>1. /\ Decoded(o).offset = o /\ Decoded(o).name = EntryAt(o).name
      /\ Decoded(o).size = 1 + EntryAt(o).operand
  BY DEF Decoded
<1>2. EntryAt(o).operand \in Nat
  BY EntryFields
<1>3. NextOffset(Decoded(o)) = Decoded(o).offset + Decoded(o).size
  BY DEF NextOffset
<1> QED
  BY <1>1, <1>2, <1>3

\* Every instruction is the one at its offset.
LEMMA InstrFields ==
    ASSUME code \in Codes, instrs \in Seq(Instr), NEW k \in DOMAIN instrs
    PROVE  LET o == instrs[k].offset
           IN  /\ o \in 0..(Len(code) - 1) /\ instrs[k] = Decoded(o)
               /\ instrs[k].name = EntryAt(o).name
               /\ NextOffset(instrs[k]) = o + 1 + EntryAt(o).operand
               /\ EntryAt(o).operand \in Nat
<1>1. instrs[k] \in Instr
  OBVIOUS
<1>2. PICK o \in 0..(Len(code) - 1) : instrs[k] = Decoded(o)
  BY <1>1 DEF Instr
<1> QED
  BY <1>2, DecodedFields, EntryFields

\* Behind an instruction is the next one or the end of the code.
LEMMA Advance ==
    ASSUME code \in Codes, Read, offset >= Len(code), NEW k \in DOMAIN instrs
    PROVE  IF k + 1 \in DOMAIN instrs THEN instrs[k + 1].offset = NextOffset(instrs[k])
           ELSE k = Len(instrs) /\ NextOffset(instrs[k]) >= Len(code)
<1>1. DOMAIN instrs = 1..Len(instrs) /\ Len(instrs) \in Nat
  BY DEF Read
<1>2. CASE k + 1 \in DOMAIN instrs
  BY <1>1, <1>2 DEF Read
<1>3. CASE k + 1 \notin DOMAIN instrs
  <2>1. k = Len(instrs) /\ instrs # <<>>
    BY <1>1, <1>3
  <2> QED
    BY <2>1, <1>3 DEF Read
<1> QED
  BY <1>2, <1>3

\* The EVM's instructions are those that have been disassembled.
LEMMA StartsAreOffsets ==
    ASSUME code \in Codes, Read, InClosed, offset >= Len(code)
    PROVE  Starts = OffsetsRead
<1>1. DOMAIN instrs = 1..Len(instrs) /\ Len(instrs) \in Nat /\ Len(code) \in Nat \ {0}
  BY CodeAssumption DEF Read
<1>2. OffsetsRead \subseteq 0..(Len(code) - 1)
  BY InstrFields DEF OffsetsRead, Read
<1>3. OffsetsRead \subseteq Starts
  BY <1>2 DEF Starts, InClosed
<1>4. Follows(OffsetsRead)
  <2>1. 0 \in OffsetsRead
    <3>1. instrs # <<>>
      BY <1>1 DEF Read
    <3>2. 1 \in DOMAIN instrs
      BY <1>1, <3>1 DEF Read
    <3> QED
      BY <3>1, <3>2 DEF Read, OffsetsRead
  <2>2. ASSUME NEW o \in OffsetsRead, o + 1 + EntryAt(o).operand < Len(code)
        PROVE  o + 1 + EntryAt(o).operand \in OffsetsRead
    <3>1. PICK k \in DOMAIN instrs : o = instrs[k].offset
      BY DEF OffsetsRead
    <3>2. NextOffset(instrs[k]) = o + 1 + EntryAt(o).operand /\ o \in Nat /\ EntryAt(o).operand \in Nat
      BY <3>1, InstrFields DEF Read
    <3>3. k + 1 \in DOMAIN instrs /\ instrs[k + 1].offset = NextOffset(instrs[k])
      BY <1>1, <2>2, <3>2, Advance
    <3> QED
      BY <3>2, <3>3 DEF OffsetsRead
  <2> QED
    BY <2>1, <2>2 DEF Follows
<1>5. Starts \subseteq OffsetsRead
  BY <1>2, <1>4 DEF Starts
<1> QED
  BY <1>3, <1>5

----------------------------------------------------------------------------
(* disassemble *)

\* One more instruction.
LEMMA AppendRead ==
    ASSUME code \in Codes, Read, Increasing, InClosed, NoOperand, offset < Len(code),
           instrs' = Append(instrs, Decoded(offset)), offset' = NextOffset(Decoded(offset)),
           code' = code
    PROVE  Read' /\ Increasing' /\ InClosed' /\ NoOperand'
<1> DEFINE n == Len(instrs)
<1>1. n \in Nat /\ DOMAIN instrs = 1..n /\ instrs \in Seq(Instr) /\ offset \in 0..(Len(code) - 1)
  BY CodeAssumption DEF Read
<1>2. /\ Decoded(offset).offset = offset
      /\ offset' = offset + 1 + EntryAt(offset).operand /\ EntryAt(offset).operand \in Nat
      /\ NextOffset(Decoded(offset)) = offset'
  BY <1>1, DecodedFields, EntryFields
<1>3. Decoded(offset) \in Instr
  BY <1>1 DEF Instr
<1>4. /\ instrs' \in Seq(Instr) /\ Len(instrs') = n + 1 /\ instrs'[n + 1] = Decoded(offset)
      /\ \A k \in DOMAIN instrs : instrs'[k] = instrs[k]
      /\ DOMAIN instrs' = 1..(n + 1)
  BY <1>1, <1>3, AppendProperties
<1>5. /\ \A k \in DOMAIN instrs : instrs'[k].offset = instrs[k].offset
      /\ \A k \in DOMAIN instrs : NextOffset(instrs'[k]) = NextOffset(instrs[k])
      /\ instrs'[n + 1].offset = offset
      /\ NextOffset(instrs'[n + 1]) = offset'
  BY <1>2, <1>4
<1>6. \A k \in DOMAIN instrs : /\ instrs[k].offset \in Nat /\ instrs[k].offset < NextOffset(instrs[k])
                               /\ NextOffset(instrs[k]) \in Nat
                               /\ instrs[k].offset < Len(code)
  <2> SUFFICES ASSUME NEW k \in DOMAIN instrs
               PROVE  /\ instrs[k].offset \in Nat /\ instrs[k].offset < NextOffset(instrs[k])
                      /\ NextOffset(instrs[k]) \in Nat /\ instrs[k].offset < Len(code)
    OBVIOUS
  <2>1. /\ instrs[k].offset \in 0..(Len(code) - 1)
        /\ NextOffset(instrs[k]) = instrs[k].offset + 1 + EntryAt(instrs[k].offset).operand
        /\ EntryAt(instrs[k].offset).operand \in Nat
    BY <1>1, InstrFields
  <2> QED
    BY <2>1, CodeAssumption
<1>7. \A o : Decoded(o)' = Decoded(o)
  BY DEF Decoded, EntryAt
<1>8. Instr' = Instr
  BY <1>7 DEF Instr
<1>9. \A k \in DOMAIN instrs' : NextOffset(instrs[k])' = NextOffset(instrs'[k])
  BY DEF NextOffset
<1>10. OffsetsRead' = OffsetsRead \cup {offset}
  BY <1>1, <1>4, <1>5 DEF OffsetsRead
<1>11. Read'
  <2>1. instrs' # <<>>
    BY <1>4
  <2>2. instrs'[1].offset = 0
    <3>1. CASE instrs = <<>>
      BY <3>1, <1>1, <1>5 DEF Read
    <3>2. CASE instrs # <<>>
      <4>1. 1 \in DOMAIN instrs
        BY <1>1, <3>2
      <4> QED
        BY <4>1, <3>2, <1>5 DEF Read
    <3> QED
      BY <3>1, <3>2
  <2>3. offset' = NextOffset(instrs'[Len(instrs')])
    BY <1>4, <1>5
  <2>4. ASSUME NEW k \in 1..(Len(instrs') - 1) PROVE instrs'[k + 1].offset = NextOffset(instrs'[k])
    <3>1. k \in DOMAIN instrs
      BY <1>1, <1>4
    <3>2. CASE k = n
      <4>1. offset = NextOffset(instrs[n])
        BY <3>1, <3>2, <1>1 DEF Read
      <4> QED
        BY <4>1, <3>1, <3>2, <1>5
    <3>3. CASE k # n
      <4>1. k \in 1..(n - 1) /\ k + 1 \in DOMAIN instrs
        BY <3>1, <3>3, <1>1
      <4> QED
        BY <4>1, <3>1, <1>5 DEF Read
    <3> QED
      BY <3>2, <3>3
  <2>5. offset' \in Nat
    BY <1>1, <1>2
  <2> QED
    BY <2>1, <2>2, <2>3, <2>4, <2>5, <1>4, <1>8 DEF Read, NextOffset
<1>12. Increasing'
  <2>1. \A k \in DOMAIN instrs' : NextOffset(instrs'[k]) <= offset'
    BY <1>1, <1>2, <1>4, <1>5, <1>6 DEF Increasing
  <2>2. \A j, k \in DOMAIN instrs' : j < k => NextOffset(instrs'[j]) <= instrs'[k].offset
    <3> SUFFICES ASSUME NEW j \in 1..(n + 1), NEW k \in 1..(n + 1), j < k
                 PROVE  NextOffset(instrs'[j]) <= instrs'[k].offset
      BY <1>4
    <3>1. j \in DOMAIN instrs
      BY <1>1
    <3>2. CASE k = n + 1
      BY <3>1, <3>2, <1>5 DEF Increasing
    <3>3. CASE k # n + 1
      <4>1. k \in DOMAIN instrs
        BY <3>3, <1>1
      <4> QED
        BY <4>1, <3>1, <1>5 DEF Increasing
    <3> QED
      BY <3>2, <3>3
  <2> QED
    BY <2>1, <2>2, <1>9 DEF Increasing
<1>13. InClosed'
  <2>1. \A o : EntryAt(o)' = EntryAt(o)
    BY DEF EntryAt
  <2>2. ASSUME NEW S \in SUBSET (0..(Len(code) - 1)), Follows(S)'
        PROVE  OffsetsRead' \subseteq S /\ (offset' < Len(code) => offset' \in S)
    <3>1. Follows(S)
      BY <2>1, <2>2 DEF Follows
    <3>2. OffsetsRead \subseteq S /\ offset \in S
      BY <3>1 DEF InClosed
    <3>3. offset' < Len(code) => offset' \in S
      BY <3>1, <3>2, <1>2 DEF Follows
    <3> QED
      BY <3>2, <3>3, <1>10
  <2> QED
    BY <2>2 DEF InClosed
<1>14. NoOperand'
  <2>1. \A k \in DOMAIN instrs : instrs[k].offset < offset
    BY <1>1, <1>6 DEF Increasing
  <2>2. ASSUME NEW k \in DOMAIN instrs', 0..(instrs'[k].offset - 1) \subseteq OffsetsRead'
        PROVE  k = instrs'[k].offset + 1
    <3>1. CASE k \in DOMAIN instrs
      <4>1. instrs'[k].offset = instrs[k].offset /\ instrs[k].offset \in Nat /\ instrs[k].offset < offset
        BY <3>1, <1>5, <1>6, <2>1
      <4>2. 0..(instrs[k].offset - 1) \subseteq OffsetsRead
        BY <4>1, <2>2, <1>10, <1>1
      <4> QED
        BY <4>1, <4>2, <3>1 DEF NoOperand
    <3>2. CASE k \notin DOMAIN instrs
      <4>1. k = n + 1 /\ instrs'[k].offset = offset
        BY <3>2, <1>1, <1>4, <1>5
      <4>2. 0..(offset - 1) \subseteq OffsetsRead
        BY <4>1, <2>2, <1>10, <1>1
      <4>3. CASE instrs = <<>>
        BY <4>3, <4>1, <1>1 DEF Read
      <4>4. CASE instrs # <<>>
        <5>1. n \in DOMAIN instrs /\ offset = NextOffset(instrs[n])
          BY <4>4, <1>1 DEF Read
        <5> DEFINE last == instrs[n].offset
        <5>2. last \in Nat /\ last < offset
          BY <5>1, <2>1, <1>6
        <5>3. 0..(last - 1) \subseteq OffsetsRead
          BY <5>2, <4>2, <1>1
        <5>4. n = last + 1
          BY <5>1, <5>3 DEF NoOperand
        <5>5. last + 1 = offset
          <6> SUFFICES ASSUME last + 1 # offset PROVE FALSE
            OBVIOUS
          <6>1. last + 1 \in OffsetsRead
            BY <5>2, <4>2, <1>1
          <6>2. PICK j \in DOMAIN instrs : last + 1 = instrs[j].offset
            BY <6>1 DEF OffsetsRead
          <6>3. j # n
            BY <6>2, <5>2
          <6>4. j < n
            BY <6>3, <1>1
          <6>5. NextOffset(instrs[j]) <= last
            BY <6>4, <5>1 DEF Increasing
          <6> QED
            BY <6>2, <6>5, <1>6, <5>2
        <5> QED
          BY <5>4, <5>5, <4>1
      <4> QED
        BY <4>3, <4>4
    <3> QED
      BY <3>1, <3>2
  <2> QED
    BY <2>2 DEF NoOperand
<1> QED
  BY <1>11, <1>12, <1>13, <1>14

----------------------------------------------------------------------------
(* enum_blocks_static *)

\* Finished blocks stay as they are.
LEMMA SameBlock ==
    ASSUME NEW b, BlockRight(b), index \in Nat, index' \in Nat, index <= index', instrs' = instrs
    PROVE  BlockRight(b)'
<1>1. \A j : LastOfBlock(j)' <=> LastOfBlock(j)
  BY DEF LastOfBlock
<1>2. \A j \in 1..index : j \in 1..index'
  OBVIOUS
<1> QED
  BY <1>1, <1>2 DEF BlockRight

\* One more instruction in a block.
LEMMA CutMore ==
    ASSUME CutInv, Len(instrs) \in Nat, Cut
    PROVE  CutInv'
<1>0. PICK k, l, n, grown :
        k = index + 1 /\ l = Len(open) /\ n = Len(blocks) /\ grown = Append(open, k)
  OBVIOUS
<1> USE <1>0
<1>1. /\ index \in Nat /\ k \in 1..Len(instrs) /\ index' = k
      /\ instrs' = instrs /\ index' \in 0..Len(instrs')
      /\ open \in Seq(Nat) /\ blocks \in Seq(Seq(Nat)) /\ l \in Nat /\ n \in Nat /\ l <= index
      /\ DOMAIN open = 1..l /\ DOMAIN blocks = 1..n
  BY DEF CutInv, Cut
<1>2. \A j : LastOfBlock(j)' <=> LastOfBlock(j)
  BY <1>1 DEF LastOfBlock
<1>3. /\ grown \in Seq(Nat) /\ Len(grown) = l + 1 /\ DOMAIN grown = 1..(l + 1)
      /\ grown[l + 1] = k /\ \A i \in 1..l : grown[i] = open[i]
  BY <1>1, AppendProperties
<1>4. \A i \in 1..(l + 1) : grown[i] = k - (l + 1) + i /\ grown[i] \in 1..k
  <2>1. \A i \in 1..l : open[i] = index - l + i
    BY <1>1 DEF CutInv
  <2> SUFFICES ASSUME NEW i \in 1..(l + 1) PROVE grown[i] = k - (l + 1) + i /\ grown[i] \in 1..k
    OBVIOUS
  <2>2. CASE i = l + 1
    BY <2>2, <1>1, <1>3
  <2>3. CASE i # l + 1
    <3>1. i \in 1..l
      BY <2>3, <1>1
    <3> QED
      BY <3>1, <2>1, <1>1, <1>3
  <2> QED
    BY <2>2, <2>3
<1>5. \A i \in 1..l : ~ LastOfBlock(grown[i])
  BY <1>1, <1>3 DEF CutInv
<1>6. \A b \in DOMAIN blocks : BlockRight(blocks[b])
  BY DEF CutInv
<1>7. /\ blocks = <<>> => index = l
      /\ blocks # <<>> => blocks[1][1] = 1 /\ LastOf(blocks[n]) = index - l
      /\ \A b \in 1..(n - 1) : blocks[b + 1][1] = LastOf(blocks[b]) + 1
  BY DEF CutInv
<1>8. \A b : LastOf(b)' = LastOf(b)
  BY DEF LastOf
<1>9. CASE LastOfBlock(k)
  <2>1. blocks' = Append(blocks, grown) /\ open' = <<>>
    BY <1>9 DEF Cut
  <2>2. /\ blocks' \in Seq(Seq(Nat)) /\ Len(blocks') = n + 1 /\ DOMAIN blocks' = 1..(n + 1)
        /\ blocks'[n + 1] = grown /\ \A b \in 1..n : blocks'[b] = blocks[b]
    <3> QED
      BY <2>1, <1>1, <1>3, AppendProperties
  <2>3. BlockRight(grown)'
    <3>1. grown # <<>> /\ grown[1] = k - l
      BY <1>1, <1>3, <1>4
    <3>2. \A i \in 1..(l + 1) : grown[i] \in 1..k /\ grown[i] = grown[1] + i - 1
      <4> SUFFICES ASSUME NEW i \in 1..(l + 1)
                   PROVE  grown[i] \in 1..k /\ grown[i] = grown[1] + i - 1
        OBVIOUS
      <4>1. grown[i] = k - (l + 1) + i /\ grown[i] \in 1..k
        BY <1>4
      <4>2. k \in Nat /\ l \in Nat /\ i \in Nat
        BY <1>1
      <4>3. k - (l + 1) + i = (k - l) + i - 1
        BY <4>2
      <4> QED
        BY <3>1, <4>1, <4>3
    <3>3. \A i \in 1..(l + 1) : LastOfBlock(grown[i])' <=> i = l + 1
      <4> SUFFICES ASSUME NEW i \in 1..(l + 1) PROVE LastOfBlock(grown[i]) <=> i = l + 1
        BY <1>2, <2>1
      <4>1. CASE i = l + 1
        BY <4>1, <1>3, <1>9
      <4>2. CASE i # l + 1
        <5>1. i \in 1..l
          BY <4>2, <1>1
        <5> QED
          BY <5>1, <4>2, <1>5
      <4> QED
        BY <4>1, <4>2
    <3> QED
      BY <3>1, <3>2, <3>3, <1>1, <1>3 DEF BlockRight
  <2>4. ASSUME NEW b \in DOMAIN blocks' PROVE BlockRight(blocks[b])'
    <3>1. CASE b = n + 1
      BY <3>1, <2>2, <2>3
    <3>2. CASE b # n + 1
      <4>0. b \in 1..(n + 1)
        BY <2>2
      <4>4. b \in 1..n
        BY <4>0, <3>2, <1>1
      <4>1. b \in DOMAIN blocks /\ blocks'[b] = blocks[b]
        BY <4>4, <2>2, <1>1
      <4>2. PICK c : c = blocks[b]
        OBVIOUS
      <4>3. BlockRight(c)'
        BY <4>1, <4>2, <1>6, <1>1, SameBlock
      <4> QED
        BY <4>1, <4>2, <4>3
    <3> QED
      BY <3>1, <3>2
  <2>5. blocks'[1][1] = 1
    <3>1. CASE n = 0
      <4>1. blocks = <<>>
        BY <3>1, <1>1, EmptySeq
      <4>2. k = l + 1
        BY <4>1, <1>1, <1>7
      <4>3. 1 \in 1..(l + 1) /\ grown[1] = k - (l + 1) + 1
        BY <1>1, <1>4
      <4>4. grown[1] = 1
        BY <4>2, <4>3, <1>1
      <4>5. blocks'[1] = grown
        BY <3>1, <2>2
      <4> QED
        BY <4>4, <4>5
    <3>2. CASE n # 0
      <4>1. 1 \in 1..n /\ blocks # <<>>
        BY <3>2, <1>1
      <4> QED
        BY <4>1, <1>7, <2>2
    <3> QED
      BY <3>1, <3>2
  <2>6. ASSUME NEW b \in 1..n PROVE blocks'[b + 1][1] = LastOf(blocks'[b]) + 1
    <3>1. CASE b = n
      <4>1. blocks # <<>> /\ LastOf(blocks[n]) = index - l
        BY <3>1, <1>1, <1>7
      <4>2. grown[1] = k - l
        BY <1>1, <1>4
      <4> QED
        BY <4>1, <4>2, <3>1, <2>2, <1>1
    <3>2. CASE b # n
      <4>1. b \in 1..(n - 1) /\ b + 1 \in 1..n
        BY <3>2, <1>1
      <4> QED
        BY <4>1, <1>7, <2>2
    <3> QED
      BY <3>1, <3>2
  <2>7. LastOf(blocks'[n + 1]) = k
    BY <2>2, <1>3 DEF LastOf
  <2>8. /\ open' \in Seq(Nat) /\ Len(open') = 0 /\ DOMAIN open' = {}
    BY <2>1
  <2>9. blocks' # <<>>
    BY <2>2, <1>1
  <2>10. IF blocks' = <<>> THEN index' = Len(open')
         ELSE blocks'[1][1] = 1 /\ LastOf(blocks'[Len(blocks')]) = index' - Len(open')
    BY <1>1, <2>2, <2>5, <2>7, <2>8, <2>9
  <2>11. /\ open' \in Seq(Nat) /\ Len(open') <= index'
         /\ \A i \in DOMAIN open' : open'[i] = index' - Len(open') + i /\ ~ LastOfBlock(open[i])'
    BY <1>1, <2>8
  <2>12. \A b \in 1..(Len(blocks') - 1) : blocks'[b + 1][1] = LastOf(blocks'[b]) + 1
    <3>1. Len(blocks') - 1 = n
      BY <2>2, <1>1
    <3> QED
      BY <3>1, <2>6
  <2> QED
    BY <1>1, <2>2, <2>4, <2>10, <2>11, <2>12 DEF CutInv, LastOf
<1>10. CASE ~ LastOfBlock(k)
  <2>1. blocks' = blocks /\ open' = grown
    BY <1>10 DEF Cut
  <2>2. ASSUME NEW b \in DOMAIN blocks' PROVE BlockRight(blocks[b])'
    <3>1. PICK c : c = blocks[b] /\ b \in DOMAIN blocks
      BY <2>1
    <3>2. BlockRight(c)'
      BY <3>1, <1>6, <1>1, SameBlock
    <3> QED
      BY <3>1, <3>2, <2>1
  <2>3. /\ open' \in Seq(Nat) /\ Len(open') = l + 1 /\ Len(open') <= index'
    BY <2>1, <1>1, <1>3
  <2>4. \A i \in DOMAIN open' : open'[i] = index' - Len(open') + i
    BY <2>1, <1>1, <1>3, <1>4
  <2>5. \A i \in 1..(l + 1) : ~ LastOfBlock(grown[i])
    BY <1>1, <1>3, <1>5, <1>10
  <2>6. \A i \in DOMAIN open' : ~ LastOfBlock(open[i])'
    BY <2>1, <2>5, <1>2, <1>3
  <2>7. index' - Len(open') = index - l /\ (index = l => index' = Len(open'))
    BY <2>3, <1>1
  <2>8. IF blocks' = <<>> THEN index' = Len(open')
        ELSE blocks'[1][1] = 1 /\ LastOf(blocks[Len(blocks)])' = index' - Len(open')
    BY <2>1, <2>7, <1>7, <1>8 DEF LastOf
  <2>9. \A b \in 1..(Len(blocks') - 1) : blocks'[b + 1][1] = LastOf(blocks[b])' + 1
    BY <2>1, <1>7 DEF LastOf
  <2> QED
    BY <1>1, <2>1, <2>2, <2>3, <2>4, <2>6, <2>8, <2>9 DEF CutInv
<1> QED
  BY <1>9, <1>10

\* A jump comes from an instruction that ends a block, and leads to one that
\* starts one.
LEMMA JumpLands ==
    ASSUME NEW n \in DOMAIN instrs, NEW stack, NEW m, m = Emulated(Running(n, stack)),
           instrs[n].name \in Opcodes, m.status = "running", m.pc # n + 1
    PROVE  LastOfBlock(n) /\ m.pc \in DOMAIN instrs /\ instrs[m.pc].name = "JUMPDEST"
<1>1. /\ Running(n, stack).pc = n /\ Running(n, stack).stack = stack
      /\ Running(n, stack).status = "running"
  BY DEF Running, Machine
<1>2. \A address, rest, taken :
        LET j == Jumped(Running(n, stack), address, taken, rest)
        IN  j.status = "running" /\ j.pc # n + 1 =>
                j.pc \in DOMAIN instrs /\ instrs[j.pc].name = "JUMPDEST"
  <2> SUFFICES ASSUME NEW address, NEW rest, NEW taken, NEW j,
                      j = Jumped(Running(n, stack), address, taken, rest),
                      j.status = "running", j.pc # n + 1
               PROVE  j.pc \in DOMAIN instrs /\ instrs[j.pc].name = "JUMPDEST"
    BY ZenonT(30)
  <2> DEFINE targets == TargetsOf(address)
             next == IF taken THEN CHOOSE k \in targets : TRUE ELSE n + 1
             valid == \A k \in targets : instrs[k].name = "JUMPDEST"
  <2>1. targets # {}
    <3> SUFFICES ASSUME targets = {} PROVE FALSE
      OBVIOUS
    <3>1. j = Thrown(Running(n, stack))
      BY DEF Jumped
    <3>2. j.status = "raised"
      BY <3>1 DEF Thrown, Running, Machine
    <3> QED
      BY <3>2
  <2>2. j = Machine(next, rest, IF valid THEN "running" ELSE "halted")
    BY <2>1, <1>1 DEF Jumped
  <2>3. j.pc = next /\ j.status = IF valid THEN "running" ELSE "halted"
    BY <2>2 DEF Machine
  <2>4. valid /\ taken
    BY <2>3
  <2>5. j.pc \in targets
    BY <2>1, <2>3, <2>4
  <2> QED
    BY <2>4, <2>5 DEF TargetsOf
<1>3. instrs[n].name \in {"JUMP", "JUMPI"}
  <2>1. CASE instrs[n].name = "STOP"
    <3>1. m = Machine(n + 1, stack, "halted")
      BY <2>1, <1>1 DEF Emulated
    <3> QED
      BY <3>1 DEF Machine
  <2>2. CASE instrs[n].name \in {"PUSH", "PC", "JUMPDEST"}
    <3>1. \E s : m = Running(n + 1, s)
      BY <2>2, <1>1 DEF Emulated
    <3> QED
      BY <3>1 DEF Running, Machine
  <2> QED
    BY <2>1, <2>2 DEF Opcodes
<1>4. m # Thrown(Running(n, stack))
  BY DEF Thrown, Running, Machine
<1>5. \E address, rest, taken : m = Jumped(Running(n, stack), address, taken, rest)
  BY <1>1, <1>3, <1>4 DEF Emulated
<1> QED
  BY <1>2, <1>3, <1>5 DEF LastOfBlock

\* Where all instructions are in blocks, these are right.
LEMMA BlocksAreRight ==
    ASSUME code \in Codes, Read, CutInv, offset >= Len(code), index = Len(instrs),
           NEW address, NEW c
    PROVE  /\ Pieces
           /\ \A b \in DOMAIN blocks, n \in DOMAIN instrs : JumpsBetween(blocks[b], n, <<address, c>>)
<1> DEFINE l == Len(open)
<1>1. /\ Len(instrs) \in Nat \ {0} /\ DOMAIN instrs = 1..Len(instrs) /\ instrs \in Seq(Instr)
      /\ open \in Seq(Nat) /\ blocks \in Seq(Seq(Nat)) /\ l \in Nat /\ DOMAIN open = 1..l
      /\ Len(blocks) \in Nat /\ DOMAIN blocks = 1..Len(blocks)
  <2>1. instrs # <<>>
    BY CodeAssumption DEF Read
  <2> QED
    BY <2>1 DEF Read, CutInv
<1>2. l = 0
  <2> SUFFICES ASSUME l # 0 PROVE FALSE
    OBVIOUS
  <2>1. l \in DOMAIN open
    BY <1>1
  <2>2. open[l] = index - l + l /\ ~ LastOfBlock(open[l])
    BY <2>1 DEF CutInv
  <2>3. open[l] = Len(instrs)
    BY <2>2, <1>1
  <2> QED
    BY <2>2, <2>3 DEF LastOfBlock
<1>3. blocks # <<>> /\ blocks[1][1] = 1 /\ LastOf(blocks[Len(blocks)]) = Len(instrs)
  BY <1>1, <1>2 DEF CutInv
<1>4. \A b \in DOMAIN blocks : BlockRight(blocks[b]) /\ blocks[b] \in Seq(Nat)
  <2>1. \A b \in DOMAIN blocks : BlockRight(blocks[b])
    BY DEF CutInv
  <2>2. \A b \in DOMAIN blocks : blocks[b] \in Seq(Nat)
    BY <1>1
  <2> QED
    BY <2>1, <2>2
<1>5. Pieces
  <2>1. ASSUME NEW b \in DOMAIN blocks, NEW i \in 1..(Len(blocks[b]) - 1)
        PROVE  blocks[b][i + 1] = blocks[b][i] + 1
    <3>1. i \in DOMAIN blocks[b] /\ i + 1 \in DOMAIN blocks[b] /\ i \in Nat /\ 1 \in DOMAIN blocks[b]
      BY <1>4
    <3>2. \A j \in DOMAIN blocks[b] : blocks[b][j] = blocks[b][1] + j - 1
      BY <1>4 DEF BlockRight
    <3>3. blocks[b][1] \in Nat
      BY <3>1, <1>4
    <3> QED
      BY <3>1, <3>2, <3>3
  <2>2. LastOf(LastOf(blocks)) = Len(instrs)
    BY <1>3 DEF LastOf
  <2>3. \A b \in DOMAIN blocks : blocks[b] # <<>>
    BY <1>4 DEF BlockRight
  <2>4. \A b \in 1..(Len(blocks) - 1) : blocks[b + 1][1] = LastOf(blocks[b]) + 1
    BY DEF CutInv
  <2> QED
    BY <1>3, <2>1, <2>2, <2>3, <2>4 DEF Pieces
<1>6. ASSUME NEW b \in DOMAIN blocks, NEW n \in DOMAIN instrs
      PROVE  JumpsBetween(blocks[b], n, <<address, c>>)
  <2>0. PICK s, bl : s = <<address, c>> /\ bl = blocks[b]
    OBVIOUS
  <2>1. PICK m : m = Emulated(Running(n, s))
    OBVIOUS
  <2> SUFFICES ASSUME m.status = "running", m.pc # n + 1
               PROVE  /\ \A i \in DOMAIN bl : n = bl[i] => n = LastOf(bl)
                      /\ \A i \in DOMAIN bl : m.pc = bl[i] => m.pc = bl[1]
    BY <2>0, <2>1 DEF JumpsBetween
  <2>2. instrs[n].name \in Opcodes
    BY <1>1, InstrFields, EntryFields
  <2>3. LastOfBlock(n) /\ m.pc \in DOMAIN instrs /\ instrs[m.pc].name = "JUMPDEST"
    BY <2>1, <2>2, JumpLands
  <2>9. BlockRight(bl) /\ bl \in Seq(Nat)
    BY <2>0, <1>4
  <2>4. ASSUME NEW i \in DOMAIN bl, n = bl[i] PROVE n = LastOf(bl)
    BY <2>3, <2>4, <2>9 DEF BlockRight, LastOf
  <2>5. ASSUME NEW i \in DOMAIN bl, m.pc = bl[i] PROVE m.pc = bl[1]
    <3> SUFFICES ASSUME i # 1 PROVE FALSE
      BY <2>5
    <3>1. i \in 1..Len(bl) /\ Len(bl) \in Nat /\ 1 \in DOMAIN bl /\ i - 1 \in DOMAIN bl
      BY <2>9
    <3>5. \A j \in DOMAIN bl : bl[j] = bl[1] + j - 1 /\ (LastOfBlock(bl[j]) <=> j = Len(bl))
      BY <2>9 DEF BlockRight
    <3>6. bl[1] \in Nat
      BY <3>1, <2>9
    <3>2. /\ bl[1] \in Nat /\ bl[i] = bl[1] + i - 1 /\ bl[i - 1] = bl[1] + (i - 1) - 1
          /\ LastOfBlock(bl[i - 1]) <=> i - 1 = Len(bl)
      BY <3>1, <3>5, <3>6
    <3>7. bl[i] = m.pc
      BY <2>5
    <3>8. bl[i - 1] + 1 = bl[i]
      <4> DEFINE p == bl[i - 1]  q == bl[i]  f == bl[1]
      <4>1. f \in Nat /\ i \in Nat /\ q = f + i - 1 /\ p = f + (i - 1) - 1
        BY <3>1, <3>2
      <4> HIDE DEF p, q, f
      <4>2. p + 1 = q
        BY <4>1
      <4> QED
        BY <4>2 DEF p, q
    <3>3. bl[i - 1] + 1 = m.pc
      BY <3>7, <3>8, Zenon
    <3>4. LastOfBlock(bl[i - 1])
      BY <3>3, <2>3 DEF LastOfBlock
    <3> QED
      BY <3>1, <3>2, <3>4
  <2> QED
    BY <2>4, <2>5
<1> QED
  BY <1>5, <1>6

----------------------------------------------------------------------------
(* emulate *)

\* The emulator's lookup of a jump's target is the EVM's.
LEMMA TargetsAreValid ==
    ASSUME code \in Codes, Read, Starts = OffsetsRead, NEW address
    PROVE  /\ TargetsOf(address) = {} <=> address \notin Starts
           /\ \A k \in TargetsOf(address) :
                instrs[k].offset = address
                    /\ (instrs[k].name = "JUMPDEST" <=> ValidTarget(address))
<1>1. TargetsOf(address) = {} <=> address \notin Starts
  BY DEF TargetsOf, OffsetsRead
<1>2. ASSUME NEW k \in TargetsOf(address)
      PROVE  instrs[k].offset = address /\ (instrs[k].name = "JUMPDEST" <=> ValidTarget(address))
  <2>1. k \in DOMAIN instrs /\ instrs[k].offset = address
    BY DEF TargetsOf
  <2>2. instrs[k].name = EntryAt(address).name
    BY <2>1, InstrFields DEF Read
  <2>3. address \in Starts
    BY <2>1 DEF OffsetsRead
  <2> QED
    BY <2>1, <2>2, <2>3 DEF ValidTarget
<1> QED
  BY <1>1, <1>2

\* What a jump of the emulator does.
LEMMA JumpTo ==
    ASSUME code \in Codes, Read, Starts = OffsetsRead, NEW m, IsMachine(m), NEW address, NEW taken, NEW rest
    PROVE  LET j == Jumped(m, address, taken, rest)
           IN  /\ IsMachine(j)
               /\ ~ ValidTarget(address) => j.status \in {"raised", "halted"}
               /\ ValidTarget(address) =>
                    /\ j.status = "running" /\ j.stack = rest
                    /\ IF taken THEN j.pc \in DOMAIN instrs /\ instrs[j.pc].offset = address
                       ELSE j.pc = m.pc + 1
<1>0. PICK j, targets, next, valid :
        /\ j = Jumped(m, address, taken, rest) /\ targets = TargetsOf(address)
        /\ next = (IF taken THEN CHOOSE k \in targets : TRUE ELSE m.pc + 1)
        /\ valid = \A k \in targets : instrs[k].name = "JUMPDEST"
  OBVIOUS
<1>1. /\ targets = {} <=> address \notin Starts
      /\ \A k \in targets : /\ instrs[k].offset = address
                            /\ instrs[k].name = "JUMPDEST" <=> ValidTarget(address)
  BY <1>0, TargetsAreValid
<1>2. CASE targets = {}
  <2>1. j = Thrown(m)
    BY <1>0, <1>2 DEF Jumped
  <2>2. j = Machine(m.pc, m.stack, "raised")
    BY <2>1 DEF Thrown, IsMachine, Machine
  <2>3. j.status = "raised" /\ IsMachine(j)
    BY <2>2 DEF IsMachine, Machine
  <2>4. ~ ValidTarget(address)
    BY <1>1, <1>2 DEF ValidTarget
  <2> QED
    BY <1>0, <2>3, <2>4
<1>3. CASE targets # {}
  <2>1. j = Machine(next, rest, IF \A k \in targets : instrs[k].name = "JUMPDEST" THEN "running" ELSE "halted")
    BY <1>0, <1>3 DEF Jumped
  <2>2. /\ j.pc = next /\ j.stack = rest /\ IsMachine(j)
        /\ j.status = IF \A k \in targets : instrs[k].name = "JUMPDEST" THEN "running" ELSE "halted"
    BY <2>1 DEF Machine, IsMachine
  <2>3. (\A k \in targets : instrs[k].name = "JUMPDEST") <=> ValidTarget(address)
    BY <1>1, <1>3
  <2>4. (CHOOSE k \in targets : TRUE) \in targets
    BY <1>3
  <2>5. taken => next \in targets
    BY <1>0, <2>4
  <2>6. targets \subseteq DOMAIN instrs
    BY <1>0 DEF TargetsOf
  <2> QED
    BY <1>0, <1>1, <2>2, <2>3, <2>5, <2>6
<1> QED
  BY <1>2, <1>3

\* A step of both machines.
LEMMA ExecuteSame ==
    ASSUME RunInv, Execute
    PROVE  IsMachine(machine)' /\ IsMachine(evm)' /\ SameMachine'
<1>0. PICK k, o, stack, op, size :
        /\ k = machine.pc /\ o = evm.pc /\ stack = evm.stack
        /\ op = EntryAt(o).name /\ size = EntryAt(o).operand
  OBVIOUS
<1>1. /\ code \in Codes /\ Read /\ InClosed /\ NoOperand /\ offset >= Len(code)
      /\ IsMachine(machine) /\ IsMachine(evm) /\ SameMachine
      /\ evm.status = "running" /\ ~ Odd(evm)
      /\ machine' = Emulated(machine) /\ evm' = EvmStep(evm)
      /\ instrs' = instrs /\ code' = code
  BY DEF RunInv, ReadInv, Execute
<1>2. /\ Starts = OffsetsRead /\ Len(code) \in Nat /\ Len(instrs) \in Nat
      /\ DOMAIN instrs = 1..Len(instrs)
  BY <1>1, StartsAreOffsets, CodeAssumption DEF Read
<1>3. machine.status = "running" /\ machine.stack = stack
  BY <1>0, <1>1 DEF SameMachine
<1>4. /\ ~ (o >= Len(code)) /\ ~ (o + size >= Len(code))
      /\ ~ (op \in {"PUSH", "PC"} /\ Len(stack) >= StackLimit)
      /\ ~ (op = "PC" /\ \E a \in 0..(o - 1) : a \notin Starts)
      /\ ~ (op = "JUMPI" /\ Holds(stack, 2) /\ stack[2] = 0 /\ ~ ValidTarget(stack[1]))
  BY <1>0, <1>1 DEF Odd
<1>5. k \in DOMAIN instrs /\ instrs[k].offset = o
  BY <1>0, <1>1, <1>4 DEF SameMachine
<1>6. /\ o \in 0..(Len(code) - 1) /\ instrs[k] = Decoded(o) /\ instrs[k].name = op
      /\ NextOffset(instrs[k]) = o + 1 + size /\ size \in Nat
  BY <1>0, <1>1, <1>5, InstrFields DEF Read
<1>7. op \in Opcodes /\ (op # "PUSH" => size = 0)
  BY <1>0, <1>1, <1>6, EntryFields
\* The next instruction is the same.
<1>8. IF k + 1 \in DOMAIN instrs THEN instrs[k + 1].offset = o + 1 + size
      ELSE k + 1 = Len(instrs) + 1 /\ o + 1 + size >= Len(code)
  BY <1>1, <1>5, <1>6, Advance
<1>9. o < Len(code)
  BY <1>6, <1>2
<1>10. ASSUME NEW s, machine' = Running(k + 1, s), evm' = Running(o + 1 + size, s)
       PROVE  IsMachine(machine)' /\ IsMachine(evm)' /\ SameMachine'
  <2>1. /\ IsMachine(machine)' /\ IsMachine(evm)'
        /\ machine'.pc = k + 1 /\ machine'.stack = s /\ machine'.status = "running"
        /\ evm'.pc = o + 1 + size /\ evm'.stack = s /\ evm'.status = "running"
    BY <1>10 DEF IsMachine, Running, Machine
  <2> QED
    BY <2>1, <1>8, <1>1 DEF SameMachine
<1>11. ASSUME evm' = Machine(o, stack, "failed"), IsMachine(machine)',
              machine'.status \in {"raised", "halted"}
       PROVE  IsMachine(machine)' /\ IsMachine(evm)' /\ SameMachine'
  <2>1. IsMachine(evm)' /\ evm'.status = "failed"
    BY <1>11 DEF IsMachine, Machine
  <2> QED
    BY <2>1, <1>11 DEF SameMachine
<1>12. Thrown(machine) = Machine(k, stack, "raised")
  BY <1>0, <1>1, <1>3 DEF Thrown, IsMachine, Machine
<1>13. IsMachine(Thrown(machine)) /\ Thrown(machine).status = "raised"
  BY <1>12 DEF IsMachine, Machine
<1>14. CASE op = "STOP"
  <2>1. machine' = Machine(k + 1, stack, "halted")
    BY <1>0, <1>1, <1>3, <1>5, <1>6, <1>14 DEF Emulated
  <2>2. evm' = Machine(o, stack, "stopped")
    BY <1>0, <1>1, <1>9, <1>14 DEF EvmStep
  <2>3. /\ machine'.pc = k + 1 /\ machine'.stack = stack /\ machine'.status = "halted"
        /\ evm'.stack = stack /\ evm'.status = "stopped"
        /\ IsMachine(machine)' /\ IsMachine(evm)'
    BY <2>1, <2>2 DEF IsMachine, Machine
  <2>4. (k + 1) - 1 = k
    BY <1>2, <1>5
  <2> QED
    BY <2>3, <2>4, <1>1, <1>5, <1>6, <1>14 DEF SameMachine
<1>15. CASE op = "PUSH"
  <2>1. machine' = Running(k + 1, <<ValueOf(instrs[k].operand)>> \o stack)
    BY <1>0, <1>1, <1>3, <1>5, <1>6, <1>15 DEF Emulated
  <2> DEFINE byte(a) == IF a < Len(code) THEN code[a + 1] ELSE 0
  <2>2. evm' = Running(o + 1 + size, <<ValueOf([i \in 1..size |-> byte(o + i)])>> \o stack)
    BY <1>0, <1>1, <1>9, <1>15 DEF EvmStep
  <2>3. instrs[k].operand = [i \in {j \in 1..size : o + j < Len(code)} |-> code[o + i + 1]]
    BY <1>0, <1>6 DEF Decoded
  <2>4. \A j \in 1..size : o + j < Len(code)
    BY <1>2, <1>4, <1>6
  <2>5. {j \in 1..size : o + j < Len(code)} = 1..size
    BY <2>4
  <2>6. \A i \in 1..size : byte(o + i) = code[o + i + 1]
    BY <2>4
  <2>7. [i \in 1..size |-> byte(o + i)] = [i \in 1..size |-> code[o + i + 1]]
    BY <2>6
  <2>8. instrs[k].operand = [i \in 1..size |-> byte(o + i)]
    BY <2>3, <2>5, <2>7
  <2> QED
    BY <2>1, <2>2, <2>8, <1>10
<1>16. CASE op = "PC"
  <2>1. machine' = Running(k + 1, <<k - 1>> \o stack)
    BY <1>0, <1>1, <1>3, <1>5, <1>6, <1>16 DEF Emulated
  <2>2. evm' = Running(o + 1, <<o>> \o stack)
    BY <1>0, <1>1, <1>9, <1>16 DEF EvmStep
  <2>3. k = o + 1
    BY <1>1, <1>2, <1>4, <1>5, <1>16 DEF NoOperand
  <2>4. k - 1 = o /\ o + 1 + size = o + 1
    BY <2>3, <1>6, <1>7, <1>16
  <2> QED
    BY <2>1, <2>2, <2>4, <1>10
<1>17. CASE op = "JUMPDEST"
  <2>1. machine' = Running(k + 1, stack)
    BY <1>0, <1>1, <1>3, <1>5, <1>6, <1>17 DEF Emulated
  <2>2. evm' = Running(o + 1, stack)
    BY <1>0, <1>1, <1>9, <1>17 DEF EvmStep
  <2>3. o + 1 + size = o + 1
    BY <1>6, <1>7, <1>17
  <2> QED
    BY <2>1, <2>2, <2>3, <1>10
\* A jump, of both.
<1>18. ASSUME NEW address, NEW taken \in BOOLEAN, NEW rest,
              machine' = Jumped(machine, address, taken, rest),
              ~ taken => ValidTarget(address), size = 0,
              evm' = IF ~ taken THEN Running(o + 1, rest)
                     ELSE IF ValidTarget(address) THEN Running(address, rest)
                     ELSE Machine(o, stack, "failed")
       PROVE  IsMachine(machine)' /\ IsMachine(evm)' /\ SameMachine'
  <2>1. /\ IsMachine(machine')
        /\ ~ ValidTarget(address) => machine'.status \in {"raised", "halted"}
        /\ ValidTarget(address) =>
            /\ machine'.status = "running" /\ machine'.stack = rest
            /\ IF taken THEN machine'.pc \in DOMAIN instrs /\ instrs[machine'.pc].offset = address
               ELSE machine'.pc = k + 1
    BY <1>0, <1>1, <1>2, <1>18, JumpTo
  <2>2. IsMachine(machine)'
    BY <2>1 DEF IsMachine, Machine
  <2>3. CASE ~ taken
    <3>1. evm' = Running(o + 1 + size, rest)
      BY <2>3, <1>18, <1>6
    <3>2. machine' = Running(k + 1, rest)
      BY <2>1, <2>3, <1>18 DEF IsMachine, Running
    <3> QED
      BY <3>1, <3>2, <1>10
  <2>4. CASE taken /\ ValidTarget(address)
    <3>1. evm' = Running(address, rest)
      BY <2>4, <1>18
    <3>2. IsMachine(evm)' /\ evm'.pc = address /\ evm'.stack = rest /\ evm'.status = "running"
      BY <3>1 DEF IsMachine, Running, Machine
    <3> QED
      BY <3>2, <2>1, <2>2, <2>4, <1>1 DEF SameMachine
  <2>5. CASE taken /\ ~ ValidTarget(address)
    <3>1. evm' = Machine(o, stack, "failed")
      BY <2>5, <1>18
    <3> QED
      BY <3>1, <2>1, <2>2, <2>5, <1>11
  <2> QED
    BY <2>3, <2>4, <2>5
<1>19. CASE op = "JUMP"
  <2>1. machine' = IF ~ Holds(stack, 1) THEN Thrown(machine)
                   ELSE Jumped(machine, stack[1], TRUE, Tail(stack))
    BY <1>0, <1>1, <1>3, <1>5, <1>6, <1>19 DEF Emulated
  <2>2. evm' = IF ~ Holds(stack, 1) THEN Machine(o, stack, "failed")
               ELSE IF ValidTarget(stack[1]) THEN Running(stack[1], Tail(stack))
               ELSE Machine(o, stack, "failed")
    BY <1>0, <1>1, <1>9, <1>19 DEF EvmStep
  <2>3. CASE ~ Holds(stack, 1)
    <3>1. machine' = Thrown(machine) /\ evm' = Machine(o, stack, "failed")
      BY <2>1, <2>2, <2>3
    <3>2. IsMachine(machine)' /\ machine'.status = "raised"
      BY <3>1, <1>13 DEF IsMachine, Machine
    <3> QED
      BY <3>1, <3>2, <1>11
  <2>4. CASE Holds(stack, 1)
    <3>1. machine' = Jumped(machine, stack[1], TRUE, Tail(stack))
      BY <2>1, <2>4
    <3>2. evm' = IF ~ TRUE THEN Running(o + 1, Tail(stack))
                 ELSE IF ValidTarget(stack[1]) THEN Running(stack[1], Tail(stack))
                 ELSE Machine(o, stack, "failed")
      BY <2>2, <2>4
    <3>3. size = 0
      BY <1>7, <1>19
    <3> QED
      BY <3>1, <3>2, <3>3, <1>18
  <2> QED
    BY <2>3, <2>4
<1>20. CASE op = "JUMPI"
  <2> DEFINE rest == SubSeq(stack, 3, Len(stack))
             taken == stack[2] # 0
  <2>1. machine' = IF ~ Holds(stack, 2) THEN Thrown(machine)
                   ELSE Jumped(machine, stack[1], taken, rest)
    BY <1>0, <1>1, <1>3, <1>5, <1>6, <1>20 DEF Emulated
  <2>2. evm' = IF ~ Holds(stack, 2) THEN Machine(o, stack, "failed")
               ELSE IF ~ taken THEN Running(o + 1, rest)
               ELSE IF ValidTarget(stack[1]) THEN Running(stack[1], rest)
               ELSE Machine(o, stack, "failed")
    BY <1>0, <1>1, <1>9, <1>20 DEF EvmStep
  <2>3. CASE ~ Holds(stack, 2)
    <3>1. machine' = Thrown(machine) /\ evm' = Machine(o, stack, "failed")
      BY <2>1, <2>2, <2>3
    <3>2. IsMachine(machine)' /\ machine'.status = "raised"
      BY <3>1, <1>13 DEF IsMachine, Machine
    <3> QED
      BY <3>1, <3>2, <1>11
  <2>4. CASE Holds(stack, 2)
    <3>1. machine' = Jumped(machine, stack[1], taken, rest)
      BY <2>1, <2>4
    <3>2. evm' = IF ~ taken THEN Running(o + 1, rest)
                 ELSE IF ValidTarget(stack[1]) THEN Running(stack[1], rest)
                 ELSE Machine(o, stack, "failed")
      BY <2>2, <2>4
    <3>3. size = 0
      BY <1>7, <1>20
    <3>4. ~ taken => ValidTarget(stack[1])
      BY <2>4, <1>4, <1>20
    <3>5. taken \in BOOLEAN
      OBVIOUS
    <3> HIDE DEF rest, taken
    <3> QED
      BY <3>1, <3>2, <3>3, <3>4, <3>5, <1>18
  <2> QED
    BY <2>3, <2>4
<1> QED
  BY <1>7, <1>14, <1>15, <1>16, <1>17, <1>19, <1>20 DEF Opcodes

----------------------------------------------------------------------------
(* The invariant *)

LEMMA RunInvInit == RunInit => RunInv
BY DEF RunInit, RunInv, ReadInv

\* Every step keeps it.
LEMMA RunInvStep ==
    ASSUME RunInv, [RunNext]_runVars
    PROVE  RunInv'
<1>1. CASE stage = "idle" /\ \E c \in Codes : Load(c)
  <2>1. PICK c \in Codes : Load(c)
    BY <1>1
  <2>2. /\ stage' = "disassemble" /\ code' = c /\ offset' = 0 /\ instrs' = <<>>
        /\ index' = 0 /\ open' = <<>> /\ blocks' = <<>>
    BY <1>1, <2>1 DEF Load, RunInv, blockVars
  <2>3. Read' /\ Increasing' /\ NoOperand'
    BY <2>2 DEF Read, Increasing, NoOperand
  <2>4. OffsetsRead' = {}
    BY <2>2 DEF OffsetsRead
  <2>5. \A S : Follows(S)' => 0 \in S
    BY DEF Follows
  <2>6. InClosed'
    BY <2>2, <2>4, <2>5 DEF InClosed
  <2> QED
    BY <2>2, <2>3, <2>6 DEF RunInv, ReadInv
<1>2. CASE Disassemble /\ offset < Len(code)
  <2>1. /\ stage = "disassemble" /\ stage' = stage /\ code' = code
        /\ instrs' = Append(instrs, Decoded(offset)) /\ offset' = NextOffset(Decoded(offset))
        /\ UNCHANGED <<index, open, blocks>>
    BY <1>2 DEF Disassemble, blockVars
  <2>2. code \in Codes /\ Read /\ Increasing /\ InClosed /\ NoOperand
    BY <2>1 DEF RunInv, ReadInv
  <2>3. Read' /\ Increasing' /\ InClosed' /\ NoOperand'
    BY <1>2, <2>1, <2>2, AppendRead
  <2> QED
    BY <2>1, <2>2, <2>3 DEF RunInv, ReadInv
<1>3. ASSUME UNCHANGED <<code, offset, instrs>>, stage # "idle"
      PROVE  ReadInv'
  <2>1. code \in Codes /\ Read /\ Increasing /\ InClosed /\ NoOperand
    BY <1>3 DEF RunInv, ReadInv
  <2>2. \A o : EntryAt(o)' = EntryAt(o)
    BY <1>3 DEF EntryAt
  <2>3. \A o : Decoded(o)' = Decoded(o)
    BY <1>3, <2>2 DEF Decoded
  <2>4. Instr' = Instr /\ OffsetsRead' = OffsetsRead
    BY <1>3, <2>3 DEF Instr, OffsetsRead
  <2>5. \A S : Follows(S)' <=> Follows(S)
    BY <1>3, <2>2 DEF Follows
  <2>6. Read' /\ Increasing' /\ NoOperand'
    BY <1>3, <2>1, <2>4 DEF Read, Increasing, NoOperand, NextOffset
  <2>7. InClosed'
    BY <1>3, <2>1, <2>4, <2>5 DEF InClosed
  <2> QED
    BY <1>3, <2>1, <2>6, <2>7 DEF ReadInv
<1>4. ASSUME UNCHANGED <<instrs, index, open, blocks>>, CutInv PROVE CutInv'
  <2>1. \A j : LastOfBlock(j)' <=> LastOfBlock(j)
    BY <1>4 DEF LastOfBlock
  <2>2. \A b : BlockRight(b)' <=> BlockRight(b)
    BY <1>4, <2>1 DEF BlockRight
  <2>3. \A b \in DOMAIN blocks' : BlockRight(blocks[b])'
    BY <1>4, <2>2 DEF CutInv, BlockRight, LastOfBlock
  <2>4. \A i \in DOMAIN open' : ~ LastOfBlock(open[i])'
    BY <1>4, <2>1 DEF CutInv, LastOfBlock
  <2> QED
    BY <1>4, <2>3, <2>4 DEF CutInv, LastOf
<1>5. CASE Disassemble /\ ~ (offset < Len(code))
  <2>1. /\ stage = "disassemble" /\ stage' = "cut"
        /\ UNCHANGED <<code, offset, instrs, index, open, blocks>>
    BY <1>5 DEF Disassemble, blockVars
  <2>2. /\ index = 0 /\ open = <<>> /\ blocks = <<>>
        /\ code \in Codes /\ offset \in Nat /\ instrs \in Seq(Instr)
    BY <2>1 DEF RunInv, ReadInv, Read
  <2>3. Len(instrs) \in Nat /\ Len(code) \in Nat
    BY <2>2, CodeAssumption
  <2>4. CutInv
    BY <2>2, <2>3 DEF CutInv
  <2>5. offset' >= Len(code')
    BY <2>1, <2>2, <2>3, <1>5
  <2> QED
    BY <2>1, <2>4, <2>5, <1>3, <1>4 DEF RunInv
<1>6. CASE Cut
  <2>1. stage = "cut" /\ UNCHANGED <<stage, code, offset, instrs>>
    BY <1>6 DEF Cut
  <2>2. CutInv /\ offset >= Len(code) /\ Len(instrs) \in Nat
    BY <2>1 DEF RunInv, ReadInv, Read
  <2>3. CutInv'
    BY <1>6, <2>2, CutMore
  <2> QED
    BY <2>1, <2>2, <2>3, <1>3 DEF RunInv
<1>7. CASE Emulate
  <2>1. /\ stage = "cut" /\ stage' = "run" /\ index = Len(instrs)
        /\ machine' = Running(1, <<>>) /\ evm' = Running(0, <<>>)
        /\ UNCHANGED <<code, offset, instrs, index, open, blocks>>
    BY <1>7 DEF Emulate, blockVars
  <2>2. CutInv /\ offset >= Len(code) /\ code \in Codes /\ Read
    BY <2>1 DEF RunInv, ReadInv
  <2>3. 1 \in DOMAIN instrs /\ instrs[1].offset = 0
    <3>1. instrs # <<>> /\ instrs \in Seq(Instr)
      BY <2>2, CodeAssumption DEF Read
    <3>2. 1 \in DOMAIN instrs
      BY <3>1
    <3> QED
      BY <3>1, <3>2, <2>2 DEF Read
  <2>4. /\ IsMachine(machine)' /\ IsMachine(evm)'
        /\ machine'.pc = 1 /\ machine'.stack = <<>> /\ machine'.status = "running"
        /\ evm'.pc = 0 /\ evm'.stack = <<>> /\ evm'.status = "running"
    BY <2>1 DEF IsMachine, Running, Machine
  <2>5. SameMachine'
    BY <2>1, <2>3, <2>4 DEF SameMachine
  <2> QED
    BY <2>1, <2>2, <2>4, <2>5, <1>3, <1>4 DEF RunInv
<1>8. CASE Execute
  <2>1. stage = "run" /\ UNCHANGED <<stage, code, offset, instrs, index, open, blocks>>
    BY <1>8 DEF Execute, blockVars
  <2>2. CutInv /\ offset >= Len(code)
    BY <2>1 DEF RunInv
  <2>3. IsMachine(machine)' /\ IsMachine(evm)' /\ SameMachine'
    BY <1>8, ExecuteSame
  <2> QED
    BY <2>1, <2>2, <2>3, <1>3, <1>4 DEF RunInv
<1>9. CASE UNCHANGED runVars
  <2>1. UNCHANGED <<stage, code, offset, instrs, index, open, blocks, machine, evm>>
    BY <1>9 DEF runVars
  <2>2. CASE stage = "idle"
    BY <2>1, <2>2 DEF RunInv, ReadInv
  <2>3. CASE stage # "idle"
    <3>1. stage = "run" => IsMachine(machine)' /\ IsMachine(evm)' /\ SameMachine'
      BY <2>1 DEF RunInv, IsMachine, SameMachine, Machine
    <3> QED
      BY <2>1, <2>3, <3>1, <1>3, <1>4 DEF RunInv
  <2> QED
    BY <2>2, <2>3
<1> QED
  BY <1>1, <1>2, <1>5, <1>6, <1>7, <1>8, <1>9 DEF RunNext

\* The emulator goes where the EVM goes and basic blocks are entered at their
\* first instruction and left at their last, whatever the code, the opcodes'
\* bytes and the size of their operands.
THEOREM ControlFlowIsRight == RunSpec => []ControlFlowRight
<1>1. ASSUME RunInv PROVE ControlFlowRight
  <2>1. stage = "run" => SameMachine
    BY <1>1 DEF RunInv
  <2>2. ASSUME stage = "cut", index = Len(instrs), NEW address \in 0..Len(code), NEW c \in {0, 1}
        PROVE  /\ Pieces
               /\ \A b \in DOMAIN blocks, n \in DOMAIN instrs :
                    JumpsBetween(blocks[b], n, <<address, c>>)
    BY <1>1, <2>2, BlocksAreRight DEF RunInv, ReadInv
  <2>3. stage = "cut" => 0 \in 0..Len(code)
    BY <1>1, CodeAssumption DEF RunInv, ReadInv
  <2> QED
    BY <2>1, <2>2, <2>3 DEF ControlFlowRight
<1> QED
  BY <1>1, RunInvInit, RunInvStep, PTL DEF RunSpec

----------------------------------------------------------------------------
(* WordArithmetic: integers with rest and quotient *)

LEMMA DivMod ==
    ASSUME NEW a \in Int, NEW n \in Nat \ {0}
    PROVE  a % n \in 0..(n - 1) /\ a \div n \in Int /\ a = n * (a \div n) + (a % n)
OBVIOUS

LEMMA MultipleMod ==
    ASSUME NEW n \in Nat \ {0}, NEW k \in Int
    PROVE  (n * k) % n = 0
OBVIOUS

LEMMA RestUnique ==
    ASSUME NEW n \in Nat \ {0}, NEW k \in Int, NEW r \in 0..(n - 1)
    PROVE  (n * k + r) % n = r
OBVIOUS

\* Nothing but 0 is a multiple of n and within n of 0.
LEMMA SmallMultiple ==
    ASSUME NEW n \in Nat \ {0}, NEW i \in Int, i % n = 0, -n < i, i < n
    PROVE  i = 0
<1>1. i = n * (i \div n) + 0 /\ i \div n \in Int
  BY DivMod
<1>2. ASSUME NEW k \in Int, n * k < n, -n < n * k PROVE k = 0
  BY <1>2
<1>3. i \div n = 0
  BY <1>1, <1>2
<1> QED BY <1>1, <1>3

\* What is cut off is a multiple.
LEMMA RestCongruent ==
    ASSUME NEW i \in Int, NEW n \in Nat \ {0}
    PROVE  ((i % n) - i) % n = 0 /\ (i - (i % n)) % n = 0
<1>1. i = n * (i \div n) + (i % n) /\ i \div n \in Int /\ i % n \in Int
  BY DivMod
<1>2. i - (i % n) = n * (i \div n)
  BY <1>1
<1>3. (i % n) - i = n * (-(i \div n))
  BY <1>1
<1>4. (n * (i \div n)) % n = 0 /\ (n * (-(i \div n))) % n = 0
  <2>1. -(i \div n) \in Int
    BY <1>1
  <2> QED BY <1>1, <2>1, MultipleMod
<1> QED BY <1>2, <1>3, <1>4

\* Differences of congruent integers.
LEMMA CongruentSum ==
    ASSUME NEW a \in Int, NEW b \in Int, NEW n \in Nat \ {0}, a % n = 0, b % n = 0
    PROVE  (a + b) % n = 0 /\ (a - b) % n = 0 /\ (-a) % n = 0
<1>1. a = n * (a \div n) /\ a \div n \in Int
  BY DivMod
<1>2. b = n * (b \div n) /\ b \div n \in Int
  BY DivMod
<1>3. a + b = n * ((a \div n) + (b \div n))
  BY <1>1, <1>2
<1>4. a - b = n * ((a \div n) - (b \div n))
  BY <1>1, <1>2
<1>5. -a = n * (-(a \div n))
  BY <1>1
<1>6. /\ (n * ((a \div n) + (b \div n))) % n = 0
      /\ (n * ((a \div n) - (b \div n))) % n = 0
      /\ (n * (-(a \div n))) % n = 0
  <2>1. /\ (a \div n) + (b \div n) \in Int /\ (a \div n) - (b \div n) \in Int
        /\ -(a \div n) \in Int
    BY <1>1, <1>2
  <2> QED BY <2>1, MultipleMod
<1> QED BY <1>3, <1>4, <1>5, <1>6

----------------------------------------------------------------------------
(* Words *)

LEMMA WrappedIsCongruent ==
    ASSUME TT255 \in Nat \ {0}, NEW i \in Int
    PROVE  Wrapped(i) \in WordValues /\ Congruent(Wrapped(i), i)
<1>1. TT256 \in Nat \ {0}
  BY DEF TT256
<1>2. i % TT256 \in 0..(TT256 - 1)
  BY <1>1, DivMod
<1>3. ((i % TT256) - i) % TT256 = 0
  BY <1>1, RestCongruent
<1> QED BY <1>2, <1>3 DEF Wrapped, Congruent, WordValues

\* What to_signed returns is the one signed integer that the word stands for.
LEMMA ToSignedIsIntOf ==
    ASSUME TT255 \in Nat \ {0}, NEW x \in WordValues
    PROVE  ToSigned(x) \in (-TT255)..(TT255 - 1) /\ ToSigned(x) = IntOf(x)
<1>1. TT256 \in Nat \ {0} /\ TT256 = 2 * TT255 /\ x \in 0..(TT256 - 1)
  BY DEF TT256, WordValues
<1>2. ToSigned(x) \in (-TT255)..(TT255 - 1)
  BY <1>1 DEF ToSigned
<1>3. Congruent(x, ToSigned(x))
  <2>1. CASE x < TT255
    <3>1. x - ToSigned(x) = TT256 * 0
      BY <1>1, <2>1 DEF ToSigned
    <3>2. (TT256 * 0) % TT256 = 0
      BY <1>1, MultipleMod
    <3> QED BY <3>1, <3>2 DEF Congruent
  <2>2. CASE ~ x < TT255
    <3>1. x - ToSigned(x) = TT256 * 1
      BY <1>1, <2>2 DEF ToSigned
    <3>2. (TT256 * 1) % TT256 = 0
      BY <1>1, MultipleMod
    <3> QED BY <3>1, <3>2 DEF Congruent
  <2> QED BY <2>1, <2>2
<1>4. ASSUME NEW i \in (-TT255)..(TT255 - 1), Congruent(x, i)
      PROVE  i = ToSigned(x)
  <2>1. (x - i) % TT256 = 0 /\ (x - ToSigned(x)) % TT256 = 0
    BY <1>3, <1>4 DEF Congruent
  <2>2. x - i \in Int /\ x - ToSigned(x) \in Int
    BY <1>1, <1>2
  <2>3. ((x - i) - (x - ToSigned(x))) % TT256 = 0
    BY <1>1, <2>1, <2>2, CongruentSum
  <2>4. (x - i) - (x - ToSigned(x)) = ToSigned(x) - i
    BY <1>1, <1>2
  <2>5. -TT256 < ToSigned(x) - i /\ ToSigned(x) - i < TT256 /\ ToSigned(x) - i \in Int
    BY <1>1, <1>2
  <2>6. ToSigned(x) - i = 0
    BY <1>1, <2>3, <2>4, <2>5, SmallMultiple
  <2> QED BY <1>1, <1>2, <2>6
<1>5. IntOf(x) = ToSigned(x)
  BY <1>2, <1>3, <1>4 DEF IntOf
<1> QED BY <1>2, <1>5

LEMMA QuotientOfNats ==
    ASSUME NEW a \in Nat, NEW b \in Nat \ {0}
    PROVE  LET q == a \div b
           IN  /\ q \in 0..a /\ q * b <= a /\ a - q * b < b
               /\ a % b = a - q * b
<1>1. a % b \in 0..(b - 1) /\ a \div b \in Int /\ a = b * (a \div b) + (a % b)
  BY DivMod
<1>2. a \div b >= 0
  <2>1. ASSUME NEW q \in Int, q < 0 PROVE b * q <= -b
    BY <2>1
  <2> QED BY <1>1, <2>1
<1>3. a \div b <= a
  <2>1. ASSUME NEW q \in Nat PROVE q <= b * q
    OBVIOUS
  <2> QED BY <1>1, <1>2, <2>1
<1>4. b * (a \div b) = (a \div b) * b
  BY <1>1
<1> QED BY <1>1, <1>2, <1>3, <1>4

\* The quotient of the absolute values, with the sign that the product has, is
\* the one rounded towards zero; and the rest has the dividend's sign.
LEMMA SignedDivision ==
    ASSUME NEW x \in Int, NEW y \in Int \ {0}
    PROVE  LET q == SignedQuotient(x, y)
           IN  /\ q \in Int /\ Abs(q) <= Abs(x) /\ IsQuotient(q, x, y)
               /\ (IF x < 0 THEN -1 ELSE 1) * (Abs(x) % Abs(y)) = x - q * y
<1> DEFINE a == Abs(x)
           b == Abs(y)
           d == a \div b
           q == SignedQuotient(x, y)
<1>1. a \in Nat /\ b \in Nat \ {0}
  BY DEF Abs
<1>2. d \in 0..a /\ d * b <= a /\ a - d * b < b /\ a % b = a - d * b
  BY <1>1, QuotientOfNats
<1>3. x * y >= 0 <=> (x = 0 \/ (x > 0 <=> y > 0))
  <2>1. CASE x = 0
    BY <2>1
  <2>2. CASE x > 0 /\ y > 0
    BY <2>2
  <2>3. CASE x > 0 /\ y < 0
    BY <2>3
  <2>4. CASE x < 0 /\ y > 0
    BY <2>4
  <2>5. CASE x < 0 /\ y < 0
    BY <2>5
  <2> QED BY <2>1, <2>2, <2>3, <2>4, <2>5
<1>4. q = IF x = 0 \/ (x > 0 <=> y > 0) THEN d ELSE -d
  BY <1>2, <1>3 DEF SignedQuotient
<1> HIDE DEF d, q
<1>5. q \in Int /\ Abs(q) = d
  BY <1>2, <1>4 DEF Abs
<1>6. q * y = IF x < 0 THEN -(d * b) ELSE d * b
  <2>1. CASE x = 0
    <3>1. d = 0
      BY <1>2, <2>1 DEF Abs
    <3> QED BY <1>1, <1>4, <2>1, <3>1
  <2>2. CASE x > 0 /\ y > 0
    BY <1>2, <1>4, <2>2 DEF Abs
  <2>3. CASE x > 0 /\ y < 0
    BY <1>2, <1>4, <2>3 DEF Abs
  <2>4. CASE x < 0 /\ y > 0
    BY <1>2, <1>4, <2>4 DEF Abs
  <2>5. CASE x < 0 /\ y < 0
    BY <1>2, <1>4, <2>5 DEF Abs
  <2> QED BY <2>1, <2>2, <2>3, <2>4, <2>5
<1>7. d * b \in Nat
  BY <1>1, <1>2
<1>8. Abs(q * y) = d * b
  BY <1>6, <1>7 DEF Abs
<1>9. q * x * y >= 0
  <2>1. q * x * y = (q * y) * x
    BY <1>5
  <2>2. CASE x < 0
    <3>1. ASSUME NEW k \in Nat PROVE (-k) * x >= 0
      BY <2>2
    <3> QED BY <1>6, <1>7, <2>1, <2>2, <3>1
  <2>3. CASE ~ x < 0
    <3>1. ASSUME NEW k \in Nat PROVE k * x >= 0
      BY <2>3
    <3> QED BY <1>6, <1>7, <2>1, <2>3, <3>1
  <2> QED BY <2>2, <2>3
<1>10. IsQuotient(q, x, y)
  BY <1>2, <1>8, <1>9 DEF IsQuotient
<1>11. (IF x < 0 THEN -1 ELSE 1) * (a % b) = x - q * y
  <2>1. a % b \in Int
    BY <1>1, <1>2, <1>7
  <2>2. CASE x < 0
    <3>1. a = -x
      BY <2>2 DEF Abs
    <3> HIDE DEF a, b
    <3> QED BY <1>2, <1>6, <1>7, <2>1, <2>2, <3>1
  <2>3. CASE ~ x < 0
    <3>1. a = x
      BY <2>3 DEF Abs
    <3> HIDE DEF a, b
    <3> QED BY <1>2, <1>6, <1>7, <2>1, <2>3, <3>1
  <2> QED BY <2>2, <2>3
<1> QED BY <1>2, <1>5, <1>10, <1>11 DEF q

----------------------------------------------------------------------------
(* The instructions *)

LEMMA WordType ==
    ASSUME TT255 \in Nat \ {0}
    PROVE  /\ TT256 \in Nat \ {0} /\ TT256 = 2 * TT255 /\ 1 < TT256
           /\ \A x \in WordValues : x \in Nat /\ x < TT256
           /\ \A x \in Nat : x < TT256 => x \in WordValues
           /\ 0 \in WordValues /\ 1 \in WordValues
BY DEF TT256, WordValues

LEMMA UnsignedDivision ==
    ASSUME TT255 \in Nat \ {0}, NEW x \in WordValues, NEW y \in WordValues, y # 0
    PROVE  /\ x \div y \in WordValues /\ IsQuotient(x \div y, x, y)
           /\ x % y \in WordValues /\ x % y \in 0..(y - 1) /\ (x - (x % y)) % y = 0
<1> DEFINE d == x \div y
           r == x % y
<1>1. x \in Nat /\ x < TT256 /\ y \in Nat \ {0} /\ y < TT256 /\ TT256 \in Nat
  BY WordType
<1>2. d \in 0..x /\ d * y <= x /\ x - d * y < y
  BY <1>1, QuotientOfNats
<1>3. r \in 0..(y - 1)
  BY <1>1, DivMod
<1>4. (x - r) % y = 0
  BY <1>1, RestCongruent
<1> HIDE DEF d, r
<1>5. d \in WordValues /\ r \in WordValues
  <2>1. d \in Nat /\ d < TT256 /\ r \in Nat /\ r < TT256
    BY <1>1, <1>2, <1>3
  <2> QED BY <2>1, WordType
<1>6. d * y \in Nat /\ d * x * y >= 0
  <2>1. d * x \in Nat /\ d * y \in Nat
    BY <1>1, <1>2
  <2>2. (d * x) * y \in Nat
    BY <1>1, <2>1
  <2> QED BY <2>1, <2>2
<1>7. IsQuotient(d, x, y)
  BY <1>1, <1>2, <1>6 DEF IsQuotient, Abs
<1> QED BY <1>3, <1>4, <1>5, <1>7 DEF d, r

LEMMA SignedInstructions ==
    ASSUME TT255 \in Nat \ {0}, NEW x \in WordValues, NEW y \in WordValues, y # 0
    PROVE  /\ \E q \in (-TT255)..TT255 :
                    /\ IsQuotient(q, IntOf(x), IntOf(y))
                    /\ Congruent(Wrapped(SignedQuotient(ToSigned(x), ToSigned(y))), q)
           /\ \E q \in (-TT255)..TT255 :
                    /\ IsQuotient(q, IntOf(x), IntOf(y))
                    /\ Congruent(SignedRest(ToSigned(x), ToSigned(y)), IntOf(x) - q * IntOf(y))
           /\ Wrapped(SignedQuotient(ToSigned(x), ToSigned(y))) \in WordValues
           /\ SignedRest(ToSigned(x), ToSigned(y)) \in WordValues
<1> DEFINE s == ToSigned(x)
           t == ToSigned(y)
           q == SignedQuotient(s, t)
<1>1. /\ s \in (-TT255)..(TT255 - 1) /\ s = IntOf(x)
      /\ t \in (-TT255)..(TT255 - 1) /\ t = IntOf(y)
  BY ToSignedIsIntOf
<1>2. t # 0
  <2>1. y \in Nat /\ y < TT256 /\ TT256 = 2 * TT255
    BY WordType
  <2> QED BY <2>1 DEF ToSigned
<1> HIDE DEF s, t
<1>3. /\ q \in Int /\ Abs(q) <= Abs(s) /\ IsQuotient(q, s, t)
      /\ (IF s < 0 THEN -1 ELSE 1) * (Abs(s) % Abs(t)) = s - q * t
  <2>1. s \in Int /\ t \in Int \ {0}
    BY <1>1, <1>2
  <2> QED BY <2>1, SignedDivision
<1> HIDE DEF q
<1>4. q \in (-TT255)..TT255
  BY <1>1, <1>3 DEF Abs
<1>5. s - q * t \in Int
  BY <1>1, <1>3
<1>6. SignedRest(s, t) = Wrapped(s - q * t)
  BY <1>2, <1>3 DEF SignedRest
<1>7. /\ Wrapped(q) \in WordValues /\ Congruent(Wrapped(q), q)
      /\ SignedRest(s, t) \in WordValues /\ Congruent(SignedRest(s, t), s - q * t)
  BY <1>3, <1>5, <1>6, WrappedIsCongruent
<1>8. IsQuotient(q, IntOf(x), IntOf(y)) /\ s - q * t = IntOf(x) - q * IntOf(y)
  BY <1>1, <1>3
<1> QED BY <1>4, <1>7, <1>8 DEF s, t, q

\* The rest modulo m of a sum or a product.
LEMMA ModuloIsRest ==
    ASSUME TT255 \in Nat \ {0}, NEW i \in Int, NEW m \in WordValues, m # 0
    PROVE  /\ Modulo(i, m) \in WordValues /\ Modulo(i, m) \in 0..(m - 1)
           /\ (i - Modulo(i, m)) % m = 0
<1>1. m \in Nat \ {0} /\ m < TT256 /\ TT256 \in Nat \ {0}
  BY WordType
<1>2. i % m \in 0..(m - 1)
  BY <1>1, DivMod
<1>3. i % m \in 0..(TT256 - 1)
  BY <1>1, <1>2
<1>4. (TT256 * 0 + (i % m)) % TT256 = i % m
  BY <1>1, <1>3, RestUnique
<1>5. TT256 * 0 + (i % m) = i % m
  BY <1>1, <1>2
<1>6. Modulo(i, m) = i % m
  BY <1>4, <1>5 DEF Modulo, Wrapped
<1>7. (i - (i % m)) % m = 0
  BY <1>1, RestCongruent
<1> QED BY <1>2, <1>3, <1>6, <1>7 DEF WordValues

LEMMA LessByDifference ==
    ASSUME TT255 \in Nat \ {0}, NEW x \in WordValues, NEW y \in WordValues
    PROVE  (x < y) <=> \E d \in WordValues \ {0} : x + d = y
<1>1. x \in Nat /\ x < TT256 /\ y \in Nat /\ y < TT256
  BY WordType
<1>2. ASSUME x < y PROVE \E d \in WordValues \ {0} : x + d = y
  <2>1. y - x \in Nat /\ y - x < TT256 /\ y - x # 0 /\ x + (y - x) = y
    BY <1>1, <1>2, WordType
  <2>2. y - x \in WordValues
    BY <2>1, WordType
  <2> QED BY <2>1, <2>2
<1>3. ASSUME NEW d \in WordValues \ {0}, x + d = y PROVE x < y
  <2>1. d \in Nat
    BY WordType
  <2> QED BY <1>1, <1>3, <2>1
<1> QED BY <1>2, <1>3

\* Whatever the width of a word, the emulator's arithmetic on values and its
\* comparisons are the EVM's (emulator.py:198): signed words are those that
\* two's complement means, at the greatest negative word too, whose quotient by
\* -1 does not fit; sums and products wrap; a quotient is rounded towards zero
\* and a rest has the dividend's sign.  A rest modulo 0 raises an exception.
THEOREM ValuesAreRight ==
    ASSUME TT255 \in Nat \ {0}, NEW op \in ValueOps,
           NEW x \in WordValues, NEW y \in WordValues, NEW m \in WordValues
    PROVE  ValueRight(op, x, y, m)
<1> DEFINE result == ValueResult(op, x, y, m)
<1>1. x \in Int /\ y \in Int /\ m \in Int /\ x + y \in Int /\ x - y \in Int /\ x * y \in Int
  BY WordType
<1>2. CASE op = "ADD"
  <2>1. result = Wrapped(x + y)
    BY <1>2 DEF ValueResult
  <2> QED BY <1>1, <1>2, <2>1, WrappedIsCongruent DEF ValueRight, ValueAgrees, ByZero
<1>3. CASE op = "SUB"
  <2>1. result = Wrapped(x - y)
    BY <1>3 DEF ValueResult
  <2> QED BY <1>1, <1>3, <2>1, WrappedIsCongruent DEF ValueRight, ValueAgrees, ByZero
<1>4. CASE op = "MUL"
  <2>1. result = Wrapped(x * y)
    BY <1>4 DEF ValueResult
  <2> QED BY <1>1, <1>4, <2>1, WrappedIsCongruent DEF ValueRight, ValueAgrees, ByZero
<1>5. 0 \in WordValues
  BY WordType
<1>6. CASE op = "DIV"
  <2>1. result = IF y = 0 THEN 0 ELSE x \div y
    BY <1>6 DEF ValueResult
  <2> QED BY <1>5, <1>6, <2>1, UnsignedDivision DEF ValueRight, ValueAgrees, ByZero
<1>7. CASE op = "MOD"
  <2>1. result = IF y = 0 THEN 0 ELSE x % y
    BY <1>7 DEF ValueResult
  <2> QED BY <1>5, <1>7, <2>1, UnsignedDivision DEF ValueRight, ValueAgrees, ByZero
<1>8. y = 0 => ToSigned(y) = 0
  BY DEF ToSigned
<1>9. CASE op = "SDIV"
  <2>1. result = Wrapped(SignedQuotient(ToSigned(x), ToSigned(y)))
    BY <1>9 DEF ValueResult
  <2>2. CASE y = 0
    <3>1. result = 0
      <4>1. (TT256 * 0 + 0) % TT256 = 0
        BY WordType, RestUnique
      <4>2. Wrapped(0) = 0
        BY <4>1, WordType DEF Wrapped
      <4> QED BY <1>8, <2>1, <2>2, <4>2 DEF SignedQuotient
    <3> HIDE DEF result
    <3> QED BY <1>5, <1>9, <2>2, <3>1 DEF result, ValueRight, ValueAgrees, ByZero
  <2>3. CASE y # 0
    BY <1>9, <2>1, <2>3, SignedInstructions DEF ValueRight, ValueAgrees, ByZero
  <2> QED BY <2>2, <2>3
<1>10. CASE op = "SMOD"
  <2>1. result = SignedRest(ToSigned(x), ToSigned(y))
    BY <1>10 DEF ValueResult
  <2>2. CASE y = 0
    BY <1>8, <1>10, <2>1, <2>2 DEF ValueRight, ByZero, SignedRest
  <2>3. CASE y # 0
    BY <1>10, <2>1, <2>3, SignedInstructions DEF ValueRight, ValueAgrees, ByZero
  <2> QED BY <2>2, <2>3
<1>11. CASE op = "ADDMOD"
  <2>1. result = Modulo(x + y, m)
    BY <1>11 DEF ValueResult
  <2>2. CASE m = 0
    BY <1>11, <2>1, <2>2 DEF ValueRight, ByZero, Modulo
  <2>3. CASE m # 0
    BY <1>1, <1>11, <2>1, <2>3, ModuloIsRest DEF ValueRight, ValueAgrees, ByZero
  <2> QED BY <2>2, <2>3
<1>12. CASE op = "MULMOD"
  <2>1. result = Modulo(x * y, m)
    BY <1>12 DEF ValueResult
  <2>2. CASE m = 0
    BY <1>12, <2>1, <2>2 DEF ValueRight, ByZero, Modulo
  <2>3. CASE m # 0
    BY <1>1, <1>12, <2>1, <2>3, ModuloIsRest DEF ValueRight, ValueAgrees, ByZero
  <2> QED BY <2>2, <2>3
<1>13. CASE op = "LT"
  <2>1. result = IF (x < y) THEN 1 ELSE 0
    BY <1>13 DEF ValueResult, Truth
  <2>2. result \in WordValues /\ ((result = 1) <=> (x < y))
    BY <2>1, WordType
  <2>3. (x < y) <=> (\E d \in WordValues \ {0} : x + d = y)
    BY LessByDifference
  <2> HIDE DEF result
  <2>4. (result = 1) = (\E d \in WordValues \ {0} : x + d = y)
    BY <2>2, <2>3
  <2> QED BY <1>13, <2>2, <2>4 DEF result, ValueRight, ValueAgrees, ByZero
<1>14. CASE op = "GT"
  <2>1. result = IF (x > y) THEN 1 ELSE 0
    BY <1>14 DEF ValueResult, Truth
  <2>2. result \in WordValues /\ ((result = 1) <=> (x > y))
    BY <2>1, WordType
  <2>3. (x > y) <=> (\E d \in WordValues \ {0} : y + d = x)
    BY <1>1, LessByDifference
  <2> HIDE DEF result
  <2>4. (result = 1) = (\E d \in WordValues \ {0} : y + d = x)
    BY <2>2, <2>3
  <2> QED BY <1>14, <2>2, <2>4 DEF result, ValueRight, ValueAgrees, ByZero
<1>15. /\ ToSigned(x) = IntOf(x) /\ ToSigned(x) \in Int
       /\ ToSigned(y) = IntOf(y) /\ ToSigned(y) \in Int
  BY ToSignedIsIntOf
<1>16. CASE op = "SLT"
  <2>1. result = IF (ToSigned(x) < ToSigned(y)) THEN 1 ELSE 0
    BY <1>16 DEF ValueResult, Truth
  <2>2. result \in WordValues /\ ((result = 1) <=> (ToSigned(x) < ToSigned(y)))
    BY <2>1, WordType
  <2>3. (ToSigned(x) < ToSigned(y)) <=> (IntOf(x) < IntOf(y))
    BY <1>15
  <2> HIDE DEF result
  <2>4. (result = 1) = (IntOf(x) < IntOf(y))
    BY <2>2, <2>3
  <2> QED BY <1>16, <2>2, <2>4 DEF result, ValueRight, ValueAgrees, ByZero
<1>17. CASE op = "SGT"
  <2>1. result = IF (ToSigned(x) > ToSigned(y)) THEN 1 ELSE 0
    BY <1>17 DEF ValueResult, Truth
  <2>2. result \in WordValues /\ ((result = 1) <=> (ToSigned(x) > ToSigned(y)))
    BY <2>1, WordType
  <2>3. (ToSigned(x) > ToSigned(y)) <=> (IntOf(y) < IntOf(x))
    BY <1>15
  <2> HIDE DEF result
  <2>4. (result = 1) = (IntOf(y) < IntOf(x))
    BY <2>2, <2>3
  <2> QED BY <1>17, <2>2, <2>4 DEF result, ValueRight, ValueAgrees, ByZero
<1> QED BY <1>2, <1>3, <1>4, <1>6, <1>7, <1>9, <1>10, <1>11, <1>12, <1>13, <1>14, <1>16, <1>17
        DEF ValueOps

=============================================================================
