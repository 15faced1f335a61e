--------------------- MODULE ImplementationHistoryProofs ---------------------
(***************************************************************************)
(* Proofs about ImplementationHistory for every chain, every search range  *)
(* and every set of logic contracts.                                       *)
(***************************************************************************)
EXTENDS ImplementationHistory, SequenceTheorems, FiniteSetTheorems, WellFoundedInduction, TLAPS

----------------------------------------------------------------------------
(* Facts about integers and sets of block numbers *)

\* A non-empty set of naturals has a least element.
LEMMA LeastExists ==
    ASSUME NEW S \in SUBSET Nat, S # {}
    PROVE  \E x \in S : \A y \in S : x <= y
<1>1. PICK x \in S : \A y \in S : ~ (<<y, x>> \in OpToRel(<, Nat))
  BY NatLessThanWellFounded, WFMin
<1>2. \A y \in S : ~ (y < x)
  BY <1>1 DEF OpToRel
<1> QED BY <1>2

\* A non-empty set of block numbers up to n has a last one, and Latest finds it.
LEMMA LatestIsLast ==
    ASSUME NEW n \in Nat, NEW S \in SUBSET (1..n), S # {}
    PROVE  Latest(S) \in S /\ \A b \in S : b <= Latest(S)
<1> DEFINE T == {n - b : b \in S}
<1>1. T \in SUBSET Nat /\ T # {}
  <2>1. \A b \in S : n - b \in Nat
    OBVIOUS
  <2>2. PICK b \in S : TRUE
    OBVIOUS
  <2>3. n - b \in T
    BY <2>2
  <2> QED BY <2>1, <2>3
<1>2. PICK x \in T : \A y \in T : x <= y
  BY <1>1, LeastExists
<1>3. PICK m \in S : x = n - m
  BY <1>2
<1>4. \A b \in S : b <= m
  <2> TAKE b \in S
  <2>1. n - b \in T
    OBVIOUS
  <2>2. n - m <= n - b
    BY <2>1, <1>2, <1>3
  <2> QED BY <2>2
<1>5. \E b \in S : \A a \in S : a <= b
  BY <1>4
<1> QED BY <1>5 DEF Latest

\* The middle of an interval that is not settled lies strictly inside it.
LEMMA MidInside ==
    ASSUME NEW l \in Nat, NEW r \in Nat, r - l > 1
    PROVE  /\ (l + r) \div 2 \in Nat
           /\ l < (l + r) \div 2
           /\ (l + r) \div 2 < r
  OBVIOUS

LEMMA SeqElement ==
    ASSUME NEW S, NEW s \in Seq(S), NEW i \in DOMAIN s
    PROVE  s[i] \in S
  OBVIOUS

----------------------------------------------------------------------------
(* The invariant, one lemma per action *)

LEMMA InitInvariant == Init => SearchInvariant
<1> SUFFICES ASSUME Init PROVE SearchInvariant
  OBVIOUS
<1>1. ChainTypeOK
  <2>1. PICK w \in Words : chain = <<w>>
    BY DEF Init, ChainInit
  <2>2. chain \in Seq(Words) /\ Len(chain) = 1
    BY <2>1
  <2> QED BY <2>2, MaxBlockAssumption DEF ChainTypeOK, Block
<1>2. TypeOK
  BY <1>1, MaxBlockAssumption DEF Init, TypeOK, Block
<1> QED BY <1>2 DEF Init, SearchInvariant, MemoTrue

LEMMA MineInvariant ==
    ASSUME SearchInvariant, NEW w \in Words, Mine(w), UNCHANGED searchVars
    PROVE  SearchInvariant'
<1> USE DEF SearchInvariant, searchVars
<1>1. ChainTypeOK'
  <2>1. chain \in Seq(Words) /\ Len(chain) \in 1..MaxBlock
    BY DEF ChainTypeOK, TypeOK, Block
  <2>2. chain' = Append(chain, w) /\ Len(chain) < MaxBlock
    BY DEF Mine, Height
  <2>3. chain' \in Seq(Words) /\ Len(chain') = Len(chain) + 1
    BY <2>1, <2>2
  <2> QED BY <2>1, <2>2, <2>3, MaxBlockAssumption DEF ChainTypeOK, Block
<1>2. TypeOK'
  BY <1>1 DEF TypeOK
<1>3. \A b \in DOMAIN chain : b \in DOMAIN chain' /\ chain'[b] = chain[b]
  BY DEF Mine, TypeOK, ChainTypeOK
<1>4. MemoTrue'
  BY <1>3 DEF MemoTrue, SlotValue
<1>5. (StackOrdered <=> StackOrdered') /\ (EndsRead <=> EndsRead')
      /\ (InteriorUnread <=> InteriorUnread')
  BY DEF StackOrdered, EndsRead, InteriorUnread, Known, Settled, Differ, Mid
<1>6. (ChangesLocated <=> ChangesLocated') /\ (NothingSkipped <=> NothingSkipped')
  BY DEF ChangesLocated, NothingSkipped, Neighbours, Differ, Pending, Known
<1> QED BY <1>2, <1>4, <1>5, <1>6 DEF Known, Listed, LogicBlocks, PrecedingValue

LEMMA BeginInvariant ==
    ASSUME SearchInvariant, NEW b \in Block, Begin(b)
    PROVE  SearchInvariant'
<1> USE DEF SearchInvariant, Begin
<1>1. b \in Nat /\ 1 <= b
  BY MaxBlockAssumption DEF Block
<1>2. calls'[1].l = 1 /\ calls'[1].r = b /\ DOMAIN calls' = {1}
  OBVIOUS
<1>3. TypeOK'
  <2>1. [l |-> 1, r |-> b] \in [l : 1..b, r : 1..b]
    BY <1>1
  <2>2. calls' \in Seq([l : 1..right', r : 1..right'])
    BY <2>1
  <2> QED BY <2>2 DEF TypeOK, ChainTypeOK
<1>4. MemoTrue'
  BY DEF MemoTrue
<1>5. StackOrdered' /\ EndsRead' /\ InteriorUnread'
  BY <1>1, <1>2 DEF StackOrdered, EndsRead, InteriorUnread
<1>6. ChangesLocated'
  BY DEF ChangesLocated
<1>7. NothingSkipped'
  BY <1>1, <1>2 DEF NothingSkipped, Pending
<1> QED BY <1>3, <1>4, <1>5, <1>6, <1>7

LEMMA ErrorInvariant ==
    ASSUME SearchInvariant, RpcError
    PROVE  SearchInvariant'
<1>1. TypeOK'
  BY DEF SearchInvariant, RpcError, TypeOK, ChainTypeOK
<1> QED BY <1>1 DEF SearchInvariant, RpcError, MemoTrue, SlotValue

LEMMA UnansweredInvariant ==
    ASSUME SearchInvariant, Unanswered
    PROVE  SearchInvariant'
<1>1. TypeOK'
  BY DEF SearchInvariant, Unanswered, TypeOK, ChainTypeOK
<1> QED BY <1>1 DEF SearchInvariant, Unanswered, MemoTrue, SlotValue

LEMMA FinishInvariant ==
    ASSUME SearchInvariant, Finish
    PROVE  SearchInvariant'
<1> USE DEF SearchInvariant, Finish
<1>1. DOMAIN result' \subseteq DOMAIN table
  BY DEF Listed, LogicBlocks
<1>2. TypeOK'
  BY <1>1 DEF TypeOK, ChainTypeOK
<1>3. Known(1)' /\ Known(right)'
  BY DEF EndsRead, Known
<1>4. ChangesLocated' /\ NothingSkipped'
  BY DEF ChangesLocated, NothingSkipped, Neighbours, Differ, Pending, Known
<1> QED BY <1>2, <1>3, <1>4 DEF MemoTrue, SlotValue, Listed, LogicBlocks, PrecedingValue

\* What TypeOK says of the activations, as the provers need it.
LEMMA TopFacts ==
    ASSUME SearchInvariant, Running
    PROVE  /\ right \in Nat /\ 1 <= right
           /\ Len(calls) \in Nat /\ Len(calls) >= 1
           /\ DOMAIN calls = 1..Len(calls)
           /\ \A i \in DOMAIN calls : calls[i] \in [l : 1..right, r : 1..right]
           /\ Top = calls[1]
<1> DEFINE Activation == [l : 1..right, r : 1..right]
<1>1. calls \in Seq(Activation) /\ calls # <<>>
  BY DEF SearchInvariant, TypeOK, Running
<1>2. right \in Nat /\ 1 <= right
  BY MaxBlockAssumption DEF SearchInvariant, TypeOK, Block
<1>3. Len(calls) \in Nat /\ Len(calls) >= 1 /\ DOMAIN calls = 1..Len(calls)
  BY <1>1
<1>4. \A i \in DOMAIN calls : calls[i] \in Activation
  <2> HIDE DEF Activation
  <2> QED BY <1>1, SeqElement
<1>5. Top = calls[1]
  BY <1>1, <1>3 DEF Top
<1> QED BY <1>2, <1>3, <1>4, <1>5

\* Reading an end: the outermost activation has just been entered.
LEMMA QueryEndInvariant ==
    ASSUME SearchInvariant, NEW b \in 1..right, Query(b), b = Top.l \/ b = Top.r
    PROVE  SearchInvariant'
<1>1. Running /\ ~ Known(b) /\ b \in DOMAIN chain
  BY DEF Query, Asks
<1>2. UNCHANGED <<chain, right, calls, status, result>>
  BY DEF Query
<1>3. /\ DOMAIN table' = DOMAIN table \cup {b}
      /\ table'[b] = SlotValue(b)
      /\ \A k \in DOMAIN table : table'[k] = table[k]
  BY <1>1 DEF Query, Remember, Known
<1>4. calls = <<[l |-> 1, r |-> right]>> /\ DOMAIN table \subseteq {1, right}
  BY <1>1, TopFacts DEF SearchInvariant, EndsRead, Running, Known
<1>5. DOMAIN table' \subseteq {1, right}
  BY <1>1, <1>3, <1>4, TopFacts
<1>6. TypeOK'
  <2>1. SlotValue(b) \in Values
    BY <1>1 DEF SearchInvariant, TypeOK, ChainTypeOK, SlotValue, ReplyValue, Words, Values
  <2>2. DOMAIN table' \subseteq 1..right
    BY <1>3 DEF SearchInvariant, TypeOK
  <2> QED BY <2>1, <2>2, <1>2, <1>3 DEF SearchInvariant, TypeOK, ChainTypeOK
<1>7. MemoTrue'
  BY <1>1, <1>2, <1>3 DEF SearchInvariant, MemoTrue, SlotValue
<1>8. StackOrdered' /\ EndsRead' /\ InteriorUnread'
  <2>1. StackOrdered'
    BY <1>1, <1>2 DEF SearchInvariant, Running, StackOrdered
  <2>2. EndsRead'
    BY <1>2, <1>4, <1>5 DEF EndsRead
  <2>3. InteriorUnread'
    BY <1>2, <1>4, <1>5, <1>1, TopFacts DEF InteriorUnread
  <2> QED BY <2>1, <2>2, <2>3
<1>9. ChangesLocated' /\ NothingSkipped'
  <2>1. \A x, y \in 1..right : Pending(x, y)'
    BY <1>2, <1>4, <1>1, TopFacts DEF Pending
  <2>2. ChangesLocated'
    BY <2>1, <1>2, <1>3, <1>6 DEF ChangesLocated, TypeOK
  <2>3. right \in Nat /\ right' = right
    BY <1>1, <1>2, TopFacts
  <2>4. \A k \in 2..right : k - 1 \in 1..right /\ k \in 1..right
    BY <2>3
  <2>5. NothingSkipped'
    BY <2>1, <2>3, <2>4 DEF NothingSkipped
  <2> QED BY <2>2, <2>5
<1> QED BY <1>1, <1>2, <1>6, <1>7, <1>8, <1>9 DEF SearchInvariant, Running

\* Reading the middle of the topmost activation, whose ends differ.
LEMMA QueryMiddleInvariant ==
    ASSUME SearchInvariant, NEW b \in 1..right, Query(b),
           b = Mid(Top), Known(Top.l), Known(Top.r), ~ Settled(Top)
    PROVE  SearchInvariant'
<1> DEFINE L == calls[1].l
           R == calls[1].r
<1>1. Running /\ ~ Known(b) /\ b \in DOMAIN chain /\ status = "searching"
  BY DEF Query, Asks, Running
<1>2. UNCHANGED <<chain, right, calls, status, result>>
  BY DEF Query
<1>3. /\ DOMAIN table' = DOMAIN table \cup {b}
      /\ table'[b] = SlotValue(b)
      /\ \A k \in DOMAIN table : table'[k] = table[k]
  BY <1>1 DEF Query, Remember, Known
<1>4. /\ L \in Nat /\ R \in Nat /\ L < b /\ b < R
      /\ L \in DOMAIN table /\ R \in DOMAIN table
      /\ 1 \in DOMAIN calls
  <2>0. 1 \in DOMAIN calls
    BY <1>1, TopFacts
  <2>1. calls[1] \in [l : 1..right, r : 1..right] /\ Top = calls[1] /\ right \in Nat
    BY <2>0, <1>1, TopFacts
  <2>2. L \in Nat /\ R \in Nat
    BY <2>1
  <2>3. R - L > 1
    BY <2>1, <2>2 DEF Settled
  <2>4. b = (L + R) \div 2
    BY <2>1 DEF Mid
  <2>5. L < b /\ b < R
    BY <2>2, <2>3, <2>4, MidInside
  <2> QED BY <2>0, <2>1, <2>2, <2>5 DEF Known
<1>5. TypeOK'
  <2>1. SlotValue(b) \in Values
    BY <1>1 DEF SearchInvariant, TypeOK, ChainTypeOK, SlotValue, ReplyValue, Words, Values
  <2>2. DOMAIN table' \subseteq 1..right
    BY <1>3 DEF SearchInvariant, TypeOK
  <2> QED BY <2>1, <2>2, <1>2, <1>3 DEF SearchInvariant, TypeOK, ChainTypeOK
<1>6. MemoTrue'
  BY <1>1, <1>2, <1>3 DEF SearchInvariant, MemoTrue, SlotValue
<1>7. StackOrdered'
  BY <1>1, <1>2 DEF SearchInvariant, StackOrdered
<1>8. EndsRead'
  BY <1>1, <1>2, <1>3, <1>4, TopFacts DEF SearchInvariant, EndsRead, Known
<1>9. InteriorUnread'
  <2> SUFFICES ASSUME NEW i \in DOMAIN calls, NEW k \in DOMAIN table',
                      calls[i].l < k, k < calls[i].r
               PROVE  /\ i = 1 /\ k = Mid(calls[i])
                      /\ Known(calls[i].l)' /\ Known(calls[i].r)'
                      /\ ~ Settled(calls[i])'
    BY <1>2 DEF InteriorUnread, Mid
  <2>1. calls[i].l \in Nat /\ calls[i].r \in Nat /\ i \in Nat /\ i >= 1 /\ Top = calls[1]
    BY <1>1, TopFacts
  <2>2. i = 1
    <3>1. CASE k = b
      <4>1. i > 1 => R <= calls[i].l
        BY <1>1, <1>4, TopFacts DEF SearchInvariant, StackOrdered
      <4> QED BY <4>1, <3>1, <2>1, <1>4
    <3>2. CASE k # b
      BY <3>2, <1>1, <1>3 DEF SearchInvariant, InteriorUnread
    <3> QED BY <3>1, <3>2
  <2>3. k = Mid(calls[i])
    BY <2>1, <2>2, <1>1, <1>3 DEF SearchInvariant, InteriorUnread
  <2>4. Known(L)' /\ Known(R)' /\ ~ Settled(calls[1])'
    BY <1>2, <1>3, <1>4, <2>1 DEF Known, Settled, Differ
  <2> QED BY <2>2, <2>3, <2>4
<1>10. ChangesLocated'
  <2> SUFFICES ASSUME NEW x \in DOMAIN table', NEW y \in DOMAIN table',
                      Neighbours(x, y)', Differ(x, y)'
               PROVE  y = x + 1 \/ Pending(x, y)'
    BY DEF ChangesLocated
  <2>1. x \in Nat /\ y \in Nat /\ x < y /\ ~ (x < b /\ b < y)
    BY <1>2, <1>3, <1>5 DEF Neighbours, TypeOK
  <2>2. ~ (x < L /\ L < y) /\ ~ (x < R /\ R < y)
    BY <1>3, <1>4 DEF Neighbours
  <2>3. CASE x = b \/ y = b
    <3>1. L <= x /\ y <= R
      BY <2>1, <2>2, <2>3, <1>4
    <3> QED BY <3>1, <1>2, <1>4 DEF Pending
  <2>4. CASE x # b /\ y # b
    <3>1. Neighbours(x, y) /\ Differ(x, y) /\ x \in DOMAIN table /\ y \in DOMAIN table
      BY <2>4, <1>3 DEF Neighbours, Differ
    <3> QED BY <3>1, <1>1, <1>2 DEF SearchInvariant, ChangesLocated, Pending
  <2> QED BY <2>3, <2>4
<1>11. NothingSkipped'
  BY <1>1, <1>2, <1>3 DEF SearchInvariant, NothingSkipped, Pending, Known, Differ
<1> QED BY <1>1, <1>2, <1>5, <1>6, <1>7, <1>8, <1>9, <1>10, <1>11 DEF SearchInvariant

LEMMA QueryInvariant ==
    ASSUME SearchInvariant, NEW b \in 1..right, Query(b)
    PROVE  SearchInvariant'
<1>1. \/ b = Top.l \/ b = Top.r
      \/ b = Mid(Top) /\ Known(Top.l) /\ Known(Top.r) /\ ~ Settled(Top)
  BY DEF Query, Asks
<1> QED BY <1>1, QueryEndInvariant, QueryMiddleInvariant

\* The activations below the topmost one, and what it is returned to.
LEMMA TailFacts ==
    ASSUME SearchInvariant, Running
    PROVE  LET rest == Tail(calls)
           IN  /\ rest \in Seq([l : 1..right, r : 1..right])
               /\ DOMAIN rest = 1..(Len(calls) - 1)
               /\ Len(rest) = Len(calls) - 1
               /\ \A i \in DOMAIN rest : i + 1 \in DOMAIN calls /\ rest[i] = calls[i + 1]
<1> DEFINE Activation == [l : 1..right, r : 1..right]
<1>1. calls \in Seq(Activation) /\ calls # <<>>
  BY DEF SearchInvariant, TypeOK, Running
<1> HIDE DEF Activation
<1>2. /\ Tail(calls) \in Seq(Activation)
      /\ Len(Tail(calls)) = Len(calls) - 1
      /\ \A i \in 1..Len(Tail(calls)) : Tail(calls)[i] = calls[i + 1]
  BY <1>1, HeadTailProperties
<1>3. DOMAIN Tail(calls) = 1..(Len(calls) - 1)
  BY <1>2
<1>4. \A i \in DOMAIN Tail(calls) : i + 1 \in DOMAIN calls
  BY <1>1, <1>3
<1> QED BY <1>2, <1>3, <1>4 DEF Activation

\* The topmost activation returns: its ends hold one value, or are adjacent.
LEMMA ReturnInvariant ==
    ASSUME SearchInvariant, Return
    PROVE  SearchInvariant'
<1> DEFINE L == calls[1].l
           R == calls[1].r
<1>1. Running /\ status = "searching" /\ L \in DOMAIN table /\ R \in DOMAIN table
      /\ Settled(calls[1])
  BY TopFacts DEF Return, Running, Known
<1>2. UNCHANGED <<chain, right, table, status, result>>
  BY DEF Return
<1>3. /\ DOMAIN calls' = 1..(Len(calls) - 1)
      /\ \A i \in DOMAIN calls' : i + 1 \in DOMAIN calls /\ calls'[i] = calls[i + 1]
  BY <1>1, TailFacts DEF Return
<1>4. /\ 1 \in DOMAIN calls /\ Len(calls) \in Nat /\ DOMAIN calls = 1..Len(calls)
      /\ L \in Nat /\ R \in Nat /\ L <= R
  <2>1. 1 \in DOMAIN calls /\ Len(calls) \in Nat /\ DOMAIN calls = 1..Len(calls) /\ right \in Nat
    BY <1>1, TopFacts
  <2>2. calls[1] \in [l : 1..right, r : 1..right]
    BY <1>1, <2>1, TopFacts
  <2>3. L \in Nat /\ R \in Nat
    BY <2>1, <2>2
  <2>4. L <= R
    BY <1>1, <2>1 DEF SearchInvariant, StackOrdered
  <2> QED BY <2>1, <2>3, <2>4
\* A pending range is the topmost one or stays pending.
<1>5. \A x, y : Pending(x, y) => Pending(x, y)' \/ (L <= x /\ y <= R)
  <2> SUFFICES ASSUME NEW x, NEW y, NEW i \in DOMAIN calls,
                      calls[i].l <= x, y <= calls[i].r, i # 1
               PROVE  Pending(x, y)'
    BY DEF Pending
  <2>1. i - 1 \in DOMAIN calls' /\ calls'[i - 1] = calls[i]
    BY <1>3, <1>4
  <2> QED BY <2>1 DEF Pending
<1>6. TypeOK'
  BY <1>1, <1>2, TailFacts DEF SearchInvariant, TypeOK, ChainTypeOK, Return
<1>7. MemoTrue'
  BY <1>2 DEF SearchInvariant, MemoTrue, SlotValue
<1>8. StackOrdered'
  BY <1>1, <1>2, <1>3, <1>4 DEF SearchInvariant, StackOrdered
<1>9. EndsRead'
  <2>1. Known(1) /\ Known(right) /\ \A i \in DOMAIN calls : Known(calls[i].l) /\ Known(calls[i].r)
    <3>1. CASE calls = <<[l |-> 1, r |-> right]>>
      BY <3>1, <1>1 DEF Known
    <3> QED BY <3>1, <1>1 DEF SearchInvariant, EndsRead
  <2> QED BY <2>1, <1>2, <1>3 DEF EndsRead, Known
<1>10. InteriorUnread'
  BY <1>1, <1>2, <1>3, <1>4 DEF SearchInvariant, InteriorUnread
<1>11. ChangesLocated'
  <2> SUFFICES ASSUME NEW x \in DOMAIN table, NEW y \in DOMAIN table,
                      Neighbours(x, y), Differ(x, y), L <= x, y <= R, y # x + 1
               PROVE  FALSE
    BY <1>1, <1>2, <1>5 DEF SearchInvariant, ChangesLocated, Neighbours, Differ
  <2>1. x \in Nat /\ y \in Nat /\ x < y
    BY <1>4, MaxBlockAssumption DEF SearchInvariant, TypeOK, Block, Neighbours
  <2>2. ~ Differ(L, R)
    BY <1>1, <1>4, <2>1 DEF Settled
  <2>3. (x = L \/ x = R) /\ (y = L \/ y = R)
    BY <1>1, <1>4, <2>1 DEF SearchInvariant, InteriorUnread
  <2> QED BY <2>1, <2>2, <2>3, <1>4 DEF Differ
<1>12. NothingSkipped'
  <2> SUFFICES ASSUME NEW k \in 2..right, L <= k - 1, k <= R
               PROVE  \/ Known(k - 1) /\ Known(k)
                      \/ \E a, b \in DOMAIN table : a < k /\ k <= b /\ ~ Differ(a, b)
    BY <1>1, <1>2, <1>5 DEF SearchInvariant, NothingSkipped, Known, Differ
  <2>1. CASE ~ Differ(L, R)
    BY <2>1, <1>1, <1>4
  <2>2. CASE R - L <= 1
    <3>1. right \in Nat
      BY <1>1, TopFacts
    <3>2. k - 1 = L /\ k = R
      BY <3>1, <2>2, <1>4
    <3> QED BY <3>2, <1>1 DEF Known
  <2> QED BY <2>1, <2>2, <1>1 DEF Settled
<1> QED BY <1>1, <1>2, <1>6, <1>7, <1>8, <1>9, <1>10, <1>11, <1>12 DEF SearchInvariant

\* The halves an activation calls: adjacent intervals with differing ends.
LEMMA HalvesFacts ==
    ASSUME NEW c, NEW N, N = [l : 1..right, r : 1..right],
           c \in N, Mid(c) \in 1..right
    PROVE  LET h == Halves(c)
               lower == [l |-> c.l, r |-> Mid(c)]
               upper == [l |-> Mid(c), r |-> c.r]
           IN  /\ h \in Seq(N)
               /\ Differ(Mid(c), c.l) => \E i \in DOMAIN h : h[i] = lower
               /\ Differ(Mid(c), c.r) => \E i \in DOMAIN h : h[i] = upper
               /\ \A i \in DOMAIN h : h[i] = lower \/ h[i] = upper
               /\ \A i, j \in DOMAIN h : i < j => h[i] = lower /\ h[j] = upper
<1> DEFINE lower == [l |-> c.l, r |-> Mid(c)]
           upper == [l |-> Mid(c), r |-> c.r]
<1>1. lower \in N /\ upper \in N
  OBVIOUS
<1> HIDE DEF lower, upper
<1> DEFINE Shape(h) ==
        /\ h \in Seq(N)
        /\ Differ(Mid(c), c.l) => \E i \in DOMAIN h : h[i] = lower
        /\ Differ(Mid(c), c.r) => \E i \in DOMAIN h : h[i] = upper
        /\ \A i \in DOMAIN h : h[i] = lower \/ h[i] = upper
        /\ \A i, j \in DOMAIN h : i < j => h[i] = lower /\ h[j] = upper
<1>2. /\ <<lower>> \in Seq(N) /\ <<upper>> \in Seq(N) /\ <<>> \in Seq(N)
      /\ <<lower, upper>> \in Seq(N)
      /\ DOMAIN <<lower>> = {1} /\ DOMAIN <<upper>> = {1}
      /\ DOMAIN <<lower, upper>> = {1, 2} /\ DOMAIN <<>> = {}
  BY <1>1
<1>3. /\ <<lower>> \o <<>> = <<lower>> /\ <<>> \o <<upper>> = <<upper>>
      /\ <<>> \o <<>> = <<>> /\ <<lower>> \o <<upper>> = <<lower, upper>>
  <2>1. <<lower>> \o <<>> = <<lower>> /\ <<>> \o <<upper>> = <<upper>> /\ <<>> \o <<>> = <<>>
    BY <1>2, ConcatEmptySeq
  <2>2. <<lower>> \o <<upper>> = <<lower, upper>>
    <3> DEFINE both == <<lower>> \o <<upper>>
    <3>1. both \in Seq(N) /\ Len(both) = 2
      BY <1>2
    <3>2. both[1] = lower /\ both[2] = upper
      BY <1>2
    <3>3. \A i \in 1..Len(both) : both[i] = <<lower, upper>>[i]
      BY <3>1, <3>2
    <3> HIDE DEF both
    <3>4. both = <<lower, upper>>
      BY <3>1, <3>3, <1>2, SeqEqual
    <3> QED BY <3>4 DEF both
  <2> QED BY <2>1, <2>2
<1>4. CASE Differ(Mid(c), c.l) /\ Differ(Mid(c), c.r)
  <2>1. Halves(c) = <<lower, upper>>
    BY <1>3, <1>4 DEF Halves, lower, upper
  <2>2. Shape(<<lower, upper>>)
    BY <1>2
  <2> QED BY <2>1, <2>2 DEF lower, upper
<1>5. CASE Differ(Mid(c), c.l) /\ ~ Differ(Mid(c), c.r)
  <2>1. Halves(c) = <<lower>>
    BY <1>3, <1>5 DEF Halves, lower
  <2>2. Shape(<<lower>>)
    BY <1>2, <1>5
  <2> QED BY <2>1, <2>2 DEF lower, upper
<1>6. CASE ~ Differ(Mid(c), c.l) /\ Differ(Mid(c), c.r)
  <2>1. Halves(c) = <<upper>>
    BY <1>3, <1>6 DEF Halves, upper
  <2>2. Shape(<<upper>>)
    BY <1>2, <1>6
  <2> QED BY <2>1, <2>2 DEF lower, upper
<1>7. CASE ~ Differ(Mid(c), c.l) /\ ~ Differ(Mid(c), c.r)
  <2>1. Halves(c) = <<>>
    BY <1>3, <1>7 DEF Halves
  <2>2. Shape(<<>>)
    BY <1>2, <1>7
  <2> QED BY <2>1, <2>2 DEF lower, upper
<1> QED BY <1>4, <1>5, <1>6, <1>7


LEMMA ConcatFacts ==
    ASSUME NEW S, NEW s \in Seq(S), NEW t \in Seq(S)
    PROVE  /\ s \o t \in Seq(S)
           /\ DOMAIN (s \o t) = 1..(Len(s) + Len(t))
           /\ \A i \in DOMAIN s : i \in DOMAIN (s \o t) /\ (s \o t)[i] = s[i]
           /\ \A i \in DOMAIN t :
                 Len(s) + i \in DOMAIN (s \o t) /\ (s \o t)[Len(s) + i] = t[i]
           /\ \A k \in DOMAIN (s \o t) :
                 k \in DOMAIN s \/ (k - Len(s) \in DOMAIN t /\ k > Len(s))
  OBVIOUS

\* The topmost activation recurses: its range is divided at the middle, and a
\* half is dropped only when its two ends hold one value.
LEMMA SplitInvariant ==
    ASSUME SearchInvariant, Split
    PROVE  SearchInvariant'
<1> DEFINE L == calls[1].l
           R == calls[1].r
           M == Mid(calls[1])
           lower == [l |-> L, r |-> M]
           upper == [l |-> M, r |-> R]
           h == Halves(calls[1])
           rest == Tail(calls)
           N == [l : 1..right, r : 1..right]
<1>1. /\ Running /\ status = "searching" /\ ~ Settled(calls[1])
      /\ L \in DOMAIN table /\ R \in DOMAIN table /\ M \in DOMAIN table
  BY TopFacts DEF Split, Running, Known
<1>2. UNCHANGED <<chain, right, table, status, result>>
  BY DEF Split
<1>3. /\ 1 \in DOMAIN calls /\ Len(calls) \in Nat /\ DOMAIN calls = 1..Len(calls)
      /\ right \in Nat /\ calls[1] \in N
      /\ L \in Nat /\ R \in Nat /\ M \in Nat /\ L < M /\ M < R /\ M \in 1..right
  <2>1. 1 \in DOMAIN calls /\ Len(calls) \in Nat /\ DOMAIN calls = 1..Len(calls) /\ right \in Nat
    BY <1>1, TopFacts
  <2>2. calls[1] \in N
    BY <1>1, <2>1, TopFacts
  <2>3. L \in 1..right /\ R \in 1..right
    BY <2>2
  <2>4. R - L > 1
    BY <1>1, <2>1, <2>3 DEF Settled
  <2>5. M \in Nat /\ L < M /\ M < R
    BY <2>1, <2>3, <2>4, MidInside DEF Mid
  <2>6. M \in 1..right
    BY <2>1, <2>3, <2>5
  <2> QED BY <2>1, <2>2, <2>3, <2>5, <2>6
<1>4. /\ h \in Seq(N)
      /\ Differ(M, L) => \E i \in DOMAIN h : h[i] = lower
      /\ Differ(M, R) => \E i \in DOMAIN h : h[i] = upper
      /\ \A i \in DOMAIN h : h[i] = lower \/ h[i] = upper
      /\ \A i, j \in DOMAIN h : i < j => h[i] = lower /\ h[j] = upper
  BY <1>3, HalvesFacts
<1>5. /\ rest \in Seq(N)
      /\ DOMAIN rest = 1..(Len(calls) - 1)
      /\ \A i \in DOMAIN rest : i + 1 \in DOMAIN calls /\ rest[i] = calls[i + 1]
  BY <1>1, TailFacts
<1>6. calls' = h \o rest
  BY <1>1, TopFacts DEF Split
<1> HIDE DEF L, R, M, lower, upper, h, rest, N
<1>7. /\ calls' \in Seq(N)
      /\ Len(h) \in Nat /\ DOMAIN h = 1..Len(h)
      /\ DOMAIN calls' = 1..(Len(h) + Len(rest))
      /\ \A i \in DOMAIN h : i \in DOMAIN calls' /\ calls'[i] = h[i]
      /\ \A i \in DOMAIN rest : Len(h) + i \in DOMAIN calls' /\ calls'[Len(h) + i] = rest[i]
      /\ \A k \in DOMAIN calls' :
            k \in DOMAIN h \/ (k - Len(h) \in DOMAIN rest /\ k > Len(h))
  BY <1>4, <1>5, <1>6, ConcatFacts
\* Every new activation is a half, or was below the topmost one.
<1>8. \A k \in DOMAIN calls' :
         \/ k \in DOMAIN h /\ calls'[k] = h[k]
         \/ /\ k \notin DOMAIN h
            /\ k - Len(h) + 1 \in DOMAIN calls /\ k - Len(h) + 1 > 1
            /\ calls'[k] = calls[k - Len(h) + 1]
  <2> TAKE k \in DOMAIN calls'
  <2>1. CASE k \in DOMAIN h
    BY <2>1, <1>7
  <2>2. CASE k \notin DOMAIN h
    <3>1. k - Len(h) \in DOMAIN rest /\ k \in Nat
      BY <2>2, <1>7
    <3>2. calls'[Len(h) + (k - Len(h))] = rest[k - Len(h)]
      BY <3>1, <1>7
    <3>3. Len(h) + (k - Len(h)) = k
      BY <3>1, <1>7
    <3>4. calls'[k] = calls[k - Len(h) + 1] /\ k - Len(h) + 1 \in DOMAIN calls
      BY <3>1, <3>2, <3>3, <1>5
    <3>5. k - Len(h) + 1 > 1
      BY <3>1, <1>5, <1>7
    <3> QED BY <2>2, <3>4, <3>5
  <2> QED BY <2>1, <2>2
<1>9. lower.l = L /\ lower.r = M /\ upper.l = M /\ upper.r = R
  BY DEF lower, upper
\* A pending range inside a half that was called, or below, stays pending.
<1>10. /\ \A x, y : Pending(x, y) => Pending(x, y)' \/ (L <= x /\ y <= R)
       /\ \A x, y : Differ(M, L) /\ L <= x /\ y <= M => Pending(x, y)'
       /\ \A x, y : Differ(M, R) /\ M <= x /\ y <= R => Pending(x, y)'
  <2>1. \A x, y : Pending(x, y) => Pending(x, y)' \/ (L <= x /\ y <= R)
    <3> SUFFICES ASSUME NEW x, NEW y, NEW i \in DOMAIN calls,
                        calls[i].l <= x, y <= calls[i].r, i # 1
                 PROVE  Pending(x, y)'
      BY DEF Pending, L, R
    <3>1. i - 1 \in DOMAIN rest /\ rest[i - 1] = calls[i]
      BY <1>3, <1>5
    <3>2. Len(h) + (i - 1) \in DOMAIN calls' /\ calls'[Len(h) + (i - 1)] = calls[i]
      BY <3>1, <1>7
    <3> QED BY <3>2 DEF Pending
  <2>2. \A x, y : Differ(M, L) /\ L <= x /\ y <= M => Pending(x, y)'
    BY <1>4, <1>7, <1>9 DEF Pending
  <2>3. \A x, y : Differ(M, R) /\ M <= x /\ y <= R => Pending(x, y)'
    BY <1>4, <1>7, <1>9 DEF Pending
  <2> QED BY <2>1, <2>2, <2>3
<1>11. TypeOK'
  BY <1>2, <1>7 DEF SearchInvariant, TypeOK, ChainTypeOK, N
<1>12. MemoTrue'
  BY <1>2 DEF SearchInvariant, MemoTrue, SlotValue
<1>13. \A i \in DOMAIN calls : i > 1 => R <= calls[i].l
  BY <1>1, <1>3 DEF SearchInvariant, StackOrdered, R
<1>14. \A i \in DOMAIN calls : calls[i].l \in Nat /\ calls[i].r \in Nat /\ i \in Nat
  <2> TAKE i \in DOMAIN calls
  <2>1. calls[i] \in [l : 1..right, r : 1..right]
    BY <1>1, TopFacts
  <2> QED BY <2>1, <1>3
<1>15. StackOrdered'
  <2> SUFFICES ASSUME NEW i \in DOMAIN calls'
               PROVE  /\ calls'[i].l <= calls'[i].r
                      /\ \A j \in DOMAIN calls' : i < j => calls'[i].r <= calls'[j].l
    BY DEF StackOrdered
  <2>1. CASE i \in DOMAIN h
    <3>1. (calls'[i] = lower \/ calls'[i] = upper) /\ calls'[i] = h[i]
      BY <2>1, <1>4, <1>7
    <3>2. calls'[i].l <= calls'[i].r /\ calls'[i].r <= R
      BY <3>1, <1>3, <1>9
    <3>3. ASSUME NEW j \in DOMAIN calls', i < j
          PROVE  calls'[i].r <= calls'[j].l
      <4>1. CASE j \in DOMAIN h
        <5>1. calls'[i] = lower /\ calls'[j] = upper
          BY <4>1, <3>3, <2>1, <1>4, <1>7
        <5> QED BY <5>1, <1>9, <1>3
      <4>2. CASE j \notin DOMAIN h
        <5>1. R <= calls'[j].l /\ calls'[j].l \in Nat
          BY <4>2, <1>8, <1>13, <1>14
        <5>2. calls'[i].r \in Nat
          BY <3>1, <1>3, <1>9
        <5> QED BY <5>1, <5>2, <3>2, <1>3
      <4> QED BY <4>1, <4>2
    <3> QED BY <3>2, <3>3
  <2>2. CASE i \notin DOMAIN h
    <3>1. i - Len(h) + 1 \in DOMAIN calls /\ calls'[i] = calls[i - Len(h) + 1] /\ i \in Nat
      BY <2>2, <1>7, <1>8
    <3>2. ASSUME NEW j \in DOMAIN calls', i < j
          PROVE  calls'[i].r <= calls'[j].l
      <4>1. j \in Nat /\ j \notin DOMAIN h
        BY <2>2, <3>1, <3>2, <1>7
      <4>2. j - Len(h) + 1 \in DOMAIN calls /\ calls'[j] = calls[j - Len(h) + 1]
        BY <4>1, <1>8
      <4>3. i - Len(h) + 1 < j - Len(h) + 1
        BY <4>1, <3>1, <3>2, <1>7
      <4> QED BY <4>2, <4>3, <3>1, <1>1 DEF SearchInvariant, StackOrdered
    <3>3. calls'[i].l <= calls'[i].r
      BY <3>1, <1>1 DEF SearchInvariant, StackOrdered
    <3> QED BY <3>2, <3>3
  <2> QED BY <2>1, <2>2
<1>16. EndsRead'
  <2>1. Known(1) /\ Known(right) /\ \A i \in DOMAIN calls : Known(calls[i].l) /\ Known(calls[i].r)
    <3>1. CASE calls = <<[l |-> 1, r |-> right]>>
      BY <3>1, <1>1 DEF Known, L, R
    <3> QED BY <3>1, <1>1 DEF SearchInvariant, EndsRead
  <2>2. \A k \in DOMAIN calls' : Known(calls'[k].l) /\ Known(calls'[k].r)
    <3> TAKE k \in DOMAIN calls'
    <3>1. CASE k \in DOMAIN h
      <4>1. calls'[k] = lower \/ calls'[k] = upper
        BY <3>1, <1>4, <1>7
      <4> QED BY <4>1, <1>1, <1>9 DEF Known
    <3>2. CASE k \notin DOMAIN h
      BY <3>2, <2>1, <1>8
    <3> QED BY <3>1, <3>2
  <2> QED BY <2>1, <2>2, <1>2 DEF EndsRead, Known
<1>17. \A b \in DOMAIN table : L < b /\ b < R => b = M
  BY <1>1, <1>3 DEF SearchInvariant, InteriorUnread, L, R, M
<1>18. DOMAIN table \subseteq Nat
  BY <1>3 DEF SearchInvariant, TypeOK
<1>19. InteriorUnread'
  <2> SUFFICES ASSUME NEW k \in DOMAIN calls', NEW b \in DOMAIN table,
                      calls'[k].l < b, b < calls'[k].r
               PROVE  FALSE
    BY <1>2 DEF InteriorUnread
  <2>1. CASE k \in DOMAIN h
    <3>1. calls'[k] = lower \/ calls'[k] = upper
      BY <2>1, <1>4, <1>7
    <3> QED BY <3>1, <1>3, <1>9, <1>17, <1>18
  <2>2. CASE k \notin DOMAIN h
    BY <2>2, <1>1, <1>8 DEF SearchInvariant, InteriorUnread
  <2> QED BY <2>1, <2>2
<1>20. ChangesLocated'
  <2> SUFFICES ASSUME NEW x \in DOMAIN table, NEW y \in DOMAIN table,
                      Neighbours(x, y), Differ(x, y), L <= x, y <= R
               PROVE  y = x + 1 \/ Pending(x, y)'
    BY <1>1, <1>2, <1>10 DEF SearchInvariant, ChangesLocated, Neighbours, Differ
  <2>1. x \in Nat /\ y \in Nat /\ x < y /\ ~ (x < M /\ M < y)
    BY <1>1, <1>18 DEF Neighbours
  <2>2. CASE y <= M
    <3>1. (x = L /\ y = M) \/ Differ(M, L)
      BY <2>1, <2>2, <1>3, <1>17
    <3>2. Differ(M, L)
      BY <3>1 DEF Differ
    <3> QED BY <3>2, <2>2, <1>10
  <2>3. CASE M <= x
    <3>1. (x = M /\ y = R) \/ Differ(M, R)
      BY <2>1, <2>3, <1>3, <1>17
    <3>2. Differ(M, R)
      BY <3>1 DEF Differ
    <3> QED BY <3>2, <2>3, <1>10
  <2> QED BY <2>1, <2>2, <2>3, <1>3
<1>21. NothingSkipped'
  <2> SUFFICES ASSUME NEW k \in 2..right, L <= k - 1, k <= R, ~ Pending(k - 1, k)'
               PROVE  \E a, b \in DOMAIN table : a < k /\ k <= b /\ ~ Differ(a, b)
    BY <1>1, <1>2, <1>10 DEF SearchInvariant, NothingSkipped, Known, Differ
  <2>1. CASE k <= M
    <3>1. ~ Differ(M, L)
      BY <2>1, <1>10
    <3>2. L < k /\ ~ Differ(L, M)
      BY <3>1, <1>3 DEF Differ
    <3> QED BY <3>2, <2>1, <1>1
  <2>2. CASE M < k
    <3>1. M <= k - 1
      BY <2>2, <1>3
    <3>2. ~ Differ(M, R)
      BY <3>1, <1>10
    <3> QED BY <3>2, <2>2, <1>1
  <2> QED BY <2>1, <2>2, <1>3
<1> QED BY <1>1, <1>2, <1>11, <1>12, <1>15, <1>16, <1>19, <1>20, <1>21 DEF SearchInvariant

----------------------------------------------------------------------------
(* Theorems *)

\* No step of the search or of the chain breaks the invariant.
LEMMA SearchStepInvariant == SearchInvariant /\ [Next]_vars => SearchInvariant'
<1> SUFFICES ASSUME SearchInvariant, [Next]_vars PROVE SearchInvariant'
  OBVIOUS
<1>1. CASE \E w \in Words : Mine(w) /\ UNCHANGED searchVars
  BY <1>1, MineInvariant
<1>2. CASE \E b \in Block : Begin(b)
  BY <1>2, BeginInvariant
<1>3. CASE \E b \in 1..right : Query(b)
  BY <1>3, QueryInvariant
<1>4. CASE Return
  BY <1>4, ReturnInvariant
<1>5. CASE Split
  BY <1>5, SplitInvariant
<1>6. CASE Finish
  BY <1>6, FinishInvariant
<1>7. CASE RpcError
  BY <1>7, ErrorInvariant
<1>8. CASE Unanswered
  BY <1>8, UnansweredInvariant
<1>9. CASE UNCHANGED vars
  <2>1. UNCHANGED <<chain, right, table, calls, status, result>>
    BY <1>9 DEF vars
  <2>2. TypeOK'
    BY <2>1 DEF SearchInvariant, TypeOK, ChainTypeOK
  <2>3. MemoTrue'
    BY <2>1 DEF SearchInvariant, MemoTrue, SlotValue
  <2>4. (StackOrdered <=> StackOrdered') /\ (EndsRead <=> EndsRead')
        /\ (InteriorUnread <=> InteriorUnread')
    BY <2>1 DEF StackOrdered, EndsRead, InteriorUnread, Known, Settled, Differ, Mid
  <2>5. (ChangesLocated <=> ChangesLocated') /\ (NothingSkipped <=> NothingSkipped')
    BY <2>1 DEF ChangesLocated, NothingSkipped, Neighbours, Differ, Pending, Known
  <2>6. status' = "done" => Known(1)' /\ Known(right)' /\ result' = Listed(table)'
    BY <2>1 DEF SearchInvariant, Known, Listed, LogicBlocks, PrecedingValue
  <2> QED BY <2>1, <2>2, <2>3, <2>4, <2>5, <2>6 DEF SearchInvariant
<1> QED BY <1>1, <1>2, <1>3, <1>4, <1>5, <1>6, <1>7, <1>8, <1>9 DEF Next, SearchStep

\* The invariant of the search holds in every state of every behaviour.
THEOREM SearchIsInvariant == Spec => []SearchInvariant
  BY InitInvariant, SearchStepInvariant, PTL DEF Spec

\* The memo, the activations and the answer stay within the search range.
THEOREM TypeCorrect == Spec => []TypeOK
<1>1. SearchInvariant => TypeOK
  BY DEF SearchInvariant
<1> QED BY <1>1, SearchIsInvariant, PTL

\* What is known of the memo when the search is over.
SearchOver ==
    SearchInvariant /\ status \in {"searching", "done"} /\ calls = <<>>

LEMMA DoneFacts ==
    ASSUME SearchOver
    PROVE  /\ right \in Nat /\ 1 <= right
           /\ DOMAIN table \subseteq 1..right /\ 1 \in DOMAIN table /\ right \in DOMAIN table
           /\ \A b \in DOMAIN table : table[b] = SlotValue(b)
           /\ \A a, b \in DOMAIN table : Neighbours(a, b) /\ Differ(a, b) => b = a + 1
           /\ right \in DOMAIN chain
<1> USE DEF SearchOver
<1>1. right \in Nat /\ 1 <= right
  BY MaxBlockAssumption DEF SearchInvariant, TypeOK, Block
<1>2. \A a, b : ~ Pending(a, b)
  BY DEF Pending
<1>3. \A a, b \in DOMAIN table : Neighbours(a, b) /\ Differ(a, b) => b = a + 1
  BY <1>2 DEF SearchInvariant, ChangesLocated
<1>4. Known(1) /\ Known(right)
  BY DEF SearchInvariant, EndsRead
<1> QED BY <1>1, <1>3, <1>4 DEF SearchInvariant, TypeOK, MemoTrue, Known

\* The value preceding a known block is that of its neighbour in the memo.
LEMMA PrecedingIsNeighbour ==
    ASSUME NEW n \in Nat, DOMAIN table \subseteq 1..n, NEW b \in DOMAIN table
    PROVE  \/ /\ PrecedingValue(table, b) = None
              /\ \A a \in DOMAIN table : ~ (a < b)
           \/ \E a \in DOMAIN table :
                 Neighbours(a, b) /\ PrecedingValue(table, b) = table[a]
<1> DEFINE earlier == {a \in DOMAIN table : a < b}
<1>1. CASE earlier = {}
  BY <1>1 DEF PrecedingValue
<1>2. CASE earlier # {}
  <2>1. earlier \in SUBSET (1..n)
    OBVIOUS
  <2>2. Latest(earlier) \in earlier /\ \A a \in earlier : a <= Latest(earlier)
    BY <1>2, <2>1, LatestIsLast
  <2>3. PrecedingValue(table, b) = table[Latest(earlier)]
    BY <1>2 DEF PrecedingValue
  <2>4. Neighbours(Latest(earlier), b)
    BY <2>1, <2>2 DEF Neighbours
  <2> QED BY <2>2, <2>3, <2>4
<1> QED BY <1>1, <1>2

\* Every listed block is one in which the slot really changed.
LEMMA DoneChangesAreReal == SearchOver => LogicBlocks(table) \subseteq Upgrades(right)
<1> SUFFICES ASSUME SearchOver, NEW b \in LogicBlocks(table)
             PROVE  b \in Upgrades(right)
  OBVIOUS
<1>1. b \in DOMAIN table /\ table[b] # PrecedingValue(table, b) /\ b \in 1..right
  BY DoneFacts DEF LogicBlocks
<1>2. CASE PrecedingValue(table, b) = None /\ \A a \in DOMAIN table : ~ (a < b)
  <2>1. b = 1
    BY <1>1, <1>2, DoneFacts
  <2> QED BY <2>1, <1>1, <1>2, DoneFacts DEF Upgrades
<1>3. ASSUME NEW a \in DOMAIN table, Neighbours(a, b), PrecedingValue(table, b) = table[a]
      PROVE  b \in Upgrades(right)
  <2>1. b = a + 1
    BY <1>1, <1>3, DoneFacts DEF Differ
  <2>2. a = b - 1 /\ b # 1
    BY <2>1, <1>1, DoneFacts
  <2> QED BY <2>2, <1>1, <1>3, DoneFacts DEF Upgrades
<1> QED BY <1>1, <1>2, <1>3, DoneFacts, PrecedingIsNeighbour

\* With no value reused, every change is listed.
LEMMA DoneComplete ==
    SearchOver /\ NeverReused(right) => Upgrades(right) \subseteq LogicBlocks(table)
<1> SUFFICES ASSUME SearchOver, NeverReused(right), NEW b \in Upgrades(right)
             PROVE  b \in LogicBlocks(table)
  OBVIOUS
<1>1. b \in 1..right /\ right \in Nat
  BY DoneFacts DEF Upgrades
<1>2. CASE b = 1
  <2>1. table[1] # None
    BY <1>2, DoneFacts DEF Upgrades
  <2>2. \A a \in DOMAIN table : ~ (a < 1)
    BY DoneFacts
  <2>3. PrecedingValue(table, 1) = None
    BY <2>2 DEF PrecedingValue
  <2> QED BY <1>2, <2>1, <2>3, DoneFacts DEF LogicBlocks
<1>3. CASE b # 1
  <2>1. SlotValue(b) # SlotValue(b - 1) /\ b \in 2..right
    BY <1>1, <1>3 DEF Upgrades
  <2>2. Known(b - 1) /\ Known(b)
    <3>1. ASSUME NEW x \in DOMAIN table, NEW y \in DOMAIN table,
                 x < b, b <= y, ~ Differ(x, y)
          PROVE  FALSE
      <4>1. x \in 1..right /\ y \in 1..right /\ SlotValue(x) = SlotValue(y)
        BY <3>1, DoneFacts DEF Differ
      <4>2. SlotValue(b) = SlotValue(x)
        BY <4>1, <3>1, <1>1 DEF NeverReused
      <4>3. SlotValue(b - 1) = SlotValue(x)
        <5>1. CASE x = b - 1
          BY <5>1
        <5>2. CASE x < b - 1
          <6>1. b - 1 \in 1..right /\ b - 1 < y
            BY <5>2, <3>1, <4>1, <1>1
          <6> QED BY <6>1, <5>2, <4>1 DEF NeverReused
        <5> QED BY <5>1, <5>2, <3>1, <4>1, <1>1
      <4> QED BY <4>2, <4>3, <2>1
    <3>2. ~ Pending(b - 1, b)
      BY DEF SearchOver, Pending
    <3> QED BY <2>1, <3>1, <3>2 DEF SearchOver, SearchInvariant, NothingSkipped
  <2>3. table[b] # table[b - 1] /\ b \in DOMAIN table /\ b - 1 \in DOMAIN table
    BY <2>1, <2>2, DoneFacts DEF Known
  <2>4. PICK a \in DOMAIN table : Neighbours(a, b) /\ PrecedingValue(table, b) = table[a]
    <3>1. b - 1 < b
      BY <1>1
    <3> QED BY <3>1, <2>3, DoneFacts, PrecedingIsNeighbour
  <2>5. a = b - 1
    BY <2>3, <2>4, <1>1, DoneFacts DEF Neighbours
  <2> QED BY <2>3, <2>4, <2>5, DoneFacts DEF LogicBlocks
<1> QED BY <1>2, <1>3

\* The last listed block holds the value of the last block searched.
LEMMA DoneEndsWithCurrent ==
    ASSUME SearchOver
    PROVE  table[right] =
             IF LogicBlocks(table) = {} THEN None ELSE table[Latest(LogicBlocks(table))]
<1> DEFINE D == LogicBlocks(table)
           last == IF D = {} THEN 0 ELSE Latest(D)
           value == IF D = {} THEN None ELSE table[Latest(D)]
           bad == {x \in DOMAIN table : x > last /\ table[x] # value}
<1>1. /\ right \in Nat /\ DOMAIN table \subseteq 1..right /\ right \in DOMAIN table
      /\ D \subseteq DOMAIN table
  BY DoneFacts DEF LogicBlocks
<1>2. /\ last \in 0..right /\ \A d \in D : d <= last
      /\ D # {} => last \in D /\ value = table[last]
  <2>1. CASE D = {}
    BY <2>1, <1>1
  <2>2. CASE D # {}
    <3>1. Latest(D) \in D /\ \A d \in D : d <= Latest(D)
      BY <2>2, <1>1, LatestIsLast
    <3> QED BY <3>1, <2>2, <1>1
  <2> QED BY <2>1, <2>2
<1> HIDE DEF D, last, value
<1>3. bad = {}
  <2> SUFFICES ASSUME bad # {} PROVE FALSE
    OBVIOUS
  <2>1. bad \in SUBSET Nat
    BY <1>1
  <2>2. PICK x \in bad : \A y \in bad : x <= y
    BY <2>1, LeastExists
  <2>3. x \in DOMAIN table /\ x \in Nat /\ x > last /\ table[x] # value /\ x \notin D
    BY <2>1, <2>2, <1>1, <1>2
  <2>4. PrecedingValue(table, x) = table[x]
    BY <2>3 DEF D, LogicBlocks
  <2>5. CASE PrecedingValue(table, x) = None /\ \A a \in DOMAIN table : ~ (a < x)
    <3>1. D = {}
      BY <2>3, <2>5, <1>1, <1>2
    <3>2. value = None
      BY <3>1 DEF value
    <3> QED BY <3>2, <2>3, <2>4, <2>5
  <2>6. ASSUME NEW a \in DOMAIN table, Neighbours(a, x), PrecedingValue(table, x) = table[a]
        PROVE  FALSE
    <3>1. a \in Nat /\ a < x /\ a \notin bad
      BY <2>2, <2>3, <2>6, <1>1 DEF Neighbours
    <3>2. a <= last
      BY <3>1, <2>3, <2>4, <2>6, <1>2
    <3>3. CASE D = {}
      BY <3>1, <3>2, <3>3, <1>1 DEF last
    <3>4. CASE D # {}
      <4>1. last \in DOMAIN table /\ last < x
        BY <3>4, <1>1, <1>2, <2>3
      <4>2. last <= a
        BY <4>1, <3>1, <1>2, <2>6 DEF Neighbours
      <4>3. a = last
        BY <4>2, <3>1, <3>2, <1>2
      <4> QED BY <4>3, <3>4, <1>2, <2>3, <2>4, <2>6
    <3> QED BY <3>3, <3>4
  <2> QED BY <2>3, <2>5, <2>6, <1>1, PrecedingIsNeighbour
<1>4. table[right] = value
  <2>1. CASE right > last
    BY <2>1, <1>1, <1>3
  <2>2. CASE right = last
    <3>1. D # {}
      BY <2>2, <1>1 DEF last
    <3> QED BY <3>1, <2>2, <1>2
  <2> QED BY <2>1, <2>2, <1>1, <1>2
<1> QED BY <1>4 DEF D, value

----------------------------------------------------------------------------

\* Every logic contract binary_search lists was introduced in the very block
\* it is listed for: bisection leaves no gap around a change.
THEOREM ListedChangesAreReal == Spec => []ChangesAreReal
<1>1. SearchInvariant => ChangesAreReal
  BY DoneChangesAreReal DEF SearchOver, SearchInvariant, ChangesAreReal, Listed
<1> QED BY <1>1, SearchIsInvariant, PTL

\* If the proxy never returned to an earlier logic contract, binary_search
\* lists its whole history.
THEOREM CompleteHistory == Spec => []CompleteUnlessReused
<1>1. SearchInvariant => CompleteUnlessReused
  BY DoneChangesAreReal, DoneComplete
  DEF SearchOver, SearchInvariant, CompleteUnlessReused, Listed
<1> QED BY <1>1, SearchIsInvariant, PTL

\* The list ends with the value at the last block searched.
THEOREM ListEndsWithCurrent == Spec => []EndsWithCurrent
<1>1. SearchInvariant => EndsWithCurrent
  <2> SUFFICES ASSUME SearchInvariant, status = "done"
               PROVE  SlotValue(right) =
                        IF DOMAIN result = {} THEN None ELSE result[Latest(DOMAIN result)]
    BY DEF EndsWithCurrent
  <2>1. SearchOver
    BY DEF SearchOver, SearchInvariant
  <2>2. result = Listed(table) /\ DOMAIN result = LogicBlocks(table)
    BY DEF SearchInvariant, Listed
  <2>3. LogicBlocks(table) # {} => Latest(LogicBlocks(table)) \in LogicBlocks(table)
    BY <2>1, DoneFacts, LatestIsLast DEF LogicBlocks
  <2>4. SlotValue(right) = table[right]
    BY <2>1, DoneFacts
  <2> QED BY <2>1, <2>2, <2>3, <2>4, DoneEndsWithCurrent DEF Listed
<1> QED BY <1>1, SearchIsInvariant, PTL

----------------------------------------------------------------------------
(* binary_search implements LogicHistory *)

\* Building the list answers as LogicHistory allows.
LEMMA FinishAnswers ==
    ASSUME SearchInvariant, Finish
    PROVE  Promise!Answer
<1> DEFINE D == LogicBlocks(table)
<1>1. SearchOver
  BY DEF Finish, SearchOver
<1>2. /\ right \in Nat /\ right \in DOMAIN chain /\ D \subseteq DOMAIN table
      /\ DOMAIN table \subseteq 1..right
      /\ \A b \in DOMAIN table : table[b] = SlotValue(b)
      /\ right \in DOMAIN table
  BY <1>1, DoneFacts DEF LogicBlocks
<1>3. right <= Len(chain)
  BY <1>2 DEF SearchInvariant, TypeOK, ChainTypeOK
<1>4. result' = [b \in D |-> table[b]]
  BY DEF Finish, Listed
<1>5. result' = [b \in D |-> SlotValue(b)]
  BY <1>2, <1>4
<1>6. D \subseteq Upgrades(right) /\ (NeverReused(right) => D = Upgrades(right))
  BY <1>1, DoneChangesAreReal, DoneComplete
<1>7. SlotValue(right) = IF D = {} THEN None ELSE SlotValue(Latest(D))
  <2>1. D # {} => Latest(D) \in D
    BY <1>2, LatestIsLast
  <2> QED BY <2>1, <1>1, <1>2, DoneEndsWithCurrent
<1>8. DOMAIN result' = D
  BY <1>5
<1> HIDE DEF D
<1>9. /\ Upgrades(right) = Promise!Upgrades(right)
      /\ NeverReused(right) <=> Promise!NeverReused(right)
      /\ \A b : SlotValue(b) = Promise!SlotValue(b)
  BY DEF Upgrades, NeverReused, SlotValue, ReplyValue,
         Promise!Upgrades, Promise!NeverReused, Promise!SlotValue, Promise!ReplyValue
<1>10. Promise!FinalValue(result') = SlotValue(right)
  <2>1. CASE D = {}
    BY <2>1, <1>7, <1>8 DEF Promise!FinalValue
  <2>2. CASE D # {}
    <3>1. Promise!FinalValue(result') = result'[Latest(D)]
      BY <2>2, <1>8 DEF Promise!FinalValue, Latest
    <3>2. Latest(D) \in D
      BY <2>2, <1>2, LatestIsLast
    <3> QED BY <3>1, <3>2, <2>2, <1>5, <1>7
  <2> QED BY <2>1, <2>2
<1>11. Promise!Acceptable(result')
  <2>1. \A b \in DOMAIN result' : result'[b] = SlotValue(b)
    BY <1>5
  <2> QED BY <2>1, <1>6, <1>8, <1>9, <1>10 DEF Promise!Acceptable
<1>12. D \in SUBSET (1..right)
  BY <1>2
<1> QED BY <1>3, <1>5, <1>9, <1>11, <1>12 DEF Finish, Promise!Answer, Promise!Height

\* Every behaviour of the search, seen through the chain, the range, the
\* status and the answer, is one LogicHistory allows (its safety part).
THEOREM ImplementsPromise == Init /\ [][Next]_vars => PromisedSteps
<1>1. Init => Promise!Init
  BY DEF Init, Promise!Init, ChainInit, Promise!ChainInit, Words, Promise!Words, Promise!NoAnswer
<1>2. SearchInvariant /\ [Next]_vars => [Promise!Next]_(Promise!vars)
  <2> SUFFICES ASSUME SearchInvariant, [Next]_vars
               PROVE  Promise!Next \/ UNCHANGED Promise!vars
    OBVIOUS
  <2>1. CASE \E w \in Words : Mine(w) /\ UNCHANGED searchVars
    BY <2>1 DEF Mine, searchVars, Height, Words,
                Promise!Next, Promise!Mine, Promise!Height, Promise!Words
  <2>2. CASE \E b \in Block : Begin(b)
    BY <2>2 DEF Begin, Block, Promise!Next, Promise!Begin, Promise!Block
  <2>3. CASE \E b \in 1..right : Query(b)
    BY <2>3 DEF Query, Promise!vars
  <2>4. CASE Return
    BY <2>4 DEF Return, Promise!vars
  <2>5. CASE Split
    BY <2>5 DEF Split, Promise!vars
  <2>6. CASE Finish
    BY <2>6, FinishAnswers DEF Promise!Next
  <2>7. CASE RpcError
    BY <2>7 DEF RpcError, Calling, Running, Promise!Next, Promise!Fail
  <2>8. CASE Unanswered
    BY <2>8 DEF Unanswered, Calling, Running, Promise!Next, Promise!Wait
  <2>9. CASE UNCHANGED vars
    BY <2>9 DEF vars, Promise!vars
  <2> QED BY <2>1, <2>2, <2>3, <2>4, <2>5, <2>6, <2>7, <2>8, <2>9 DEF Next, SearchStep
<1>3. Init /\ [][Next]_vars => []SearchInvariant
  <2>1. SearchInvariant /\ [Next]_vars => SearchInvariant'
    BY SearchStepInvariant
  <2> QED BY <2>1, InitInvariant, PTL
<1> QED BY <1>1, <1>2, <1>3, PTL DEF PromisedSteps

----------------------------------------------------------------------------
(* What the search costs: every middle that is read belongs to an upgrade of
   the proxy, and to a number of halvings, that no other one belongs to.
   First, Halvings is defined for every range. *)

\* A function that counts the halvings of every n up to bound.
CountsUpTo(bound, f) ==
    /\ f \in [0..bound -> Nat]
    /\ \A n \in 0..bound : f[n] = IF n <= 1 THEN 0 ELSE 1 + f[(n + 1) \div 2]

LEMMA HalfIsSmaller ==
    ASSUME NEW n \in Nat, n > 1
    PROVE  (n + 1) \div 2 \in Nat /\ 1 <= (n + 1) \div 2 /\ (n + 1) \div 2 < n
  OBVIOUS

LEMMA CountExists == \A bound \in Nat : \E f : CountsUpTo(bound, f)
<1> DEFINE missing == {bound \in Nat : ~ \E f : CountsUpTo(bound, f)}
<1> SUFFICES ASSUME missing # {} PROVE FALSE
  OBVIOUS
<1>1. PICK b \in missing : \A c \in missing : b <= c
  BY LeastExists
<1>2. b \in Nat /\ ~ \E f : CountsUpTo(b, f)
  OBVIOUS
<1>3. CASE b = 0
  <2> DEFINE g == [n \in 0..0 |-> 0]
  <2>1. CountsUpTo(0, g)
    BY DEF CountsUpTo
  <2> QED BY <2>1, <1>2, <1>3
<1>4. CASE b # 0
  <2>1. b - 1 \in Nat /\ b - 1 \notin missing
    BY <1>1, <1>2, <1>4
  <2>2. PICK f : CountsUpTo(b - 1, f)
    BY <2>1
  <2> DEFINE last == IF b <= 1 THEN 0 ELSE 1 + f[(b + 1) \div 2]
             g == [n \in 0..b |-> IF n = b THEN last ELSE f[n]]
  <2>3. b > 1 => (b + 1) \div 2 \in 0..(b - 1)
    BY <1>2, HalfIsSmaller
  <2>4. last \in Nat
    BY <2>2, <2>3 DEF CountsUpTo
  <2>5. \A n \in 0..b : n # b => n \in 0..(b - 1)
    BY <1>2
  <2>6. g \in [0..b -> Nat]
    BY <2>2, <2>4, <2>5 DEF CountsUpTo
  <2>7. ASSUME NEW n \in 0..b
        PROVE  g[n] = IF n <= 1 THEN 0 ELSE 1 + g[(n + 1) \div 2]
    <3>1. n > 1 => (n + 1) \div 2 \in 0..b /\ (n + 1) \div 2 # b /\ (n + 1) \div 2 # n
      BY <1>2, HalfIsSmaller
    <3>2. n > 1 => g[(n + 1) \div 2] = f[(n + 1) \div 2]
      BY <3>1
    <3>3. CASE n = b
      BY <3>2, <3>3, <1>2
    <3>4. CASE n # b
      <4>1. g[n] = f[n] /\ n \in 0..(b - 1)
        BY <3>4, <2>5
      <4>2. f[n] = IF n <= 1 THEN 0 ELSE 1 + f[(n + 1) \div 2]
        BY <4>1, <2>2 DEF CountsUpTo
      <4> QED BY <4>1, <4>2, <3>2
    <3> QED BY <3>3, <3>4
  <2>8. CountsUpTo(b, g)
    BY <2>6, <2>7 DEF CountsUpTo
  <2> QED BY <2>8, <1>2
<1> QED BY <1>3, <1>4

LEMMA CountUnique ==
    ASSUME NEW b \in Nat, NEW c \in Nat, NEW f, NEW g,
           CountsUpTo(b, f), CountsUpTo(c, g), NEW n \in Nat, n <= b, n <= c
    PROVE  f[n] = g[n]
<1> DEFINE differ == {k \in Nat : k <= b /\ k <= c /\ f[k] # g[k]}
<1> SUFFICES ASSUME differ # {} PROVE FALSE
  OBVIOUS
<1>1. PICK k \in differ : \A m \in differ : k <= m
  BY LeastExists
<1>2. k \in 0..b /\ k \in 0..c /\ f[k] # g[k] /\ k \in Nat
  OBVIOUS
<1>3. /\ f[k] = IF k <= 1 THEN 0 ELSE 1 + f[(k + 1) \div 2]
      /\ g[k] = IF k <= 1 THEN 0 ELSE 1 + g[(k + 1) \div 2]
  BY <1>2 DEF CountsUpTo
<1>4. k > 1
  BY <1>2, <1>3
<1>5. (k + 1) \div 2 \in Nat /\ (k + 1) \div 2 < k
  BY <1>2, <1>4, HalfIsSmaller
<1>6. (k + 1) \div 2 \notin differ
  BY <1>1, <1>2, <1>5
<1>7. f[(k + 1) \div 2] = g[(k + 1) \div 2]
  BY <1>2, <1>5, <1>6
<1> QED BY <1>2, <1>3, <1>7

\* The recursive definition defines what it says.
LEMMA HalvingsUnfold ==
    /\ Halvings \in [Nat -> Nat]
    /\ \A n \in Nat : Halvings[n] = IF n <= 1 THEN 0 ELSE 1 + Halvings[(n + 1) \div 2]
<1> DEFINE count == [n \in Nat |-> (CHOOSE f : CountsUpTo(n, f))[n]]
           Step(h) == [n \in Nat |-> IF n <= 1 THEN 0 ELSE 1 + h[(n + 1) \div 2]]
<1>1. ASSUME NEW n \in Nat
      PROVE  CountsUpTo(n, CHOOSE f : CountsUpTo(n, f))
  BY CountExists
<1>2. ASSUME NEW n \in Nat
      PROVE  count[n] \in Nat /\ count[n] = Step(count)[n]
  <2> DEFINE f == CHOOSE g : CountsUpTo(n, g)
             half == (n + 1) \div 2
             g == CHOOSE k : CountsUpTo(half, k)
  <2>1. CountsUpTo(n, f) /\ count[n] = f[n]
    BY <1>1
  <2>2. f[n] \in Nat /\ f[n] = IF n <= 1 THEN 0 ELSE 1 + f[half]
    <3> HIDE DEF f
    <3> QED BY <2>1 DEF CountsUpTo
  <2>3. n > 1 => half \in Nat /\ half <= n /\ half <= half
    BY HalfIsSmaller
  <2>4. n > 1 => CountsUpTo(half, g) /\ count[half] = g[half]
    BY <2>3, <1>1
  <2>5. n > 1 => f[half] = g[half]
    <3> HIDE DEF f, g, half
    <3> QED BY <2>1, <2>3, <2>4, CountUnique
  <2> HIDE DEF count, f, g
  <2> QED BY <2>1, <2>2, <2>4, <2>5
<1>3. count = Step(count)
  BY <1>2
<1>4. \E h : h = Step(h)
  BY <1>3
<1>5. Halvings = Step(Halvings)
  <2> HIDE DEF count
  <2> QED BY <1>4 DEF Halvings
<1>6. \A n \in Nat : Halvings[n] = count[n]
  <2> DEFINE differ == {k \in Nat : Halvings[k] # count[k]}
  <2> SUFFICES ASSUME differ # {} PROVE FALSE
    OBVIOUS
  <2>1. PICK k \in differ : \A m \in differ : k <= m
    BY LeastExists
  <2>2. k \in Nat /\ Halvings[k] # count[k]
    OBVIOUS
  <2> HIDE DEF count
  <2>3. /\ Halvings[k] = IF k <= 1 THEN 0 ELSE 1 + Halvings[(k + 1) \div 2]
        /\ count[k] = IF k <= 1 THEN 0 ELSE 1 + count[(k + 1) \div 2]
    BY <2>2, <1>2, <1>5
  <2>4. k > 1
    BY <2>2, <2>3
  <2>5. (k + 1) \div 2 \in Nat /\ (k + 1) \div 2 < k
    BY <2>2, <2>4, HalfIsSmaller
  <2>6. (k + 1) \div 2 \notin differ
    BY <2>1, <2>2, <2>5
  <2> QED BY <2>2, <2>3, <2>5, <2>6
<1>7. Halvings \in [Nat -> Nat]
  <2>1. Halvings = [n \in Nat |-> Halvings[n]]
    BY <1>5
  <2> HIDE DEF count
  <2> QED BY <2>1, <1>2, <1>6
<1> QED BY <1>5, <1>7

\* A longer range is halved at least as often.
LEMMA HalvingsMonotone ==
    ASSUME NEW m \in Nat, NEW n \in Nat, m <= n
    PROVE  Halvings[m] <= Halvings[n]
<1> DEFINE bad == {k \in Nat : \E j \in 0..k : ~ (Halvings[j] <= Halvings[k])}
<1> SUFFICES ASSUME bad # {} PROVE FALSE
  <2>1. n \notin bad
    OBVIOUS
  <2> QED BY <2>1
<1>1. PICK k \in bad : \A i \in bad : k <= i
  BY LeastExists
<1>2. PICK j \in 0..k : ~ (Halvings[j] <= Halvings[k])
  OBVIOUS
<1>3. k \in Nat /\ j \in Nat /\ j <= k /\ Halvings[j] \in Nat /\ Halvings[k] \in Nat
  BY HalvingsUnfold
<1>4. j > 1 /\ k > 1
  BY <1>2, <1>3, HalvingsUnfold
<1> DEFINE a == (j + 1) \div 2
           b == (k + 1) \div 2
<1>5. a \in Nat /\ b \in Nat /\ b < k /\ a <= b
  BY <1>3, <1>4
<1>6. Halvings[j] = 1 + Halvings[a] /\ Halvings[k] = 1 + Halvings[b]
  BY <1>3, <1>4, HalvingsUnfold
<1>7. b \notin bad
  BY <1>1, <1>3, <1>5
<1> HIDE DEF a, b
<1>8. Halvings[a] <= Halvings[b] /\ Halvings[a] \in Nat /\ Halvings[b] \in Nat
  BY <1>5, <1>7, HalvingsUnfold
<1> QED BY <1>2, <1>6, <1>8

\* Each half of a range of more than one block is halved less often.
LEMMA HalvesHalvings ==
    ASSUME NEW l \in Nat, NEW r \in Nat, r - l > 1, NEW m, m = (l + r) \div 2
    PROVE  /\ Halvings[r - l] \in Nat /\ Halvings[r - l] >= 1
           /\ Halvings[m - l] \in Nat /\ Halvings[m - l] < Halvings[r - l]
           /\ Halvings[r - m] \in Nat /\ Halvings[r - m] < Halvings[r - l]
<1>1. m \in Nat /\ l < m /\ m < r /\ m - l \in Nat /\ r - m \in Nat /\ r - l \in Nat
  BY MidInside
<1> DEFINE half == ((r - l) + 1) \div 2
<1>2. half \in Nat /\ m - l <= half /\ r - m <= half
  BY <1>1
<1>3. Halvings[r - l] = 1 + Halvings[half]
  BY <1>1, HalvingsUnfold
<1> HIDE DEF half
<1>4. Halvings[m - l] <= Halvings[half] /\ Halvings[r - m] <= Halvings[half]
  BY <1>1, <1>2, HalvingsMonotone
<1>5. /\ Halvings[half] \in Nat /\ Halvings[m - l] \in Nat
      /\ Halvings[r - m] \in Nat /\ Halvings[r - l] \in Nat
  BY <1>1, <1>2, HalvingsUnfold
<1> QED BY <1>3, <1>4, <1>5

----------------------------------------------------------------------------
(* The inductive invariant: what each middle that was read is charged to *)

\* The blocks that were read because an activation bisected its range.
Bisected == DOMAIN table \ {1, right}

\* g charges every middle to an upgrade in the range it divided and to the
\* number of halvings that range had left, and no two middles to the same.  A
\* live activation finds the upgrades of its range still free at its own
\* number of halvings and below, but for what its own middle was charged.
OwnUpgrades(g) ==
    /\ \A a, b \in DOMAIN g : g[a] = g[b] => a = b
    /\ \A i \in DOMAIN calls, b \in DOMAIN g :
        calls[i].l < g[b][1] /\ g[b][1] <= calls[i].r
            /\ g[b][2] <= Halvings[calls[i].r - calls[i].l]
        => i = 1 /\ b = Mid(calls[1]) /\ g[b][2] = Halvings[calls[1].r - calls[1].l]

Charges == (Upgrades(right) \ {1}) \X (1..Halvings[right - 1])

QueriesCounted ==
    /\ right \notin DOMAIN chain => Bisected = {}
    /\ right \in DOMAIN chain => \E g \in [Bisected -> Charges] : OwnUpgrades(g)

CostInvariant == SearchInvariant /\ QueriesCounted

----------------------------------------------------------------------------
(* One lemma per action *)

\* Between two blocks at which the slot differs there is an upgrade.
LEMMA UpgradeBetween ==
    ASSUME NEW n \in Nat, NEW l \in 1..n, NEW r \in 1..n, l < r,
           SlotValue(l) # SlotValue(r)
    PROVE  \E u \in Upgrades(n) \ {1} : l < u /\ u <= r
<1> DEFINE changed == {k \in Nat : l < k /\ k <= r /\ SlotValue(k) # SlotValue(l)}
<1>1. r \in changed
  OBVIOUS
<1>2. PICK u \in changed : \A k \in changed : u <= k
  BY <1>1, LeastExists
<1>3. /\ u \in Nat /\ l < u /\ u <= r /\ u # 1 /\ u \in 1..n
      /\ u - 1 \in Nat /\ u - 1 \notin changed /\ SlotValue(u) # SlotValue(l)
  BY <1>2
<1>4. SlotValue(u - 1) = SlotValue(l)
  <2>1. CASE u - 1 = l
    BY <2>1
  <2>2. CASE u - 1 # l
    BY <2>2, <1>3
  <2> QED BY <2>1, <2>2
<1>5. u \in Upgrades(n)
  BY <1>3, <1>4 DEF Upgrades
<1> QED BY <1>3, <1>5

LEMMA NothingBisected == Bisected = {} => QueriesCounted
<1> SUFFICES ASSUME Bisected = {} PROVE \E g \in [Bisected -> Charges] : OwnUpgrades(g)
  BY DEF QueriesCounted
<1> DEFINE g == [b \in {} |-> <<1, 1>>]
<1>1. g \in [Bisected -> Charges] /\ DOMAIN g = {}
  OBVIOUS
<1> HIDE DEF g
<1>2. OwnUpgrades(g)
  BY <1>1 DEF OwnUpgrades
<1> QED BY <1>1, <1>2

LEMMA NothingBisectedNext == (Bisected = {})' => QueriesCounted'
  BY NothingBisected, PTL

LEMMA InitCost == Init => CostInvariant
<1> SUFFICES ASSUME Init PROVE CostInvariant
  OBVIOUS
<1>1. Bisected = {}
  BY DEF Init, Bisected
<1> QED BY <1>1, InitInvariant, NothingBisected DEF CostInvariant

\* A step that bisects nothing, and leaves no activation it did not find,
\* charges nothing.
LEMMA NothingCharged ==
    ASSUME CostInvariant, UNCHANGED <<right, table>>,
           right \in DOMAIN chain,
           right \in DOMAIN chain', Upgrades(right)' = Upgrades(right),
           \A g \in [Bisected -> Charges] : OwnUpgrades(g) => OwnUpgrades(g)'
    PROVE  QueriesCounted'
<1>1. PICK g \in [Bisected -> Charges] : OwnUpgrades(g)
  BY DEF CostInvariant, QueriesCounted
<1>2. Bisected' = Bisected /\ Charges' = Charges
  BY DEF Bisected, Charges
<1> QED BY <1>1, <1>2 DEF QueriesCounted

LEMMA MineCost ==
    ASSUME CostInvariant, NEW w \in Words, Mine(w), UNCHANGED searchVars
    PROVE  QueriesCounted'
<1>1. UNCHANGED <<right, table, calls, status, result>>
  BY DEF searchVars
<1>2. chain \in Seq(Words) /\ chain' = Append(chain, w) /\ right \in Nat
  BY MaxBlockAssumption DEF Mine, CostInvariant, SearchInvariant, TypeOK, ChainTypeOK, Block
<1>3. \A b \in DOMAIN chain : b \in DOMAIN chain' /\ chain'[b] = chain[b]
  BY <1>2
<1>4. DOMAIN chain = 1..Len(chain) /\ Len(chain) \in Nat
  BY <1>2
<1>5. CASE right \in DOMAIN chain
  <2>1. \A b \in 1..right : b \in DOMAIN chain /\ SlotValue(b)' = SlotValue(b)
    BY <1>2, <1>3, <1>4, <1>5 DEF SlotValue
  <2>2. \A b \in 1..right : b # 1 => b - 1 \in 1..right
    BY <1>2
  <2>3. Upgrades(right)' = Upgrades(right)
    BY <1>1, <2>1, <2>2 DEF Upgrades
  <2>4. \A g \in [Bisected -> Charges] : OwnUpgrades(g) => OwnUpgrades(g)'
    BY <1>1 DEF OwnUpgrades, Mid
  <2> QED BY <2>3, <2>4, <1>1, <1>3, <1>5, NothingCharged
<1>6. CASE right \notin DOMAIN chain
  <2>1. Bisected' = {}
    BY <1>1, <1>6 DEF CostInvariant, QueriesCounted, Bisected
  <2> QED BY <2>1, NothingBisectedNext
<1> QED BY <1>5, <1>6

LEMMA BeginCost ==
    ASSUME CostInvariant, NEW b \in Block, Begin(b)
    PROVE  QueriesCounted'
<1>1. Bisected' = {}
  BY DEF CostInvariant, SearchInvariant, Begin, Bisected
<1> QED BY <1>1, NothingBisectedNext

\* The cost of what leaves the chain and the memo alone.
LEMMA UnreadCost ==
    ASSUME CostInvariant, UNCHANGED <<chain, right, table>>,
           \A g \in [Bisected -> Charges] : OwnUpgrades(g) => OwnUpgrades(g)'
    PROVE  QueriesCounted'
<1>1. Bisected' = Bisected /\ Upgrades(right)' = Upgrades(right)
  BY DEF Bisected, Upgrades, SlotValue
<1>2. CASE right \in DOMAIN chain
  BY <1>1, <1>2, NothingCharged
<1>3. CASE right \notin DOMAIN chain
  <2>1. Bisected' = {}
    BY <1>1, <1>3 DEF CostInvariant, QueriesCounted
  <2> QED BY <2>1, NothingBisectedNext
<1> QED BY <1>2, <1>3

LEMMA ErrorCost ==
    ASSUME CostInvariant, RpcError
    PROVE  QueriesCounted'
<1>1. UNCHANGED <<chain, right, table>> /\ DOMAIN calls' = {}
  BY DEF RpcError
<1>2. \A g \in [Bisected -> Charges] : OwnUpgrades(g) => OwnUpgrades(g)'
  BY <1>1 DEF OwnUpgrades
<1> QED BY <1>1, <1>2, UnreadCost

LEMMA UnansweredCost ==
    ASSUME CostInvariant, Unanswered
    PROVE  QueriesCounted'
<1>1. UNCHANGED <<chain, right, table, calls>>
  BY DEF Unanswered
<1>2. \A g \in [Bisected -> Charges] : OwnUpgrades(g) => OwnUpgrades(g)'
  BY <1>1 DEF OwnUpgrades, Mid
<1> QED BY <1>1, <1>2, UnreadCost

LEMMA FinishCost ==
    ASSUME CostInvariant, Finish
    PROVE  QueriesCounted'
<1>1. UNCHANGED <<chain, right, table, calls>>
  BY DEF Finish
<1>2. \A g \in [Bisected -> Charges] : OwnUpgrades(g) => OwnUpgrades(g)'
  BY <1>1 DEF OwnUpgrades, Mid
<1> QED BY <1>1, <1>2, UnreadCost

LEMMA ReturnCost ==
    ASSUME CostInvariant, Return
    PROVE  QueriesCounted'
<1>1. UNCHANGED <<chain, right, table>> /\ Running /\ SearchInvariant
  BY DEF Return, CostInvariant
<1>2. \A i \in DOMAIN calls' : /\ i + 1 \in DOMAIN calls /\ calls'[i] = calls[i + 1]
                               /\ i + 1 # 1
  BY <1>1, TailFacts, TopFacts DEF Return
<1>3. ASSUME NEW g \in [Bisected -> Charges], OwnUpgrades(g)
      PROVE  OwnUpgrades(g)'
  BY <1>2, <1>3 DEF OwnUpgrades
<1> QED BY <1>1, <1>3, UnreadCost

\* Each half an activation calls has fewer halvings left than the activation.
LEMMA SplitCost ==
    ASSUME CostInvariant, Split
    PROVE  QueriesCounted'
<1> DEFINE L == calls[1].l
           R == calls[1].r
           M == Mid(calls[1])
           h == Halves(calls[1])
           rest == Tail(calls)
           N == [l : 1..right, r : 1..right]
<1>1. UNCHANGED <<chain, right, table>> /\ Running /\ SearchInvariant /\ ~ Settled(calls[1])
  BY TopFacts DEF Split, CostInvariant, Running
<1>2. /\ 1 \in DOMAIN calls /\ right \in Nat /\ calls[1] \in N
      /\ L \in Nat /\ R \in Nat /\ R - L > 1
      /\ M \in Nat /\ L < M /\ M < R /\ M \in 1..right
  <2>1. 1 \in DOMAIN calls /\ right \in Nat /\ calls[1] \in N
    BY <1>1, TopFacts
  <2>2. L \in 1..right /\ R \in 1..right
    BY <2>1
  <2>3. R - L > 1
    BY <1>1, <2>2 DEF Settled
  <2>4. M \in Nat /\ L < M /\ M < R
    BY <2>1, <2>2, <2>3, MidInside DEF Mid
  <2> QED BY <2>1, <2>2, <2>3, <2>4
<1>3. /\ h \in Seq(N)
      /\ \A i \in DOMAIN h : h[i] = [l |-> L, r |-> M] \/ h[i] = [l |-> M, r |-> R]
  BY <1>2, HalvesFacts
<1>4. /\ rest \in Seq(N)
      /\ DOMAIN rest = 1..(Len(calls) - 1)
      /\ \A i \in DOMAIN rest : i + 1 \in DOMAIN calls /\ rest[i] = calls[i + 1]
  BY <1>1, TailFacts
<1>5. calls' = h \o rest
  BY <1>1, TopFacts DEF Split
<1>6. /\ Halvings[R - L] \in Nat
      /\ Halvings[M - L] \in Nat /\ Halvings[M - L] < Halvings[R - L]
      /\ Halvings[R - M] \in Nat /\ Halvings[R - M] < Halvings[R - L]
  BY <1>2, HalvesHalvings DEF Mid
<1> HIDE DEF L, R, M, h, rest, N
\* Every new activation is a half, or was below the topmost one.
<1>7. ASSUME NEW k \in DOMAIN calls'
      PROVE  \/ calls'[k] = [l |-> L, r |-> M]
             \/ calls'[k] = [l |-> M, r |-> R]
             \/ \E i \in DOMAIN calls : i # 1 /\ calls'[k] = calls[i]
  <2>1. /\ \A i \in DOMAIN h : calls'[i] = h[i]
        /\ \A i \in DOMAIN rest : calls'[Len(h) + i] = rest[i]
        /\ k \in DOMAIN h \/ (k - Len(h) \in DOMAIN rest /\ k > Len(h))
        /\ Len(h) \in Nat /\ k \in Nat
    BY <1>3, <1>4, <1>5, ConcatFacts
  <2>2. CASE k \in DOMAIN h
    BY <2>1, <2>2, <1>3
  <2>3. CASE k \notin DOMAIN h
    <3>1. k - Len(h) \in DOMAIN rest /\ Len(h) + (k - Len(h)) = k
      BY <2>1, <2>3
    <3>2. calls'[k] = rest[k - Len(h)]
      BY <2>1, <3>1
    <3>3. (k - Len(h)) + 1 \in DOMAIN calls /\ (k - Len(h)) + 1 # 1
          /\ calls'[k] = calls[(k - Len(h)) + 1]
      BY <3>1, <3>2, <1>4
    <3> QED BY <3>3
  <2> QED BY <2>2, <2>3
<1>8. ASSUME NEW g \in [Bisected -> Charges], OwnUpgrades(g)
      PROVE  OwnUpgrades(g)'
  <2>1. ASSUME NEW k \in DOMAIN calls', NEW b \in DOMAIN g,
               calls'[k].l < g[b][1], g[b][1] <= calls'[k].r,
               g[b][2] <= Halvings[calls'[k].r - calls'[k].l]
        PROVE  FALSE
    <3>1. g[b][1] \in Nat /\ g[b][2] \in Nat
      <4>1. g[b] \in Charges
        OBVIOUS
      <4>2. right \in Nat /\ Upgrades(right) \subseteq 1..right
        BY <1>2 DEF Upgrades
      <4> QED BY <4>1, <4>2 DEF Charges
    <3>2. ASSUME L < g[b][1], g[b][1] <= R, g[b][2] < Halvings[R - L]
          PROVE  FALSE
      <4>1. g[b][2] <= Halvings[R - L]
        BY <3>1, <3>2, <1>6
      <4> QED BY <3>1, <3>2, <4>1, <1>2, <1>6, <1>8 DEF OwnUpgrades, L, R
    <3>3. CASE calls'[k] = [l |-> L, r |-> M]
      <4>1. L < g[b][1] /\ g[b][1] <= M /\ g[b][2] <= Halvings[M - L]
        BY <2>1, <3>3
      <4> QED BY <4>1, <3>1, <3>2, <1>2, <1>6
    <3>4. CASE calls'[k] = [l |-> M, r |-> R]
      <4>1. M < g[b][1] /\ g[b][1] <= R /\ g[b][2] <= Halvings[R - M]
        BY <2>1, <3>4
      <4> QED BY <4>1, <3>1, <3>2, <1>2, <1>6
    <3>5. CASE \E i \in DOMAIN calls : i # 1 /\ calls'[k] = calls[i]
      BY <3>5, <2>1, <1>8 DEF OwnUpgrades
    <3> QED BY <3>3, <3>4, <3>5, <1>7
  <2> QED BY <2>1, <1>8 DEF OwnUpgrades
<1> QED BY <1>1, <1>8, UnreadCost

\* Reading an end charges nothing: no activation has bisected yet.
LEMMA QueryEndCost ==
    ASSUME CostInvariant, NEW b \in 1..right, Query(b), b = Top.l \/ b = Top.r
    PROVE  QueriesCounted'
<1>1. SearchInvariant /\ Running /\ ~ Known(b) /\ right' = right
      /\ DOMAIN table' = DOMAIN table \cup {b}
  BY DEF Query, Asks, CostInvariant, Remember
<1>2. calls = <<[l |-> 1, r |-> right]>> /\ DOMAIN table \subseteq {1, right}
  BY <1>1, TopFacts DEF SearchInvariant, EndsRead, Running, Known
<1>3. DOMAIN table' \subseteq {1, right}
  BY <1>1, <1>2, TopFacts
<1>4. Bisected' = {}
  BY <1>1, <1>3 DEF Bisected
<1> QED BY <1>4, NothingBisectedNext

\* Reading the middle is charged to an upgrade between the differing ends.
LEMMA QueryMiddleCost ==
    ASSUME CostInvariant, NEW b \in 1..right, Query(b),
           b = Mid(Top), Known(Top.l), Known(Top.r), ~ Settled(Top)
    PROVE  QueriesCounted'
<1> DEFINE L == calls[1].l
           R == calls[1].r
           H == Halvings[R - L]
<1>1. /\ SearchInvariant /\ Running /\ b \notin DOMAIN table
      /\ UNCHANGED <<chain, right, calls>>
      /\ DOMAIN table' = DOMAIN table \cup {b}
      /\ status = "searching"
  BY DEF Query, Asks, CostInvariant, Known, Remember, Running
<1>2. /\ 1 \in DOMAIN calls /\ right \in Nat /\ Top = calls[1]
      /\ L \in 1..right /\ R \in 1..right /\ R - L > 1
      /\ b \in Nat /\ L < b /\ b < R
      /\ L \in DOMAIN table /\ R \in DOMAIN table /\ table[L] # table[R]
  <2>1. 1 \in DOMAIN calls /\ right \in Nat /\ Top = calls[1]
    BY <1>1, TopFacts
  <2>2. calls[1] \in [l : 1..right, r : 1..right]
    BY <2>1, <1>1, TopFacts
  <2>3. L \in 1..right /\ R \in 1..right
    BY <2>2
  <2>4. R - L > 1 /\ table[L] # table[R]
    BY <2>1, <2>3 DEF Settled, Differ
  <2>5. b \in Nat /\ L < b /\ b < R
    BY <2>1, <2>3, <2>4, MidInside DEF Mid
  <2> QED BY <2>1, <2>3, <2>4, <2>5 DEF Known
<1>3. right \in DOMAIN chain
  <2>1. right \in DOMAIN table
    <3>1. CASE calls = <<[l |-> 1, r |-> right]>>
      BY <3>1, <1>2
    <3> QED BY <3>1, <1>1 DEF SearchInvariant, EndsRead, Known
  <2> QED BY <2>1, <1>1 DEF SearchInvariant, MemoTrue
<1>4. PICK u \in Upgrades(right) \ {1} : L < u /\ u <= R
  <2>1. SlotValue(L) # SlotValue(R)
    BY <1>1, <1>2 DEF SearchInvariant, MemoTrue
  <2>2. L < R
    BY <1>2
  <2> HIDE DEF L, R
  <2> QED BY <2>1, <2>2, <1>2, UpgradeBetween
<1>5. PICK g \in [Bisected -> Charges] : OwnUpgrades(g)
  BY <1>1, <1>3 DEF CostInvariant, QueriesCounted
<1>6. u \in Nat /\ H \in Nat /\ H >= 1 /\ H <= Halvings[right - 1]
      /\ Halvings[right - 1] \in Nat
  <2>1. u \in Nat
    BY <1>2 DEF Upgrades
  <2>2. R - L \in Nat /\ right - 1 \in Nat /\ R - L <= right - 1 /\ L \in Nat /\ R \in Nat
    BY <1>2
  <2> HIDE DEF L, R
  <2>3. H \in Nat /\ H >= 1
    BY <2>2, <1>2, HalvesHalvings
  <2>4. Halvings[right - 1] \in Nat /\ H <= Halvings[right - 1]
    BY <2>2, HalvingsMonotone, HalvingsUnfold
  <2> QED BY <2>1, <2>3, <2>4
<1>7. Bisected' = Bisected \cup {b} /\ b \notin Bisected /\ Charges' = Charges
  <2>1. b # 1 /\ b # right
    BY <1>2
  <2> QED BY <2>1, <1>1 DEF Bisected, Charges, Upgrades, SlotValue
<1> DEFINE charged == [a \in Bisected \cup {b} |-> IF a = b THEN <<u, H>> ELSE g[a]]
<1>8. <<u, H>> \in Charges
  <2> HIDE DEF H
  <2> QED BY <1>4, <1>6 DEF Charges
<1>9. PICK f : f = charged
  OBVIOUS
<1>10. /\ f \in [Bisected' -> Charges']
       /\ DOMAIN f = Bisected \cup {b} /\ DOMAIN g = Bisected
       /\ f[b] = <<u, H>> /\ f[b][1] = u /\ f[b][2] = H
       /\ \A a \in Bisected : f[a] = g[a] /\ a # b
  <2> HIDE DEF H
  <2> QED BY <1>7, <1>8, <1>9
<1> HIDE DEF charged
\* No other middle has this charge: the topmost activation found it free.
<1>11. ASSUME NEW a \in Bisected
       PROVE  g[a] # <<u, H>>
  <2> SUFFICES ASSUME g[a] = <<u, H>> PROVE FALSE
    OBVIOUS
  <2>1. g[a][1] = u /\ g[a][2] = H
    OBVIOUS
  <2>2. H <= H
    <3> HIDE DEF H
    <3> QED BY <1>6
  <2>3. a = Mid(calls[1])
    BY <2>1, <2>2, <1>2, <1>4, <1>5, <1>10 DEF OwnUpgrades
  <2>4. a = b
    BY <2>3, <1>2
  <2> QED BY <2>4, <1>7
<1>12. \A a, c \in DOMAIN f : f[a] = f[c] => a = c
  <2> HIDE DEF H
  <2>1. \A a, c \in Bisected : g[a] = g[c] => a = c
    BY <1>5, <1>10 DEF OwnUpgrades
  <2> QED BY <2>1, <1>10, <1>11
<1>13. ASSUME NEW i \in DOMAIN calls, NEW a \in DOMAIN f,
              calls[i].l < f[a][1], f[a][1] <= calls[i].r,
              f[a][2] <= Halvings[calls[i].r - calls[i].l]
       PROVE  i = 1 /\ a = Mid(calls[1]) /\ f[a][2] = Halvings[calls[1].r - calls[1].l]
  <2>1. CASE a = b
    <3>1. i = 1
      <4> SUFFICES ASSUME i # 1 PROVE FALSE
        OBVIOUS
      <4>1. i \in Nat /\ i > 1
        <5>1. DOMAIN calls = 1..Len(calls) /\ Len(calls) \in Nat
          BY <1>1, TopFacts
        <5> QED BY <5>1
      <4>2. R <= calls[i].l
        BY <4>1, <1>1, <1>2 DEF SearchInvariant, StackOrdered
      <4>3. calls[i].l \in Nat
        <5>1. calls[i] \in [l : 1..right, r : 1..right]
          BY <1>1, TopFacts
        <5> QED BY <5>1, <1>2
      <4>4. calls[i].l < u /\ u <= R
        BY <1>4, <1>10, <1>13, <2>1
      <4> QED BY <4>2, <4>3, <4>4, <1>2, <1>6
    <3> QED BY <3>1, <2>1, <1>2, <1>10
  <2>2. CASE a # b
    <3>1. a \in DOMAIN g /\ f[a] = g[a]
      BY <2>2, <1>10
    <3> HIDE DEF H
    <3> QED BY <3>1, <1>5, <1>13 DEF OwnUpgrades
  <2> QED BY <2>1, <2>2
<1>14. OwnUpgrades(f)'
  BY <1>1, <1>12, <1>13 DEF OwnUpgrades, Mid
<1> QED BY <1>1, <1>3, <1>10, <1>14 DEF QueriesCounted

----------------------------------------------------------------------------

LEMMA CostStep == CostInvariant /\ [Next]_vars => CostInvariant'
<1> SUFFICES ASSUME CostInvariant, [Next]_vars PROVE QueriesCounted'
  BY SearchStepInvariant DEF CostInvariant
<1>1. CASE \E w \in Words : Mine(w) /\ UNCHANGED searchVars
  BY <1>1, MineCost
<1>2. CASE \E b \in Block : Begin(b)
  BY <1>2, BeginCost
<1>3. ASSUME NEW b \in 1..right, Query(b)
      PROVE  QueriesCounted'
  <2>1. \/ b = Top.l \/ b = Top.r
        \/ b = Mid(Top) /\ Known(Top.l) /\ Known(Top.r) /\ ~ Settled(Top)
    BY <1>3 DEF Query, Asks
  <2> QED BY <1>3, <2>1, QueryEndCost, QueryMiddleCost
<1>4. CASE Return
  BY <1>4, ReturnCost
<1>5. CASE Split
  BY <1>5, SplitCost
<1>6. CASE Finish
  BY <1>6, FinishCost
<1>7. CASE RpcError
  BY <1>7, ErrorCost
<1>8. CASE Unanswered
  BY <1>8, UnansweredCost
<1>9. CASE UNCHANGED vars
  <2>1. UNCHANGED <<chain, right, table, calls>>
    BY <1>9 DEF vars
  <2>2. \A g \in [Bisected -> Charges] : OwnUpgrades(g) => OwnUpgrades(g)'
    BY <2>1 DEF OwnUpgrades, Mid
  <2> QED BY <2>1, <2>2, UnreadCost
<1> QED BY <1>1, <1>2, <1>3, <1>4, <1>5, <1>6, <1>7, <1>8, <1>9 DEF Next, SearchStep

LEMMA AddAtMostOne ==
    ASSUME NEW S, NEW x, IsFiniteSet(S)
    PROVE  /\ IsFiniteSet(S \cup {x})
           /\ Cardinality(S \cup {x}) \in Nat
           /\ Cardinality(S \cup {x}) <= Cardinality(S) + 1
<1>1. Cardinality(S) \in Nat
  BY FS_CardinalityType
<1>2. /\ IsFiniteSet(S \cup {x})
      /\ Cardinality(S \cup {x}) = IF x \in S THEN Cardinality(S) ELSE Cardinality(S) + 1
  BY FS_AddElement
<1> QED BY <1>1, <1>2

\* As many middles at most as there are charges, and the two ends.
LEMMA ChargesBound == CostInvariant => QueriesBounded
<1> SUFFICES ASSUME CostInvariant, right \in DOMAIN chain
             PROVE  Cardinality(DOMAIN table) <=
                       2 + Cardinality(Upgrades(right) \ {1}) * Halvings[right - 1]
  BY DEF QueriesBounded
<1> DEFINE U == Upgrades(right) \ {1}
           H == Halvings[right - 1]
<1>1. right \in Nat /\ right >= 1 /\ DOMAIN table \subseteq 1..right
  BY MaxBlockAssumption DEF CostInvariant, SearchInvariant, TypeOK, Block
<1>2. IsFiniteSet(1..right)
  BY <1>1, FS_Interval
<1>3. IsFiniteSet(U) /\ IsFiniteSet(Bisected) /\ IsFiniteSet(DOMAIN table)
  <2>1. U \in SUBSET (1..right) /\ Bisected \in SUBSET (1..right)
        /\ DOMAIN table \in SUBSET (1..right)
    BY <1>1 DEF Upgrades, Bisected
  <2> HIDE DEF U
  <2> QED BY <2>1, <1>2, FS_Subset
<1>4. H \in Nat
  BY <1>1, HalvingsUnfold
<1> HIDE DEF U, H
<1>5. IsFiniteSet(1..H) /\ Cardinality(1..H) = H
  BY <1>4, FS_Interval
<1>6. IsFiniteSet(U \X (1..H)) /\ Cardinality(U \X (1..H)) = Cardinality(U) * Cardinality(1..H)
  BY <1>3, <1>5, FS_Product
<1>7. Charges = U \X (1..H)
  BY DEF Charges, U, H
<1>8. PICK g \in [Bisected -> Charges] : OwnUpgrades(g)
  BY DEF CostInvariant, QueriesCounted
<1>9. g \in Injection(Bisected, Charges)
  BY <1>8 DEF OwnUpgrades, Injection, IsInjective
<1>10. Cardinality(Bisected) <= Cardinality(U) * H
  <2>1. IsFiniteSet(Charges) /\ Cardinality(Charges) = Cardinality(U) * H
    BY <1>5, <1>6, <1>7
  <2>2. Cardinality(Bisected) <= Cardinality(Charges)
    BY <1>9, <2>1, FS_Injection
  <2> QED BY <2>1, <2>2
<1> DEFINE one == Bisected \cup {1}
           both == one \cup {right}
<1>11. /\ IsFiniteSet(one) /\ IsFiniteSet(both)
       /\ Cardinality(both) <= Cardinality(Bisected) + 2 /\ Cardinality(both) \in Nat
  <2>1. Cardinality(Bisected) \in Nat
    BY <1>3, FS_CardinalityType
  <2>2. IsFiniteSet(one) /\ Cardinality(one) \in Nat
        /\ Cardinality(one) <= Cardinality(Bisected) + 1
    BY <1>3, AddAtMostOne, Zenon
  <2> HIDE DEF one
  <2>3. IsFiniteSet(both) /\ Cardinality(both) \in Nat
        /\ Cardinality(both) <= Cardinality(one) + 1
    BY <2>2, AddAtMostOne, Zenon
  <2> HIDE DEF both
  <2> QED BY <2>1, <2>2, <2>3
<1>12. DOMAIN table \in SUBSET both
  BY DEF Bisected
<1> HIDE DEF both
<1>13. Cardinality(DOMAIN table) <= Cardinality(both)
  BY <1>11, <1>12, FS_Subset
<1> DEFINE cost == Cardinality(U) * H
<1>14. cost \in Nat
  <2>1. Cardinality(U) \in Nat
    BY <1>3, FS_CardinalityType
  <2> QED BY <2>1, <1>4
<1> HIDE DEF cost
<1>15. Cardinality(Bisected) \in Nat /\ Cardinality(DOMAIN table) \in Nat
  BY <1>3, FS_CardinalityType
<1>16. Cardinality(Bisected) <= cost
  BY <1>10 DEF cost
<1>17. Cardinality(DOMAIN table) <= 2 + cost
  BY <1>11, <1>13, <1>14, <1>15, <1>16
<1> QED BY <1>17 DEF cost, U, H

\* binary_search asks for the two ends and, per upgrade of the proxy, for at
\* most one block at each halving of the range.
THEOREM SearchIsLogarithmic == Spec => []QueriesBounded
<1>1. CostInvariant => QueriesBounded
  BY ChargesBound
<1> QED BY <1>1, InitCost, CostStep, PTL DEF Spec

============================================================================
