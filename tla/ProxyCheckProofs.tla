--------------------------- MODULE ProxyCheckProofs ---------------------------
(***************************************************************************)
(* Proofs about ProxyCheck for any contracts and any history of the slot.  *)
(* proxy_check takes part in the search of ImplementationHistory by        *)
(* starting it, so the search keeps the invariant that is proved in        *)
(* ImplementationHistoryProofs; what is added says what the emulation has  *)
(* put into the report, and that the chain still remembers it.             *)
(***************************************************************************)
EXTENDS ProxyCheck, ImplementationHistoryProofs

StandardSlots == {"implementation", "admin"}
Histories == UNION {[S -> Values] : S \in SUBSET Block}

Report ==
    [success : BOOLEAN, isProxy : BOOLEAN \cup {Unset}, current : Addresses,
     slot : BOOLEAN, old : Histories]

CheckTypes ==
    /\ contract \in Proxies /\ block \in Block \cup {LatestTag}
    /\ pc \in {"code", "slots", "history", "done", "silent"}
    /\ unread \in Seq(StandardSlots)
    /\ readAt \in 0..Height
    /\ report \in Report

\* Before the emulation nothing is judged, and nothing is searched.
JudgedByEmulation ==
    /\ readAt = 0 => report.isProxy = Unset /\ ~ report.slot
    /\ pc \in {"code", "slots"} => status = "idle" /\ readAt = 0
    /\ pc = "history" => report.slot

\* The logic contract of a proxy is the one the emulation saw, which is still
\* what the slot held at that block.
CurrentSeen ==
    /\ report.slot =>
            report.isProxy = TRUE /\ report.current = SlotValue(readAt) /\ report.current # None
    /\ report.isProxy = TRUE /\ ~ report.slot => report.current = Elsewhere
    /\ report.isProxy = TRUE => report.slot = (contract.target = "slot")

\* The old ones are those of a search that is over, without the current one.
OldFromSearch ==
    pc = "done" /\ report.success /\ report.slot =>
        /\ status = "done" /\ DOMAIN result # {}
        /\ report.old = [b \in Older |-> result[b]]

CheckInvariant ==
    SearchInvariant /\ CheckTypes /\ JudgedByEmulation /\ CurrentSeen /\ OldFromSearch

----------------------------------------------------------------------------
(* The chain *)

LEMMA HeightFacts ==
    ASSUME SearchInvariant
    PROVE  /\ chain \in Seq(Words) /\ Height \in Nat \ {0} /\ Height \in Block
           /\ \A b \in 1..Height : chain[b] \in Words /\ SlotValue(b) \in Values
<1>1. chain \in Seq(Words) /\ Height \in Block /\ Height = Len(chain)
    BY DEF SearchInvariant, TypeOK, ChainTypeOK, Height
<1>2. Height \in Nat \ {0}
    BY <1>1, MaxBlockAssumption DEF Block
<1>3. ASSUME NEW b \in 1..Height
      PROVE  chain[b] \in Words /\ SlotValue(b) \in Values
    <2>1. chain[b] \in Words
        BY <1>1, ElementOfSeq
    <2> QED
        BY <2>1 DEF SlotValue, ReplyValue, Words, Values
<1> QED
    BY <1>1, <1>2, <1>3

\* A mined block stays what it is.
LEMMA ChainKept ==
    ASSUME SearchInvariant, chain' = chain \/ \E w \in Words : Mine(w)
    PROVE  /\ Height' \in Nat /\ Height' >= Height
           /\ \A b \in 1..Height : SlotValue(b)' = SlotValue(b)
<1>1. chain \in Seq(Words) /\ Height \in Nat /\ Height = Len(chain)
    BY HeightFacts DEF Height
<1>2. CASE chain' = chain
    BY <1>1, <1>2 DEF Height, SlotValue
<1>3. ASSUME NEW w \in Words, Mine(w)
      PROVE  /\ Height' \in Nat /\ Height' >= Height
             /\ \A b \in 1..Height : SlotValue(b)' = SlotValue(b)
    <2>1. chain' = Append(chain, w)
        BY <1>3 DEF Mine
    <2>2. Len(chain') = Len(chain) + 1 /\ \A b \in 1..Len(chain) : chain'[b] = chain[b]
        BY <1>1, <2>1, AppendProperties
    <2> QED
        BY <1>1, <2>2 DEF Height, SlotValue
<1> QED
    BY <1>2, <1>3

\* proxy_check searches as binary_search does.
LEMMA StepSearches ==
    ASSUME SearchInvariant, CheckTypes, [CheckNext]_allVars
    PROVE  [Next]_vars /\ SearchInvariant'
<1>1. (IF block = LatestTag THEN Height ELSE block) \in Block
    BY HeightFacts DEF CheckTypes
<1>2. [Next]_vars
    BY <1>1 DEF CheckNext, allVars, vars, searchVars, ChainGrows, CheckStep, GetCode, ReadSlot,
                Emulate, BeginHistory, SearchHistory, DropCurrent, Raise, Hang, Next
<1> QED
    BY <1>2, SearchStepInvariant

----------------------------------------------------------------------------
(* The report *)

\* A step that leaves the report alone.
LEMMA ReportKept ==
    ASSUME CheckInvariant, SearchInvariant', report' = report, readAt' = readAt,
           contract' = contract,
           chain' = chain \/ \E w \in Words : Mine(w)
    PROVE  readAt' \in 0..Height' /\ CurrentSeen'
<1>1. PICK n \in Nat : n = readAt /\ n \in 0..Height
    BY HeightFacts DEF CheckInvariant, CheckTypes
<1>2. /\ Height \in Nat /\ Height' \in Nat /\ Height' >= Height
      /\ \A b \in 1..Height : SlotValue(b)' = SlotValue(b)
    BY ChainKept, HeightFacts DEF CheckInvariant
<1>3. readAt' \in 0..Height'
    BY <1>1, <1>2
<1>4. report.slot => n # 0
    BY <1>1 DEF CheckInvariant, JudgedByEmulation
<1>5. report.slot => SlotValue(n)' = SlotValue(n)
    BY <1>1, <1>2, <1>4
<1>6. CurrentSeen'
    BY <1>1, <1>5 DEF CheckInvariant, CurrentSeen
<1> QED
    BY <1>3, <1>6

LEMMA InitChecks == CheckInit => CheckInvariant
<1> SUFFICES ASSUME CheckInit
             PROVE  CheckInvariant
    OBVIOUS
<1>1. SearchInvariant
    BY InitInvariant DEF CheckInit
<1>2. report = EmptyReport /\ pc = "code" /\ readAt = 0 /\ status = "idle"
    BY DEF CheckInit, Init
<1>3. NoBlocks \in Histories
    <2>1. NoBlocks \in [{} -> Values] /\ {} \in SUBSET Block
        BY DEF NoBlocks
    <2> QED
        BY <2>1 DEF Histories
<1>4. report \in Report
    BY <1>2, <1>3 DEF EmptyReport, Report, Addresses
<1>5. unread \in Seq(StandardSlots)
    BY DEF CheckInit, StandardSlots
<1>6. CheckTypes
    BY <1>1, <1>2, <1>4, <1>5, HeightFacts DEF CheckTypes, CheckInit
<1>7. report.isProxy = Unset /\ report.slot = FALSE
    BY <1>2 DEF EmptyReport
<1> QED
    BY <1>1, <1>2, <1>6, <1>7, WordsAssumption
    DEF CheckInvariant, JudgedByEmulation, CurrentSeen, OldFromSearch

----------------------------------------------------------------------------
(* The actions *)

\* The search, the chain and a stutter leave proxy_check's own state alone.
LEMMA SearchKeepsCheck ==
    ASSUME CheckInvariant, SearchInvariant',
           ChainGrows \/ BeginHistory \/ SearchHistory \/ UNCHANGED allVars
    PROVE  CheckInvariant'
<1>1. /\ UNCHANGED <<contract, block, pc, unread, report, readAt>>
      /\ chain' = chain \/ \E w \in Words : Mine(w)
    BY DEF ChainGrows, BeginHistory, SearchHistory, Begin, SearchStep, Query, Return, Split, Finish,
           RpcError, Unanswered, allVars, vars, checkVars
<1>2. readAt' \in 0..Height' /\ CurrentSeen'
    BY <1>1, ReportKept
<1>3. CheckTypes'
    BY <1>1, <1>2 DEF CheckInvariant, CheckTypes
<1>4. pc # "history" => status' = status /\ result' = result
    BY DEF ChainGrows, BeginHistory, SearchHistory, searchVars, allVars, vars
<1>5. JudgedByEmulation'
    BY <1>1, <1>4 DEF CheckInvariant, JudgedByEmulation
<1>6. OldFromSearch'
    BY <1>1, <1>4 DEF CheckInvariant, OldFromSearch, Older, LastFound
<1> QED
    BY <1>2, <1>3, <1>5, <1>6 DEF CheckInvariant

LEMMA RaiseKeepsCheck ==
    ASSUME CheckInvariant, SearchInvariant', Raise \/ \E present \in BOOLEAN : GetCode(present)
    PROVE  CheckInvariant'
<1>1. /\ UNCHANGED <<chain, contract, block, unread, readAt, searchVars>>
      /\ pc' \in {"slots", "done"}
      /\ pc' = "slots" => pc = "code" /\ report' = report
      /\ pc' = "done" => report' = [report EXCEPT !.success = FALSE]
    BY DEF Raise, GetCode
<1>2. report \in Report
    BY DEF CheckInvariant, CheckTypes
<1>3. /\ report' \in Report /\ report'.isProxy = report.isProxy
      /\ report'.current = report.current /\ report'.slot = report.slot
      /\ pc' = "done" => report'.success = FALSE
    <2>1. CASE pc' = "slots"
        BY <1>1, <1>2, <2>1
    <2>2. CASE pc' = "done"
        <3>1. report' = [report EXCEPT !.success = FALSE]
            BY <1>1, <2>2
        <3> QED
            BY <1>2, <3>1 DEF Report
    <2> QED
        BY <1>1, <2>1, <2>2
<1>4. CheckTypes'
    BY <1>1, <1>3 DEF CheckInvariant, CheckTypes, Height
<1>5. JudgedByEmulation'
    BY <1>1, <1>3 DEF CheckInvariant, JudgedByEmulation, searchVars
<1>6. CurrentSeen'
    BY <1>1, <1>3 DEF CheckInvariant, CurrentSeen, SlotValue
<1>7. OldFromSearch'
    BY <1>1, <1>3 DEF OldFromSearch
<1> QED
    BY <1>4, <1>5, <1>6, <1>7 DEF CheckInvariant

LEMMA HangKeepsCheck ==
    ASSUME CheckInvariant, SearchInvariant', Hang
    PROVE  CheckInvariant'
<1>1. UNCHANGED <<chain, contract, block, unread, report, readAt, searchVars>> /\ pc' = "silent"
    BY DEF Hang
<1>2. readAt' \in 0..Height' /\ CurrentSeen'
    BY <1>1, ReportKept
<1>3. CheckTypes'
    BY <1>1, <1>2 DEF CheckInvariant, CheckTypes
<1>4. JudgedByEmulation' /\ OldFromSearch'
    BY <1>1 DEF CheckInvariant, JudgedByEmulation, OldFromSearch
<1> QED
    BY <1>2, <1>3, <1>4 DEF CheckInvariant

LEMMA ReadSlotKeepsCheck ==
    ASSUME CheckInvariant, SearchInvariant', ReadSlot
    PROVE  CheckInvariant'
<1> DEFINE word == StandardWord(Head(unread))
<1>1. /\ UNCHANGED <<chain, contract, block, pc, readAt, searchVars>> /\ pc = "slots"
      /\ unread # <<>> /\ unread' = Tail(unread)
      /\ report' = IF word \in {ZeroWord, EmptyReply} THEN report ELSE SlotInUse(word)
    BY DEF ReadSlot
<1>2. Head(unread) \in StandardSlots /\ unread' \in Seq(StandardSlots)
    BY <1>1, HeadTailProperties DEF CheckInvariant, CheckTypes
<1>3. word \in {ZeroWord, EmptyReply} \/ word \in Addresses
    <2>1. chain[Height] \in Words
        BY HeightFacts DEF CheckInvariant
    <2>2. Head(unread) = "implementation" \/ Head(unread) = "admin"
        BY <1>2 DEF StandardSlots
    <2>3. StandardWord("implementation") \in {chain[Height], ZeroWord}
        BY DEF StandardWord
    <2>4. StandardWord("admin") \in {AdminWord, ZeroWord}
        BY DEF StandardWord
    <2> QED
        BY <2>1, <2>2, <2>3, <2>4 DEF Words, Addresses, Values
<1> HIDE DEF word
<1>4. report \in Report /\ readAt = 0 /\ report.isProxy = Unset /\ ~ report.slot
    BY <1>1 DEF CheckInvariant, CheckTypes, JudgedByEmulation
<1>5. report' \in Report /\ report'.isProxy = report.isProxy /\ report'.slot = report.slot
    <2>1. CASE word \in {ZeroWord, EmptyReply}
        BY <1>1, <1>4, <2>1
    <2>2. CASE word \notin {ZeroWord, EmptyReply}
        <3>1. report' = [report EXCEPT !.current = word] /\ word \in Addresses
            BY <1>1, <1>3, <2>2 DEF SlotInUse
        <3> DEFINE s == [report EXCEPT !.current = word]
        <3>2. s \in Report /\ s.isProxy = report.isProxy /\ s.slot = report.slot
            BY <1>4, <3>1 DEF Report
        <3> HIDE DEF s
        <3>3. report' = s
            BY <3>1 DEF s
        <3> QED
            BY <3>2, <3>3
    <2> QED
        BY <2>1, <2>2
<1>6. CheckTypes'
    BY <1>1, <1>2, <1>5 DEF CheckInvariant, CheckTypes, Height
<1>7. JudgedByEmulation' /\ OldFromSearch'
    BY <1>1, <1>4, <1>5 DEF CheckInvariant, JudgedByEmulation, OldFromSearch, searchVars
<1>8. CurrentSeen'
    BY <1>4, <1>5, WordsAssumption DEF CurrentSeen
<1> QED
    BY <1>6, <1>7, <1>8 DEF CheckInvariant

LEMMA EmulateKeepsCheck ==
    ASSUME CheckInvariant, SearchInvariant', Emulate
    PROVE  CheckInvariant'
<1> DEFINE concrete == [report EXCEPT !.success = ~ contract.opaque]
           proxy == contract.delegates > 0 /\ contract.forwards
           stored == contract.target = "slot"
<1>1. /\ UNCHANGED <<chain, contract, block, unread, searchVars>> /\ pc = "slots"
      /\ readAt' = Height /\ (contract.delegates > 0 => Target # None)
      /\ report' = IF proxy THEN Forwarded(concrete) ELSE [concrete EXCEPT !.isProxy = FALSE]
      /\ pc' = IF proxy /\ stored THEN "history" ELSE "done"
    BY DEF Emulate
<1>2. /\ report \in Report /\ status = "idle" /\ ~ report.slot /\ contract \in Contract
      /\ Height \in Nat \ {0} /\ SlotValue(Height) \in Values
    BY <1>1, HeightFacts, ProxiesAssumption
    DEF CheckInvariant, CheckTypes, JudgedByEmulation
<1>3. concrete \in Report /\ concrete.slot = report.slot
    <2> DEFINE x == ~ contract.opaque
               s == [report EXCEPT !.success = x]
    <2>1. x \in BOOLEAN
        OBVIOUS
    <2> HIDE DEF x
    <2>2. s \in Report /\ s.slot = report.slot
        BY <1>2, <2>1 DEF Report
    <2>3. concrete = s
        BY DEF x
    <2> HIDE DEF s, concrete
    <2> QED
        BY <2>2, <2>3
<1>4. Target \in Addresses /\ Target = IF stored THEN SlotValue(Height) ELSE Elsewhere
    BY <1>2 DEF Target, Addresses
<1> HIDE DEF concrete
<1>5. CASE proxy
    <2> DEFINE s == [concrete EXCEPT !.isProxy = TRUE, !.slot = stored, !.current = Target]
    <2>1. report' = s
        BY <1>1, <1>5 DEF Forwarded
    <2>2. /\ report' \in Report /\ report'.isProxy = TRUE /\ report'.slot = stored
          /\ report'.current = Target
        <3>1. stored \in BOOLEAN
            OBVIOUS
        <3> HIDE DEF stored
        <3>2. s \in Report /\ s.isProxy = TRUE /\ s.slot = stored /\ s.current = Target
            BY <1>3, <1>4, <3>1 DEF Report
        <3> HIDE DEF s
        <3> QED
            BY <2>1, <3>2
    <2> HIDE DEF s
    <2>3. Target # None /\ Height' = Height
        BY <1>1, <1>5 DEF Height
    <2>4. SlotValue(readAt)' = SlotValue(Height)
        BY <1>1 DEF SlotValue
    <2>5. CurrentSeen'
        <3>1. (contract.target = "slot")' = stored
            BY <1>1
        <3> HIDE DEF stored
        <3> QED
            BY <1>4, <2>2, <2>3, <2>4, <3>1 DEF CurrentSeen
    <2>6. CheckTypes'
        BY <1>1, <1>2, <2>2, <2>3 DEF CheckInvariant, CheckTypes
    <2>7. JudgedByEmulation' /\ OldFromSearch'
        BY <1>1, <1>2, <1>5, <2>2 DEF JudgedByEmulation, OldFromSearch
    <2> QED
        BY <2>5, <2>6, <2>7 DEF CheckInvariant
<1>6. CASE ~ proxy
    <2>1. /\ report' \in Report /\ report'.isProxy = FALSE /\ ~ report'.slot
          /\ pc' = "done" /\ Height' = Height
        BY <1>1, <1>2, <1>3, <1>6 DEF Height, Report
    <2>2. CheckTypes'
        BY <1>1, <1>2, <2>1 DEF CheckInvariant, CheckTypes
    <2>3. JudgedByEmulation' /\ OldFromSearch' /\ CurrentSeen'
        BY <1>1, <1>2, <2>1 DEF JudgedByEmulation, OldFromSearch, CurrentSeen
    <2> QED
        BY <2>2, <2>3 DEF CheckInvariant
<1> QED
    BY <1>5, <1>6

LEMMA DropKeepsCheck ==
    ASSUME CheckInvariant, SearchInvariant', DropCurrent
    PROVE  CheckInvariant'
<1> DEFINE rest == [b \in Older |-> result[b]]
<1>1. /\ UNCHANGED <<chain, contract, block, unread, readAt, searchVars>>
      /\ pc = "history" /\ status = "done" /\ pc' = "done"
      /\ report' = IF DOMAIN result = {} THEN [report EXCEPT !.success = FALSE]
                   ELSE [report EXCEPT !.old = rest]
    BY DEF DropCurrent
<1>2. report \in Report
    BY DEF CheckInvariant, CheckTypes
<1>3. rest \in Histories
    <2>1. /\ result = Listed(table) /\ DOMAIN table \subseteq 1..right /\ right \in Block
          /\ \A b \in DOMAIN table : table[b] \in Values
        BY <1>1 DEF CheckInvariant, SearchInvariant, TypeOK
    <2>2. DOMAIN result \subseteq DOMAIN table /\ \A b \in DOMAIN result : result[b] = table[b]
        BY <2>1 DEF Listed, LogicBlocks
    <2>3. 1..right \subseteq Block
        BY <2>1, MaxBlockAssumption DEF Block
    <2>4. Older \subseteq DOMAIN result
        BY DEF Older
    <2>5. rest \in [Older -> Values] /\ Older \in SUBSET Block
        BY <2>1, <2>2, <2>3, <2>4
    <2> QED
        BY <2>5 DEF Histories
<1> HIDE DEF rest
<1>4. /\ report' \in Report /\ report'.isProxy = report.isProxy
      /\ report'.current = report.current /\ report'.slot = report.slot
      /\ \/ report'.success = FALSE
         \/ DOMAIN result # {} /\ report'.old = rest
    <2>1. CASE DOMAIN result = {}
        <3>1. report' = [report EXCEPT !.success = FALSE]
            BY <1>1, <2>1
        <3> QED
            BY <1>2, <3>1 DEF Report
    <2>2. CASE DOMAIN result # {}
        <3> DEFINE s == [report EXCEPT !.old = rest]
        <3>1. report' = s
            BY <1>1, <2>2
        <3>2. /\ s \in Report /\ s.isProxy = report.isProxy /\ s.current = report.current
              /\ s.slot = report.slot /\ s.old = rest
            BY <1>2, <1>3 DEF Report
        <3> HIDE DEF s
        <3> QED
            BY <2>2, <3>1, <3>2
    <2> QED
        BY <2>1, <2>2
<1>5. Older' = Older /\ result' = result /\ status' = "done"
    BY <1>1, <1>4 DEF Older, LastFound, searchVars
<1>6. OldFromSearch'
    BY <1>4, <1>5 DEF OldFromSearch, rest
<1>7. CheckTypes'
    BY <1>1, <1>4 DEF CheckInvariant, CheckTypes, Height
<1>8. JudgedByEmulation'
    BY <1>1, <1>4 DEF CheckInvariant, JudgedByEmulation
<1>9. CurrentSeen'
    BY <1>1, <1>4 DEF CheckInvariant, CurrentSeen, SlotValue
<1> QED
    BY <1>6, <1>7, <1>8, <1>9 DEF CheckInvariant

LEMMA CheckAlways == CheckSpec => []CheckInvariant
<1>1. CheckInvariant /\ [CheckNext]_allVars => CheckInvariant'
    <2> SUFFICES ASSUME CheckInvariant, [CheckNext]_allVars
                 PROVE  CheckInvariant'
        OBVIOUS
    <2>1. SearchInvariant'
        BY StepSearches DEF CheckInvariant
    <2>2. CASE ChainGrows \/ BeginHistory \/ SearchHistory \/ UNCHANGED allVars
        BY <2>1, <2>2, SearchKeepsCheck
    <2>3. CASE Raise \/ \E present \in BOOLEAN : GetCode(present)
        BY <2>1, <2>3, RaiseKeepsCheck
    <2>4. CASE ReadSlot
        BY <2>1, <2>4, ReadSlotKeepsCheck
    <2>5. CASE Emulate
        BY <2>1, <2>5, EmulateKeepsCheck
    <2>6. CASE DropCurrent
        BY <2>1, <2>6, DropKeepsCheck
    <2>7. CASE Hang
        BY <2>1, <2>7, HangKeepsCheck
    <2> QED
        BY <2>2, <2>3, <2>4, <2>5, <2>6, <2>7 DEF CheckNext, CheckStep
<1> QED
    BY <1>1, InitChecks, PTL DEF CheckSpec

----------------------------------------------------------------------------
(* The verdict *)

\* What a check that succeeded knows of the search.
LEMMA SearchFacts ==
    ASSUME CheckInvariant, pc = "done", report.success, report.slot
    PROVE  /\ right \in Nat /\ right >= 1 /\ DOMAIN result # {}
           /\ DOMAIN result \subseteq Upgrades(right)
           /\ NeverReused(right) => DOMAIN result = Upgrades(right)
           /\ \A b \in DOMAIN result : b \in 1..right /\ result[b] = SlotValue(b)
           /\ LastFound \in DOMAIN result /\ \A b \in DOMAIN result : b <= LastFound
           /\ SlotValue(right) = result[LastFound]
           /\ report.old = [b \in Older |-> result[b]]
<1>1. /\ status = "done" /\ DOMAIN result # {} /\ report.old = [b \in Older |-> result[b]]
      /\ SearchInvariant
    BY DEF CheckInvariant, OldFromSearch
<1>2. result = Listed(table) /\ SearchOver
    BY <1>1 DEF SearchInvariant, SearchOver
<1>3. /\ right \in Nat /\ 1 <= right /\ DOMAIN table \subseteq 1..right
      /\ \A b \in DOMAIN table : table[b] = SlotValue(b)
      /\ right \in DOMAIN table
    BY <1>2, DoneFacts
<1>4. DOMAIN result = LogicBlocks(table) /\ \A b \in DOMAIN result : result[b] = table[b]
    BY <1>2 DEF Listed
<1>5. DOMAIN result \subseteq DOMAIN table
    BY <1>4 DEF LogicBlocks
<1>6. /\ DOMAIN result \subseteq Upgrades(right)
      /\ NeverReused(right) => DOMAIN result = Upgrades(right)
    BY <1>2, <1>4, DoneChangesAreReal, DoneComplete
<1>7. LastFound \in DOMAIN result /\ \A b \in DOMAIN result : b <= LastFound
    <2>1. DOMAIN result \in SUBSET (1..right)
        BY <1>3, <1>5
    <2> QED
        BY <1>1, <1>3, <2>1, LatestIsLast DEF LastFound
<1>8. SlotValue(right) = result[LastFound]
    BY <1>1, <1>2, <1>3, <1>4, <1>7, DoneEndsWithCurrent DEF LastFound
<1> QED
    BY <1>1, <1>3, <1>4, <1>5, <1>6, <1>7, <1>8

\* main: the types of proxy_check and of its search; a verdict has an emulation
\* behind it.
THEOREM CheckTypeCorrect == CheckSpec => []CheckTypeOK
<1>1. CheckInvariant => CheckTypeOK
    <2> SUFFICES ASSUME CheckInvariant
                 PROVE  CheckTypeOK
        OBVIOUS
    <2>1. report.isProxy \in BOOLEAN \cup {Unset} /\ report.current \in Addresses
        BY DEF CheckInvariant, CheckTypes, Report
    <2>2. readAt \in 0..Height /\ Height \in Nat
        BY HeightFacts DEF CheckInvariant, CheckTypes
    <2>3. report.isProxy # Unset => readAt > 0
        BY <2>2 DEF CheckInvariant, JudgedByEmulation
    <2> QED
        BY <2>1, <2>2, <2>3 DEF CheckInvariant, CheckTypes, CheckTypeOK, SearchInvariant
<1> QED
    BY <1>1, CheckAlways, PTL

\* proxy_check: the logic contract that is reported is the target of the
\* fallback's delegatecall in the block the emulation saw, whatever the standard
\* slots held and whatever the slot held before or holds after.
THEOREM CurrentCorrect == CheckSpec => []CurrentIsTarget
<1>1. CheckInvariant => CurrentIsTarget
    BY DEF CheckInvariant, CurrentSeen, CurrentIsTarget
<1> QED
    BY <1>1, CheckAlways, PTL

\* proxy_check: unless the proxy went back to an earlier logic contract, none is
\* lost, though the slot is read at several moments.
THEOREM NothingIsLost == CheckSpec => []NothingLost
<1>1. CheckInvariant => NothingLost
    <2> SUFFICES ASSUME CheckInvariant, pc = "done", report.success, report.slot,
                        NeverReused(right), NEW b \in Upgrades(right)
                 PROVE  SlotValue(b) \in Reported
        BY DEF NothingLost
    <2>1. b \in DOMAIN result /\ result[b] = SlotValue(b)
        BY SearchFacts
    <2>2. CASE b \in Older
        <3>1. b \in DOMAIN report.old /\ report.old[b] = result[b]
            BY <2>2, SearchFacts
        <3> QED
            BY <2>1, <3>1 DEF Reported
    <2>3. CASE b \notin Older
        <3>1. b = LastFound /\ result[LastFound] = report.current
            BY <2>1, <2>3 DEF Older
        <3> QED
            BY <2>1, <3>1 DEF Reported
    <2> QED
        BY <2>2, <2>3
<1> QED
    BY <1>1, CheckAlways, PTL

\* proxy_check: if the slot held the same when the emulation and when the search
\* read it, what is listed as old is older than what is reported as current.
THEOREM OldCorrect == CheckSpec => []OldIsOld
<1>1. CheckInvariant => OldIsOld
    <2> SUFFICES ASSUME CheckInvariant, pc = "done", report.success, report.slot,
                        NeverReused(right), SlotValue(right) = SlotValue(readAt),
                        NEW b \in DOMAIN report.old
                 PROVE  report.old[b] # report.current /\ b \in 1..readAt
        BY DEF OldIsOld
    <2> DEFINE z == LastFound
    <2>1. /\ right \in Nat /\ z \in DOMAIN result /\ result[z] = SlotValue(right)
          /\ \A c \in DOMAIN result :
                c \in 1..right /\ c <= z /\ result[c] = SlotValue(c) /\ c \in Upgrades(right)
          /\ report.old = [c \in Older |-> result[c]]
        BY SearchFacts
    <2>2. report.current = SlotValue(readAt)
        BY DEF CheckInvariant, CurrentSeen
    <2>3. /\ b \in DOMAIN result /\ b # z /\ report.old[b] = SlotValue(b)
          /\ SlotValue(z) = SlotValue(right)
        BY <2>1, <2>2 DEF Older
    <2> HIDE DEF z
    <2>4. b \in 1..right /\ z \in 1..right /\ b < z
        BY <2>1, <2>3
    <2>5. SlotValue(z) # SlotValue(z - 1)
        BY <2>1, <2>4 DEF Upgrades
    <2>6. SlotValue(b) # SlotValue(z)
        <3>1. CASE b = z - 1
            BY <2>5, <3>1
        <3>2. CASE b # z - 1
            <4>1. b < z - 1 /\ z - 1 < z /\ z - 1 \in 1..right
                BY <2>1, <2>4, <3>2
            <4>2. SlotValue(b) = SlotValue(z) => SlotValue(z - 1) = SlotValue(b)
                BY <2>4, <4>1 DEF NeverReused
            <4> QED
                BY <2>5, <4>2
        <3> QED
            BY <3>1, <3>2
    <2>7. b <= readAt
        <3>1. readAt # 0 /\ readAt \in Nat
            BY HeightFacts DEF CheckInvariant, JudgedByEmulation, CheckTypes
        <3> SUFFICES ASSUME b > readAt
                     PROVE  FALSE
            BY <2>4, <3>1
        <3>2. readAt \in 1..right /\ right \in 1..right /\ b < right
            BY <2>1, <2>4, <3>1
        <3>3. SlotValue(b) = SlotValue(readAt)
            BY <2>4, <3>2 DEF NeverReused
        <3> QED
            BY <2>3, <2>6, <3>3
    <2>8. readAt \in Nat
        BY HeightFacts DEF CheckInvariant, CheckTypes
    <2> QED
        BY <2>2, <2>3, <2>4, <2>6, <2>7, <2>8
<1> QED
    BY <1>1, CheckAlways, PTL

=============================================================================
