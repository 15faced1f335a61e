-------------------------- MODULE SlitherBatchProofs --------------------------
(***************************************************************************)
(* Proofs about SlitherBatch for any number of workers, rows, contracts    *)
(* and runs.  The tables only ever grow, and a stored value is never       *)
(* replaced; so what a worker has read or stored stays true, whatever the  *)
(* others do, and it is enough to say of each worker what it knows at each *)
(* of its steps.  The source directories are the exception: they are       *)
(* emptied, and what is known of them holds as long as nobody raced or     *)
(* found what an abandoned row or an ended run had left incomplete.        *)
(***************************************************************************)
EXTENDS SlitherBatch, SequenceTheorems, WellFoundedInduction, TLAPS

USE DEF Intact

Sourcing == {"lookup", "meta", "download", "refetch", "write", "rewrite", "record", "mark"}
Checking == {"read", "slither", "insert", "reread", "storage", "function"}

Founds == UNION {[S -> Addresses] : S \in SUBSET Nat}

JobRecord ==
    [pc : {"idle", "stuck"} \cup Sourcing \cup Checking, row : Rows \cup {NoRow}, n : Nat,
     found : Founds, whole : BOOLEAN, at : Nat, null : BOOLEAN,
     printed : SUBSET {"vars", "sigs"}]

\* The tables are typed.
TablesTyped ==
    /\ DOMAIN verified \subseteq Hashes
    /\ \A h \in DOMAIN verified : verified[h] \in Addresses
    /\ noSource \subseteq Hashes
    /\ files \in [Addresses -> {"none", "part", "all"}]
    /\ results \subseteq Hashes \X Hashes
    /\ vars \in [Hashes -> States] /\ sigs \in [Hashes -> States]
    /\ storage \subseteq Hashes \X Hashes /\ function \subseteq Hashes \X Hashes
    /\ todo \subseteq Rows /\ given \subseteq Rows
    /\ raced \in BOOLEAN /\ leftover \in BOOLEAN

----------------------------------------------------------------------------
(* What a worker knows *)

\* The k-th contract of the row, 0 is the proxy.
ContractAt(j, k) == IF k = 0 THEN j.row.proxy ELSE j.row.impls[k]

\* The row it is at, and which of the row's contracts have a source.
RowKnown(j) ==
    /\ j.row \in Rows /\ j.n \in 0..Len(j.row.impls)
    /\ DOMAIN j.found \subseteq 0..Len(j.row.impls)
    /\ \A k \in DOMAIN j.found : ContractAt(j, k) \in DOMAIN HashOf

\* No source will ever be found for the contract.
Lost(a) == a \notin DOMAIN HashOf \/ ~ Obtainable(HashOf[a])

\* Where it is when it looks for sources: it has looked for those before n.
SourcingKnown(j) ==
    /\ \A k \in DOMAIN j.found : k < j.n
    /\ j.n > 0 => 0 \in DOMAIN j.found
    /\ \A k \in 0..(j.n - 1) : k \in DOMAIN j.found \/ Lost(ContractAt(j, k))
    /\ j.pc # "lookup" => Subject(j) \in DOMAIN HashOf
    /\ j.pc \in {"refetch", "rewrite"} => HashOf[Subject(j)] \in DOMAIN verified
    /\ j.pc = "mark" => Subject(j) \in Minimal \/ Subject(j) \notin Published

\* Where it is when it checks a pair.
CheckingKnown(j) ==
    /\ j.n > 0 /\ {0, j.n} \subseteq DOMAIN j.found
    /\ j.pc \in {"read", "reread"} => j.at \in 1..4
    /\ j.pc = "insert" => j.at \in 1..5

\* slither's facts about both contracts are stored, and the collisions unless
\* one of the facts is NULL.
PairSettled(a, b) ==
    LET facts == {vars[HashOf[a]], sigs[HashOf[a]], vars[HashOf[b]], sigs[HashOf[b]]}
    IN  "absent" \notin facts
        /\ ("null" \in facts \/ <<HashOf[a], HashOf[b]>> \in storage \cap function)

\* The pairs before n are settled, the others are to come or have no source.
PairsKnown(j, n) ==
    /\ \A k \in 1..Len(j.row.impls) : k \in DOMAIN j.found \/ Lost(ContractAt(j, k))
    /\ \A k \in DOMAIN j.found : 0 < k /\ k < n => PairSettled(j.row.proxy, j.row.impls[k])

\* What it has read, and what it has stored, of the pair it is at.
ReadsKnown(j) ==
    /\ j.pc \in {"read", "reread"} => \A k \in 1..4 : k < j.at => Field(j, k) # "absent"
    /\ j.pc \in {"read", "reread"} =>
            (j.null <=> \E k \in 1..4 : k < j.at /\ Field(j, k) = "null")
    /\ j.pc = "reread" => \A k \in 1..4 : Field(j, k) # "absent"
    /\ j.pc \in {"storage", "function"} => \A k \in 1..4 : Field(j, k) = "data"
    /\ j.pc = "function" => Pair(j) \in storage

StoresKnown(j) ==
    j.pc = "insert" =>
        /\ j.at > 1 => Pair(j) \in results
        /\ j.at > 2 => sigs[Pair(j)[1]] # "absent"
        /\ j.at > 3 => sigs[Pair(j)[2]] # "absent"
        /\ j.at > 4 => vars[Pair(j)[1]] # "absent"

\* slither gets through with the pair.
Analysable(j) == {Pair(j)[1], Pair(j)[2]} \subseteq Compilable \ Slow

\* As long as the directories are intact: the sources it has found are complete, or it is
\* writing them again; and slither has printed all, or could not.
SourcesComplete(j) ==
    Intact =>
        /\ \A k \in DOMAIN j.found :
                \/ files[j.found[k]] = "all"
                \/ j.pc \in {"write", "rewrite"} /\ Wanted(j) = j.found[k]
        /\ j.pc = "record" => files[Subject(j)] = "all"
        /\ j.pc \in {"write", "rewrite"} => j.whole

PrintedKnown(j) ==
    Intact /\ j.pc = "insert" => j.printed = {"vars", "sigs"} \/ ~ Analysable(j)

StepKnown(j) ==
    /\ j.pc \in Sourcing => SourcingKnown(j)
    /\ j.pc \in Checking =>
            CheckingKnown(j) /\ PairsKnown(j, j.n) /\ ReadsKnown(j) /\ StoresKnown(j)

JobKnown(j) ==
    IF j.pc = "idle" THEN DOMAIN j.found = {}
    ELSE RowKnown(j) /\ StepKnown(j) /\ SourcesComplete(j) /\ PrintedKnown(j)

JobsKnown ==
    /\ job \in [Workers -> JobRecord]
    /\ \A w \in Workers : JobKnown(job[w])

----------------------------------------------------------------------------
(* What holds of the tables *)

\* A row's pairs are settled, those that can be.
RowSettled(row) ==
    \A i \in 1..Len(row.impls) :
        \/ Lost(row.proxy) \/ Lost(row.impls[i])
        \/ PairSettled(row.proxy, row.impls[i])

\* No row that was not abandoned is forgotten.
RowsTracked ==
    \A row \in Rows \ given :
        \/ row \in todo
        \/ \E w \in Workers : job[w].pc # "idle" /\ job[w].row = row
        \/ RowSettled(row)

BatchInvariant ==
    /\ TablesTyped /\ JobsKnown /\ RowsTracked
    /\ CollisionsBacked /\ NoSourceJustified /\ NullJustified

----------------------------------------------------------------------------
(* Rows and pairs *)

LEMMA LeastExists ==
    ASSUME NEW S \in SUBSET Nat, S # {}
    PROVE  \E x \in S : \A y \in S : x <= y
<1>1. PICK x \in S : \A y \in S : ~ (<<y, x>> \in OpToRel(<, Nat))
    BY NatLessThanWellFounded, WFMin
<1>2. \A y \in S : ~ (y < x)
    BY <1>1 DEF OpToRel
<1> QED
    BY <1>2

LEMMA RowTyped ==
    ASSUME NEW row \in Rows
    PROVE  /\ row.proxy \in Addresses /\ Len(row.impls) \in Nat
           /\ DOMAIN row.impls = 1..Len(row.impls)
           /\ \A k \in 1..Len(row.impls) : row.impls[k] \in Addresses
<1>1. row \in [proxy : Addresses, impls : Seq(Addresses)]
    BY InputAssumption
<1>2. row.impls \in Seq(Addresses) /\ row.proxy \in Addresses
    BY <1>1
<1> QED
    BY <1>2, LenProperties, ElementOfSeq

LEMMA ContractTyped ==
    ASSUME NEW j, RowKnown(j)
    PROVE  /\ Len(j.row.impls) \in Nat /\ j.n \in Nat
           /\ \A k \in 0..Len(j.row.impls) : ContractAt(j, k) \in Addresses
           /\ Subject(j) = ContractAt(j, j.n) /\ Subject(j) \in Addresses
<1>1. /\ j.row \in Rows /\ j.n \in 0..Len(j.row.impls)
    BY DEF RowKnown
<1>2. /\ Len(j.row.impls) \in Nat /\ j.n \in Nat
      /\ \A k \in 0..Len(j.row.impls) : ContractAt(j, k) \in Addresses
    BY <1>1, RowTyped DEF ContractAt
<1> QED
    BY <1>1, <1>2 DEF Subject, ContractAt

LEMMA HashTyped ==
    ASSUME NEW a \in DOMAIN HashOf
    PROVE  HashOf[a] \in Hashes
BY InputAssumption

\* The pair a worker is checking.
LEMMA PairTyped ==
    ASSUME NEW j, RowKnown(j), CheckingKnown(j)
    PROVE  /\ j.n \in 1..Len(j.row.impls)
           /\ j.row.proxy \in DOMAIN HashOf /\ j.row.impls[j.n] \in DOMAIN HashOf
           /\ HashOf[j.row.proxy] \in Hashes /\ HashOf[j.row.impls[j.n]] \in Hashes
           /\ Pair(j) = <<HashOf[j.row.proxy], HashOf[j.row.impls[j.n]]>>
           /\ Pair(j)[1] = HashOf[j.row.proxy] /\ Pair(j)[2] = HashOf[j.row.impls[j.n]]
           /\ Pair(j) \in Hashes \X Hashes
<1>1. j.n \in 1..Len(j.row.impls)
    BY DEF RowKnown, CheckingKnown
<1>2. ContractAt(j, 0) \in DOMAIN HashOf /\ ContractAt(j, j.n) \in DOMAIN HashOf
    BY DEF RowKnown, CheckingKnown
<1>3. j.row.proxy \in DOMAIN HashOf /\ j.row.impls[j.n] \in DOMAIN HashOf
    BY <1>1, <1>2 DEF ContractAt
<1> QED
    BY <1>1, <1>3, HashTyped DEF Pair

\* The four reads are those of the two hashes.
LEMMA FieldIs ==
    ASSUME NEW j, RowKnown(j), CheckingKnown(j)
    PROVE  /\ Field(j, 1) = vars[Pair(j)[1]] /\ Field(j, 2) = sigs[Pair(j)[1]]
           /\ Field(j, 3) = vars[Pair(j)[2]] /\ Field(j, 4) = sigs[Pair(j)[2]]
BY DEF Field

----------------------------------------------------------------------------
(* What the tables hold stays *)

TablesGrow ==
    /\ \A h \in DOMAIN verified : h \in DOMAIN verified' /\ verified'[h] = verified[h]
    /\ noSource \subseteq noSource' /\ results \subseteq results'
    /\ storage \subseteq storage' /\ function \subseteq function'
    /\ \A h \in Hashes : vars[h] # "absent" => vars'[h] = vars[h]
    /\ \A h \in Hashes : sigs[h] # "absent" => sigs'[h] = sigs[h]
    /\ Intact' => Intact

LEMMA LostStays ==
    ASSUME TablesGrow, NEW a, Lost(a)
    PROVE  Lost(a)'
BY DEF TablesGrow, Lost, Obtainable

LEMMA SettledStays ==
    ASSUME TablesGrow, NEW a \in DOMAIN HashOf, NEW b \in DOMAIN HashOf, PairSettled(a, b)
    PROVE  PairSettled(a, b)'
<1> DEFINE p == HashOf[a]
           q == HashOf[b]
<1>1. p \in Hashes /\ q \in Hashes
    BY HashTyped
<1>2. /\ vars[p] # "absent" /\ sigs[p] # "absent" /\ vars[q] # "absent" /\ sigs[q] # "absent"
      /\ "null" \in {vars[p], sigs[p], vars[q], sigs[q]} \/ <<p, q>> \in storage \cap function
    BY DEF PairSettled
<1> HIDE DEF p, q
<1>3. /\ vars'[p] = vars[p] /\ sigs'[p] = sigs[p] /\ vars'[q] = vars[q] /\ sigs'[q] = sigs[q]
      /\ <<p, q>> \in storage \cap function => <<p, q>> \in storage' \cap function'
    BY <1>1, <1>2 DEF TablesGrow
<1>4. /\ vars'[p] # "absent" /\ sigs'[p] # "absent" /\ vars'[q] # "absent" /\ sigs'[q] # "absent"
      /\ "null" \in {vars'[p], sigs'[p], vars'[q], sigs'[q]} \/ <<p, q>> \in storage' \cap function'
    BY <1>2, <1>3
<1> QED
    BY <1>4 DEF PairSettled, p, q

LEMMA RowSettledStays ==
    ASSUME TablesGrow, NEW row \in Rows, RowSettled(row)
    PROVE  RowSettled(row)'
<1> SUFFICES ASSUME NEW i \in 1..Len(row.impls)
             PROVE  (Lost(row.proxy) \/ Lost(row.impls[i])
                        \/ PairSettled(row.proxy, row.impls[i]))'
    BY DEF RowSettled
<1>1. CASE Lost(row.proxy) \/ Lost(row.impls[i])
    BY <1>1, LostStays
<1>2. CASE ~ Lost(row.proxy) /\ ~ Lost(row.impls[i])
    <2>1. row.proxy \in DOMAIN HashOf /\ row.impls[i] \in DOMAIN HashOf
        BY <1>2 DEF Lost
    <2>2. PairSettled(row.proxy, row.impls[i])
        BY <1>2 DEF RowSettled
    <2> QED
        BY <2>1, <2>2, SettledStays
<1> QED
    BY <1>1, <1>2

LEMMA PairsStay ==
    ASSUME TablesGrow, NEW j, RowKnown(j), 0 \in DOMAIN j.found, NEW n \in Nat, PairsKnown(j, n)
    PROVE  PairsKnown(j, n)'
<1>1. ASSUME NEW k \in 1..Len(j.row.impls)
      PROVE  k \in DOMAIN j.found \/ Lost(ContractAt(j, k))'
    BY LostStays DEF PairsKnown
<1>2. ASSUME NEW k \in DOMAIN j.found, 0 < k, k < n
      PROVE  PairSettled(j.row.proxy, j.row.impls[k])'
    <2>1. k \in 0..Len(j.row.impls) /\ k # 0
        BY <1>2 DEF RowKnown
    <2>2. ContractAt(j, 0) \in DOMAIN HashOf /\ ContractAt(j, k) \in DOMAIN HashOf
        BY DEF RowKnown
    <2>3. j.row.proxy \in DOMAIN HashOf /\ j.row.impls[k] \in DOMAIN HashOf
        BY <2>1, <2>2 DEF ContractAt
    <2>4. PairSettled(j.row.proxy, j.row.impls[k])
        BY <1>2 DEF PairsKnown
    <2> QED
        BY <2>3, <2>4, SettledStays
<1> QED
    BY <1>1, <1>2 DEF PairsKnown

\* As long as the directories are intact, complete sources stay complete.
FilesImprove ==
    Intact' => \A a \in Addresses : files[a] = "all" => files'[a] = "all"

LEMMA StepStays ==
    ASSUME TablesTyped, TablesGrow, NEW j \in JobRecord, RowKnown(j), StepKnown(j)
    PROVE  StepKnown(j)'
<1>1. ASSUME j.pc \in Sourcing
      PROVE  SourcingKnown(j)'
    <2>1. SourcingKnown(j)
        BY <1>1 DEF StepKnown
    <2>2. \A k \in 0..(j.n - 1) : k \in DOMAIN j.found \/ Lost(ContractAt(j, k))'
        BY <2>1, LostStays DEF SourcingKnown
    <2>3. j.pc \in {"refetch", "rewrite"} => HashOf[Subject(j)] \in DOMAIN verified'
        BY <2>1 DEF SourcingKnown, TablesGrow
    <2> QED
        BY <2>1, <2>2, <2>3 DEF SourcingKnown, Subject
<1>2. ASSUME j.pc \in Checking
      PROVE  (CheckingKnown(j) /\ PairsKnown(j, j.n) /\ ReadsKnown(j) /\ StoresKnown(j))'
    <2>1. CheckingKnown(j) /\ PairsKnown(j, j.n) /\ ReadsKnown(j) /\ StoresKnown(j)
        BY <1>2 DEF StepKnown
    <2>2. CheckingKnown(j)'
        BY <2>1 DEF CheckingKnown
    <2>3. PairsKnown(j, j.n)'
        BY <2>1, PairsStay DEF CheckingKnown, JobRecord
    <2> DEFINE p == Pair(j)[1]
               q == Pair(j)[2]
    <2>4. /\ p \in Hashes /\ q \in Hashes /\ Pair(j)' = Pair(j)
        BY <2>1, PairTyped DEF Pair
    <2>5. /\ Field(j, 1) = vars[p] /\ Field(j, 2) = sigs[p]
          /\ Field(j, 3) = vars[q] /\ Field(j, 4) = sigs[q]
        BY <2>1, FieldIs
    <2>6. /\ Field(j, 1)' = vars'[p] /\ Field(j, 2)' = sigs'[p]
          /\ Field(j, 3)' = vars'[q] /\ Field(j, 4)' = sigs'[q]
        BY DEF Field, Pair
    <2>7. /\ vars[p] # "absent" => vars'[p] = vars[p]
          /\ sigs[p] # "absent" => sigs'[p] = sigs[p]
          /\ vars[q] # "absent" => vars'[q] = vars[q]
          /\ sigs[q] # "absent" => sigs'[q] = sigs[q]
        BY <2>4 DEF TablesGrow
    <2> HIDE DEF p, q
    <2>8. ASSUME NEW k \in 1..4, Field(j, k) # "absent"
          PROVE  Field(j, k)' = Field(j, k)
        BY <2>5, <2>6, <2>7, <2>8
    <2>9. ReadsKnown(j)'
        <3>1. \A k \in 1..4 : Field(j, k) # "absent" => Field(j, k)' = Field(j, k)
            BY <2>8
        <3>2. j.pc = "function" => Pair(j) \in storage'
            BY <2>1 DEF ReadsKnown, TablesGrow
        <3>3. /\ j.pc \in {"read", "reread"} => \A k \in 1..4 : k < j.at => Field(j, k)' # "absent"
              /\ j.pc = "reread" => \A k \in 1..4 : Field(j, k)' # "absent"
              /\ j.pc \in {"storage", "function"} => \A k \in 1..4 : Field(j, k)' = "data"
            BY <2>1, <3>1 DEF ReadsKnown
        <3>4. j.pc \in {"read", "reread"} =>
                (j.null <=> \E k \in 1..4 : k < j.at /\ Field(j, k)' = "null")
            BY <2>1, <3>1 DEF ReadsKnown
        <3> QED
            BY <3>2, <3>3, <3>4, <2>4 DEF ReadsKnown
    <2>10. StoresKnown(j)'
        <3>1. j.pc = "insert" =>
                /\ j.at > 1 => Pair(j) \in results
                /\ j.at > 2 => sigs[p] # "absent"
                /\ j.at > 3 => sigs[q] # "absent"
                /\ j.at > 4 => vars[p] # "absent"
            BY <2>1 DEF StoresKnown, p, q
        <3>2. j.pc = "insert" =>
                /\ j.at > 1 => Pair(j) \in results'
                /\ j.at > 2 => sigs'[p] # "absent"
                /\ j.at > 3 => sigs'[q] # "absent"
                /\ j.at > 4 => vars'[p] # "absent"
            BY <3>1, <2>7 DEF TablesGrow
        <3> QED
            BY <3>2, <2>4 DEF StoresKnown, p, q
    <2> QED
        BY <2>2, <2>3, <2>9, <2>10
<1> QED
    BY <1>1, <1>2 DEF StepKnown

\* The directory a worker is writing is the same after any step of another.
LEMMA WantedStays ==
    ASSUME TablesGrow, NEW j, j.pc \in Sourcing, SourcingKnown(j)
    PROVE  Wanted(j)' = Wanted(j)
BY DEF TablesGrow, SourcingKnown, Wanted, Subject

\* Where a worker finds or writes sources.
LEMMA DirectoriesTyped ==
    ASSUME TablesTyped, NEW j \in JobRecord, RowKnown(j), StepKnown(j)
    PROVE  /\ \A k \in DOMAIN j.found : j.found[k] \in Addresses
           /\ j.pc \in Sourcing => Wanted(j) \in Addresses
<1>1. \A k \in DOMAIN j.found : j.found[k] \in Addresses
    <2>1. j.found \in Founds
        BY DEF JobRecord
    <2>2. PICK S \in SUBSET Nat : j.found \in [S -> Addresses]
        BY <2>1 DEF Founds
    <2> QED
        BY <2>2
<1>2. ASSUME j.pc \in Sourcing
      PROVE  Wanted(j) \in Addresses
    BY <1>2, ContractTyped DEF StepKnown, SourcingKnown, Wanted, TablesTyped
<1> QED
    BY <1>1, <1>2

LEMMA SourcesStay ==
    ASSUME TablesTyped, TablesGrow, FilesImprove,
           NEW j \in JobRecord, RowKnown(j), StepKnown(j), SourcesComplete(j)
    PROVE  SourcesComplete(j)'
<1> SUFFICES ASSUME Intact'
             PROVE  (/\ \A k \in DOMAIN j.found :
                            \/ files[j.found[k]] = "all"
                            \/ j.pc \in {"write", "rewrite"} /\ Wanted(j) = j.found[k]
                     /\ j.pc = "record" => files[Subject(j)] = "all"
                     /\ j.pc \in {"write", "rewrite"} => j.whole)'
    BY DEF SourcesComplete
<1>1. Intact /\ \A a \in Addresses : files[a] = "all" => files'[a] = "all"
    BY DEF TablesGrow, FilesImprove
<1>2. /\ \A k \in DOMAIN j.found :
            \/ files[j.found[k]] = "all"
            \/ j.pc \in {"write", "rewrite"} /\ Wanted(j) = j.found[k]
      /\ j.pc = "record" => files[Subject(j)] = "all"
      /\ j.pc \in {"write", "rewrite"} => j.whole
    BY <1>1 DEF SourcesComplete
<1>3. j.pc \in {"write", "rewrite"} => Wanted(j)' = Wanted(j)
    BY WantedStays DEF StepKnown, Sourcing
<1>4. Subject(j)' = Subject(j) /\ Subject(j) \in Addresses
    BY ContractTyped DEF Subject
<1>5. \A k \in DOMAIN j.found :
            \/ files'[j.found[k]] = "all"
            \/ j.pc \in {"write", "rewrite"} /\ Wanted(j)' = j.found[k]
    BY <1>1, <1>2, <1>3, DirectoriesTyped
<1>6. j.pc = "record" => files'[Subject(j)] = "all"
    BY <1>1, <1>2, <1>4
<1> QED
    BY <1>2, <1>4, <1>5, <1>6

LEMMA KnownStays ==
    ASSUME TablesTyped, TablesGrow, FilesImprove, NEW j \in JobRecord, JobKnown(j)
    PROVE  JobKnown(j)'
<1>1. CASE j.pc = "idle"
    BY <1>1 DEF JobKnown
<1>2. CASE j.pc # "idle"
    <2>1. RowKnown(j) /\ StepKnown(j) /\ SourcesComplete(j) /\ PrintedKnown(j)
        BY <1>2 DEF JobKnown
    <2>2. RowKnown(j)'
        BY <2>1 DEF RowKnown, ContractAt
    <2>3. StepKnown(j)' /\ SourcesComplete(j)'
        BY <2>1, StepStays, SourcesStay
    <2>4. PrintedKnown(j)'
        BY <2>1 DEF PrintedKnown, Analysable, Pair, TablesGrow
    <2> QED
        BY <1>2, <2>2, <2>3, <2>4 DEF JobKnown
<1> QED
    BY <1>1, <1>2

----------------------------------------------------------------------------
(* The next contract, the next pair, or the end of the row *)

\* The row goes on as d, or is settled.
Goes(row, d) ==
    /\ d \in JobRecord /\ JobKnown(d)
    /\ IF d.pc = "idle" THEN RowSettled(row) ELSE d.row = row

\* The worker has looked for the sources of the contracts up to n, and those it
\* has found are there.
Looked(j) ==
    /\ RowKnown(j)
    /\ \A k \in DOMAIN j.found : k <= j.n
    /\ j.n > 0 => 0 \in DOMAIN j.found
    /\ \A k \in 0..j.n : k \in DOMAIN j.found \/ Lost(ContractAt(j, k))
    /\ Intact => \A k \in DOMAIN j.found : files[j.found[k]] = "all"

\* The worker has looked for all sources, and checked the pairs before n.
Checked(j, n) ==
    /\ RowKnown(j) /\ 0 \in DOMAIN j.found /\ PairsKnown(j, n)
    /\ Intact => \A k \in DOMAIN j.found : files[j.found[k]] = "all"

LEMMA GoesStays ==
    ASSUME TablesTyped, TablesGrow, FilesImprove, NEW row \in Rows, NEW d, Goes(row, d)
    PROVE  Goes(row, d)'
BY KnownStays, RowSettledStays DEF Goes

LEMMA IdleKnown == Idle \in JobRecord /\ Idle.pc = "idle" /\ JobKnown(Idle)
<1>1. [k \in {} |-> 0] \in Founds
    BY DEF Founds
<1> QED
    BY <1>1 DEF Idle, JobRecord, JobKnown

\* A worker that starts with a pair.
LEMMA PairBegins ==
    ASSUME NEW j \in JobRecord, NEW n \in Nat, n > 0, Checked(j, n),
           NEW m \in DOMAIN j.found, m >= n, \A k \in DOMAIN j.found : k >= n => m <= k,
           NEW d, d = [j EXCEPT !.pc = "read", !.at = 1, !.null = FALSE, !.printed = {}, !.n = m]
    PROVE  Goes(j.row, d)
<1>1. RowKnown(j) /\ m \in Nat /\ m \in 0..Len(j.row.impls)
    BY ContractTyped DEF Checked, RowKnown
<1>2. /\ d \in JobRecord /\ d.pc = "read" /\ d.at = 1 /\ d.null = FALSE /\ d.n = m
      /\ d.row = j.row /\ d.found = j.found
    BY <1>1 DEF JobRecord, Checking
<1> HIDE DEF Checked
<1>3. RowKnown(d)
    BY <1>1, <1>2 DEF RowKnown, ContractAt
<1>4. CheckingKnown(d)
    BY <1>1, <1>2 DEF CheckingKnown, Checked
<1>5. PairsKnown(d, d.n)
    <2>1. \A k \in 1..Len(j.row.impls) : k \in DOMAIN j.found \/ Lost(ContractAt(j, k))
        BY DEF Checked, PairsKnown
    <2>2. ASSUME NEW k \in DOMAIN j.found, 0 < k, k < m
          PROVE  PairSettled(j.row.proxy, j.row.impls[k])
        <3>1. k \in Nat
            BY <1>1, ContractTyped DEF RowKnown
        <3>2. k < n
            BY <2>2, <3>1, <1>1
        <3> QED
            BY <2>2, <3>2 DEF Checked, PairsKnown
    <2> QED
        BY <1>2, <2>1, <2>2 DEF PairsKnown, ContractAt
<1>6. ReadsKnown(d) /\ StoresKnown(d)
    BY <1>2 DEF ReadsKnown, StoresKnown
<1>7. StepKnown(d)
    BY <1>2, <1>4, <1>5, <1>6 DEF StepKnown, Sourcing
<1>8. SourcesComplete(d) /\ PrintedKnown(d)
    BY <1>2 DEF SourcesComplete, PrintedKnown, Checked
<1> QED
    BY <1>2, <1>3, <1>7, <1>8 DEF Goes, JobKnown

LEMMA NextPair ==
    TablesTyped => \A j \in JobRecord : \A n \in Nat :
        n > 0 /\ Checked(j, n) => Goes(j.row, CheckFrom(j, n))
<1> SUFFICES ASSUME TablesTyped, NEW j \in JobRecord, NEW n \in Nat, n > 0, Checked(j, n)
             PROVE  Goes(j.row, CheckFrom(j, n))
    OBVIOUS
<1> DEFINE rest == Pending(j, n)
<1>1. rest = {i \in DOMAIN j.found : i >= n}
    <2>1. DOMAIN j.found \subseteq Nat
        BY ContractTyped DEF Checked, RowKnown
    <2> QED
        BY <2>1 DEF Pending
<1>2. CASE rest = {}
    <2>1. CheckFrom(j, n) = Idle
        BY <1>2 DEF CheckFrom
    <2>2. ASSUME NEW i \in 1..Len(j.row.impls), ~ Lost(j.row.impls[i])
          PROVE  PairSettled(j.row.proxy, j.row.impls[i])
        <3>1. i \in DOMAIN j.found
            BY <2>2 DEF Checked, PairsKnown, ContractAt
        <3>2. i < n /\ 0 < i
            BY <1>1, <1>2, <3>1
        <3> QED
            BY <3>1, <3>2 DEF Checked, PairsKnown
    <2>3. RowSettled(j.row)
        BY <2>2 DEF RowSettled
    <2> QED
        BY <2>1, <2>3, IdleKnown DEF Goes
<1>3. CASE rest # {}
    <2>1. rest \in SUBSET Nat
        BY <1>1, ContractTyped DEF Checked, RowKnown
    <2>2. \E i \in rest : \A k \in rest : i <= k
        BY <1>3, <2>1, LeastExists
    <2> DEFINE m == CHOOSE i \in rest : \A k \in rest : i <= k
    <2>3. m \in rest /\ \A k \in rest : m <= k
        BY <2>2
    <2>4. CheckFrom(j, n)
            = [j EXCEPT !.pc = "read", !.at = 1, !.null = FALSE, !.printed = {}, !.n = m]
        BY <1>3 DEF CheckFrom
    <2> HIDE DEF m
    <2>5. m \in DOMAIN j.found /\ m >= n /\ \A k \in DOMAIN j.found : k >= n => m <= k
        BY <1>1, <2>3
    <2> QED
        BY <2>4, <2>5, PairBegins
<1> QED
    BY <1>2, <1>3

LEMMA NextContract ==
    TablesTyped => \A j \in JobRecord : Looked(j) => Goes(j.row, GoOn(j))
<1> SUFFICES ASSUME TablesTyped, NEW j \in JobRecord, Looked(j)
             PROVE  Goes(j.row, GoOn(j))
    OBVIOUS
<1>1. j.n \in Nat /\ Len(j.row.impls) \in Nat /\ j.n \in 0..Len(j.row.impls)
    BY ContractTyped DEF Looked, RowKnown
<1>2. CASE 0 \notin DOMAIN j.found
    <2>1. Lost(ContractAt(j, 0))
        BY <1>1, <1>2 DEF Looked
    <2>2. RowSettled(j.row)
        BY <2>1 DEF RowSettled, ContractAt
    <2> QED
        BY <1>2, <2>2, IdleKnown DEF Goes, GoOn
<1>3. CASE 0 \in DOMAIN j.found /\ j.n < Len(j.row.impls)
    <2> DEFINE d == [j EXCEPT !.pc = "lookup", !.n = @ + 1]
    <2>1. GoOn(j) = d
        BY <1>3 DEF GoOn
    <2>2. /\ d \in JobRecord /\ d.pc = "lookup" /\ d.n = j.n + 1 /\ d.row = j.row
          /\ d.found = j.found
        <3>1. j.n + 1 \in Nat
            BY <1>1
        <3>2. d = [[j EXCEPT !.pc = "lookup"] EXCEPT !.n = j.n + 1]
            BY DEF JobRecord
        <3> QED
            BY <3>1, <3>2 DEF JobRecord, Sourcing
    <2> HIDE DEF d
    <2>3. RowKnown(d)
        BY <1>1, <1>3, <2>2 DEF Looked, RowKnown, ContractAt
    <2>4. SourcingKnown(d)
        <3>1. \A k \in DOMAIN j.found : k < d.n
            BY <1>1, <2>2 DEF Looked, RowKnown
        <3>2. \A k \in 0..(d.n - 1) : k \in DOMAIN d.found \/ Lost(ContractAt(d, k))
            BY <1>1, <2>2 DEF Looked, ContractAt
        <3> QED
            BY <1>3, <2>2, <3>1, <3>2 DEF SourcingKnown
    <2>5. StepKnown(d)
        BY <2>2, <2>4 DEF StepKnown, Checking
    <2>6. SourcesComplete(d) /\ PrintedKnown(d)
        BY <2>2 DEF SourcesComplete, PrintedKnown, Looked
    <2> QED
        BY <2>1, <2>2, <2>3, <2>5, <2>6 DEF Goes, JobKnown
<1>4. CASE 0 \in DOMAIN j.found /\ ~ (j.n < Len(j.row.impls))
    <2>1. GoOn(j) = CheckFrom(j, 1)
        BY <1>4 DEF GoOn
    <2>2. j.n = Len(j.row.impls)
        BY <1>1, <1>4
    <2>3. \A k \in 1..Len(j.row.impls) : k \in DOMAIN j.found \/ Lost(ContractAt(j, k))
        BY <1>1, <2>2 DEF Looked
    <2>4. \A k \in DOMAIN j.found : ~ (0 < k /\ k < 1)
        BY <1>1 DEF Looked, RowKnown
    <2>5. Checked(j, 1)
        BY <1>4, <2>3, <2>4 DEF Looked, Checked, PairsKnown
    <2> QED
        BY <2>1, <2>5, NextPair
<1> QED
    BY <1>2, <1>3, <1>4

\* The subject has a source, in the directory of a.
LEMMA WithSource ==
    \A j \in JobRecord : \A a \in Addresses :
        /\ RowKnown(j) /\ SourcingKnown(j) /\ Subject(j) \in DOMAIN HashOf
        /\ Intact => files[a] = "all" /\ \A k \in DOMAIN j.found : files[j.found[k]] = "all"
        => With(j, a) \in JobRecord /\ With(j, a).row = j.row /\ Looked(With(j, a))
<1> SUFFICES
        ASSUME NEW j \in JobRecord, NEW a \in Addresses,
               RowKnown(j), SourcingKnown(j), Subject(j) \in DOMAIN HashOf,
               Intact => files[a] = "all" /\ \A k \in DOMAIN j.found : files[j.found[k]] = "all"
        PROVE  With(j, a) \in JobRecord /\ With(j, a).row = j.row /\ Looked(With(j, a))
    OBVIOUS
<1> DEFINE d == With(j, a)
<1>1. /\ j.n \in Nat /\ Len(j.row.impls) \in Nat /\ j.n \in 0..Len(j.row.impls)
      /\ Subject(j) = ContractAt(j, j.n)
    BY ContractTyped DEF RowKnown
<1>2. DOMAIN j.found \subseteq Nat /\ \A k \in DOMAIN j.found : j.found[k] \in Addresses
    <2>1. PICK S \in SUBSET Nat : j.found \in [S -> Addresses]
        BY DEF JobRecord, Founds
    <2> QED
        BY <2>1
<1> DEFINE f == [k \in (DOMAIN j.found) \cup {j.n} |-> IF k = j.n THEN a ELSE j.found[k]]
<1>3. f \in Founds
    <2>1. f \in [(DOMAIN j.found) \cup {j.n} -> Addresses]
        BY <1>2
    <2>2. (DOMAIN j.found) \cup {j.n} \in SUBSET Nat
        BY <1>1, <1>2
    <2> QED
        BY <2>1, <2>2 DEF Founds
<1>4. DOMAIN f = (DOMAIN j.found) \cup {j.n}
    OBVIOUS
<1>5. Intact => \A k \in DOMAIN f : files[f[k]] = "all"
    OBVIOUS
<1>6. d = [j EXCEPT !.found = f]
    BY DEF With
<1> HIDE DEF f
<1>7. d \in JobRecord /\ d.found = f /\ d.row = j.row /\ d.n = j.n
    BY <1>3, <1>6 DEF JobRecord
<1> HIDE DEF d
<1>8. RowKnown(d)
    <2>1. \A k \in DOMAIN f : ContractAt(j, k) \in DOMAIN HashOf
        BY <1>1, <1>4 DEF RowKnown
    <2> QED
        BY <1>1, <1>4, <1>7, <2>1 DEF RowKnown, ContractAt
<1>9. Looked(d)
    <2>1. \A k \in DOMAIN f : k <= j.n
        BY <1>1, <1>2, <1>4 DEF SourcingKnown
    <2>2. \A k \in 0..j.n : k \in DOMAIN f \/ Lost(ContractAt(j, k))
        BY <1>1, <1>4 DEF SourcingKnown
    <2>3. j.n > 0 => 0 \in DOMAIN f
        BY <1>4 DEF SourcingKnown
    <2> QED
        BY <1>5, <1>7, <1>8, <2>1, <2>2, <2>3 DEF Looked, ContractAt
<1> QED
    BY <1>7, <1>9 DEF d

\* The subject has no source.
LEMMA WithoutSource ==
    \A j \in JobRecord :
        /\ RowKnown(j) /\ SourcingKnown(j) /\ Lost(Subject(j))
        /\ Intact => \A k \in DOMAIN j.found : files[j.found[k]] = "all"
        => Looked(j)
<1> SUFFICES
        ASSUME NEW j \in JobRecord, RowKnown(j), SourcingKnown(j), Lost(Subject(j)),
               Intact => \A k \in DOMAIN j.found : files[j.found[k]] = "all"
        PROVE  Looked(j)
    OBVIOUS
<1>1. /\ j.n \in Nat /\ Len(j.row.impls) \in Nat /\ j.n \in 0..Len(j.row.impls)
      /\ Subject(j) = ContractAt(j, j.n) /\ DOMAIN j.found \subseteq Nat
    BY ContractTyped DEF RowKnown
<1>2. \A k \in DOMAIN j.found : k <= j.n
    BY <1>1 DEF SourcingKnown
<1>3. \A k \in 0..j.n : k \in DOMAIN j.found \/ Lost(ContractAt(j, k))
    BY <1>1 DEF SourcingKnown
<1> QED
    BY <1>2, <1>3 DEF Looked, SourcingKnown

\* What SourcedAt and NotSourced lead to, in any state.
SourcedGoesOn ==
    TablesTyped => \A j \in JobRecord : \A a \in Addresses :
        /\ RowKnown(j) /\ SourcingKnown(j) /\ Subject(j) \in DOMAIN HashOf
        /\ Intact => files[a] = "all" /\ \A k \in DOMAIN j.found : files[j.found[k]] = "all"
        => Goes(j.row, SourcedAt(j, a))

NotSourcedGoesOn ==
    TablesTyped => \A j \in JobRecord :
        /\ RowKnown(j) /\ SourcingKnown(j) /\ Lost(Subject(j))
        /\ Intact => \A k \in DOMAIN j.found : files[j.found[k]] = "all"
        => Goes(j.row, NotSourced(j))

PairsGoOn ==
    TablesTyped => \A j \in JobRecord : \A n \in Nat :
        n > 0 /\ Checked(j, n) => Goes(j.row, CheckFrom(j, n))

\* What the next step of the search for a source, or of a pair, leads to.
SearchGoesOn ==
    \A j, d \in JobRecord :
        /\ RowKnown(j) /\ SourcingKnown(j) /\ Subject(j) \in DOMAIN HashOf
        /\ d.row = j.row /\ d.n = j.n /\ d.found = j.found
        /\ d.pc \in {"meta", "download", "refetch", "record", "mark"}
        /\ d.pc = "refetch" => HashOf[Subject(j)] \in DOMAIN verified
        /\ d.pc = "mark" => Subject(j) \in Minimal \/ Subject(j) \notin Published
        /\ Intact => /\ \A k \in DOMAIN j.found : files[j.found[k]] = "all"
                     /\ d.pc = "record" => files[Subject(j)] = "all"
        => Goes(j.row, d)

PairGoesOn ==
    \A j, d \in JobRecord :
        /\ RowKnown(j) /\ CheckingKnown(d) /\ PairsKnown(j, j.n)
        /\ d.row = j.row /\ d.n = j.n /\ d.found = j.found /\ d.pc \in Checking
        /\ ReadsKnown(d) /\ StoresKnown(d) /\ PrintedKnown(d)
        /\ Intact => \A k \in DOMAIN j.found : files[j.found[k]] = "all"
        => Goes(j.row, d)

LEMMA SearchGoing == SearchGoesOn
<1> SUFFICES
        ASSUME NEW j \in JobRecord, NEW d \in JobRecord,
               RowKnown(j), SourcingKnown(j), Subject(j) \in DOMAIN HashOf,
               d.row = j.row, d.n = j.n, d.found = j.found,
               d.pc \in {"meta", "download", "refetch", "record", "mark"},
               d.pc = "refetch" => HashOf[Subject(j)] \in DOMAIN verified,
               d.pc = "mark" => Subject(j) \in Minimal \/ Subject(j) \notin Published,
               Intact => /\ \A k \in DOMAIN j.found : files[j.found[k]] = "all"
                         /\ d.pc = "record" => files[Subject(j)] = "all"
        PROVE  Goes(j.row, d)
    BY DEF SearchGoesOn
<1>1. Subject(d) = Subject(j) /\ \A k : ContractAt(d, k) = ContractAt(j, k)
    BY DEF Subject, ContractAt
<1>2. RowKnown(d)
    BY <1>1 DEF RowKnown
<1>3. SourcingKnown(d)
    BY <1>1 DEF SourcingKnown
<1>4. StepKnown(d)
    BY <1>3 DEF StepKnown, Checking
<1>5. SourcesComplete(d)
    <2>1. Intact => /\ \A k \in DOMAIN d.found : files[d.found[k]] = "all"
                    /\ d.pc = "record" => files[Subject(d)] = "all"
        BY <1>1
    <2>2. d.pc \notin {"write", "rewrite"}
        OBVIOUS
    <2> QED
        BY <2>1, <2>2 DEF SourcesComplete
<1>6. PrintedKnown(d)
    BY DEF PrintedKnown
<1> QED
    BY <1>2, <1>4, <1>5, <1>6 DEF Goes, JobKnown

LEMMA PairGoing == PairGoesOn
<1> SUFFICES
        ASSUME NEW j \in JobRecord, NEW d \in JobRecord,
               RowKnown(j), CheckingKnown(d), PairsKnown(j, j.n),
               d.row = j.row, d.n = j.n, d.found = j.found, d.pc \in Checking,
               ReadsKnown(d), StoresKnown(d), PrintedKnown(d),
               Intact => \A k \in DOMAIN j.found : files[j.found[k]] = "all"
        PROVE  Goes(j.row, d)
    BY DEF PairGoesOn
<1>1. \A k : ContractAt(d, k) = ContractAt(j, k)
    BY DEF ContractAt
<1>2. RowKnown(d)
    BY <1>1 DEF RowKnown
<1>3. PairsKnown(d, d.n)
    BY <1>1 DEF PairsKnown
<1>4. StepKnown(d)
    BY <1>3 DEF StepKnown, Sourcing, Checking
<1>5. SourcesComplete(d)
    BY DEF SourcesComplete, Checking
<1> QED
    BY <1>2, <1>4, <1>5 DEF Goes, JobKnown, Checking

LEMMA GoingOn ==
    SourcedGoesOn /\ NotSourcedGoesOn /\ PairsGoOn /\ SearchGoesOn /\ PairGoesOn
<1>1. SourcedGoesOn
    BY WithSource, NextContract DEF SourcedGoesOn, SourcedAt
<1>2. NotSourcedGoesOn
    BY WithoutSource, NextContract DEF NotSourcedGoesOn, NotSourced
<1>3. PairsGoOn
    BY NextPair DEF PairsGoOn
<1> QED
    BY <1>1, <1>2, <1>3, SearchGoing, PairGoing

\* The same of the state after a step.
LEMMA GoingOnNext ==
    SourcedGoesOn' /\ NotSourcedGoesOn' /\ PairsGoOn' /\ SearchGoesOn' /\ PairGoesOn'
<1>1. (SourcedGoesOn /\ NotSourcedGoesOn /\ PairsGoOn /\ SearchGoesOn /\ PairGoesOn)'
    BY GoingOn, PTL
<1> QED
    BY <1>1

----------------------------------------------------------------------------
(* One worker moves *)

\* No row is forgotten when its worker goes on with it or it is settled.
LEMMA RowsKeep ==
    ASSUME RowsTracked, TablesGrow, UNCHANGED <<todo, given>>,
           \A u \in Workers : \A row \in Rows : job[u].pc # "idle" /\ job[u].row = row =>
                (job'[u].pc # "idle" /\ job'[u].row = row) \/ RowSettled(row)'
    PROVE  RowsTracked'
<1> SUFFICES ASSUME NEW row \in Rows, row \notin given', row \notin todo'
             PROVE  \/ \E u \in Workers : job'[u].pc # "idle" /\ job'[u].row = row
                    \/ RowSettled(row)'
    BY DEF RowsTracked
<1>1. CASE RowSettled(row)
    BY <1>1, RowSettledStays
<1>2. CASE \E u \in Workers : job[u].pc # "idle" /\ job[u].row = row
    <2>1. PICK u \in Workers : job[u].pc # "idle" /\ job[u].row = row
        BY <1>2
    <2> QED
        BY <2>1
<1> QED
    BY <1>1, <1>2 DEF RowsTracked

LEMMA JobsMove ==
    ASSUME TablesTyped, JobsKnown, RowsTracked, TablesGrow, FilesImprove,
           UNCHANGED <<todo, given>>,
           NEW w \in Workers, job[w].pc # "idle", NEW r, r = job[w].row,
           NEW d, Becomes(w, d), Goes(r, d)'
    PROVE  JobsKnown' /\ RowsTracked'
<1>1. /\ d \in JobRecord /\ JobKnown(d)'
      /\ IF d.pc = "idle" THEN RowSettled(r)' ELSE d.row = r
    BY DEF Goes
<1>2. job' \in [Workers -> JobRecord] /\ job'[w] = d /\ \A u \in Workers \ {w} : job'[u] = job[u]
    BY <1>1 DEF JobsKnown, Becomes
<1>3. ASSUME NEW u \in Workers
      PROVE  JobKnown(job[u])'
    <2>1. CASE u = w
        <3>1. PICK e : e = job'[u]
            OBVIOUS
        <3>2. JobKnown(e)'
            BY <3>1, <2>1, <1>1, <1>2
        <3> QED
            BY <3>1, <3>2 DEF JobKnown, RowKnown, StepKnown, SourcingKnown, CheckingKnown,
                PairsKnown, ReadsKnown, StoresKnown, SourcesComplete, PrintedKnown
    <2>2. CASE u # w
        <3>1. PICK e \in JobRecord : e = job[u]
            BY DEF JobsKnown
        <3>2. JobKnown(e)
            BY <3>1 DEF JobsKnown
        <3>3. JobKnown(e)'
            BY <3>2, KnownStays
        <3>4. e = job'[u]
            BY <3>1, <2>2, <1>2
        <3> QED
            BY <3>3, <3>4
    <2> QED
        BY <2>1, <2>2
<1>4. JobsKnown'
    BY <1>2, <1>3 DEF JobsKnown
<1>5. ASSUME NEW u \in Workers, NEW row \in Rows, job[u].pc # "idle", job[u].row = row
      PROVE  (job'[u].pc # "idle" /\ job'[u].row = row) \/ RowSettled(row)'
    BY <1>1, <1>2, <1>5
<1>6. RowsTracked'
    BY <1>5, RowsKeep
<1> QED
    BY <1>4, <1>6

LEMMA Working ==
    ASSUME JobsKnown, NEW w \in Workers, NEW j, j = job[w], j.pc # "idle"
    PROVE  /\ j \in JobRecord /\ RowKnown(j) /\ StepKnown(j)
           /\ SourcesComplete(j) /\ PrintedKnown(j) /\ j.row \in Rows
BY DEF JobsKnown, JobKnown, RowKnown

\* What a worker at a pair knows of it.
LEMMA AtPair ==
    ASSUME JobsKnown, NEW w \in Workers, NEW j, j = job[w], j.pc \in Checking
    PROVE  /\ j \in JobRecord /\ RowKnown(j) /\ CheckingKnown(j) /\ j.row \in Rows
           /\ PairsKnown(j, j.n) /\ ReadsKnown(j) /\ StoresKnown(j)
           /\ SourcesComplete(j) /\ PrintedKnown(j)
           /\ Intact => \A k \in DOMAIN j.found : files[j.found[k]] = "all"
<1>1. j.pc # "idle" /\ j.pc \notin {"write", "rewrite"}
    BY DEF Checking
<1>2. /\ j \in JobRecord /\ RowKnown(j) /\ StepKnown(j)
      /\ SourcesComplete(j) /\ PrintedKnown(j) /\ j.row \in Rows
    BY <1>1, Working
<1> QED
    BY <1>1, <1>2 DEF StepKnown, SourcesComplete

\* What a worker that looks for a source knows.
LEMMA AtSource ==
    ASSUME JobsKnown, NEW w \in Workers, NEW j, j = job[w], j.pc \in Sourcing
    PROVE  /\ j \in JobRecord /\ RowKnown(j) /\ SourcingKnown(j) /\ j.row \in Rows
           /\ SourcesComplete(j) /\ StepKnown(j)
           /\ Intact /\ j.pc \notin {"write", "rewrite"} =>
                \A k \in DOMAIN j.found : files[j.found[k]] = "all"
<1>1. j.pc # "idle"
    BY DEF Sourcing
<1>2. /\ j \in JobRecord /\ RowKnown(j) /\ StepKnown(j)
      /\ SourcesComplete(j) /\ j.row \in Rows
    BY <1>1, Working
<1> QED
    BY <1>1, <1>2 DEF StepKnown, SourcesComplete

LEMMA SameTables ==
    ASSUME TablesTyped, UNCHANGED tables, UNCHANGED <<todo, given>>,
           raced' \in BOOLEAN /\ leftover' \in BOOLEAN, Intact' => Intact
    PROVE  TablesTyped' /\ TablesGrow /\ FilesImprove
<1>1. TablesTyped'
    BY DEF TablesTyped, tables
<1>2. TablesGrow /\ FilesImprove
    BY DEF TablesGrow, FilesImprove, tables
<1> QED
    BY <1>1, <1>2

\* The tables' own properties when the tables they are about are the same.
LEMMA VerdictsStay ==
    ASSUME CollisionsBacked, NullJustified, Intact' => Intact,
           UNCHANGED <<results, vars, sigs, storage, function>>
    PROVE  CollisionsBacked' /\ NullJustified'
BY DEF CollisionsBacked, NullJustified

\* A step of a worker that changes no table.
LEMMA QuietStep ==
    ASSUME BatchInvariant, UNCHANGED tables, UNCHANGED <<todo, given>>,
           raced' \in BOOLEAN /\ leftover' \in BOOLEAN, Intact' => Intact,
           NEW w \in Workers, job[w].pc # "idle", NEW r, r = job[w].row,
           NEW d, Becomes(w, d), Goes(r, d)'
    PROVE  BatchInvariant'
<1> USE DEF BatchInvariant
<1>1. TablesTyped' /\ TablesGrow /\ FilesImprove
    BY SameTables
<1>2. JobsKnown' /\ RowsTracked'
    BY <1>1, JobsMove
<1>3. CollisionsBacked' /\ NullJustified'
    BY VerdictsStay DEF tables
<1>4. NoSourceJustified'
    BY DEF NoSourceJustified, tables
<1> QED
    BY <1>1, <1>2, <1>3, <1>4

\* The same, where the worker knows before the step what it knows after it.
LEMMA QuietMove ==
    ASSUME BatchInvariant, UNCHANGED tables, SharedUnchanged,
           NEW w \in Workers, NEW j, j = job[w], j.pc # "idle",
           NEW d, Becomes(w, d), Goes(j.row, d)
    PROVE  BatchInvariant'
<1>1. raced' = raced /\ raced \in BOOLEAN /\ leftover' = leftover /\ leftover \in BOOLEAN
      /\ TablesTyped /\ JobsKnown
    BY DEF SharedUnchanged, HistoryUnchanged, BatchInvariant, TablesTyped
<1>2. TablesTyped' /\ TablesGrow /\ FilesImprove
    BY <1>1, SameTables DEF SharedUnchanged, HistoryUnchanged
<1>3. j.row \in Rows
    BY <1>1, Working
<1>4. PICK r : r = j.row
    OBVIOUS
<1>5. Goes(r, d)'
    BY <1>1, <1>2, <1>3, <1>4, GoesStays
<1> QED
    BY <1>1, <1>4, <1>5, QuietStep DEF SharedUnchanged, HistoryUnchanged

----------------------------------------------------------------------------
(* The actions that look for a source *)

LEMMA LookUpKeeps ==
    ASSUME BatchInvariant, NEW w \in Workers, LookUp(w)
    PROVE  BatchInvariant'
<1>1. PICK j : j = job[w]
    OBVIOUS
<1>2. j.pc = "lookup" /\ SharedUnchanged /\ UNCHANGED tables /\ TablesTyped /\ JobsKnown
    BY <1>1 DEF LookUp, At, BatchInvariant
<1>3. /\ j \in JobRecord /\ RowKnown(j) /\ SourcingKnown(j)
      /\ Intact => \A k \in DOMAIN j.found : files[j.found[k]] = "all"
    BY <1>1, <1>2, AtSource DEF Sourcing
<1>4. CASE Subject(j) \notin DOMAIN HashOf \/ HashOf[Subject(j)] \in noSource
    <2>1. Becomes(w, NotSourced(j))
        BY <1>1, <1>4 DEF LookUp
    <2>2. Lost(Subject(j))
        BY <1>4 DEF Lost, Obtainable
    <2>3. Goes(j.row, NotSourced(j))
        BY <1>2, <1>3, <2>2, GoingOn DEF NotSourcedGoesOn
    <2> QED
        BY <1>1, <1>2, <2>1, <2>3, QuietMove
<1>5. CASE ~ (Subject(j) \notin DOMAIN HashOf \/ HashOf[Subject(j)] \in noSource)
    <2> DEFINE d == [j EXCEPT !.pc = "meta"]
    <2>1. Becomes(w, d)
        BY <1>1, <1>5 DEF LookUp
    <2>2. /\ d \in JobRecord /\ d.row = j.row /\ d.n = j.n /\ d.found = j.found /\ d.pc = "meta"
        BY <1>3 DEF JobRecord, Sourcing
    <2> HIDE DEF d
    <2>3. Goes(j.row, d)
        BY <1>3, <1>5, <2>2, GoingOn DEF SearchGoesOn
    <2> QED
        BY <1>1, <1>2, <2>1, <2>3, QuietMove
<1> QED
    BY <1>4, <1>5

LEMMA NoMetaKeeps ==
    ASSUME BatchInvariant, NEW w \in Workers, NoMeta(w)
    PROVE  BatchInvariant'
<1>1. PICK j : j = job[w]
    OBVIOUS
<1>2. j.pc = "meta" /\ SharedUnchanged /\ UNCHANGED tables /\ TablesTyped /\ JobsKnown
    BY <1>1 DEF NoMeta, At, BatchInvariant
<1>3. /\ j \in JobRecord /\ RowKnown(j) /\ SourcingKnown(j)
      /\ Intact => \A k \in DOMAIN j.found : files[j.found[k]] = "all"
    BY <1>1, <1>2, AtSource DEF Sourcing
<1>4. Subject(j) \in DOMAIN HashOf
    BY <1>2, <1>3 DEF SourcingKnown
<1> DEFINE d == [j EXCEPT !.pc = IF Subject(j) \in Minimal THEN "mark" ELSE "download"]
<1>5. Becomes(w, d)
    BY <1>1 DEF NoMeta
<1>6. /\ d \in JobRecord /\ d.row = j.row /\ d.n = j.n /\ d.found = j.found
      /\ d.pc \in {"mark", "download"}
      /\ d.pc = "mark" => Subject(j) \in Minimal
    BY <1>3 DEF JobRecord, Sourcing
<1> HIDE DEF d
<1>7. Goes(j.row, d)
    BY <1>3, <1>4, <1>6, GoingOn DEF SearchGoesOn
<1> QED
    BY <1>1, <1>2, <1>5, <1>7, QuietMove

LEMMA FindFilesKeeps ==
    ASSUME BatchInvariant, NEW w \in Workers, FindFiles(w)
    PROVE  BatchInvariant'
<1>1. PICK j : j = job[w]
    OBVIOUS
<1>2. /\ j.pc = "meta" /\ UNCHANGED tables /\ UNCHANGED <<todo, given>>
      /\ TablesTyped /\ JobsKnown
    BY <1>1 DEF FindFiles, At, BatchInvariant
<1>3. /\ j \in JobRecord /\ RowKnown(j) /\ SourcingKnown(j) /\ StepKnown(j) /\ j.row \in Rows
      /\ Intact => \A k \in DOMAIN j.found : files[j.found[k]] = "all"
    BY <1>1, <1>2, AtSource DEF Sourcing
<1>4. PICK a : a = verified[HashOf[Subject(j)]]
    OBVIOUS
<1>5. /\ Subject(j) \in DOMAIN HashOf /\ HashOf[Subject(j)] \in DOMAIN verified
      /\ a \in Addresses
    BY <1>1, <1>2, <1>3, <1>4 DEF FindFiles, SourcingKnown, TablesTyped
<1>6. CASE /\ Becomes(w, SourcedAt(j, a))
           /\ raced' = (raced \/ BeingFilled(a)) /\ leftover' = (leftover \/ LeftIncomplete(a))
           /\ files[a] \in {"part", "all"}
    <2>1. raced' \in BOOLEAN /\ leftover' \in BOOLEAN /\ (Intact' => Intact)
        BY <1>6
    <2>2. TablesTyped' /\ TablesGrow /\ FilesImprove
        BY <1>2, <2>1, SameTables
    <2>3. StepKnown(j)'
        BY <1>2, <1>3, <2>2, StepStays
    <2>4. RowKnown(j)' /\ SourcingKnown(j)' /\ (Subject(j) \in DOMAIN HashOf)'
        BY <1>2, <1>3, <1>5, <2>3 DEF StepKnown, Sourcing, RowKnown, ContractAt, Subject
    <2>5. Intact' => files'[a] = "all" /\ \A k \in DOMAIN j.found : files'[j.found[k]] = "all"
        <3>1. Intact' => files[a] # "part"
            BY <1>6 DEF BeingFilled, LeftIncomplete
        <3> QED
            BY <1>2, <1>3, <1>6, <2>1, <3>1 DEF tables
    <2>6. Goes(j.row, SourcedAt(j, a))'
        BY <1>3, <1>5, <2>2, <2>4, <2>5, GoingOnNext DEF SourcedGoesOn
    <2> QED
        BY <1>1, <1>2, <1>6, <2>1, <2>6, QuietStep
<1>7. CASE Becomes(w, [j EXCEPT !.pc = "refetch"]) /\ UNCHANGED <<raced, leftover>>
    <2> DEFINE d == [j EXCEPT !.pc = "refetch"]
    <2>1. /\ d \in JobRecord /\ d.row = j.row /\ d.n = j.n /\ d.found = j.found
          /\ d.pc = "refetch"
        BY <1>3 DEF JobRecord, Sourcing
    <2>2. Becomes(w, d)
        BY <1>7
    <2> HIDE DEF d
    <2>3. Goes(j.row, d)
        BY <1>3, <1>5, <2>1, GoingOn DEF SearchGoesOn
    <2>4. SharedUnchanged
        BY <1>7 DEF FindFiles, SharedUnchanged, HistoryUnchanged
    <2> QED
        BY <1>1, <1>2, <2>2, <2>3, <2>4, QuietMove
<1> QED
    BY <1>1, <1>4, <1>6, <1>7 DEF FindFiles

LEMMA DownloadNothingKeeps ==
    ASSUME BatchInvariant, NEW w \in Workers, DownloadNothing(w)
    PROVE  BatchInvariant'
<1>1. PICK j : j = job[w]
    OBVIOUS
<1>2. /\ j.pc \in {"download", "refetch"} /\ Wanted(j) \notin Published
      /\ SharedUnchanged /\ UNCHANGED tables /\ TablesTyped /\ JobsKnown
    BY <1>1 DEF DownloadNothing, NothingPublished, BatchInvariant
<1>3. /\ j \in JobRecord /\ RowKnown(j) /\ SourcingKnown(j)
      /\ Intact => \A k \in DOMAIN j.found : files[j.found[k]] = "all"
    BY <1>1, <1>2, AtSource DEF Sourcing
<1>4. Subject(j) \in DOMAIN HashOf
    BY <1>2, <1>3 DEF SourcingKnown
<1>5. CASE j.pc = "download"
    <2> DEFINE d == [j EXCEPT !.pc = "mark"]
    <2>1. Becomes(w, d)
        BY <1>1, <1>5 DEF DownloadNothing, At
    <2>2. /\ d \in JobRecord /\ d.row = j.row /\ d.n = j.n /\ d.found = j.found
          /\ d.pc = "mark"
        BY <1>3 DEF JobRecord, Sourcing
    <2> HIDE DEF d
    <2>3. Subject(j) \notin Published
        BY <1>2, <1>5 DEF Wanted
    <2>4. Goes(j.row, d)
        BY <1>3, <1>4, <2>2, <2>3, GoingOn DEF SearchGoesOn
    <2> QED
        BY <1>1, <1>2, <2>1, <2>4, QuietMove
<1>6. CASE j.pc = "refetch"
    <2>1. Becomes(w, NotSourced(j))
        BY <1>1, <1>6 DEF DownloadNothing, At
    <2>2. Lost(Subject(j))
        BY <1>2, <1>3, <1>6 DEF Wanted, SourcingKnown, Lost, Obtainable
    <2>3. Goes(j.row, NotSourced(j))
        BY <1>2, <1>3, <2>2, GoingOn DEF NotSourcedGoesOn
    <2> QED
        BY <1>1, <1>2, <2>1, <2>3, QuietMove
<1> QED
    BY <1>2, <1>5, <1>6

LEMMA WriteKeeps ==
    ASSUME BatchInvariant, NEW w \in Workers, Write(w)
    PROVE  BatchInvariant'
<1>1. PICK j : j = job[w]
    OBVIOUS
<1>2. /\ j.pc \in {"write", "rewrite"} /\ TablesTyped /\ JobsKnown /\ RowsTracked
      /\ UNCHANGED <<verified, noSource, results, vars, sigs, storage, function>>
      /\ UNCHANGED <<todo, runs, aborts, given, raced, leftover>>
    BY <1>1 DEF Write, At, BatchInvariant, SharedUnchanged, HistoryUnchanged
<1>3. /\ j \in JobRecord /\ RowKnown(j) /\ SourcingKnown(j) /\ StepKnown(j) /\ j.row \in Rows
      /\ SourcesComplete(j)
    BY <1>1, <1>2, AtSource DEF Sourcing
<1>4. Subject(j) \in DOMAIN HashOf
    BY <1>2, <1>3 DEF SourcingKnown
<1>5. PICK a \in Addresses : a = Wanted(j)
    BY <1>2, <1>3, DirectoriesTyped DEF Sourcing
<1>6. files' = [files EXCEPT ![a] = IF j.whole THEN "all" ELSE @]
    BY <1>1, <1>5 DEF Write
<1>7. /\ files' \in [Addresses -> {"none", "part", "all"}]
      /\ \A b \in Addresses : files[b] = "all" => files'[b] = "all"
      /\ j.whole => files'[a] = "all"
    BY <1>2, <1>6 DEF TablesTyped
<1>8. TablesTyped' /\ TablesGrow /\ FilesImprove
    <2>1. TablesTyped'
        BY <1>2, <1>7 DEF TablesTyped
    <2>2. TablesGrow
        BY <1>2 DEF TablesGrow
    <2> QED
        BY <1>7, <2>1, <2>2 DEF FilesImprove
<1>9. Intact' => files'[a] = "all" /\ \A k \in DOMAIN j.found : files'[j.found[k]] = "all"
    BY <1>2, <1>3, <1>5, <1>7, DirectoriesTyped DEF SourcesComplete
<1>10. StepKnown(j)' /\ RowKnown(j)'
    BY <1>2, <1>3, <1>8, StepStays DEF RowKnown, ContractAt
<1>11. SourcingKnown(j)' /\ (Subject(j) \in DOMAIN HashOf)'
    BY <1>2, <1>4, <1>10 DEF StepKnown, Sourcing, Subject
<1>12. \E d : Becomes(w, d) /\ Goes(j.row, d)'
    <2>1. CASE j.pc = "write"
        <3> DEFINE d == [[j EXCEPT !.whole = TRUE] EXCEPT !.pc = "record"]
        <3>1. Becomes(w, d)
            BY <1>1, <2>1 DEF Write, At
        <3>2. /\ d \in JobRecord /\ d.row = j.row /\ d.n = j.n /\ d.found = j.found
              /\ d.pc = "record"
            BY <1>3 DEF JobRecord, Sourcing
        <3> HIDE DEF d
        <3>3. a = Subject(j)
            BY <1>5, <2>1 DEF Wanted
        <3>4. Goes(j.row, d)'
            BY <1>3, <1>9, <1>10, <1>11, <3>2, <3>3, GoingOnNext DEF SearchGoesOn, Subject
        <3> QED
            BY <3>1, <3>4
    <2>2. CASE j.pc = "rewrite"
        <3> DEFINE e == [j EXCEPT !.whole = TRUE]
        <3>1. /\ e \in JobRecord /\ e.row = j.row /\ e.n = j.n /\ e.found = j.found
              /\ e.pc = j.pc
            BY <1>3 DEF JobRecord
        <3>2. Becomes(w, SourcedAt(e, Wanted(e)))
            BY <1>1, <2>2 DEF Write, At
        <3> HIDE DEF e
        <3>3. Wanted(e) = a
            BY <1>5, <3>1 DEF Wanted, Subject
        <3>4. RowKnown(e)' /\ SourcingKnown(e)' /\ (Subject(e) \in DOMAIN HashOf)'
            BY <1>10, <1>11, <3>1 DEF RowKnown, SourcingKnown, ContractAt, Subject
        <3>5. Goes(e.row, SourcedAt(e, a))'
            BY <1>8, <1>9, <3>1, <3>4, GoingOnNext DEF SourcedGoesOn
        <3> QED
            BY <3>1, <3>2, <3>3, <3>5
    <2> QED
        BY <1>2, <2>1, <2>2
<1>13. PICK d : Becomes(w, d) /\ Goes(j.row, d)'
    BY <1>12
<1>14. JobsKnown' /\ RowsTracked'
    BY <1>1, <1>2, <1>8, <1>13, JobsMove
<1>15. CollisionsBacked' /\ NullJustified'
    BY <1>2, VerdictsStay DEF BatchInvariant
<1>16. NoSourceJustified'
    BY <1>2 DEF NoSourceJustified, BatchInvariant
<1> QED
    BY <1>8, <1>14, <1>15, <1>16 DEF BatchInvariant

LEMMA RecordKeeps ==
    ASSUME BatchInvariant, NEW w \in Workers, Record(w)
    PROVE  BatchInvariant'
<1>1. PICK j : j = job[w]
    OBVIOUS
<1>2. /\ j.pc = "record" /\ TablesTyped /\ JobsKnown /\ RowsTracked
      /\ UNCHANGED <<noSource, files, results, vars, sigs, storage, function>>
      /\ UNCHANGED <<todo, runs, aborts, given, raced, leftover>>
    BY <1>1 DEF Record, At, BatchInvariant, SharedUnchanged, HistoryUnchanged
<1>3. /\ j \in JobRecord /\ RowKnown(j) /\ SourcingKnown(j) /\ StepKnown(j) /\ j.row \in Rows
      /\ Intact => \A k \in DOMAIN j.found : files[j.found[k]] = "all"
      /\ Intact => files[Subject(j)] = "all"
    BY <1>1, <1>2, AtSource DEF Sourcing, SourcesComplete
<1>4. PICK a \in Addresses : a = Subject(j)
    BY <1>3, ContractTyped
<1>5. a \in DOMAIN HashOf /\ HashOf[a] \in Hashes
    BY <1>2, <1>3, <1>4, HashTyped DEF SourcingKnown
<1>6. /\ Becomes(w, SourcedAt(j, a))
      /\ verified' = IF HashOf[a] \in DOMAIN verified THEN verified
                     ELSE [k \in (DOMAIN verified) \cup {HashOf[a]} |->
                                IF k = HashOf[a] THEN a ELSE verified[k]]
    BY <1>1, <1>4 DEF Record
<1>7. /\ DOMAIN verified' \subseteq Hashes /\ \A h \in DOMAIN verified' : verified'[h] \in Addresses
      /\ \A h \in DOMAIN verified : h \in DOMAIN verified' /\ verified'[h] = verified[h]
    <2>1. CASE HashOf[a] \in DOMAIN verified
        BY <1>2, <1>6, <2>1 DEF TablesTyped
    <2>2. CASE HashOf[a] \notin DOMAIN verified
        BY <1>2, <1>5, <1>6, <2>2 DEF TablesTyped
    <2> QED
        BY <2>1, <2>2
<1>8. TablesTyped' /\ TablesGrow /\ FilesImprove
    <2>1. TablesTyped'
        BY <1>2, <1>7 DEF TablesTyped
    <2>2. TablesGrow /\ FilesImprove
        BY <1>2, <1>7 DEF TablesGrow, FilesImprove
    <2> QED
        BY <2>1, <2>2
<1>9. StepKnown(j)' /\ RowKnown(j)'
    BY <1>2, <1>3, <1>8, StepStays DEF RowKnown, ContractAt
<1>10. SourcingKnown(j)' /\ (Subject(j) \in DOMAIN HashOf)'
    BY <1>2, <1>4, <1>5, <1>9 DEF StepKnown, Sourcing, Subject
<1>11. Intact' => files'[a] = "all" /\ \A k \in DOMAIN j.found : files'[j.found[k]] = "all"
    BY <1>2, <1>3, <1>4
<1>12. Goes(j.row, SourcedAt(j, a))'
    BY <1>3, <1>8, <1>9, <1>10, <1>11, GoingOnNext DEF SourcedGoesOn
<1>13. JobsKnown' /\ RowsTracked'
    BY <1>1, <1>2, <1>6, <1>8, <1>12, JobsMove
<1>14. CollisionsBacked' /\ NullJustified'
    BY <1>2, VerdictsStay DEF BatchInvariant
<1>15. NoSourceJustified'
    BY <1>2 DEF NoSourceJustified, BatchInvariant
<1> QED
    BY <1>8, <1>13, <1>14, <1>15 DEF BatchInvariant

LEMMA MarkKeeps ==
    ASSUME BatchInvariant, NEW w \in Workers, Mark(w)
    PROVE  BatchInvariant'
<1>1. PICK j : j = job[w]
    OBVIOUS
<1>2. /\ j.pc = "mark" /\ TablesTyped /\ JobsKnown /\ RowsTracked
      /\ UNCHANGED <<verified, files, results, vars, sigs, storage, function>>
      /\ UNCHANGED <<todo, runs, aborts, given, raced, leftover>>
    BY <1>1 DEF Mark, At, BatchInvariant, SharedUnchanged, HistoryUnchanged
<1>3. /\ j \in JobRecord /\ RowKnown(j) /\ SourcingKnown(j) /\ StepKnown(j) /\ j.row \in Rows
      /\ Intact => \A k \in DOMAIN j.found : files[j.found[k]] = "all"
    BY <1>1, <1>2, AtSource DEF Sourcing
<1>4. PICK a \in Addresses : a = Subject(j)
    BY <1>3, ContractTyped
<1>5. /\ a \in DOMAIN HashOf /\ HashOf[a] \in Hashes
      /\ a \in Minimal \/ a \notin Published
    BY <1>2, <1>3, <1>4, HashTyped DEF SourcingKnown
<1>6. Becomes(w, NotSourced(j)) /\ noSource' = noSource \cup {HashOf[a]}
    BY <1>1, <1>4 DEF Mark
<1>7. TablesTyped' /\ TablesGrow /\ FilesImprove
    <2>1. TablesTyped'
        BY <1>2, <1>5, <1>6 DEF TablesTyped
    <2>2. TablesGrow /\ FilesImprove
        BY <1>2, <1>6 DEF TablesGrow, FilesImprove
    <2> QED
        BY <2>1, <2>2
<1>8. StepKnown(j)' /\ RowKnown(j)'
    BY <1>2, <1>3, <1>7, StepStays DEF RowKnown, ContractAt
<1>9. SourcingKnown(j)' /\ Lost(Subject(j))'
    BY <1>2, <1>4, <1>6, <1>8 DEF StepKnown, Sourcing, Subject, Lost, Obtainable
<1>10. Goes(j.row, NotSourced(j))'
    BY <1>2, <1>3, <1>7, <1>8, <1>9, GoingOnNext DEF NotSourcedGoesOn
<1>11. JobsKnown' /\ RowsTracked'
    BY <1>1, <1>2, <1>6, <1>7, <1>10, JobsMove
<1>12. CollisionsBacked' /\ NullJustified'
    BY <1>2, VerdictsStay DEF BatchInvariant
<1>13. NoSourceJustified'
    BY <1>5, <1>6 DEF NoSourceJustified, BatchInvariant
<1> QED
    BY <1>7, <1>11, <1>12, <1>13 DEF BatchInvariant

LEMMA TakeKeeps ==
    ASSUME BatchInvariant, NEW w \in Workers, NEW row \in todo, Take(w, row)
    PROVE  BatchInvariant'
<1>1. /\ job[w].pc = "idle" /\ TablesTyped /\ JobsKnown /\ RowsTracked
      /\ todo' = todo \ {row} /\ UNCHANGED tables /\ UNCHANGED <<given, raced, leftover>>
    BY DEF Take, At, BatchInvariant, HistoryUnchanged
<1>2. row \in Rows /\ Len(row.impls) \in Nat
    BY <1>1, RowTyped DEF TablesTyped
<1> DEFINE d == [Idle EXCEPT !.pc = "lookup", !.row = row]
<1>3. Becomes(w, d)
    BY DEF Take
<1>4. /\ d \in JobRecord /\ d.pc = "lookup" /\ d.row = row /\ d.n = 0 /\ DOMAIN d.found = {}
    BY <1>2, IdleKnown DEF Idle, JobRecord, Sourcing
<1> HIDE DEF d
<1>5. TablesTyped' /\ TablesGrow /\ FilesImprove
    <2>1. TablesTyped'
        BY <1>1 DEF TablesTyped, tables
    <2>2. TablesGrow /\ FilesImprove
        BY <1>1 DEF TablesGrow, FilesImprove, tables
    <2> QED
        BY <2>1, <2>2
<1>6. JobKnown(d)'
    <2>1. RowKnown(d)' /\ SourcingKnown(d)'
        BY <1>2, <1>4 DEF RowKnown, SourcingKnown
    <2>2. SourcesComplete(d)' /\ PrintedKnown(d)' /\ StepKnown(d)'
        BY <1>4, <2>1 DEF SourcesComplete, PrintedKnown, StepKnown, Checking
    <2> QED
        BY <1>4, <2>1, <2>2 DEF JobKnown
<1>7. job' \in [Workers -> JobRecord] /\ job'[w] = d /\ \A u \in Workers \ {w} : job'[u] = job[u]
    BY <1>1, <1>3, <1>4 DEF JobsKnown, Becomes
<1>8. JobsKnown'
    <2>1. ASSUME NEW u \in Workers, NEW e, e = job'[u]
          PROVE  JobKnown(e)'
        <3>1. CASE u = w
            BY <2>1, <3>1, <1>6, <1>7
        <3>2. CASE u # w
            <4>1. e = job[u] /\ e \in JobRecord /\ JobKnown(e)
                BY <2>1, <3>2, <1>1, <1>7 DEF JobsKnown
            <4> QED
                BY <4>1, <1>1, <1>5, KnownStays
        <3> QED
            BY <3>1, <3>2
    <2>2. ASSUME NEW u \in Workers
          PROVE  JobKnown(job[u])'
        <3>1. PICK e : e = job'[u]
            OBVIOUS
        <3>2. JobKnown(e)'
            BY <3>1, <2>1
        <3> QED
            BY <3>1, <3>2
    <2> QED
        BY <1>7, <2>2 DEF JobsKnown
<1>9. RowsTracked'
    <2> SUFFICES ASSUME NEW other \in Rows, other \notin given', other \notin todo'
                 PROVE  \/ \E u \in Workers : job'[u].pc # "idle" /\ job'[u].row = other
                        \/ RowSettled(other)'
        BY DEF RowsTracked
    <2>1. CASE other = row
        BY <2>1, <1>4, <1>7
    <2>2. CASE other # row /\ RowSettled(other)
        BY <2>2, <1>5, RowSettledStays
    <2>3. CASE other # row /\ ~ RowSettled(other)
        <3>1. PICK u \in Workers : job[u].pc # "idle" /\ job[u].row = other
            BY <2>3, <1>1 DEF RowsTracked
        <3>2. u # w
            BY <3>1, <1>1
        <3> QED
            BY <3>1, <3>2, <1>7
    <2> QED
        BY <2>1, <2>2, <2>3
<1>10. CollisionsBacked' /\ NullJustified'
    BY <1>1, VerdictsStay DEF BatchInvariant, tables
<1>11. NoSourceJustified'
    BY <1>1 DEF NoSourceJustified, BatchInvariant, tables
<1> QED
    BY <1>5, <1>8, <1>9, <1>10, <1>11 DEF BatchInvariant

\* A download empties a directory; whoever else is writing or using it has raced.
LEMMA DownloadKeeps ==
    ASSUME BatchInvariant, NEW w \in Workers, Download(w)
    PROVE  BatchInvariant'
<1>1. PICK j : j = job[w]
    OBVIOUS
<1>2. /\ j.pc \in {"download", "refetch"} /\ TablesTyped /\ JobsKnown /\ RowsTracked
      /\ UNCHANGED <<verified, noSource, results, vars, sigs, storage, function>>
      /\ UNCHANGED <<todo, runs, aborts, given, leftover>>
    BY <1>1 DEF Download, BatchInvariant
<1>3. /\ j \in JobRecord /\ RowKnown(j) /\ SourcingKnown(j) /\ StepKnown(j) /\ j.row \in Rows
      /\ Intact => \A k \in DOMAIN j.found : files[j.found[k]] = "all"
    BY <1>1, <1>2, AtSource DEF Sourcing
<1>4. PICK a \in Addresses : a = Wanted(j)
    BY <1>2, <1>3, DirectoriesTyped DEF Sourcing
<1> DEFINE d == [j EXCEPT !.pc = IF @ = "download" THEN "write" ELSE "rewrite", !.whole = TRUE]
<1>5. /\ files' = [files EXCEPT ![a] = "part"]
      /\ job' = [u \in Workers |->
                    IF u = w THEN d
                    ELSE IF Writing(u, a) THEN [job[u] EXCEPT !.whole = FALSE] ELSE job[u]]
      /\ raced' = (raced \/ \E u \in Workers \ {w} : Writing(u, a) \/ Has(u, a))
    BY <1>1, <1>4 DEF Download
<1>6. /\ d \in JobRecord /\ d.row = j.row /\ d.n = j.n /\ d.found = j.found /\ d.whole = TRUE
      /\ d.pc = IF j.pc = "download" THEN "write" ELSE "rewrite"
    BY <1>3 DEF JobRecord, Sourcing
<1> HIDE DEF d
<1>7. TablesTyped' /\ TablesGrow
    <2>1. raced' \in BOOLEAN /\ leftover' \in BOOLEAN /\ (Intact' => Intact)
        <3>1. leftover' = leftover /\ raced \in BOOLEAN /\ leftover \in BOOLEAN
            BY <1>2 DEF TablesTyped
        <3>2. PICK b \in BOOLEAN : b = \E u \in Workers \ {w} : Writing(u, a) \/ Has(u, a)
            OBVIOUS
        <3>3. raced' = (raced \/ b)
            BY <1>5, <3>2
        <3> QED
            BY <3>1, <3>3
    <2>2. files' \in [Addresses -> {"none", "part", "all"}]
        BY <1>2, <1>5 DEF TablesTyped
    <2>3. TablesTyped'
        BY <1>2, <2>1, <2>2 DEF TablesTyped
    <2>4. TablesGrow
        BY <1>2, <2>1 DEF TablesGrow
    <2> QED
        BY <2>3, <2>4
<1>8. \A b \in Addresses : b # a => files'[b] = files[b]
    BY <1>2, <1>5 DEF TablesTyped
<1>9. JobKnown(d)'
    <2>1. RowKnown(d)'
        BY <1>3, <1>6 DEF RowKnown, ContractAt
    <2>2. StepKnown(j)'
        BY <1>2, <1>3, <1>7, StepStays
    <2>3. SourcingKnown(d)'
        BY <1>2, <1>3, <1>6, <2>2 DEF StepKnown, Sourcing, SourcingKnown, Subject, ContractAt
    <2>4. StepKnown(d)'
        BY <1>6, <2>3 DEF StepKnown, Checking
    <2>5. Wanted(d)' = a
        BY <1>2, <1>4, <1>6 DEF Wanted, Subject
    <2>6. SourcesComplete(d)'
        <3>1. Intact' => \A k \in DOMAIN j.found : files'[j.found[k]] = "all" \/ j.found[k] = a
            BY <1>3, <1>5, <1>7, <1>8, DirectoriesTyped DEF TablesGrow, BatchInvariant
        <3> QED
            BY <1>6, <2>5, <3>1 DEF SourcesComplete
    <2>7. PrintedKnown(d)'
        BY <1>6 DEF PrintedKnown
    <2> QED
        BY <1>6, <2>1, <2>4, <2>6, <2>7 DEF JobKnown
<1>10. ASSUME NEW u \in Workers, u # w, NEW e, e = job[u], ~ Writing(u, a)
       PROVE  JobKnown(e)'
    <2>1. CASE e.pc = "idle"
        BY <1>2, <1>10, <2>1 DEF JobsKnown, JobKnown
    <2>2. CASE e.pc # "idle"
        <3>1. /\ e \in JobRecord /\ RowKnown(e) /\ StepKnown(e)
              /\ SourcesComplete(e) /\ PrintedKnown(e)
            BY <1>2, <1>10, <2>2, Working
        <3>2. RowKnown(e)' /\ StepKnown(e)'
            BY <1>2, <1>7, <3>1, StepStays DEF RowKnown, ContractAt
        <3>3. SourcesComplete(e)'
            <4> SUFFICES ASSUME Intact'
                         PROVE  SourcesComplete(e)'
                BY DEF SourcesComplete
            <4>1. Intact /\ ~ Has(u, a)
                <5>1. ~ raced' /\ leftover' = leftover
                    BY <1>2
                <5>2. ~ raced /\ ~ \E v \in Workers \ {w} : Writing(v, a) \/ Has(v, a)
                    BY <1>5, <5>1, Zenon
                <5> QED
                    BY <5>1, <5>2, <1>10
            <4>2. \A k \in DOMAIN e.found : e.found[k] # a
                BY <4>1, <1>10 DEF Has
            <4>3. e.pc = "record" => Subject(e) # a /\ Subject(e) \in Addresses
                BY <4>1, <1>10, <3>1, ContractTyped DEF Has, At
            <4>4. e.pc \in {"write", "rewrite"} => Wanted(e)' = Wanted(e)
                BY <1>7, <3>1, WantedStays DEF StepKnown, Sourcing
            <4>5. \A k \in DOMAIN e.found : files'[e.found[k]] = files[e.found[k]]
                BY <1>2, <1>8, <3>1, <4>2, DirectoriesTyped
            <4>6. \A k \in DOMAIN e.found :
                        \/ files'[e.found[k]] = "all"
                        \/ e.pc \in {"write", "rewrite"} /\ Wanted(e)' = e.found[k]
                BY <3>1, <4>1, <4>4, <4>5 DEF SourcesComplete
            <4>7. e.pc = "record" => files'[Subject(e)] = "all"
                BY <1>8, <3>1, <4>1, <4>3 DEF SourcesComplete
            <4>8. e.pc \in {"write", "rewrite"} => e.whole
                BY <3>1, <4>1 DEF SourcesComplete
            <4> QED
                BY <4>6, <4>7, <4>8 DEF SourcesComplete, Subject
        <3>4. PrintedKnown(e)'
            BY <1>7, <3>1 DEF PrintedKnown, Analysable, Pair, TablesGrow
        <3> QED
            BY <2>2, <3>2, <3>3, <3>4 DEF JobKnown
    <2> QED
        BY <2>1, <2>2
<1>11. ASSUME NEW u \in Workers, u # w, NEW e, e = job[u], Writing(u, a),
              NEW f, f = [e EXCEPT !.whole = FALSE]
       PROVE  f \in JobRecord /\ JobKnown(f)' /\ f.row = e.row /\ f.pc = e.pc
    <2>1. e.pc \in {"write", "rewrite"} /\ raced'
        BY <1>5, <1>11 DEF Writing
    <2>2. e \in JobRecord /\ RowKnown(e) /\ StepKnown(e)
        BY <1>2, <1>11, <2>1, Working
    <2>3. /\ f \in JobRecord /\ f.row = e.row /\ f.n = e.n /\ f.found = e.found /\ f.pc = e.pc
        BY <1>11, <2>2 DEF JobRecord
    <2>4. RowKnown(e)' /\ StepKnown(e)'
        BY <1>2, <1>7, <2>2, StepStays DEF RowKnown, ContractAt
    <2>5. SourcingKnown(e)'
        BY <2>1, <2>4 DEF StepKnown, Sourcing
    <2>6. RowKnown(f)' /\ SourcingKnown(f)'
        BY <2>3, <2>4, <2>5 DEF RowKnown, SourcingKnown, ContractAt, Subject
    <2>7. StepKnown(f)' /\ SourcesComplete(f)' /\ PrintedKnown(f)'
        BY <2>1, <2>3, <2>6 DEF StepKnown, Checking, SourcesComplete, PrintedKnown
    <2> QED
        BY <2>1, <2>3, <2>6, <2>7 DEF JobKnown
<1>12. ASSUME NEW u \in Workers, NEW e, e = job'[u]
       PROVE  /\ e \in JobRecord /\ JobKnown(e)'
              /\ job[u].pc # "idle" => e.pc # "idle" /\ e.row = job[u].row
    <2>1. CASE u = w
        BY <2>1, <1>1, <1>2, <1>5, <1>6, <1>9, <1>12
    <2>2. CASE u # w /\ Writing(u, a)
        <3>1. e = [job[u] EXCEPT !.whole = FALSE]
            BY <2>2, <1>5, <1>12
        <3> QED
            BY <2>2, <3>1, <1>11 DEF Writing
    <2>3. CASE u # w /\ ~ Writing(u, a)
        <3>1. e = job[u] /\ e \in JobRecord
            BY <2>3, <1>2, <1>5, <1>12 DEF JobsKnown
        <3> QED
            BY <2>3, <3>1, <1>10
    <2> QED
        BY <2>1, <2>2, <2>3
<1>13. JobsKnown'
    <2>1. job' \in [Workers -> JobRecord]
        BY <1>5, <1>12
    <2>2. ASSUME NEW u \in Workers
          PROVE  JobKnown(job[u])'
        <3>1. PICK e : e = job'[u]
            OBVIOUS
        <3>2. JobKnown(e)'
            BY <3>1, <1>12
        <3> QED
            BY <3>1, <3>2
    <2> QED
        BY <2>1, <2>2 DEF JobsKnown
<1>14. RowsTracked'
    <2>1. ASSUME NEW u \in Workers, NEW row \in Rows, job[u].pc # "idle", job[u].row = row
          PROVE  job'[u].pc # "idle" /\ job'[u].row = row
        BY <2>1, <1>12
    <2> QED
        BY <1>2, <1>7, <2>1, RowsKeep
<1>15. CollisionsBacked' /\ NullJustified'
    BY <1>2, <1>7, VerdictsStay DEF BatchInvariant, TablesGrow
<1>16. NoSourceJustified'
    BY <1>2 DEF NoSourceJustified, BatchInvariant
<1> QED
    BY <1>7, <1>13, <1>14, <1>15, <1>16 DEF BatchInvariant

----------------------------------------------------------------------------
(* The actions that check a pair *)

\* The four reads give states, none but those of the pair's two hashes.
LEMMA FieldTyped ==
    ASSUME TablesTyped, NEW j, RowKnown(j), CheckingKnown(j), NEW k \in 1..4
    PROVE  Field(j, k) \in States
<1>1. Pair(j)[1] \in Hashes /\ Pair(j)[2] \in Hashes
    BY PairTyped
<1>2. /\ vars[Pair(j)[1]] \in States /\ sigs[Pair(j)[1]] \in States
      /\ vars[Pair(j)[2]] \in States /\ sigs[Pair(j)[2]] \in States
    BY <1>1 DEF TablesTyped
<1>3. k = 1 \/ k = 2 \/ k = 3 \/ k = 4
    OBVIOUS
<1> QED
    BY <1>2, <1>3, FieldIs

\* When the pair at n is settled too, the pairs before n + 1 are.
PairsExtend ==
    \A j \in JobRecord :
        /\ RowKnown(j) /\ PairsKnown(j, j.n)
        /\ PairSettled(j.row.proxy, j.row.impls[j.n])
        => PairsKnown(j, j.n + 1)

LEMMA OneMorePair == PairsExtend
<1> SUFFICES ASSUME NEW j \in JobRecord, RowKnown(j), PairsKnown(j, j.n),
                    PairSettled(j.row.proxy, j.row.impls[j.n])
             PROVE  PairsKnown(j, j.n + 1)
    BY DEF PairsExtend
<1>1. DOMAIN j.found \subseteq Nat /\ j.n \in Nat
    BY ContractTyped DEF RowKnown
<1>2. ASSUME NEW k \in DOMAIN j.found, 0 < k, k < j.n + 1
      PROVE  PairSettled(j.row.proxy, j.row.impls[k])
    <2>1. k < j.n \/ k = j.n
        BY <1>1, <1>2
    <2> QED
        BY <1>2, <2>1 DEF PairsKnown
<1> QED
    BY <1>2 DEF PairsKnown

\* A read that finds a row.
LEMMA ReadOnGoes ==
    ASSUME TablesTyped, NEW j \in JobRecord, RowKnown(j), CheckingKnown(j), PairsKnown(j, j.n),
           ReadsKnown(j), j.pc \in {"read", "reread"}, Field(j, j.at) # "absent",
           Intact => \A k \in DOMAIN j.found : files[j.found[k]] = "all"
    PROVE  Goes(j.row, ReadOn(j))
<1>1. j.at \in 1..4 /\ j.n \in Nat /\ j.n > 0
    BY DEF CheckingKnown, JobRecord
<1>2. /\ \A k \in 1..4 : k < j.at => Field(j, k) # "absent"
      /\ j.null <=> \E k \in 1..4 : k < j.at /\ Field(j, k) = "null"
    BY DEF ReadsKnown
<1>3. PICK m \in BOOLEAN : m = ReadNull(j)
    BY DEF ReadNull, JobRecord
<1>4. m <=> \E k \in 1..4 : k < j.at + 1 /\ Field(j, k) = "null"
    <2>1. m <=> j.null \/ Field(j, j.at) = "null"
        BY <1>3 DEF ReadNull
    <2>2. \A k \in 1..4 : k < j.at + 1 <=> k < j.at \/ k = j.at
        BY <1>1
    <2> QED
        BY <1>1, <1>2, <2>1, <2>2, Zenon
<1>5. \A k \in 1..4 : k < j.at + 1 => Field(j, k) # "absent"
    <2>1. \A k \in 1..4 : k < j.at + 1 => k < j.at \/ k = j.at
        BY <1>1
    <2> QED
        BY <1>2, <2>1
<1>6. CASE j.at < 4
    <2> DEFINE d == [j EXCEPT !.at = j.at + 1, !.null = m]
    <2>1. ReadOn(j) = d
        BY <1>3, <1>6 DEF ReadOn
    <2>2. /\ d \in JobRecord /\ d.row = j.row /\ d.n = j.n /\ d.found = j.found
          /\ d.pc = j.pc /\ d.at = j.at + 1 /\ d.null = m
        <3>1. j.at + 1 \in Nat
            BY <1>1
        <3> DEFINE b == j.at + 1
        <3> HIDE DEF b
        <3>2. [j EXCEPT !.at = b, !.null = m] \in JobRecord
            BY <3>1 DEF JobRecord, b
        <3> QED
            BY <3>2 DEF JobRecord, b
    <2> HIDE DEF d
    <2>3. \A k : Field(d, k) = Field(j, k)
        BY <2>2 DEF Field, Pair
    <2>4. ReadsKnown(d)
        <3>1. d.pc \in {"read", "reread"} => \A k \in 1..4 : k < d.at => Field(d, k) # "absent"
            BY <1>5, <2>2, <2>3
        <3>2. d.pc \in {"read", "reread"} =>
                (d.null <=> \E k \in 1..4 : k < d.at /\ Field(d, k) = "null")
            BY <1>4, <2>2, <2>3, Zenon
        <3>3. d.pc = "reread" => \A k \in 1..4 : Field(d, k) # "absent"
            BY <2>2, <2>3 DEF ReadsKnown
        <3> QED
            BY <2>2, <3>1, <3>2, <3>3 DEF ReadsKnown
    <2>5. CheckingKnown(d) /\ StoresKnown(d) /\ PrintedKnown(d)
        BY <1>1, <1>6, <2>2 DEF CheckingKnown, StoresKnown, PrintedKnown
    <2>6. Goes(j.row, d)
        BY <2>2, <2>4, <2>5, GoingOn DEF PairGoesOn, Checking
    <2> QED
        BY <2>1, <2>6
<1>7. CASE j.at = 4 /\ m
    <2>1. ReadOn(j) = CheckFrom(j, j.n + 1)
        BY <1>3, <1>7 DEF ReadOn
    <2>2. \A k \in 1..4 : Field(j, k) # "absent"
        BY <1>5, <1>7
    <2>3. \E k \in 1..4 : Field(j, k) = "null"
        BY <1>4, <1>7
    <2>4. "null" \in {Field(j, 1), Field(j, 2), Field(j, 3), Field(j, 4)}
        BY <2>3
    <2>5. PairSettled(j.row.proxy, j.row.impls[j.n])
        BY <2>2, <2>4, FieldIs, PairTyped DEF PairSettled
    <2>6. PairsKnown(j, j.n + 1)
        BY <2>5, OneMorePair DEF PairsExtend
    <2>7. Checked(j, j.n + 1)
        BY <2>6 DEF Checked, CheckingKnown
    <2>8. j.n + 1 \in Nat /\ j.n + 1 > 0
        BY <1>1
    <2> QED
        BY <2>1, <2>7, <2>8, GoingOn DEF PairsGoOn
<1>8. CASE j.at = 4 /\ ~ m
    <2> DEFINE d == [j EXCEPT !.pc = "storage"]
    <2>1. ReadOn(j) = d
        BY <1>3, <1>8 DEF ReadOn
    <2>2. /\ d \in JobRecord /\ d.row = j.row /\ d.n = j.n /\ d.found = j.found
          /\ d.pc = "storage"
        BY DEF JobRecord, Checking
    <2> HIDE DEF d
    <2>3. ASSUME NEW k \in 1..4
          PROVE  Field(d, k) = "data"
        <3>1. Field(d, k) = Field(j, k)
            BY <2>2 DEF Field, Pair
        <3>2. k < j.at + 1
            BY <1>8
        <3>3. Field(j, k) # "absent" /\ Field(j, k) # "null"
            BY <1>4, <1>5, <1>8, <3>2
        <3> QED
            BY <3>1, <3>3, FieldTyped DEF States
    <2>4. ReadsKnown(d)
        BY <2>2, <2>3 DEF ReadsKnown
    <2>5. CheckingKnown(d) /\ StoresKnown(d) /\ PrintedKnown(d)
        BY <2>2 DEF CheckingKnown, StoresKnown, PrintedKnown
    <2>6. Goes(j.row, d)
        BY <2>2, <2>4, <2>5, GoingOn DEF PairGoesOn, Checking
    <2> QED
        BY <2>1, <2>6
<1> QED
    BY <1>1, <1>6, <1>7, <1>8

LEMMA ReadKeeps ==
    ASSUME BatchInvariant, NEW w \in Workers, Read(w)
    PROVE  BatchInvariant'
<1>1. PICK j : j = job[w]
    OBVIOUS
<1>2. j.pc = "read" /\ SharedUnchanged /\ UNCHANGED tables /\ TablesTyped /\ JobsKnown
    BY <1>1 DEF Read, At, BatchInvariant
<1>3. /\ j \in JobRecord /\ RowKnown(j) /\ CheckingKnown(j) /\ PairsKnown(j, j.n) /\ ReadsKnown(j)
      /\ Intact => \A k \in DOMAIN j.found : files[j.found[k]] = "all"
    BY <1>1, <1>2, AtPair DEF Checking
<1>4. CASE Field(j, j.at) = "absent"
    <2> DEFINE d == [j EXCEPT !.pc = "slither", !.at = 1]
    <2>1. Becomes(w, d)
        BY <1>1, <1>4 DEF Read
    <2>2. /\ d \in JobRecord /\ d.row = j.row /\ d.n = j.n /\ d.found = j.found
          /\ d.pc = "slither"
        BY <1>3 DEF JobRecord, Checking
    <2> HIDE DEF d
    <2>3. CheckingKnown(d) /\ ReadsKnown(d) /\ StoresKnown(d) /\ PrintedKnown(d)
        BY <1>3, <2>2 DEF CheckingKnown, ReadsKnown, StoresKnown, PrintedKnown
    <2>4. Goes(j.row, d)
        BY <1>3, <2>2, <2>3, GoingOn DEF PairGoesOn, Checking
    <2> QED
        BY <1>1, <1>2, <2>1, <2>4, QuietMove
<1>5. CASE Field(j, j.at) # "absent"
    <2>1. Becomes(w, ReadOn(j))
        BY <1>1, <1>5 DEF Read
    <2>2. Goes(j.row, ReadOn(j))
        BY <1>2, <1>3, <1>5, ReadOnGoes
    <2> QED
        BY <1>1, <1>2, <2>1, <2>2, QuietMove
<1> QED
    BY <1>4, <1>5

LEMMA RereadKeeps ==
    ASSUME BatchInvariant, NEW w \in Workers, Reread(w)
    PROVE  BatchInvariant'
<1>1. PICK j : j = job[w]
    OBVIOUS
<1>2. /\ j.pc = "reread" /\ Field(j, j.at) # "absent" /\ Becomes(w, ReadOn(j))
      /\ SharedUnchanged /\ UNCHANGED tables /\ TablesTyped /\ JobsKnown
    BY <1>1 DEF Reread, At, BatchInvariant
<1>3. /\ j \in JobRecord /\ RowKnown(j) /\ CheckingKnown(j) /\ PairsKnown(j, j.n) /\ ReadsKnown(j)
      /\ Intact => \A k \in DOMAIN j.found : files[j.found[k]] = "all"
    BY <1>1, <1>2, AtPair DEF Checking
<1>4. Goes(j.row, ReadOn(j))
    BY <1>2, <1>3, ReadOnGoes
<1> QED
    BY <1>1, <1>2, <1>4, QuietMove

\* A slither run that fails or ends, with what it has printed.
LEMMA RunEnds ==
    ASSUME BatchInvariant, UNCHANGED tables, SharedUnchanged,
           NEW w \in Workers, NEW j, j = job[w], j.pc = "slither",
           NEW d \in JobRecord, Becomes(w, d), d.row = j.row, d.n = j.n, d.found = j.found,
           d.pc = "insert", d.at = 1,
           Intact => d.printed = {"vars", "sigs"} \/ ~ Analysable(j)
    PROVE  BatchInvariant'
<1>1. /\ j \in JobRecord /\ RowKnown(j) /\ CheckingKnown(j) /\ PairsKnown(j, j.n)
      /\ Intact => \A k \in DOMAIN j.found : files[j.found[k]] = "all"
    BY AtPair DEF Checking, BatchInvariant
<1>2. CheckingKnown(d) /\ ReadsKnown(d) /\ StoresKnown(d)
    BY <1>1 DEF CheckingKnown, ReadsKnown, StoresKnown
<1>3. PrintedKnown(d)
    BY DEF PrintedKnown, Analysable, Pair
<1>4. Goes(j.row, d)
    BY <1>1, <1>2, <1>3, GoingOn DEF PairGoesOn, Checking
<1> QED
    BY <1>4, QuietMove

LEMMA CompileKeeps ==
    ASSUME BatchInvariant, NEW w \in Workers, Compile(w)
    PROVE  BatchInvariant'
<1>1. PICK j : j = job[w]
    OBVIOUS
<1>2. /\ j.pc = "slither" /\ SharedUnchanged /\ UNCHANGED tables /\ TablesTyped /\ JobsKnown
    BY <1>1 DEF Compile, At, BatchInvariant
<1>3. /\ j \in JobRecord /\ RowKnown(j) /\ CheckingKnown(j) /\ PairsKnown(j, j.n)
      /\ Intact => \A k \in DOMAIN j.found : files[j.found[k]] = "all"
    BY <1>1, <1>2, AtPair DEF Checking
<1> DEFINE d == [j EXCEPT !.at = j.at + 1]
           e == Fails(j)
           k == IF j.at = 1 THEN j.n ELSE 0
           h == Pair(j)[IF j.at = 1 THEN 2 ELSE 1]
<1>4. CASE Becomes(w, d)
    <2>1. /\ d \in JobRecord /\ d.row = j.row /\ d.n = j.n /\ d.found = j.found
          /\ d.pc = "slither"
        <3>1. j.at + 1 \in Nat
            BY <1>3 DEF JobRecord
        <3> QED
            BY <1>2, <1>3, <3>1 DEF JobRecord
    <2> HIDE DEF d
    <2>2. CheckingKnown(d) /\ ReadsKnown(d) /\ StoresKnown(d) /\ PrintedKnown(d)
        BY <1>3, <2>1 DEF CheckingKnown, ReadsKnown, StoresKnown, PrintedKnown
    <2>3. Goes(j.row, d)
        BY <1>3, <2>1, <2>2, GoingOn DEF PairGoesOn, Checking
    <2> QED
        BY <1>1, <1>2, <1>4, <2>3, QuietMove
<1>5. CASE /\ Becomes(w, e)
           /\ h \notin Compilable \/ files[j.found[k]] \in {"none", "part"}
    <2>1. /\ e \in JobRecord /\ e.row = j.row /\ e.n = j.n /\ e.found = j.found
          /\ e.pc = "insert" /\ e.at = 1
        BY <1>3 DEF Fails, JobRecord, Checking
    <2>2. k \in DOMAIN j.found /\ h \in {Pair(j)[1], Pair(j)[2]}
        BY <1>3 DEF CheckingKnown
    <2>3. Intact => h \notin Compilable
        BY <1>3, <1>5, <2>2
    <2>4. Intact => ~ Analysable(j)
        BY <2>2, <2>3 DEF Analysable
    <2> HIDE DEF e
    <2> QED
        BY <1>1, <1>2, <1>5, <2>1, <2>4, RunEnds
<1> QED
    BY <1>1, <1>4, <1>5 DEF Compile

LEMMA AnalyseKeeps ==
    ASSUME BatchInvariant, NEW w \in Workers, Analyse(w)
    PROVE  BatchInvariant'
<1>1. PICK j : j = job[w]
    OBVIOUS
<1>2. /\ j.pc = "slither" /\ SharedUnchanged /\ UNCHANGED tables /\ j \in JobRecord
    BY <1>1 DEF Analyse, At, BatchInvariant, JobsKnown
<1> DEFINE d == [Fails(j) EXCEPT !.printed = {"vars", "sigs"}]
<1>3. Becomes(w, d)
    BY <1>1 DEF Analyse
<1>4. /\ d \in JobRecord /\ d.row = j.row /\ d.n = j.n /\ d.found = j.found
      /\ d.pc = "insert" /\ d.at = 1 /\ d.printed = {"vars", "sigs"}
    BY <1>2 DEF Fails, JobRecord, Checking
<1> HIDE DEF d
<1> QED
    BY <1>1, <1>2, <1>3, <1>4, RunEnds

LEMMA TimeOutKeeps ==
    ASSUME BatchInvariant, NEW w \in Workers, TimeOut(w)
    PROVE  BatchInvariant'
<1>1. PICK j : j = job[w]
    OBVIOUS
<1>2. /\ j.pc = "slither" /\ SharedUnchanged /\ UNCHANGED tables /\ j \in JobRecord
      /\ Slow \cap {Pair(j)[1], Pair(j)[2]} # {}
    BY <1>1 DEF TimeOut, At, BatchInvariant, JobsKnown
<1>3. PICK lines \in {{}, {"vars"}} : Becomes(w, [Fails(j) EXCEPT !.printed = lines])
    <2>1. \E lines \in IF j.at > 2 THEN {{}, {"vars"}} ELSE {{}} :
                Becomes(w, [Fails(j) EXCEPT !.printed = lines])
        BY <1>1 DEF TimeOut
    <2> QED
        BY <2>1
<1> DEFINE d == [Fails(j) EXCEPT !.printed = lines]
<1>4. /\ d \in JobRecord /\ d.row = j.row /\ d.n = j.n /\ d.found = j.found
      /\ d.pc = "insert" /\ d.at = 1
    BY <1>2 DEF Fails, JobRecord, Checking
<1>5. ~ Analysable(j)
    BY <1>2 DEF Analysable
<1>6. Becomes(w, d)
    BY <1>3
<1> HIDE DEF d
<1> QED
    BY <1>1, <1>2, <1>4, <1>5, <1>6, RunEnds

\* What one statement of set_slither_result does to a table.
LEMMA InsertKeeps ==
    ASSUME NEW table \in [Hashes -> States], NEW h \in Hashes, NEW known \in BOOLEAN
    PROVE  /\ Insert(table, h, known) \in [Hashes -> States]
           /\ Insert(table, h, known)[h] # "absent"
           /\ \A k \in Hashes : table[k] # "absent" => Insert(table, h, known)[k] = table[k]
           /\ \A k \in Hashes : Insert(table, h, known)[k] = "null" =>
                    table[k] = "null" \/ (k = h /\ ~ known)
<1>1. CASE table[h] = "absent" /\ known
    <2>1. Insert(table, h, known) = [table EXCEPT ![h] = "data"]
        BY <1>1 DEF Insert
    <2> QED
        BY <1>1, <2>1 DEF States
<1>2. CASE table[h] = "absent" /\ ~ known
    <2>1. Insert(table, h, known) = [table EXCEPT ![h] = "null"]
        BY <1>2 DEF Insert
    <2> QED
        BY <1>2, <2>1 DEF States
<1>3. CASE table[h] # "absent"
    BY <1>3 DEF Insert
<1> QED
    BY <1>1, <1>2, <1>3

LEMMA StoreKeeps ==
    ASSUME BatchInvariant, NEW w \in Workers, Store(w)
    PROVE  BatchInvariant'
<1>1. PICK j : j = job[w]
    OBVIOUS
<1>2. /\ j.pc = "insert" /\ TablesTyped /\ JobsKnown /\ RowsTracked
      /\ UNCHANGED <<verified, noSource, files, storage, function>>
      /\ UNCHANGED <<todo, runs, aborts, given, raced, leftover>>
      /\ Becomes(w, FiveStatements(j))
    BY <1>1 DEF Store, At, BatchInvariant, SharedUnchanged, HistoryUnchanged
<1>3. /\ j \in JobRecord /\ RowKnown(j) /\ CheckingKnown(j) /\ PairsKnown(j, j.n)
      /\ ReadsKnown(j) /\ StoresKnown(j) /\ PrintedKnown(j) /\ j.row \in Rows
      /\ Intact => \A k \in DOMAIN j.found : files[j.found[k]] = "all"
    BY <1>1, <1>2, AtPair DEF Checking
<1>4. PICK p, q \in Hashes : p = Pair(j)[1] /\ q = Pair(j)[2]
    BY <1>3, PairTyped
<1>5. j.at \in 1..5 /\ Pair(j) \in Hashes \X Hashes
    BY <1>2, <1>3, PairTyped DEF CheckingKnown
<1>6. PICK h \in {p, q} : h = IF j.at \in {2, 4} THEN p ELSE q
    OBVIOUS
<1>7. PICK known \in BOOLEAN : known = ("sigs" \in j.printed)
    <2>1. ("sigs" \in j.printed) \in BOOLEAN
        OBVIOUS
    <2> QED
        BY <2>1, Zenon
<1>8. PICK seen \in BOOLEAN : seen = ("vars" \in j.printed)
    <2>1. ("vars" \in j.printed) \in BOOLEAN
        OBVIOUS
    <2> QED
        BY <2>1, Zenon
<1>9. /\ results' = IF j.at = 1 THEN results \cup {Pair(j)} ELSE results
      /\ sigs' = IF j.at \in {2, 3} THEN Insert(sigs, h, known) ELSE sigs
      /\ vars' = IF j.at \in {4, 5} THEN Insert(vars, h, seen) ELSE vars
    BY <1>1, <1>4, <1>6, <1>7, <1>8 DEF Store
<1>10. /\ vars \in [Hashes -> States] /\ sigs \in [Hashes -> States] /\ h \in Hashes
    BY <1>2, <1>6 DEF TablesTyped
<1>11. /\ sigs' \in [Hashes -> States]
       /\ \A k \in Hashes : sigs[k] # "absent" => sigs'[k] = sigs[k]
       /\ j.at \in {2, 3} => sigs'[h] # "absent"
       /\ \A k \in Hashes : sigs'[k] = "null" =>
                sigs[k] = "null" \/ (k = h /\ ~ known /\ j.at \in {2, 3})
    BY <1>9, <1>10, InsertKeeps
<1>12. /\ vars' \in [Hashes -> States]
       /\ \A k \in Hashes : vars[k] # "absent" => vars'[k] = vars[k]
       /\ j.at \in {4, 5} => vars'[h] # "absent"
       /\ \A k \in Hashes : vars'[k] = "null" =>
                vars[k] = "null" \/ (k = h /\ ~ seen /\ j.at \in {4, 5})
    BY <1>9, <1>10, InsertKeeps
<1>13. TablesTyped' /\ TablesGrow /\ FilesImprove
    <2>1. results' \subseteq Hashes \X Hashes /\ results \subseteq results'
        BY <1>2, <1>5, <1>9 DEF TablesTyped
    <2>2. TablesTyped'
        BY <1>2, <1>11, <1>12, <2>1 DEF TablesTyped
    <2>3. TablesGrow /\ FilesImprove
        BY <1>2, <1>11, <1>12, <2>1 DEF TablesGrow, FilesImprove
    <2> QED
        BY <2>2, <2>3
\* Statement by statement: after the fifth all four rows are there.
<1>14. /\ Pair(j) \in results'
       /\ j.at > 1 => sigs'[p] # "absent"
       /\ j.at > 2 => sigs'[q] # "absent"
       /\ j.at > 3 => vars'[p] # "absent"
       /\ j.at > 4 => vars'[q] # "absent"
    <2>1. /\ j.at > 1 => Pair(j) \in results
          /\ j.at > 2 => sigs[p] # "absent"
          /\ j.at > 3 => sigs[q] # "absent"
          /\ j.at > 4 => vars[p] # "absent"
        BY <1>2, <1>3, <1>4 DEF StoresKnown
    <2>2. /\ sigs[p] # "absent" => sigs'[p] # "absent"
          /\ sigs[q] # "absent" => sigs'[q] # "absent"
          /\ vars[p] # "absent" => vars'[p] # "absent"
        BY <1>11, <1>12
    <2>3. /\ j.at = 1 => Pair(j) \in results'
          /\ Pair(j) \in results => Pair(j) \in results'
        BY <1>9
    <2>4. /\ j.at = 2 => sigs'[p] # "absent"
          /\ j.at = 3 => sigs'[q] # "absent"
          /\ j.at = 4 => vars'[p] # "absent"
          /\ j.at = 5 => vars'[q] # "absent"
        BY <1>6, <1>11, <1>12
    <2> QED
        BY <1>5, <2>1, <2>2, <2>3, <2>4
<1>15. (RowKnown(j) /\ PairsKnown(j, j.n))'
    BY <1>3, <1>13, PairsStay DEF RowKnown, ContractAt, CheckingKnown, JobRecord
<1>16. Intact' => \A k \in DOMAIN j.found : files'[j.found[k]] = "all"
    BY <1>2, <1>3
<1>17. Goes(j.row, FiveStatements(j))'
    <2>1. CASE j.at < 5
        <3> DEFINE d == [j EXCEPT !.at = j.at + 1]
        <3>1. FiveStatements(j) = d
            BY <2>1 DEF FiveStatements
        <3>2. /\ d \in JobRecord /\ d.row = j.row /\ d.n = j.n /\ d.found = j.found
              /\ d.pc = "insert" /\ d.at = j.at + 1 /\ d.printed = j.printed
            <4>1. j.at + 1 \in Nat
                BY <1>5
            <4> QED
                BY <1>2, <1>3, <4>1 DEF JobRecord
        <3> HIDE DEF d
        <3>3. Pair(d) = Pair(j)
            BY <3>2 DEF Pair
        <3>4. CheckingKnown(d)' /\ ReadsKnown(d)'
            BY <1>3, <1>5, <2>1, <3>2 DEF CheckingKnown, ReadsKnown
        <3>5. StoresKnown(d)'
            BY <1>4, <1>5, <1>14, <3>2, <3>3 DEF StoresKnown, Pair
        <3>6. PrintedKnown(d)'
            BY <1>2, <1>3, <3>2, <3>3 DEF PrintedKnown, Analysable, Pair
        <3>7. Goes(j.row, d)'
            BY <1>3, <1>15, <1>16, <3>2, <3>4, <3>5, <3>6, GoingOnNext DEF PairGoesOn, Checking
        <3> QED
            BY <3>1, <3>7
    <2>2. CASE j.at = 5
        <3> DEFINE d == [j EXCEPT !.pc = "reread", !.at = 1, !.null = FALSE]
        <3>1. FiveStatements(j) = d
            BY <2>2 DEF FiveStatements
        <3>2. /\ d \in JobRecord /\ d.row = j.row /\ d.n = j.n /\ d.found = j.found
              /\ d.pc = "reread" /\ d.at = 1 /\ d.null = FALSE
            BY <1>3 DEF JobRecord, Checking
        <3> HIDE DEF d
        <3>3. CheckingKnown(d)' /\ StoresKnown(d)' /\ PrintedKnown(d)'
            BY <1>3, <3>2 DEF CheckingKnown, StoresKnown, PrintedKnown
        <3>4. Pair(d)[1] = p /\ Pair(d)[2] = q
            BY <1>4, <3>2 DEF Pair
        <3>5. \A k \in 1..4 : Field(d, k)' # "absent"
            <4>1. /\ sigs'[p] # "absent" /\ sigs'[q] # "absent"
                  /\ vars'[p] # "absent" /\ vars'[q] # "absent"
                BY <1>14, <2>2
            <4> QED
                BY <3>4, <4>1 DEF Field, Pair
        <3>6. ReadsKnown(d)'
            BY <3>2, <3>5 DEF ReadsKnown
        <3>7. Goes(j.row, d)'
            BY <1>3, <1>15, <1>16, <3>2, <3>3, <3>6, GoingOnNext DEF PairGoesOn, Checking
        <3> QED
            BY <3>1, <3>7
    <2> QED
        BY <1>5, <2>1, <2>2
<1>18. JobsKnown' /\ RowsTracked'
    BY <1>1, <1>2, <1>13, <1>17, JobsMove
<1>19. CollisionsBacked'
    <2> SUFFICES ASSUME NEW r \in storage \cup function, NEW i \in 1..2
                 PROVE  vars'[r[i]] = "data" /\ sigs'[r[i]] = "data"
        BY <1>2 DEF CollisionsBacked
    <2>1. vars[r[i]] = "data" /\ sigs[r[i]] = "data"
        BY DEF BatchInvariant, CollisionsBacked
    <2>2. r[i] \in Hashes
        BY <1>2 DEF TablesTyped
    <2> QED
        BY <1>11, <1>12, <2>1, <2>2
<1>20. NoSourceJustified'
    BY <1>2 DEF NoSourceJustified, BatchInvariant
<1>21. NullJustified'
    <2> SUFFICES ASSUME NEW k \in Hashes, Intact', "null" \in {vars'[k], sigs'[k]}
                 PROVE  \E r \in results' : k \in {r[1], r[2]}
                                /\ ~ ({r[1], r[2]} \subseteq Compilable \ Slow)
        BY DEF NullJustified
    <2>1. CASE "null" \in {vars[k], sigs[k]}
        <3>1. PICK r \in results : k \in {r[1], r[2]}
                                /\ ~ ({r[1], r[2]} \subseteq Compilable \ Slow)
            BY <1>2, <2>1 DEF BatchInvariant, NullJustified
        <3>2. r \in results'
            BY <1>13 DEF TablesGrow
        <3> QED
            BY <3>1, <3>2
    <2>2. CASE "null" \notin {vars[k], sigs[k]}
        <3>1. k = h /\ (~ known \/ ~ seen)
            BY <1>11, <1>12, <2>2
        <3>2. ~ Analysable(j)
            BY <1>2, <1>3, <1>7, <1>8, <3>1 DEF PrintedKnown
        <3>3. k \in {Pair(j)[1], Pair(j)[2]}
            BY <1>4, <1>6, <3>1
        <3> QED
            BY <1>14, <3>2, <3>3 DEF Analysable
    <2> QED
        BY <2>1, <2>2
<1> QED
    BY <1>13, <1>18, <1>19, <1>20, <1>21 DEF BatchInvariant

\* A pair whose four facts are data.
LEMMA AllData ==
    ASSUME TablesTyped, NEW j, RowKnown(j), CheckingKnown(j), ReadsKnown(j),
           j.pc \in {"storage", "function"}
    PROVE  /\ vars[Pair(j)[1]] = "data" /\ sigs[Pair(j)[1]] = "data"
           /\ vars[Pair(j)[2]] = "data" /\ sigs[Pair(j)[2]] = "data"
<1>1. \A k \in 1..4 : Field(j, k) = "data"
    BY DEF ReadsKnown
<1> QED
    BY <1>1, FieldIs

LEMMA StoreStorageKeeps ==
    ASSUME BatchInvariant, NEW w \in Workers, StoreStorage(w)
    PROVE  BatchInvariant'
<1>1. PICK j : j = job[w]
    OBVIOUS
<1>2. /\ j.pc = "storage" /\ TablesTyped /\ JobsKnown /\ RowsTracked
      /\ storage' = storage \cup {Pair(j)}
      /\ UNCHANGED <<verified, noSource, files, results, vars, sigs, function>>
      /\ UNCHANGED <<todo, runs, aborts, given, raced, leftover>>
      /\ Becomes(w, [j EXCEPT !.pc = "function"])
    BY <1>1 DEF StoreStorage, At, BatchInvariant, SharedUnchanged, HistoryUnchanged
<1>3. /\ j \in JobRecord /\ RowKnown(j) /\ CheckingKnown(j) /\ PairsKnown(j, j.n)
      /\ ReadsKnown(j) /\ j.row \in Rows
      /\ Intact => \A k \in DOMAIN j.found : files[j.found[k]] = "all"
    BY <1>1, <1>2, AtPair DEF Checking
<1>4. PICK p, q \in Hashes : p = Pair(j)[1] /\ q = Pair(j)[2] /\ Pair(j) = <<p, q>>
    BY <1>3, PairTyped
<1>5. vars[p] = "data" /\ sigs[p] = "data" /\ vars[q] = "data" /\ sigs[q] = "data"
    BY <1>2, <1>3, <1>4, AllData
<1>6. TablesTyped' /\ TablesGrow /\ FilesImprove
    <2>1. TablesTyped'
        BY <1>2, <1>4 DEF TablesTyped
    <2>2. TablesGrow /\ FilesImprove
        BY <1>2 DEF TablesGrow, FilesImprove
    <2> QED
        BY <2>1, <2>2
<1> DEFINE d == [j EXCEPT !.pc = "function"]
<1>7. /\ d \in JobRecord /\ d.row = j.row /\ d.n = j.n /\ d.found = j.found /\ d.pc = "function"
    BY <1>3 DEF JobRecord, Checking
<1>8. Becomes(w, d)
    BY <1>2
<1> HIDE DEF d
<1>9. Pair(d) = Pair(j) /\ \A k : Field(d, k)' = Field(j, k)
    BY <1>2, <1>7 DEF Field, Pair
<1>10. ReadsKnown(d)'
    <2>1. \A k \in 1..4 : Field(d, k)' = "data"
        BY <1>2, <1>3, <1>9 DEF ReadsKnown
    <2>2. Pair(d) \in storage'
        BY <1>2, <1>9
    <2> QED
        BY <1>7, <2>1, <2>2 DEF ReadsKnown, Pair
<1>11. CheckingKnown(d)' /\ StoresKnown(d)' /\ PrintedKnown(d)'
    BY <1>3, <1>7 DEF CheckingKnown, StoresKnown, PrintedKnown
<1>12. RowKnown(j)' /\ PairsKnown(j, j.n)'
    BY <1>3, <1>6, PairsStay DEF RowKnown, ContractAt, CheckingKnown, JobRecord
<1>13. Goes(j.row, d)'
    BY <1>2, <1>3, <1>7, <1>10, <1>11, <1>12, GoingOnNext DEF PairGoesOn, Checking
<1>14. JobsKnown' /\ RowsTracked'
    BY <1>1, <1>2, <1>6, <1>8, <1>13, JobsMove
<1>15. CollisionsBacked'
    BY <1>2, <1>4, <1>5 DEF BatchInvariant, CollisionsBacked
<1>16. NoSourceJustified' /\ NullJustified'
    BY <1>2 DEF NoSourceJustified, NullJustified, BatchInvariant
<1> QED
    BY <1>6, <1>14, <1>15, <1>16 DEF BatchInvariant

LEMMA StoreFunctionKeeps ==
    ASSUME BatchInvariant, NEW w \in Workers, StoreFunction(w)
    PROVE  BatchInvariant'
<1>1. PICK j : j = job[w]
    OBVIOUS
<1>2. /\ j.pc = "function" /\ TablesTyped /\ JobsKnown /\ RowsTracked
      /\ function' = function \cup {Pair(j)}
      /\ UNCHANGED <<verified, noSource, files, results, vars, sigs, storage>>
      /\ UNCHANGED <<todo, runs, aborts, given, raced, leftover>>
      /\ Becomes(w, CheckFrom(j, j.n + 1))
    BY <1>1 DEF StoreFunction, At, BatchInvariant, SharedUnchanged, HistoryUnchanged
<1>3. /\ j \in JobRecord /\ RowKnown(j) /\ CheckingKnown(j) /\ PairsKnown(j, j.n)
      /\ ReadsKnown(j) /\ j.row \in Rows
      /\ Intact => \A k \in DOMAIN j.found : files[j.found[k]] = "all"
    BY <1>1, <1>2, AtPair DEF Checking
<1>4. PICK p, q \in Hashes : p = Pair(j)[1] /\ q = Pair(j)[2] /\ Pair(j) = <<p, q>>
    BY <1>3, PairTyped
<1>5. vars[p] = "data" /\ sigs[p] = "data" /\ vars[q] = "data" /\ sigs[q] = "data"
    BY <1>2, <1>3, <1>4, AllData
<1>6. TablesTyped' /\ TablesGrow /\ FilesImprove
    <2>1. TablesTyped'
        BY <1>2, <1>4 DEF TablesTyped
    <2>2. TablesGrow /\ FilesImprove
        BY <1>2 DEF TablesGrow, FilesImprove
    <2> QED
        BY <2>1, <2>2
<1>7. RowKnown(j)' /\ PairsKnown(j, j.n)'
    BY <1>3, <1>6, PairsStay DEF RowKnown, ContractAt, CheckingKnown, JobRecord
<1>8. PairSettled(j.row.proxy, j.row.impls[j.n])'
    <2>1. Pair(j) \in storage' \cap function'
        BY <1>2, <1>3 DEF ReadsKnown
    <2>2. p = HashOf[j.row.proxy] /\ q = HashOf[j.row.impls[j.n]]
        BY <1>3, <1>4, PairTyped
    <2>3. <<p, q>> \in storage' \cap function'
        BY <1>4, <2>1
    <2> QED
        BY <1>2, <1>5, <2>2, <2>3 DEF PairSettled
<1>9. PairsKnown(j, j.n + 1)'
    <2>1. PairsExtend'
        BY OneMorePair, PTL
    <2> QED
        BY <1>3, <1>7, <1>8, <2>1 DEF PairsExtend
<1>10. Checked(j, j.n + 1)'
    BY <1>2, <1>3, <1>7, <1>9 DEF Checked, CheckingKnown
<1>11. j.n + 1 \in Nat /\ j.n + 1 > 0
    BY <1>3 DEF JobRecord
<1>12. Goes(j.row, CheckFrom(j, j.n + 1))'
    BY <1>3, <1>6, <1>10, <1>11, GoingOnNext DEF PairsGoOn
<1>13. JobsKnown' /\ RowsTracked'
    BY <1>1, <1>2, <1>6, <1>12, JobsMove
<1>14. CollisionsBacked'
    BY <1>2, <1>4, <1>5 DEF BatchInvariant, CollisionsBacked
<1>15. NoSourceJustified' /\ NullJustified'
    BY <1>2 DEF NoSourceJustified, NullJustified, BatchInvariant
<1> QED
    BY <1>6, <1>13, <1>14, <1>15 DEF BatchInvariant

----------------------------------------------------------------------------
(* Failures, runs, and the invariant *)

\* Workers that are idle, or go on as they were, when no table changes.
LEMMA RestKnown ==
    ASSUME BatchInvariant, UNCHANGED <<verified, noSource, files, results, vars, sigs, storage,
                                       function, raced, leftover>>,
           todo' \subseteq Rows, given' \subseteq Rows, job' \in [Workers -> JobRecord],
           \A u \in Workers : job'[u] = job[u] \/ job'[u] = Idle,
           RowsTracked'
    PROVE  BatchInvariant'
<1>1. TablesTyped' /\ TablesGrow /\ FilesImprove
    <2>1. TablesTyped'
        BY DEF BatchInvariant, TablesTyped
    <2>2. TablesGrow /\ FilesImprove
        BY DEF TablesGrow, FilesImprove
    <2> QED
        BY <2>1, <2>2
<1>2. ASSUME NEW u \in Workers
      PROVE  JobKnown(job[u])'
    <2>1. PICK e : e = job'[u]
        OBVIOUS
    <2>2. CASE e = Idle
        BY <2>1, <2>2, IdleKnown DEF JobKnown
    <2>3. CASE e = job[u]
        <3>1. e \in JobRecord /\ JobKnown(e)
            BY <2>3 DEF BatchInvariant, JobsKnown
        <3>2. JobKnown(e)'
            BY <1>1, <3>1, KnownStays DEF BatchInvariant
        <3> QED
            BY <2>1, <3>2
    <2> QED
        BY <2>1, <2>2, <2>3
<1>3. JobsKnown'
    BY <1>2 DEF JobsKnown
<1>4. CollisionsBacked' /\ NoSourceJustified' /\ NullJustified'
    BY DEF BatchInvariant, CollisionsBacked, NoSourceJustified, NullJustified
<1> QED
    BY <1>1, <1>3, <1>4 DEF BatchInvariant

LEMMA GivesUpKeeps ==
    ASSUME BatchInvariant, NEW w \in Workers, job[w].pc # "idle", GivesUp(w)
    PROVE  BatchInvariant'
<1>1. job[w].row \in Rows
    BY Working DEF BatchInvariant
<1>2. /\ job' \in [Workers -> JobRecord] /\ job'[w] = Idle
      /\ \A u \in Workers \ {w} : job'[u] = job[u]
    BY IdleKnown DEF GivesUp, Becomes, BatchInvariant, JobsKnown
<1>3. UNCHANGED <<tables, todo, raced, leftover>> /\ given' = given \cup {job[w].row}
    BY DEF GivesUp
<1>4. TablesGrow
    BY <1>3 DEF TablesGrow, tables
<1>5. RowsTracked'
    <2> SUFFICES ASSUME NEW row \in Rows, row \notin given', row \notin todo'
                 PROVE  \/ \E u \in Workers : job'[u].pc # "idle" /\ job'[u].row = row
                        \/ RowSettled(row)'
        BY DEF RowsTracked
    <2>1. CASE RowSettled(row)
        BY <1>4, <2>1, RowSettledStays
    <2>2. CASE ~ RowSettled(row)
        <3>1. PICK u \in Workers : job[u].pc # "idle" /\ job[u].row = row
            BY <1>3, <2>2 DEF BatchInvariant, RowsTracked
        <3>2. u # w
            BY <1>3, <3>1
        <3> QED
            BY <1>2, <3>1, <3>2
    <2> QED
        BY <2>1, <2>2
<1>6. todo' \subseteq Rows /\ given' \subseteq Rows
    BY <1>1, <1>3 DEF BatchInvariant, TablesTyped
<1> QED
    BY <1>2, <1>3, <1>5, <1>6, RestKnown DEF tables

LEMMA AbandonKeeps ==
    ASSUME BatchInvariant, NEW w \in Workers, Abandon(w) \/ NotListed(w)
    PROVE  BatchInvariant'
BY GivesUpKeeps DEF Abandon, NotListed, At

\* A worker that waits for good keeps its row and knows nothing else.
LEMMA GetStuckKeeps ==
    ASSUME BatchInvariant, NEW w \in Workers, GetStuck(w)
    PROVE  BatchInvariant'
<1>1. PICK j : j = job[w]
    OBVIOUS
<1>2. j.pc \in {"download", "refetch"} /\ SharedUnchanged /\ UNCHANGED tables /\ JobsKnown
    BY <1>1 DEF GetStuck, BatchInvariant
<1>3. j \in JobRecord /\ RowKnown(j) /\ j.row \in Rows
    BY <1>1, <1>2, AtSource DEF Sourcing
<1> DEFINE d == [Idle EXCEPT !.pc = "stuck", !.row = j.row]
<1>4. Becomes(w, d)
    BY <1>1 DEF GetStuck
<1>5. d \in JobRecord
    BY <1>3, IdleKnown DEF JobRecord
<1>6. d.pc = "stuck" /\ d.row = j.row /\ d.n = 0 /\ DOMAIN d.found = {}
    BY DEF Idle
<1> HIDE DEF d
<1>7. RowKnown(d)
    BY <1>3, <1>6, ContractTyped DEF RowKnown
<1>8. JobKnown(d)
    BY <1>6, <1>7 DEF JobKnown, StepKnown, Sourcing, Checking, SourcesComplete, PrintedKnown
<1>9. Goes(j.row, d)
    BY <1>5, <1>6, <1>8 DEF Goes
<1> QED
    BY <1>1, <1>2, <1>4, <1>9, QuietMove

LEMMA DieKeeps ==
    ASSUME BatchInvariant, Die
    PROVE  BatchInvariant'
<1>1. UNCHANGED <<verified, noSource, results, vars, sigs, storage, function, raced, leftover>>
    BY DEF Die, tables
<1>2. TablesGrow
    BY <1>1 DEF TablesGrow
<1>3. RowsTracked'
    <2> SUFFICES ASSUME NEW row \in Rows, row \notin given'
                 PROVE  RowSettled(row)'
        BY DEF RowsTracked
    <2>1. /\ row \notin given /\ row \notin todo
          /\ \A u \in Workers : job[u].pc # "idle" => job[u].row # row
        BY DEF Die, At
    <2>2. RowSettled(row)
        BY <2>1 DEF BatchInvariant, RowsTracked
    <2> QED
        BY <1>2, <2>2, RowSettledStays
<1>4. given' \subseteq Rows
    <2>1. \A u \in Workers : job[u].pc # "idle" => job[u].row \in Rows
        BY Working DEF BatchInvariant
    <2> QED
        BY <2>1 DEF Die, At, BatchInvariant, TablesTyped
<1>5. job' \in [Workers -> JobRecord] /\ \A u \in Workers : job'[u] = job[u] \/ job'[u] = Idle
    BY IdleKnown DEF Die
<1> QED
    BY <1>3, <1>4, <1>5, RestKnown DEF Die, tables

LEMMA RunAgainKeeps ==
    ASSUME BatchInvariant, RunAgain
    PROVE  BatchInvariant'
<1>1. RowsTracked'
    BY DEF RunAgain, RowsTracked
<1>2. job' \in [Workers -> JobRecord] /\ \A u \in Workers : job'[u] = job[u] \/ job'[u] = Idle
    BY DEF RunAgain, BatchInvariant, JobsKnown
<1> QED
    BY <1>1, <1>2, RestKnown DEF RunAgain, tables

LEMMA InitHolds ==
    ASSUME Init
    PROVE  BatchInvariant
<1>1. TablesTyped
    BY InputAssumption DEF Init, TablesTyped, States
<1>2. JobsKnown
    BY IdleKnown DEF Init, JobsKnown
<1>3. RowsTracked /\ CollisionsBacked /\ NoSourceJustified /\ NullJustified
    BY DEF Init, RowsTracked, CollisionsBacked, NoSourceJustified, NullJustified
<1> QED
    BY <1>1, <1>2, <1>3 DEF BatchInvariant

LEMMA WorkerStepKeeps ==
    ASSUME BatchInvariant, NEW w \in Workers, WorkerStep(w)
    PROVE  BatchInvariant'
<1>1. CASE \E row \in todo : Take(w, row)
    BY <1>1, TakeKeeps
<1>2. CASE LookUp(w) \/ FindFiles(w) \/ NoMeta(w)
    BY <1>2, LookUpKeeps, FindFilesKeeps, NoMetaKeeps
<1>3. CASE Download(w) \/ DownloadNothing(w) \/ Write(w) \/ Record(w) \/ Mark(w)
    BY <1>3, DownloadKeeps, DownloadNothingKeeps, WriteKeeps, RecordKeeps, MarkKeeps
<1>4. CASE Read(w) \/ Compile(w) \/ Analyse(w) \/ TimeOut(w) \/ Store(w) \/ Reread(w)
    BY <1>4, ReadKeeps, CompileKeeps, AnalyseKeeps, TimeOutKeeps, StoreKeeps, RereadKeeps
<1>5. CASE StoreStorage(w) \/ StoreFunction(w)
    BY <1>5, StoreStorageKeeps, StoreFunctionKeeps
<1>6. CASE NotListed(w) \/ Abandon(w) \/ GetStuck(w)
    BY <1>6, AbandonKeeps, GetStuckKeeps
<1> QED
    BY <1>1, <1>2, <1>3, <1>4, <1>5, <1>6 DEF WorkerStep

LEMMA StutterKeeps ==
    ASSUME BatchInvariant, UNCHANGED batchVars
    PROVE  BatchInvariant'
<1>1. /\ UNCHANGED <<verified, noSource, files, results, vars, sigs, storage, function, raced, leftover>>
      /\ UNCHANGED <<todo, job, given>>
    BY DEF batchVars, tables
<1>2. TablesGrow
    BY <1>1 DEF TablesGrow
<1>3. RowsTracked'
    BY <1>1, <1>2, RowsKeep DEF BatchInvariant
<1>4. todo' \subseteq Rows /\ given' \subseteq Rows /\ job' \in [Workers -> JobRecord]
    BY <1>1 DEF BatchInvariant, TablesTyped, JobsKnown
<1> QED
    BY <1>1, <1>3, <1>4, RestKnown

LEMMA StepKeeps ==
    ASSUME BatchInvariant, [Next]_batchVars
    PROVE  BatchInvariant'
<1>1. CASE \E w \in Workers : WorkerStep(w)
    BY <1>1, WorkerStepKeeps
<1>2. CASE Die \/ RunAgain
    BY <1>2, DieKeeps, RunAgainKeeps
<1>3. CASE UNCHANGED batchVars
    BY <1>3, StutterKeeps
<1> QED
    BY <1>1, <1>2, <1>3 DEF Next

LEMMA BatchAlways == Spec => []BatchInvariant
BY InitHolds, StepKeeps, PTL DEF Spec

----------------------------------------------------------------------------
(* The theorems *)

\* Type correctness: the shared tables hold what their columns can hold, and a
\* worker that checks a pair (slither-check-proxies.py, check) has the sources
\* of the proxy and of the logic contract.
THEOREM TypeCorrect == Spec => []TypeOK
<1>1. ASSUME BatchInvariant
      PROVE  TypeOK
    <2>1. ASSUME NEW w \in Workers, job[w].pc \in Checking
          PROVE  job[w].n > 0 /\ {0, job[w].n} \subseteq DOMAIN job[w].found
        <3>1. CheckingKnown(job[w])
            BY <1>1, <2>1, AtPair DEF BatchInvariant
        <3> QED
            BY <3>1 DEF CheckingKnown
    <2> QED
        BY <1>1, <2>1 DEF TypeOK, BatchInvariant, TablesTyped, Checking
<1> QED
    BY <1>1, BatchAlways, PTL

\* After set_slither_result has stored its five rows one by one, the four reads
\* find a row, whatever was stored before and whatever other workers do: the
\* second try in check never raises QueryNoResultError.
THEOREM RereadsFind == Spec => []RereadFinds
<1>1. ASSUME BatchInvariant
      PROVE  RereadFinds
    <2> SUFFICES ASSUME NEW w \in Workers, job[w].pc = "reread", NEW n \in 1..4
                 PROVE  Field(job[w], n) # "absent"
        BY DEF RereadFinds, At
    <2>1. ReadsKnown(job[w])
        BY <1>1, AtPair DEF BatchInvariant, Checking
    <2> QED
        BY <2>1 DEF ReadsKnown
<1> QED
    BY <1>1, BatchAlways, PTL

\* A collision row is stored only for a pair whose variables and signatures are
\* data in both contracts, never from a NULL or a missing row.
THEOREM CollisionsCorrect == Spec => []CollisionsBacked
<1>1. BatchInvariant => CollisionsBacked
    BY DEF BatchInvariant
<1> QED
    BY <1>1, BatchAlways, PTL

\* What the pipeline never takes back has its reason in the contracts: a hash in
\* no_source always; a NULL in slither_vars or slither_signatures as long as no
\* source directory was emptied under a worker, found while another was filling
\* it, or found as an abandoned row or an ended run had left it.
THEOREM VerdictsCorrect == Spec => []VerdictsJustified
<1>1. BatchInvariant => VerdictsJustified
    BY DEF BatchInvariant, VerdictsJustified
<1> QED
    BY <1>1, BatchAlways, PTL

\* A row that is over and was not abandoned in this run is settled, even when
\* other rows were abandoned, or earlier runs died, in the middle of
\* set_slither_result.
THEOREM CleanRunCorrect == Spec => []CleanRunComplete
<1>1. ASSUME BatchInvariant
      PROVE  CleanRunComplete
    <2> SUFFICES
            ASSUME NEW row \in Rows, Finished(row), NEW i \in DOMAIN row.impls,
                   \A a \in {row.proxy, row.impls[i]} : a \in DOMAIN HashOf /\ Obtainable(HashOf[a])
            PROVE  LET pair == {row.proxy, row.impls[i]}
                       facts == UNION {{vars[HashOf[a]], sigs[HashOf[a]]} : a \in pair}
                   IN  /\ "absent" \notin facts
                       /\ "null" \in facts
                          \/ <<HashOf[row.proxy], HashOf[row.impls[i]]>> \in storage \cap function
        BY DEF CleanRunComplete
    <2>1. RowSettled(row)
        BY <1>1 DEF BatchInvariant, RowsTracked, Finished, At
    <2>2. i \in 1..Len(row.impls)
        BY RowTyped
    <2>3. PairSettled(row.proxy, row.impls[i])
        BY <2>1, <2>2 DEF RowSettled, Lost
    <2> QED
        BY <2>3 DEF PairSettled
<1> QED
    BY <1>1, BatchAlways, PTL

\* An insert that another worker has come before changes nothing.
LEMMA InsertStays ==
    ASSUME NEW table \in [Hashes -> States], NEW h, NEW known, NEW k \in Hashes, table[k] # "absent"
    PROVE  Insert(table, h, known)[k] = table[k]
BY DEF Insert

LEMMA WorkerStepGrows ==
    ASSUME BatchInvariant, NEW w \in Workers, WorkerStep(w)
    PROVE  TablesGrow
<1>1. CASE UNCHANGED <<verified, noSource, results, vars, sigs, storage, function>> /\ (Intact' => Intact)
    BY <1>1 DEF TablesGrow
<1>2. CASE (\E row \in todo : Take(w, row)) \/ LookUp(w) \/ NoMeta(w) \/ DownloadNothing(w)
                \/ NotListed(w) \/ GetStuck(w)
                \/ Read(w) \/ Compile(w) \/ Analyse(w) \/ TimeOut(w) \/ Reread(w) \/ Abandon(w)
    <2>1. UNCHANGED <<tables, raced, leftover>>
        BY <1>2 DEF Take, LookUp, NoMeta, DownloadNothing, Read, Compile, Analyse, TimeOut, Reread,
                    NotListed, Abandon, GivesUp, GetStuck, SharedUnchanged, HistoryUnchanged
    <2> QED
        BY <2>1, <1>1 DEF tables
<1>3. CASE FindFiles(w) \/ Download(w) \/ Write(w)
    <2>1. FindFiles(w) => UNCHANGED tables /\ (Intact' => Intact)
        <3>1. FindFiles(w) => UNCHANGED tables
            BY DEF FindFiles
        <3>2. FindFiles(w) =>
                \/ raced' = raced /\ leftover' = leftover
                \/ \E b, c : raced' = (raced \/ b) /\ leftover' = (leftover \/ c)
            BY Zenon DEF FindFiles
        <3>3. (\E b, c : raced' = (raced \/ b) /\ leftover' = (leftover \/ c)) => (Intact' => Intact)
            BY Zenon
        <3> QED
            BY <3>1, <3>2, <3>3
    <2>2. Download(w) =>
            UNCHANGED <<verified, noSource, results, vars, sigs, storage, function>> /\ (Intact' => Intact)
        <3>1. Download(w) => UNCHANGED <<verified, noSource, results, vars, sigs, storage, function>>
            BY DEF Download
        <3>2. Download(w) => leftover' = leftover /\ \E b : raced' = (raced \/ b)
            BY Zenon DEF Download
        <3>3. ASSUME leftover' = leftover, NEW b, raced' = (raced \/ b)
              PROVE  Intact' => Intact
            BY <3>3
        <3> QED
            BY <3>1, <3>2, <3>3
    <2>3. Write(w) => UNCHANGED <<verified, noSource, results, vars, sigs, storage, function, raced, leftover>>
        BY DEF Write, SharedUnchanged, HistoryUnchanged
    <2> QED
        BY <1>1, <1>3, <2>1, <2>2, <2>3 DEF tables
<1>4. CASE Record(w)
    <2>1. UNCHANGED <<noSource, results, vars, sigs, storage, function, raced, leftover>>
        BY <1>4 DEF Record, SharedUnchanged, HistoryUnchanged
    <2>2. \A h \in DOMAIN verified : h \in DOMAIN verified' /\ verified'[h] = verified[h]
        BY <1>4 DEF Record
    <2> QED
        BY <2>1, <2>2 DEF TablesGrow
<1>5. CASE Mark(w) \/ StoreStorage(w) \/ StoreFunction(w)
    <2>1. /\ UNCHANGED <<verified, results, vars, sigs, raced, leftover>>
          /\ noSource \subseteq noSource' /\ storage \subseteq storage' /\ function \subseteq function'
        BY <1>5 DEF Mark, StoreStorage, StoreFunction, SharedUnchanged, HistoryUnchanged
    <2> QED
        BY <2>1 DEF TablesGrow
<1>6. CASE Store(w)
    <2>1. UNCHANGED <<verified, noSource, storage, function, raced, leftover>> /\ results \subseteq results'
        BY <1>6 DEF Store, SharedUnchanged, HistoryUnchanged
    <2>2. vars \in [Hashes -> States] /\ sigs \in [Hashes -> States]
        BY DEF BatchInvariant, TablesTyped
    <2>3. \E h, known : vars' = vars \/ vars' = Insert(vars, h, known)
        BY <1>6 DEF Store
    <2>4. \E h, known : sigs' = sigs \/ sigs' = Insert(sigs, h, known)
        BY <1>6 DEF Store
    <2>5. \A h \in Hashes : vars[h] # "absent" => vars'[h] = vars[h]
        BY <2>2, <2>3, InsertStays
    <2>6. \A h \in Hashes : sigs[h] # "absent" => sigs'[h] = sigs[h]
        BY <2>2, <2>4, InsertStays
    <2> QED
        BY <2>1, <2>5, <2>6 DEF TablesGrow
<1> QED
    BY <1>2, <1>3, <1>4, <1>5, <1>6 DEF WorkerStep

\* What a worker has stored, no step of another one, no abandoned row, no killed
\* script and no later run takes back or replaces: the address a hash's sources
\* are kept under, a NULL, a collision (the INSERTs of
\* slither-check-proxies.py, all of them with ON CONFLICT DO NOTHING).
THEOREM NothingIsTakenBack == Spec => [][TablesGrow]_batchVars
<1>1. ASSUME BatchInvariant, Next
      PROVE  TablesGrow
    <2>1. CASE \E w \in Workers : WorkerStep(w)
        BY <1>1, <2>1, WorkerStepGrows
    <2>2. CASE Die \/ RunAgain
        BY <2>2 DEF Die, RunAgain, tables, TablesGrow
    <2> QED
        BY <1>1, <2>1, <2>2 DEF Next
<1> QED
    BY <1>1, BatchAlways, PTL DEF Spec

=============================================================================
