---------------------------- MODULE ProxionProofs ----------------------------
(***************************************************************************)
(* Proofs about what the command line does.  CommandLine, for any          *)
(* contracts, histories and number of runs: the sources slither is given   *)
(* are complete, the proxy's directory has the right links, and what is    *)
(* compared is what should be.  BackwardAnalyzer, for any programs: the    *)
(* search for the slot of an SLOAD follows the word through the EVM's      *)
(* stack, and finds it.  SourceTree, for any files and remappings: the     *)
(* imports of a contract lead to the files that solc's remappings give.    *)
(***************************************************************************)
EXTENDS CommandLine, BackwardAnalyzer, SourceTree, SequenceTheorems, WellFoundedInduction,
        NaturalsInduction, TLAPS

\* The addresses whose sources main has noted.
Noted == {proxyMeta} \cup {metas[n] : n \in 1..Len(metas)}

\* What main has noted is on disk, but for the directory it is writing anew.
SourcesKept ==
    step \in {"logicSources", "slither"} =>
        \A a \in Noted : a # Missing => directory[a] = "sources" \/ a = writing

\* No logic contract's source is noted before the proxy's.
ProxyFirst == step = "proxySource" => metas = <<>>

OtherLogics == \A n \in 1..Len(logics) : logics[n] # proxy

\* The links of the proxy's directory so far.
LinksSoFar ==
    OtherLogics =>
        /\ step = "proxySource" /\ writing # Missing => links[proxy] = {}
        /\ step \in {"logicSources", "slither"} /\ proxyMeta # Missing =>
                links[proxy] = {n \in 1..Len(metas) : metas[n] # Missing}

\* After the downloads each logic contract has its answer, if they were asked for.
AllNoted ==
    step \in {"slither", "bytecode", "print", "printed"} =>
        Len(metas) = Len(logics) \/ (metas = <<>> /\ step # "slither")

SourceInvariant == CommandTypeOK /\ SourcesKept /\ ProxyFirst /\ LinksSoFar /\ AllNoted

----------------------------------------------------------------------------
(* Types *)

\* The comparisons that are due: the first is of the proxy and the newest logic
\* contract, each later one of two logic contracts in a row.
LEMMA PairsProperties ==
    ASSUME metas \in Seq(Address \cup {Missing})
    PROVE  /\ Len(Pairs) = Len(metas)
           /\ \A k \in 1..Len(Pairs) :
                Pairs[k] = IF k = 1 THEN <<proxyMeta, metas[Len(metas)]>>
                                    ELSE <<metas[k - 1], metas[k]>>
<1> DEFINE tail == [n \in 1..(Len(metas) - 1) |-> <<metas[n], metas[n + 1]>>]
           Both == {proxyMeta, Missing} \cup Address
<1>1. Len(metas) \in Nat /\ (metas # <<>> => Len(metas) >= 1)
    BY LenProperties, EmptySeq
<1>2. CASE metas = <<>>
    <2>1. Len(metas) = 0
        BY <1>2, EmptySeq
    <2>2. tail \in [1..0 -> Both \X Both]
        BY <2>1
    <2> HIDE DEF tail, Both
    <2>3. tail \in Seq(Both \X Both) /\ DOMAIN tail = 1..0
        BY <2>2, SeqDef, 0 \in Nat
    <2>4. tail = <<>>
        <3>1. Len(tail) \in Nat /\ 1..Len(tail) = 1..0
            BY <2>3, LenProperties
        <3>2. QED
            BY <2>3, <3>1, EmptySeq
    <2>5. ProxyWithNewest = <<>>
        BY <1>2 DEF ProxyWithNewest
    <2>6. Pairs = <<>>
        BY <2>4, <2>5, ConcatEmptySeq DEF Pairs, tail
    <2>7. QED
        BY <2>1, <2>6
<1>3. CASE metas # <<>>
    <2>1. \A n \in 1..Len(metas) : metas[n] \in Both
        BY <1>3, ElementOfSeq
    <2>2. tail \in [1..(Len(metas) - 1) -> Both \X Both]
        BY <1>1, <1>3, <2>1
    <2>3. tail \in Seq(Both \X Both) /\ Len(tail) = Len(metas) - 1
        BY <1>1, <1>3, <2>2, SeqDef, LenProperties
    <2>4. ProxyWithNewest = <<<<proxyMeta, metas[Len(metas)]>>>>
        BY <1>3 DEF ProxyWithNewest, WithProxy
    <2>5. <<proxyMeta, metas[Len(metas)]>> \in Both \X Both
        BY <1>1, <1>3, <2>1
    <2>6. ProxyWithNewest \in Seq(Both \X Both) /\ Len(ProxyWithNewest) = 1
        BY <2>4, <2>5
    <2> HIDE DEF tail, Both
    <2>7. /\ Len(ProxyWithNewest \o tail) = Len(metas)
          /\ \A k \in 1..Len(metas) : (ProxyWithNewest \o tail)[k] =
                IF k <= 1 THEN ProxyWithNewest[k] ELSE tail[k - 1]
        <3>1. /\ Len(ProxyWithNewest \o tail) = Len(ProxyWithNewest) + Len(tail)
              /\ \A k \in 1..(Len(ProxyWithNewest) + Len(tail)) :
                    (ProxyWithNewest \o tail)[k] =
                        IF k <= Len(ProxyWithNewest) THEN ProxyWithNewest[k]
                                                     ELSE tail[k - Len(ProxyWithNewest)]
            BY <2>3, <2>6, ConcatProperties
        <3>2. Len(ProxyWithNewest) + Len(tail) = Len(metas)
            BY <1>1, <2>3, <2>6
        <3>3. QED
            BY <2>6, <3>1, <3>2
    <2>8. \A k \in 1..Len(metas) : k # 1 => tail[k - 1] = <<metas[k - 1], metas[k]>>
        BY <1>1 DEF tail
    <2>9. Pairs = ProxyWithNewest \o tail
        BY DEF Pairs, tail
    <2>10. ProxyWithNewest[1] = <<proxyMeta, metas[Len(metas)]>>
        BY <2>4
    <2>11. ASSUME NEW k \in 1..Len(metas)
           PROVE  (ProxyWithNewest \o tail)[k] =
                        IF k = 1 THEN <<proxyMeta, metas[Len(metas)]>>
                                 ELSE <<metas[k - 1], metas[k]>>
        <3>1. CASE k = 1
            BY <1>1, <2>7, <2>10, <3>1
        <3>2. CASE k # 1
            BY <1>1, <2>7, <2>8, <3>2
        <3>3. QED
            BY <3>1, <3>2
    <2>12. QED
        BY <2>7, <2>9, <2>11
<1>4. QED
    BY <1>2, <1>3

\* A history is a sequence of bounded length.
LEMMA HistoryProperties ==
    ASSUME NEW h \in Histories
    PROVE  h \in Seq(Address) /\ Len(h) \in 0..MaxLogics
<1>1. PICK n \in 0..MaxLogics : h \in [1..n -> Address]
    BY DEF Histories
<1>2. n \in Nat
    BY BoundsAssumption
<1>3. h \in Seq(Address)
    BY <1>1, <1>2, SeqDef
<1>4. Len(h) = n
    BY <1>1, <1>2, <1>3, LenProperties
<1>5. QED
    BY <1>3, <1>4

\* While a source is to be downloaded, it is one of the proxy or of its history.
LEMMA WantedProperties ==
    ASSUME CommandTypeOK, Downloading
    PROVE  /\ Wanted \in Address
           /\ step = "logicSources" =>
                /\ Len(metas) + 1 \in 1..Len(logics)
                /\ Len(metas) + 1 \in 1..MaxLogics
<1>1. proxy \in Address
    BY DEF CommandTypeOK, Downloading
<1>2. logics \in Seq(Address) /\ Len(logics) \in 0..MaxLogics /\ Len(metas) \in Nat
    BY HistoryProperties, LenProperties DEF CommandTypeOK
<1>3. CASE step = "proxySource"
    BY <1>1, <1>3 DEF Wanted
<1>4. CASE step = "logicSources"
    <2>1. Len(metas) < Len(logics)
        BY <1>4 DEF Downloading
    <2>2. Len(metas) + 1 \in 1..Len(logics) /\ Len(metas) + 1 \in 1..MaxLogics
        BY <1>2, <2>1, BoundsAssumption
    <2>3. logics[Len(metas) + 1] \in Address
        BY <1>2, <2>2, ElementOfSeq
    <2>4. QED
        BY <1>4, <2>2, <2>3 DEF Wanted
<1>5. QED
    BY <1>3, <1>4 DEF Downloading

\* Noting an answer keeps what is noted in step with the history.
LEMMA NoteKeepsTypes ==
    ASSUME CommandTypeOK, Downloading, NEW meta \in {Wanted, Missing}, Note(meta),
           UNCHANGED <<proxy, logics>>
    PROVE  /\ step' \in {"logicSources"}
           /\ proxyMeta' \in {proxy', Missing}
           /\ metas' \in Seq(Address \cup {Missing}) /\ Len(metas') <= Len(logics')
           /\ \A n \in 1..Len(metas') : metas'[n] \in {logics'[n], Missing}
<1>1. metas \in Seq(Address \cup {Missing}) /\ Len(metas) \in Nat
    BY LenProperties DEF CommandTypeOK
<1>2. CASE step = "proxySource"
    BY <1>1, <1>2 DEF Note, CommandTypeOK, Wanted
<1>3. CASE step = "logicSources"
    <2>1. meta \in Address \cup {Missing} /\ Len(metas) + 1 \in 1..Len(logics)
        BY <1>3, WantedProperties
    <2>2. metas' = Append(metas, meta) /\ step' = step /\ proxyMeta' = proxyMeta
        BY <1>3 DEF Note
    <2>3. /\ metas' \in Seq(Address \cup {Missing}) /\ Len(metas') = Len(metas) + 1
          /\ \A n \in 1..Len(metas) : metas'[n] = metas[n]
          /\ metas'[Len(metas) + 1] = meta
        BY <1>1, <2>1, <2>2, AppendProperties
    <2>4. meta \in {logics[Len(metas) + 1], Missing}
        BY <1>3 DEF Wanted
    <2>5. ASSUME NEW n \in 1..Len(metas')
          PROVE  metas'[n] \in {logics'[n], Missing}
        <3>1. CASE n = Len(metas) + 1
            BY <2>3, <2>4, <3>1
        <3>2. CASE n # Len(metas) + 1
            <4>1. n \in 1..Len(metas)
                BY <1>1, <2>3, <3>2
            <4>2. metas[n] \in {logics[n], Missing}
                BY <4>1 DEF CommandTypeOK
            <4>3. QED
                BY <2>3, <4>1, <4>2
        <3>3. QED
            BY <3>1, <3>2
    <2>6. step' \in {"logicSources"} /\ proxyMeta' \in {proxy', Missing}
        BY <1>3, <2>2 DEF CommandTypeOK
    <2>7. Len(metas') <= Len(logics')
        BY <2>1, <2>3
    <2>8. QED
        BY <2>3, <2>5, <2>6, <2>7
<1>4. QED
    BY <1>2, <1>3 DEF Downloading

----------------------------------------------------------------------------
(* Sources *)

\* Initially nothing is noted and nothing is on disk.
LEMMA SourceInit == CommandInit => SourceInvariant
<1> SUFFICES ASSUME CommandInit
             PROVE  SourceInvariant
    OBVIOUS
<1>1. <<>> \in Histories
    BY BoundsAssumption DEF Histories
<1>2. CommandTypeOK
    BY <1>1, MissingAssumption, BoundsAssumption DEF CommandInit, CommandTypeOK
<1>3. QED
    BY <1>2 DEF CommandInit, SourceInvariant, SourcesKept, ProxyFirst, LinksSoFar, AllNoted

LEMMA StartKeepsSources ==
    ASSUME SourceInvariant, Start
    PROVE  SourceInvariant'
<1>1. PICK h \in Histories :
        /\ proxy' \in Address /\ logics' = h
        /\ step' \in {"proxySource", "bytecode", "print"}
    BY DEF Start
<1>2. /\ proxyMeta' = Missing /\ metas' = <<>> /\ results' = <<>> /\ position' = 0
      /\ writing' = writing /\ directory' = directory /\ links' = links
    BY DEF Start, NothingNoted
<1>3. writing = Missing
    BY DEF Start, SourceInvariant, CommandTypeOK, Downloading
<1>4. Len(metas') = 0 /\ Len(logics') \in Nat
    <2>1. h \in Seq(Address) /\ Len(h) \in 0..MaxLogics
        BY HistoryProperties
    <2>2. Len(metas') = 0
        BY <1>2, EmptySeq
    <2>3. Len(h) \in Nat
        BY <2>1, BoundsAssumption
    <2>4. QED
        BY <1>1, <2>2, <2>3
<1>5. runs' \in 0..MaxRuns
    <2>1. runs \in 0..MaxRuns /\ runs < MaxRuns /\ runs' = runs + 1
        BY DEF Start, SourceInvariant, CommandTypeOK
    <2>2. QED
        BY <2>1, BoundsAssumption
<1>6. CommandTypeOK'
    <2>1. /\ directory \in [Address -> {"absent", "partial", "sources"}]
          /\ links \in [Address -> SUBSET (1..MaxLogics)]
        BY DEF SourceInvariant, CommandTypeOK
    <2>2. /\ metas' \in Seq(Address \cup {Missing}) /\ Len(metas') <= Len(logics')
          /\ results' \in Seq([first : Address, second : Address, error : BOOLEAN])
          /\ position' \in 0..(MaxLogics + 1)
        BY <1>2, <1>4, EmptySeq, BoundsAssumption
    <2>3. \A n \in 1..Len(metas') : metas'[n] \in {logics'[n], Missing}
        BY <1>4
    <2>4. proxy' \in Address /\ proxy' # Missing /\ logics' \in Histories
          /\ proxyMeta' \in {proxy', Missing}
        BY <1>1, <1>2, MissingAssumption
    <2>5. step' \in {"proxySource", "bytecode", "print"} /\ writing' = Missing
        BY <1>1, <1>2, <1>3
    <2>6. QED
        BY <1>2, <1>5, <2>1, <2>2, <2>3, <2>4, <2>5 DEF CommandTypeOK
<1>7. SourcesKept' /\ ProxyFirst' /\ LinksSoFar' /\ AllNoted'
    BY <1>1, <1>2, <1>3 DEF SourcesKept, ProxyFirst, LinksSoFar, AllNoted
<1>8. QED
    BY <1>6, <1>7 DEF SourceInvariant

LEMMA NoSourceKeepsSources ==
    ASSUME SourceInvariant, NoSource
    PROVE  SourceInvariant'
<1>1. CommandTypeOK /\ Downloading /\ writing = Missing /\ Note(Missing)
      /\ UNCHANGED <<proxy, logics, writing, directory, links, results, position, runs>>
    BY DEF SourceInvariant, NoSource, resultVars
<1>2. /\ step' = "logicSources"
      /\ proxyMeta' \in {proxy', Missing}
      /\ metas' \in Seq(Address \cup {Missing}) /\ Len(metas') <= Len(logics')
      /\ \A n \in 1..Len(metas') : metas'[n] \in {logics'[n], Missing}
    BY <1>1, NoteKeepsTypes
<1>3. CommandTypeOK'
    <2>1. /\ logics \in Histories /\ proxy \in Address \cup {Missing} /\ proxy # Missing
          /\ directory \in [Address -> {"absent", "partial", "sources"}]
          /\ links \in [Address -> SUBSET (1..MaxLogics)]
          /\ results \in Seq([first : Address, second : Address, error : BOOLEAN])
          /\ position \in 0..(MaxLogics + 1) /\ runs \in 0..MaxRuns
        BY <1>1 DEF CommandTypeOK, Downloading
    <2>2. QED
        BY <1>1, <1>2, <2>1 DEF CommandTypeOK
<1>4. CASE step = "proxySource"
    <2>1. metas = <<>> /\ metas' = <<>> /\ proxyMeta' = Missing
        BY <1>1, <1>4 DEF SourceInvariant, ProxyFirst, Note
    <2>2. Len(metas') = 0
        BY <2>1, EmptySeq
    <2>3. Noted' = {Missing}
        BY <2>1, <2>2 DEF Noted
    <2>4. ProxyFirst' /\ LinksSoFar'
        BY <1>2, <2>1 DEF ProxyFirst, LinksSoFar
    <2>5. QED
        BY <1>2, <1>3, <2>3, <2>4 DEF SourceInvariant, SourcesKept, AllNoted
<1>5. CASE step = "logicSources"
    <2>1. metas' = Append(metas, Missing) /\ proxyMeta' = proxyMeta
        BY <1>1, <1>5 DEF Note
    <2>2. /\ Len(metas) \in Nat /\ Len(metas') = Len(metas) + 1
          /\ \A n \in 1..Len(metas) : metas'[n] = metas[n]
          /\ metas'[Len(metas) + 1] = Missing
        <3>1. metas \in Seq(Address \cup {Missing}) /\ Missing \in Address \cup {Missing}
            BY <1>1 DEF CommandTypeOK
        <3>2. QED
            BY <2>1, <3>1, AppendProperties, LenProperties
    <2>3. \A n \in 1..Len(metas') :
            (n \in 1..Len(metas) /\ metas'[n] = metas[n]) \/ metas'[n] = Missing
        BY <2>2
    <2>4. SourcesKept'
        BY <1>1, <1>5, <2>1, <2>3 DEF SourceInvariant, SourcesKept, Noted
    <2>5. {n \in 1..Len(metas') : metas'[n] # Missing} = {n \in 1..Len(metas) : metas[n] # Missing}
        BY <2>2, <2>3
    <2>6. LinksSoFar'
        BY <1>1, <1>2, <1>5, <2>1, <2>5 DEF SourceInvariant, LinksSoFar, OtherLogics
    <2>7. QED
        BY <1>2, <1>3, <2>4, <2>6 DEF SourceInvariant, ProxyFirst, AllNoted
<1>6. QED
    BY <1>1, <1>4, <1>5 DEF Downloading

LEMMA EmptyDirectoryKeepsSources ==
    ASSUME SourceInvariant, EmptyDirectory
    PROVE  SourceInvariant'
<1>1. /\ CommandTypeOK /\ Downloading /\ writing = Missing /\ writing' = Wanted
      /\ directory' = [directory EXCEPT ![Wanted] = "partial"]
      /\ links' = [links EXCEPT ![Wanted] = {}]
      /\ UNCHANGED <<step, proxy, logics, metas, proxyMeta, results, position, runs>>
    BY DEF SourceInvariant, EmptyDirectory, AllRemoved, resultVars
<1>2. Wanted \in Address /\ Wanted' = Wanted /\ Downloading'
    BY <1>1, WantedProperties DEF Wanted, Downloading
<1>3. CommandTypeOK'
    BY <1>1, <1>2 DEF CommandTypeOK
<1>4. SourcesKept'
    <2>1. directory \in [Address -> {"absent", "partial", "sources"}]
        BY <1>1 DEF CommandTypeOK
    <2>2. \A a \in Address :
            directory[a] = "sources" /\ a # Wanted => directory'[a] = "sources"
        BY <1>1, <2>1
    <2>3. Noted' = Noted
        BY <1>1 DEF Noted
    <2>4. \A n \in 1..Len(metas) : metas[n] \in Address \cup {Missing}
        BY <1>1, ElementOfSeq DEF CommandTypeOK
    <2>5. \A a \in Noted : a # Missing => a \in Address
        <3>1. proxyMeta \in Address \cup {Missing}
            BY <1>1 DEF CommandTypeOK
        <3>2. QED
            BY <2>4, <3>1 DEF Noted
    <2>6. QED
        BY <1>1, <2>1, <2>2, <2>3, <2>5 DEF SourceInvariant, SourcesKept
<1>5. ProxyFirst'
    BY <1>1 DEF SourceInvariant, ProxyFirst
<1>6. LinksSoFar'
    <2> SUFFICES ASSUME OtherLogics'
                 PROVE  /\ step' = "proxySource" /\ writing' # Missing => links'[proxy'] = {}
                        /\ step' \in {"logicSources", "slither"} /\ proxyMeta' # Missing =>
                             links'[proxy'] = {n \in 1..Len(metas') : metas'[n] # Missing}
        BY DEF LinksSoFar
    <2>1. OtherLogics
        BY <1>1 DEF OtherLogics
    <2>2. CASE step = "proxySource"
        <3>1. Wanted = proxy
            BY <2>2 DEF Wanted
        <3>2. links'[proxy] = {}
            BY <1>1, <1>2, <3>1 DEF CommandTypeOK
        <3>3. QED
            BY <1>1, <2>2, <3>2
    <2>3. CASE step # "proxySource"
        <3>1. step = "logicSources" /\ Wanted = logics[Len(metas) + 1]
            BY <1>1, <2>3 DEF Downloading, Wanted
        <3>2. Wanted # proxy
            BY <1>1, <2>1, <3>1, WantedProperties DEF OtherLogics
        <3>3. links'[proxy] = links[proxy]
            BY <1>1, <1>2, <3>1, <3>2 DEF CommandTypeOK
        <3>4. QED
            BY <1>1, <2>1, <3>1, <3>3 DEF SourceInvariant, LinksSoFar
    <2>4. QED
        BY <2>2, <2>3
<1>7. AllNoted'
    BY <1>1 DEF AllNoted, Downloading
<1>8. QED
    BY <1>3, <1>4, <1>5, <1>6, <1>7 DEF SourceInvariant

LEMMA SourceSavedKeepsSources ==
    ASSUME SourceInvariant, SourceSaved
    PROVE  SourceInvariant'
<1>1. /\ CommandTypeOK /\ writing # Missing /\ Downloading /\ writing = Wanted /\ Note(writing)
      /\ directory' = [directory EXCEPT ![writing] = "sources"]
      /\ writing' = Missing
      /\ links' = IF step = "logicSources" /\ proxyMeta # Missing
                  THEN [links EXCEPT ![proxy] = @ \cup {Len(metas) + 1}] ELSE links
      /\ UNCHANGED <<proxy, logics, results, position, runs>>
    BY DEF SourceInvariant, CommandTypeOK, SourceSaved, Saved, LinkMade, resultVars
<1>2. /\ step' = "logicSources"
      /\ proxyMeta' \in {proxy', Missing}
      /\ metas' \in Seq(Address \cup {Missing}) /\ Len(metas') <= Len(logics')
      /\ \A n \in 1..Len(metas') : metas'[n] \in {logics'[n], Missing}
    BY <1>1, NoteKeepsTypes
<1>3. Wanted \in Address /\ (step = "logicSources" => Len(metas) + 1 \in 1..MaxLogics)
    BY <1>1, WantedProperties
<1>4. CommandTypeOK'
    <2>1. /\ logics \in Histories /\ proxy \in Address
          /\ directory \in [Address -> {"absent", "partial", "sources"}]
          /\ links \in [Address -> SUBSET (1..MaxLogics)]
          /\ results \in Seq([first : Address, second : Address, error : BOOLEAN])
          /\ position \in 0..(MaxLogics + 1) /\ runs \in 0..MaxRuns
        BY <1>1 DEF CommandTypeOK, Downloading
    <2>2. directory' \in [Address -> {"absent", "partial", "sources"}]
        BY <1>1, <1>3, <2>1
    <2>3. links' \in [Address -> SUBSET (1..MaxLogics)]
        BY <1>1, <1>3, <2>1
    <2>4. QED
        BY <1>1, <1>2, <2>1, <2>2, <2>3, MissingAssumption DEF CommandTypeOK
<1>5. /\ directory'[writing] = "sources"
      /\ \A a \in Address : directory[a] = "sources" => directory'[a] = "sources"
    BY <1>1, <1>3 DEF CommandTypeOK
<1>6. CASE step = "proxySource"
    <2>1. metas' = <<>> /\ metas = <<>> /\ proxyMeta' = writing
        BY <1>1, <1>6 DEF SourceInvariant, ProxyFirst, Note
    <2>2. Len(metas') = 0
        BY <2>1, EmptySeq
    <2>3. Noted' = {writing}
        BY <2>1, <2>2 DEF Noted
    <2>4. SourcesKept' /\ ProxyFirst'
        BY <1>2, <1>5, <2>3 DEF SourcesKept, ProxyFirst
    <2>5. OtherLogics => links[proxy] = {}
        BY <1>1, <1>6 DEF SourceInvariant, LinksSoFar
    <2>6. {n \in 1..Len(metas') : metas'[n] # Missing} = {}
        BY <2>2
    <2>7. LinksSoFar'
        BY <1>1, <1>2, <1>6, <2>5, <2>6 DEF LinksSoFar, OtherLogics
    <2>8. QED
        BY <1>2, <1>4, <2>4, <2>7 DEF SourceInvariant, AllNoted
<1>7. CASE step = "logicSources"
    <2>1. metas' = Append(metas, writing) /\ proxyMeta' = proxyMeta
        BY <1>1, <1>7 DEF Note
    <2>2. /\ Len(metas) \in Nat /\ Len(metas') = Len(metas) + 1
          /\ \A n \in 1..Len(metas) : metas'[n] = metas[n]
          /\ metas'[Len(metas) + 1] = writing
        <3>1. metas \in Seq(Address \cup {Missing}) /\ writing \in Address \cup {Missing}
            BY <1>1, <1>3 DEF CommandTypeOK
        <3>2. QED
            BY <2>1, <3>1, AppendProperties, LenProperties
    <2>3. \A n \in 1..Len(metas') :
            (n \in 1..Len(metas) /\ metas'[n] = metas[n]) \/ metas'[n] = writing
        BY <2>2
    <2>4. Noted' \subseteq Noted \cup {writing}
        BY <2>1, <2>3 DEF Noted
    <2>5. \A a \in Noted : a # Missing => a \in Address
        <3>1. proxyMeta \in Address \cup {Missing}
            BY <1>1 DEF CommandTypeOK
        <3>2. \A n \in 1..Len(metas) : metas[n] \in Address \cup {Missing}
            BY <1>1, ElementOfSeq DEF CommandTypeOK
        <3>3. QED
            BY <3>1, <3>2 DEF Noted
    <2>6. SourcesKept'
        BY <1>1, <1>5, <1>7, <2>4, <2>5 DEF SourceInvariant, SourcesKept
    <2>7. {n \in 1..Len(metas') : metas'[n] # Missing} =
            {n \in 1..Len(metas) : metas[n] # Missing} \cup {Len(metas) + 1}
        <3>1. \A n : n \in 1..Len(metas') <=> n \in 1..Len(metas) \/ n = Len(metas) + 1
            BY <2>2
        <3>2. metas'[Len(metas) + 1] # Missing
            BY <1>1, <2>2
        <3>3. QED
            BY <2>2, <3>1, <3>2
    <2>8. proxyMeta # Missing => links'[proxy] = links[proxy] \cup {Len(metas) + 1}
        <3>1. proxy \in Address /\ links \in [Address -> SUBSET (1..MaxLogics)]
            BY <1>1 DEF CommandTypeOK, Downloading
        <3>2. QED
            BY <1>1, <1>7, <3>1
    <2>9. LinksSoFar'
        BY <1>1, <1>2, <1>7, <2>1, <2>7, <2>8 DEF SourceInvariant, LinksSoFar, OtherLogics
    <2>10. QED
        BY <1>2, <1>4, <2>6, <2>9 DEF SourceInvariant, ProxyFirst, AllNoted
<1>8. QED
    BY <1>1, <1>6, <1>7 DEF Downloading

\* After the downloads nothing that is noted or written changes any more.
LEMMA LaterKeepsSources ==
    ASSUME SourceInvariant,
           UNCHANGED <<proxy, logics, metas, proxyMeta, directory, links, runs>>,
           ~ Downloading, step \in {"logicSources", "slither", "bytecode", "print"},
           step' = step \/ step' \in {"bytecode", "print", "printed", "crashed"}
                        \/ (step = "logicSources" /\ step' = "slither"),
           writing' = writing,
           results' \in Seq([first : Address, second : Address, error : BOOLEAN]),
           position' \in 0..(MaxLogics + 1)
    PROVE  SourceInvariant'
<1>1. writing = Missing /\ CommandTypeOK
    BY DEF SourceInvariant, CommandTypeOK
<1>2. CommandTypeOK'
    BY <1>1 DEF CommandTypeOK
<1>3. SourcesKept'
    BY DEF SourceInvariant, SourcesKept, Noted
<1>4. ProxyFirst'
    BY DEF Downloading, SourceInvariant, ProxyFirst
<1>5. LinksSoFar'
    BY <1>1 DEF SourceInvariant, LinksSoFar, OtherLogics
<1>6. AllNoted'
    <2>1. Len(metas) <= Len(logics) /\ Len(metas) \in Nat /\ Len(logics) \in Nat
        BY <1>1, HistoryProperties, LenProperties DEF CommandTypeOK
    <2>2. step = "logicSources" => Len(metas) = Len(logics)
        BY <2>1 DEF Downloading
    <2>3. step # "logicSources" =>
            Len(metas) = Len(logics) \/ (metas = <<>> /\ step # "slither")
        BY DEF SourceInvariant, AllNoted
    <2>4. metas' = metas /\ logics' = logics
        OBVIOUS
    <2>5. step' = "slither" => step \in {"logicSources", "slither"}
        OBVIOUS
    <2>6. step' = "logicSources" \/ Len(metas) = Len(logics)
            \/ (metas = <<>> /\ step' # "slither")
        BY <2>2, <2>3, <2>5
    <2>7. QED
        BY <2>4, <2>6 DEF AllNoted
<1>7. QED
    BY <1>2, <1>3, <1>4, <1>5, <1>6 DEF SourceInvariant

\* What a comparison is of, and that it has its place among those that are due.
LEMMA ComparisonProperties ==
    ASSUME CommandTypeOK, NEW k \in 1..Len(Pairs)
    PROVE  /\ Len(metas) \in Nat /\ Len(Pairs) = Len(metas) /\ k \in 1..MaxLogics
           /\ Pairs[k][1] = IF k = 1 THEN proxyMeta ELSE metas[k - 1]
           /\ Pairs[k][2] = IF k = 1 THEN metas[Len(metas)] ELSE metas[k]
           /\ Pairs[k][1] \in Address \cup {Missing}
           /\ Pairs[k][2] \in Address \cup {Missing}
<1>1. metas \in Seq(Address \cup {Missing}) /\ Len(metas) \in Nat
    BY LenProperties DEF CommandTypeOK
<1>2. Len(Pairs) = Len(metas)
    BY <1>1, PairsProperties
<1>3. Len(logics) \in 0..MaxLogics /\ Len(metas) <= Len(logics)
    BY HistoryProperties DEF CommandTypeOK
<1>4. k \in 1..MaxLogics
    BY <1>1, <1>2, <1>3, BoundsAssumption
<1>5. Pairs[k] = IF k = 1 THEN <<proxyMeta, metas[Len(metas)]>> ELSE <<metas[k - 1], metas[k]>>
    BY <1>1, PairsProperties
<1>6. proxyMeta \in Address \cup {Missing}
    BY DEF CommandTypeOK
<1>7. \A n \in 1..Len(metas) : metas[n] \in Address \cup {Missing}
    BY <1>1, ElementOfSeq
<1>8. CASE k = 1
    <2>1. Pairs[k] = <<proxyMeta, metas[Len(metas)]>> /\ Len(metas) \in 1..Len(metas)
        BY <1>1, <1>2, <1>5, <1>8
    <2>2. QED
        BY <1>1, <1>2, <1>4, <1>6, <1>7, <1>8, <2>1
<1>9. CASE k # 1
    <2>1. Pairs[k] = <<metas[k - 1], metas[k]>> /\ k \in 1..Len(metas) /\ k - 1 \in 1..Len(metas)
        BY <1>1, <1>2, <1>5, <1>9
    <2>2. QED
        BY <1>1, <1>2, <1>4, <1>7, <1>9, <2>1
<1>10. QED
    BY <1>8, <1>9

\* The record of a comparison that slither runs for.
Result(k, error) == [first |-> Pairs[k][1], second |-> Pairs[k][2], error |-> error]

\* One comparison adds its result, or nothing, to the results.
LEMMA RunSlitherResults ==
    ASSUME CommandTypeOK, RunSlither
    PROVE  /\ position + 1 \in 1..Len(Pairs) /\ position' = position + 1
           /\ IF HasBoth(Pairs[position + 1])
              THEN \E error \in BOOLEAN :
                    /\ Result(position + 1, error)
                            \in [first : Address, second : Address, error : BOOLEAN]
                    /\ results' = Append(results, Result(position + 1, error))
              ELSE results' = results
           /\ UNCHANGED <<step, proxy, logics, metas, proxyMeta, writing, directory, links, runs>>
<1>1. position \in Nat /\ step = "slither" /\ position < Len(Pairs) /\ position' = position + 1
    BY BoundsAssumption DEF CommandTypeOK, RunSlither
<1>2. Len(Pairs) \in Nat
    BY PairsProperties, LenProperties DEF CommandTypeOK
<1>3. position + 1 \in 1..Len(Pairs)
    BY <1>1, <1>2
<1>4. /\ Pairs[position + 1][1] \in Address \cup {Missing}
      /\ Pairs[position + 1][2] \in Address \cup {Missing}
    BY <1>3, ComparisonProperties
<1>5. HasBoth(Pairs[position + 1]) =>
        Pairs[position + 1][1] \in Address /\ Pairs[position + 1][2] \in Address
    BY <1>4 DEF HasBoth
<1>6. UNCHANGED <<step, proxy, logics, metas, proxyMeta, writing, directory, links, runs>>
    BY DEF RunSlither, sourceVars
<1>7. IF HasBoth(Pairs[position + 1])
      THEN \E error \in BOOLEAN : results' = Append(results, Result(position + 1, error))
      ELSE results' = results
    BY DEF RunSlither, Result
<1>8. HasBoth(Pairs[position + 1]) => \A error \in BOOLEAN :
        Result(position + 1, error) \in [first : Address, second : Address, error : BOOLEAN]
    BY <1>5 DEF Result
<1>9. QED
    BY <1>1, <1>3, <1>6, <1>7, <1>8

LEMMA SourceStep ==
    ASSUME SourceInvariant, [CommandNext]_commandVars
    PROVE  SourceInvariant'
<1>0. CommandTypeOK
    BY DEF SourceInvariant
<1>1. CASE Start
    BY <1>1, StartKeepsSources
<1>2. CASE NoSource
    BY <1>2, NoSourceKeepsSources
<1>3. CASE EmptyDirectory
    BY <1>3, EmptyDirectoryKeepsSources
<1>4. CASE SourceSaved
    BY <1>4, SourceSavedKeepsSources
<1>5. results \in Seq([first : Address, second : Address, error : BOOLEAN])
      /\ position \in 0..(MaxLogics + 1)
    BY <1>0 DEF CommandTypeOK
<1>6. CASE SourcesDone
    <2>1. step = "logicSources" /\ ~ Downloading /\ step' = "slither"
          /\ UNCHANGED <<proxy, logics, metas, proxyMeta, writing, directory, links, results, position, runs>>
        BY <1>6 DEF SourcesDone, sourceVars, resultVars
    <2>2. QED
        BY <1>5, <2>1, LaterKeepsSources
<1>7. CASE RunSlither
    <2>1. results' \in Seq([first : Address, second : Address, error : BOOLEAN])
        <3>1. CASE HasBoth(Pairs[position + 1])
            <4>1. PICK error \in BOOLEAN :
                    /\ Result(position + 1, error)
                            \in [first : Address, second : Address, error : BOOLEAN]
                    /\ results' = Append(results, Result(position + 1, error))
                BY <1>0, <1>7, <3>1, RunSlitherResults
            <4>2. QED
                BY <1>5, <4>1, AppendProperties
        <3>2. CASE ~ HasBoth(Pairs[position + 1])
            BY <1>0, <1>5, <1>7, <3>2, RunSlitherResults
        <3>3. QED
            BY <3>1, <3>2
    <2>2. position' \in 0..(MaxLogics + 1)
        <3>1. position + 1 \in 1..MaxLogics /\ position' = position + 1
            BY <1>0, <1>7, RunSlitherResults, ComparisonProperties
        <3>2. QED
            BY <3>1, BoundsAssumption
    <2>3. step = "slither" /\ ~ Downloading
        BY <1>7 DEF RunSlither, Downloading
    <2>4. UNCHANGED <<step, proxy, logics, metas, proxyMeta, writing, directory, links, runs>>
        BY <1>0, <1>7, RunSlitherResults
    <2>5. QED
        BY <2>1, <2>2, <2>3, <2>4, LaterKeepsSources
<1>8. CASE SlitherDone \/ CompareBytecode \/ PrintResult
    <2>1. step \in {"slither", "bytecode", "print"} /\ step' \in {"bytecode", "print", "printed"}
          /\ UNCHANGED <<proxy, logics, metas, proxyMeta, writing, directory, links, results, position, runs>>
        BY <1>8 DEF SlitherDone, CompareBytecode, PrintResult, sourceVars, resultVars
    <2>2. ~ Downloading /\ step \in {"logicSources", "slither", "bytecode", "print"}
        BY <2>1 DEF Downloading
    <2>3. step' \in {"bytecode", "print", "printed", "crashed"}
        BY <2>1
    <2>4. /\ results' \in Seq([first : Address, second : Address, error : BOOLEAN])
          /\ position' \in 0..(MaxLogics + 1)
        BY <1>5, <2>1
    <2>5. UNCHANGED <<proxy, logics, metas, proxyMeta, directory, links, runs>>
          /\ writing' = writing
        BY <2>1
    <2>6. QED
        BY <2>2, <2>3, <2>4, <2>5, LaterKeepsSources
<1>9. CASE Crash
    <2>1. step' = "crashed" /\ writing' = Missing
          /\ UNCHANGED <<proxy, logics, metas, proxyMeta, directory, links, results, position, runs>>
          /\ proxy \in Address
        BY <1>0, <1>9 DEF Crash, resultVars, CommandTypeOK
    <2>2. CommandTypeOK'
        BY <1>0, <2>1, MissingAssumption DEF CommandTypeOK
    <2>3. QED
        BY <2>1, <2>2 DEF SourceInvariant, SourcesKept, ProxyFirst, LinksSoFar, AllNoted
<1>10. CASE UNCHANGED commandVars
    <2>1. UNCHANGED <<step, proxy, logics, metas, proxyMeta, writing, directory, links,
                      results, position, runs>>
        BY <1>10 DEF commandVars, sourceVars, resultVars
    <2>2. CommandTypeOK'
        BY <1>0, <2>1 DEF CommandTypeOK, Downloading, Wanted
    <2>3. SourcesKept' /\ ProxyFirst' /\ AllNoted'
        BY <2>1 DEF SourceInvariant, SourcesKept, Noted, ProxyFirst, AllNoted
    <2>4. LinksSoFar'
        BY <2>1 DEF SourceInvariant, LinksSoFar, OtherLogics
    <2>5. QED
        BY <2>2, <2>3, <2>4 DEF SourceInvariant
<1>11. QED
    BY <1>1, <1>2, <1>3, <1>4, <1>6, <1>7, <1>8, <1>9, <1>10 DEF CommandNext, Work

\* The inductive invariant of the command line's work on source directories.
THEOREM SourcesAreInvariant == CommandSpec => []SourceInvariant
<1>1. CommandInit => SourceInvariant
    BY SourceInit
<1>2. SourceInvariant /\ [CommandNext]_commandVars => SourceInvariant'
    BY SourceStep
<1>3. QED
    BY <1>1, <1>2, PTL DEF CommandSpec

\* Every reachable state of the command line is well typed, and the sources are
\* noted in the order of the history.
THEOREM CommandTypeCorrect == CommandSpec => []CommandTypeOK
<1>1. SourceInvariant => CommandTypeOK
    BY DEF SourceInvariant
<1>2. QED
    BY <1>1, SourcesAreInvariant, PTL

\* Slither is given complete sources only, whatever runs were ended before, for
\* any number of contracts, versions and runs.
THEOREM SourcesComplete == CommandSpec => []CompleteSources
<1>1. SourceInvariant => CompleteSources
    <2> SUFFICES ASSUME SourceInvariant, step = "slither"
                 PROVE  \A a \in Noted : a # Missing => directory[a] = "sources"
        BY DEF CompleteSources, Noted
    <2>1. writing = Missing
        BY DEF SourceInvariant, CommandTypeOK, Downloading
    <2>2. QED
        BY <2>1 DEF SourceInvariant, SourcesKept
<1>2. QED
    BY <1>1, SourcesAreInvariant, PTL

\* The links in the proxy's directory are those of the versions with a source,
\* none of an earlier run among them.
THEOREM LinksCorrect == CommandSpec => []LinksRight
<1>1. SourceInvariant => LinksRight
    BY DEF SourceInvariant, LinksSoFar, LinksRight, OtherLogics, AllNoted
<1>2. QED
    BY <1>1, SourcesAreInvariant, PTL

\* Both: what slither is started on is complete and linked to.
THEOREM SourcesCorrect == CommandSpec => []SourcesRight
<1>1. CompleteSources /\ LinksRight => SourcesRight
    BY DEF SourcesRight
<1>2. QED
    BY <1>1, SourcesComplete, LinksCorrect, PTL

----------------------------------------------------------------------------
(* Comparisons *)

Done == step \in {"slither", "bytecode", "print", "printed"}

\* The comparison k has a result if both contracts have a source.
HasResult(k) == HasBoth(Pairs[k]) => Compared(Pairs[k][1], Pairs[k][2])

\* The result n is of a comparison that was due.
WasDue(n) ==
    \E k \in 1..Len(Pairs) :
        /\ HasBoth(Pairs[k])
        /\ results[n].first = Pairs[k][1] /\ results[n].second = Pairs[k][2]

\* The results are those of the comparisons that check_slither has gone through.
ComparedSoFar ==
    /\ step \in {"proxySource", "logicSources"} => position = 0 /\ results = <<>>
    /\ Done => /\ \A k \in 1..Len(Pairs) : k <= position => HasResult(k)
               /\ \A n \in 1..Len(results) : WasDue(n)
    /\ step \in {"bytecode", "print", "printed"} => metas = <<>> \/ position >= Len(Pairs)

ComparisonInvariant == SourceInvariant /\ ComparedSoFar

\* What does not touch the comparisons keeps the invariant.
LEMMA NothingCompared ==
    ASSUME ComparedSoFar, Done, UNCHANGED <<metas, proxyMeta, results, position>>,
           step' = "slither" => step = "slither",
           step = "slither" /\ step' # "slither" => position >= Len(Pairs),
           step' \in {"slither", "bytecode", "print", "printed"}
    PROVE  ComparedSoFar'
<1>1. Pairs' = Pairs
    BY DEF Pairs, ProxyWithNewest, WithProxy
<1>2. /\ \A k \in 1..Len(Pairs) : k <= position => HasResult(k)
      /\ \A n \in 1..Len(results) : WasDue(n)
    BY DEF ComparedSoFar
<1>3. /\ \A k \in 1..Len(Pairs') : k <= position' => HasResult(k)'
      /\ \A n \in 1..Len(results') : WasDue(n)'
    BY <1>1, <1>2 DEF HasResult, WasDue, Compared
<1>4. step' \in {"bytecode", "print", "printed"} => metas' = <<>> \/ position' >= Len(Pairs')
    BY <1>1 DEF ComparedSoFar, Done
<1>5. QED
    BY <1>3, <1>4 DEF ComparedSoFar

\* The next comparison, if it is made, adds its result behind the others.
LEMMA NextCompared ==
    ASSUME ComparisonInvariant, RunSlither
    PROVE  ComparedSoFar'
<1>0. CommandTypeOK
    BY DEF ComparisonInvariant, SourceInvariant
<1>1. /\ position + 1 \in 1..Len(Pairs) /\ position' = position + 1
      /\ UNCHANGED <<step, metas, proxyMeta>>
    BY <1>0, RunSlitherResults
<1>2. step = "slither" /\ step' = "slither"
    BY <1>1 DEF RunSlither
<1>3. Pairs' = Pairs
    BY <1>1 DEF Pairs, ProxyWithNewest, WithProxy
<1>4. /\ \A k \in 1..Len(Pairs) : k <= position => HasResult(k)
      /\ \A n \in 1..Len(results) : WasDue(n)
    BY <1>2 DEF ComparisonInvariant, ComparedSoFar, Done
<1>5. results \in Seq([first : Address, second : Address, error : BOOLEAN])
      /\ Len(results) \in Nat /\ position \in Nat
    BY <1>0, LenProperties, BoundsAssumption DEF CommandTypeOK
<1>6. Len(Pairs) \in Nat
    BY <1>0, PairsProperties, LenProperties DEF CommandTypeOK
<1>7. CASE ~ HasBoth(Pairs[position + 1])
    <2>1. results' = results
        BY <1>0, <1>7, RunSlitherResults
    <2>2. \A k \in 1..Len(Pairs) : k <= position + 1 => HasResult(k)
        BY <1>4, <1>5, <1>6, <1>7 DEF HasResult
    <2>3. \A k \in 1..Len(Pairs') : k <= position' => HasResult(k)'
        BY <1>1, <1>3, <2>1, <2>2 DEF HasResult, Compared
    <2>4. \A n \in 1..Len(results') : WasDue(n)'
        BY <1>3, <1>4, <2>1 DEF WasDue
    <2>5. QED
        BY <1>2, <2>3, <2>4 DEF ComparedSoFar
<1>8. CASE HasBoth(Pairs[position + 1])
    <2>1. PICK error \in BOOLEAN :
            /\ Result(position + 1, error)
                    \in [first : Address, second : Address, error : BOOLEAN]
            /\ results' = Append(results, Result(position + 1, error))
        BY <1>0, <1>8, RunSlitherResults
    <2>2. /\ Len(results') = Len(results) + 1
          /\ \A n \in 1..Len(results) : results'[n] = results[n]
          /\ results'[Len(results) + 1] = Result(position + 1, error)
        BY <1>5, <2>1, AppendProperties
    <2>3. /\ results'[Len(results) + 1].first = Pairs[position + 1][1]
          /\ results'[Len(results) + 1].second = Pairs[position + 1][2]
        BY <2>2 DEF Result
    <2>4. ASSUME NEW k \in 1..Len(Pairs'), k <= position', HasBoth(Pairs'[k])
          PROVE  Compared(Pairs[k][1], Pairs[k][2])'
        <3>1. CASE k = position + 1
            <4>1. Len(results) + 1 \in 1..Len(results')
                BY <1>5, <2>2
            <4>2. QED
                BY <1>3, <2>3, <3>1, <4>1 DEF Compared
        <3>2. CASE k # position + 1
            <4>1. k \in 1..Len(Pairs) /\ k <= position /\ HasBoth(Pairs[k])
                BY <1>1, <1>3, <1>5, <1>6, <2>4, <3>2
            <4>2. PICK n \in 1..Len(results) :
                    results[n].first = Pairs[k][1] /\ results[n].second = Pairs[k][2]
                BY <1>4, <4>1 DEF HasResult, Compared
            <4>3. n \in 1..Len(results') /\ results'[n] = results[n]
                BY <1>5, <2>2
            <4>4. QED
                BY <1>3, <4>2, <4>3 DEF Compared
        <3>3. QED
            BY <3>1, <3>2
    <2>5. \A k \in 1..Len(Pairs') : k <= position' => HasResult(k)'
        BY <2>4 DEF HasResult, HasBoth
    <2>6. ASSUME NEW n \in 1..Len(results')
          PROVE  WasDue(n)'
        <3>1. CASE n = Len(results) + 1
            BY <1>1, <1>3, <1>8, <2>3, <3>1 DEF WasDue
        <3>2. CASE n # Len(results) + 1
            <4>1. n \in 1..Len(results) /\ results'[n] = results[n]
                BY <1>5, <2>2, <3>2
            <4>2. WasDue(n)
                BY <1>4, <4>1
            <4>3. QED
                BY <1>3, <4>1, <4>2 DEF WasDue
        <3>3. QED
            BY <3>1, <3>2
    <2>7. QED
        BY <1>2, <2>5, <2>6 DEF ComparedSoFar
<1>9. QED
    BY <1>7, <1>8

LEMMA ComparisonInit == CommandInit => ComparisonInvariant
<1> SUFFICES ASSUME CommandInit
             PROVE  ComparisonInvariant
    OBVIOUS
<1>1. step = "idle"
    BY DEF CommandInit
<1>2. QED
    BY <1>1, SourceInit DEF ComparisonInvariant, ComparedSoFar, Done

LEMMA ComparisonStep ==
    ASSUME ComparisonInvariant, [CommandNext]_commandVars
    PROVE  ComparisonInvariant'
<1>0. SourceInvariant' /\ CommandTypeOK /\ ComparedSoFar
    BY SourceStep DEF ComparisonInvariant, SourceInvariant
<1> SUFFICES ComparedSoFar'
    BY <1>0 DEF ComparisonInvariant
<1>1. CASE Start
    <2>1. /\ step' \in {"proxySource", "bytecode", "print"}
          /\ metas' = <<>> /\ results' = <<>> /\ position' = 0
        BY <1>1 DEF Start, NothingNoted
    <2>2. Len(results') = 0
        BY <2>1, EmptySeq
    <2>3. \A k \in 1..Len(Pairs') : ~ (k <= position')
        BY <2>1
    <2>4. QED
        BY <2>1, <2>2, <2>3 DEF ComparedSoFar
<1>2. CASE NoSource \/ EmptyDirectory \/ SourceSaved
    <2>1. step \in {"proxySource", "logicSources"} /\ step' \in {"proxySource", "logicSources"}
        BY <1>0, <1>2 DEF NoSource, EmptyDirectory, SourceSaved, Note, Downloading, CommandTypeOK
    <2>2. results' = results /\ position' = position
        BY <1>2 DEF NoSource, EmptyDirectory, SourceSaved, resultVars
    <2>3. QED
        BY <1>0, <2>1, <2>2 DEF ComparedSoFar, Done
<1>3. CASE SourcesDone
    <2>1. step = "logicSources" /\ step' = "slither" /\ results' = results /\ position' = position
        BY <1>3 DEF SourcesDone, resultVars
    <2>2. results' = <<>> /\ position' = 0
        BY <1>0, <2>1 DEF ComparedSoFar
    <2>3. Len(results') = 0
        BY <2>2, EmptySeq
    <2>4. \A k \in 1..Len(Pairs') : ~ (k <= position')
        BY <2>2
    <2>5. QED
        BY <2>1, <2>3, <2>4 DEF ComparedSoFar
<1>4. CASE RunSlither
    BY <1>4, NextCompared
<1>5. CASE SlitherDone \/ CompareBytecode \/ PrintResult
    <2>1. /\ step \in {"slither", "bytecode", "print"}
          /\ step' \in {"bytecode", "print", "printed"}
          /\ UNCHANGED <<metas, proxyMeta, results, position>>
          /\ step = "slither" => position >= Len(Pairs)
        BY <1>5 DEF SlitherDone, CompareBytecode, PrintResult, sourceVars, resultVars
    <2>2. Done
        BY <2>1 DEF Done
    <2>3. QED
        BY <1>0, <2>1, <2>2, NothingCompared
<1>6. CASE Crash
    BY <1>6 DEF Crash, ComparedSoFar, Done
<1>7. CASE UNCHANGED commandVars
    <2>1. UNCHANGED <<step, metas, proxyMeta, results, position>>
        BY <1>7 DEF commandVars, sourceVars, resultVars
    <2>2. CASE Done
        BY <1>0, <2>1, <2>2, NothingCompared DEF Done
    <2>3. CASE ~ Done
        BY <1>0, <2>1, <2>3 DEF ComparedSoFar, Done
    <2>4. QED
        BY <2>2, <2>3
<1>8. QED
    BY <1>1, <1>2, <1>3, <1>4, <1>5, <1>6, <1>7 DEF CommandNext, Work

\* The inductive invariant of the comparisons.
THEOREM ComparisonsAreInvariant == CommandSpec => []ComparisonInvariant
<1>1. CommandInit => ComparisonInvariant
    BY ComparisonInit
<1>2. ComparisonInvariant /\ [CommandNext]_commandVars => ComparisonInvariant'
    BY ComparisonStep
<1>3. QED
    BY <1>1, <1>2, PTL DEF CommandSpec

\* When the invariant holds and check_slither is through, the versions with a
\* source have been compared in a row, and the proxy with the newest.
LEMMA AllCompared ==
    ASSUME ComparisonInvariant, step \in {"bytecode", "print", "printed"}, metas # <<>>
    PROVE  /\ Len(metas) = Len(logics) /\ Len(metas) \in Nat \ {0}
           /\ \A k \in 1..Len(Pairs) : HasResult(k)
           /\ \A n \in 1..Len(results) : WasDue(n)
<1>1. SourceInvariant /\ CommandTypeOK /\ ComparedSoFar
    BY DEF ComparisonInvariant, SourceInvariant
<1>2. metas \in Seq(Address \cup {Missing}) /\ Len(metas) \in Nat \ {0}
    BY <1>1, EmptySeq DEF CommandTypeOK
<1>3. Len(metas) = Len(logics)
    BY <1>1 DEF SourceInvariant, AllNoted
<1>4. position >= Len(Pairs) /\ position \in Nat /\ Len(Pairs) = Len(metas)
    <2>1. position >= Len(Pairs)
        BY <1>1 DEF ComparedSoFar
    <2>2. position \in Nat
        BY <1>1, BoundsAssumption DEF CommandTypeOK
    <2>3. QED
        BY <1>2, <2>1, <2>2, PairsProperties
<1>5. /\ \A k \in 1..Len(Pairs) : k <= position => HasResult(k)
      /\ \A n \in 1..Len(results) : WasDue(n)
    BY <1>1 DEF ComparedSoFar, Done
<1>6. \A k \in 1..Len(Pairs) : k <= position
    BY <1>2, <1>4
<1>7. QED
    BY <1>2, <1>3, <1>5, <1>6

\* What is printed compares the proxy with its newest logic contract and each
\* version with the next one, where there are sources, and nothing else.
THEOREM VersionsCorrect == CommandSpec => []VersionsCompared
<1>1. ComparisonInvariant => VersionsCompared
    <2> DEFINE last == Len(logics)
               adjacent == {n \in 1..(last - 1) : metas[n] # Missing /\ metas[n + 1] # Missing}
    <2> SUFFICES ASSUME ComparisonInvariant, step \in {"bytecode", "print", "printed"},
                        metas # <<>>
                 PROVE  /\ \A n \in adjacent : Compared(logics[n], logics[n + 1])
                        /\ proxyMeta # Missing /\ metas[last] # Missing =>
                                Compared(proxy, logics[last])
                        /\ \A n \in 1..Len(results) :
                            \/ results[n].first = proxy /\ results[n].second = logics[last]
                            \/ \E k \in adjacent :
                                    /\ results[n].first = logics[k]
                                    /\ results[n].second = logics[k + 1]
        BY DEF VersionsCompared
    <2>1. CommandTypeOK
        BY DEF ComparisonInvariant, SourceInvariant
    <2>2. /\ Len(metas) = last /\ last \in Nat \ {0}
          /\ \A k \in 1..Len(Pairs) : HasResult(k)
          /\ \A n \in 1..Len(results) : WasDue(n)
        BY AllCompared
    <2>3. Len(Pairs) = last /\ \A k \in 1..last :
            /\ Pairs[k][1] = IF k = 1 THEN proxyMeta ELSE metas[k - 1]
            /\ Pairs[k][2] = IF k = 1 THEN metas[last] ELSE metas[k]
        <3>1. Len(Pairs) = last
            BY <2>1, <2>2, PairsProperties DEF CommandTypeOK
        <3>2. QED
            BY <2>1, <2>2, <3>1, ComparisonProperties
    <2>4. /\ proxyMeta # Missing => proxyMeta = proxy
          /\ \A n \in 1..last : metas[n] # Missing => metas[n] = logics[n]
        BY <2>1, <2>2 DEF CommandTypeOK
    <2>5. ASSUME NEW n \in adjacent
          PROVE  Compared(logics[n], logics[n + 1])
        <3>1. n + 1 \in 1..last /\ n \in 1..last /\ n + 1 # 1 /\ (n + 1) - 1 = n
            BY <2>2
        <3>2. Pairs[n + 1][1] = metas[n] /\ Pairs[n + 1][2] = metas[n + 1]
            BY <2>3, <3>1
        <3>3. metas[n] # Missing /\ metas[n + 1] # Missing
            OBVIOUS
        <3>4. Compared(Pairs[n + 1][1], Pairs[n + 1][2])
            BY <2>2, <2>3, <3>1, <3>2, <3>3 DEF HasResult, HasBoth
        <3>5. QED
            BY <2>4, <3>1, <3>2, <3>3, <3>4
    <2>6. ASSUME proxyMeta # Missing, metas[last] # Missing
          PROVE  Compared(proxy, logics[last])
        <3>1. 1 \in 1..last /\ last \in 1..last
            BY <2>2
        <3>2. Pairs[1][1] = proxyMeta /\ Pairs[1][2] = metas[last]
            BY <2>3, <3>1
        <3>3. Compared(Pairs[1][1], Pairs[1][2])
            BY <2>2, <2>3, <2>6, <3>1, <3>2 DEF HasResult, HasBoth
        <3>4. QED
            BY <2>4, <2>6, <3>1, <3>2, <3>3
    <2>7. ASSUME NEW n \in 1..Len(results)
          PROVE  \/ results[n].first = proxy /\ results[n].second = logics[last]
                 \/ \E k \in adjacent :
                        results[n].first = logics[k] /\ results[n].second = logics[k + 1]
        <3>1. PICK k \in 1..last :
                /\ Pairs[k][1] # Missing /\ Pairs[k][2] # Missing
                /\ results[n].first = Pairs[k][1] /\ results[n].second = Pairs[k][2]
            BY <2>2, <2>3 DEF WasDue, HasBoth
        <3>2. CASE k = 1
            <4>1. last \in 1..last
                BY <2>2
            <4>2. QED
                BY <2>3, <2>4, <3>1, <3>2, <4>1
        <3>3. CASE k # 1
            <4>1. k - 1 \in 1..(last - 1) /\ k - 1 \in 1..last /\ (k - 1) + 1 = k
                BY <2>2, <3>3
            <4>2. Pairs[k][1] = metas[k - 1] /\ Pairs[k][2] = metas[k]
                BY <2>3, <3>3
            <4>3. k - 1 \in adjacent
                BY <3>1, <4>1, <4>2
            <4>4. results[n].first = logics[k - 1] /\ results[n].second = logics[(k - 1) + 1]
                BY <2>4, <3>1, <4>1, <4>2
            <4>5. QED
                BY <4>3, <4>4
        <3>4. QED
            BY <3>2, <3>3
    <2>8. QED
        BY <2>5, <2>6, <2>7
<1>2. QED
    BY <1>1, ComparisonsAreInvariant, PTL

----------------------------------------------------------------------------
(* The search for the slot of an SLOAD *)

Word == {None, Hashed} \cup {Concrete(v) : v \in Int}
Val == [word : Word, born : Nat, dups : SUBSET Nat]
Instruction == [name : STRING, n : Nat, operand : Int]

\* What was on the stack before the instruction at k was made before it.
MadeBefore(stack, k) ==
    \A j \in DOMAIN stack : stack[j].born < k /\ stack[j].dups \subseteq 1..(k - 1)

LEMMA UnknownIsVal == Unknown \in Val /\ None \in Word /\ Hashed \in Word
<1>1. None \in Word /\ Hashed \in Word
  BY DEF Word
<1>2. Unknown = [word |-> None, born |-> 0, dups |-> {}]
  BY DEF Unknown, Value
<1> HIDE DEF None
<1> QED
  BY <1>1, <1>2 DEF Val

\* The word at a position is a word of the stack or unknown.
LEMMA NthProperties ==
    ASSUME NEW stack \in Seq(Val), NEW n \in Nat \ {0}, NEW k \in Nat \ {0}, MadeBefore(stack, k)
    PROVE  /\ Nth(stack, n) \in Val
           /\ Nth(stack, n).born < k /\ Nth(stack, n).dups \subseteq 1..(k - 1)
<1>1. CASE n <= Len(stack)
  <2>1. n \in DOMAIN stack /\ stack[n] \in Val /\ Nth(stack, n) = stack[n]
    BY <1>1, ElementOfSeq, LenProperties DEF Nth
  <2> QED
    BY <2>1 DEF MadeBefore
<1>2. CASE ~ n <= Len(stack)
  <2>1. Nth(stack, n) = Unknown
    BY <1>2 DEF Nth
  <2>2. Unknown.born = 0 /\ Unknown.dups = {}
    BY DEF Unknown, Value
  <2> QED
    BY <2>1, <2>2, UnknownIsVal
<1> QED
  BY <1>1, <1>2

LEMMA DropProperties ==
    ASSUME NEW stack \in Seq(Val), NEW p \in Nat
    PROVE  /\ Drop(stack, p) \in Seq(Val)
           /\ Len(Drop(stack, p)) = IF p <= Len(stack) THEN Len(stack) - p ELSE 0
           /\ \A j \in DOMAIN Drop(stack, p) : j + p \in DOMAIN stack /\ Drop(stack, p)[j] = stack[j + p]
<1>1. Len(stack) \in Nat /\ DOMAIN stack = 1..Len(stack)
  BY LenProperties
<1>2. CASE p <= Len(stack)
  <2>1. \A j \in (p + 1)..Len(stack) : stack[j] \in Val
    BY <1>1, ElementOfSeq
  <2>2. p + 1 <= Len(stack) + 1 /\ p + 1 \in Nat /\ Len(stack) - (p + 1) + 1 = Len(stack) - p
    BY <1>1, <1>2
  <2>3. /\ Drop(stack, p) \in Seq(Val)
        /\ Len(Drop(stack, p)) = Len(stack) - p
        /\ \A j \in 1..(Len(stack) - p) : Drop(stack, p)[j] = stack[p + 1 + j - 1]
    <3>1. p + 1 \in Int /\ Len(stack) \in Int
      BY <1>1
    <3>2. /\ SubSeq(stack, p + 1, Len(stack)) \in Seq(Val)
          /\ Len(SubSeq(stack, p + 1, Len(stack))) =
                IF p + 1 <= Len(stack) THEN Len(stack) - (p + 1) + 1 ELSE 0
          /\ \A j \in 1..(Len(stack) - (p + 1) + 1) :
                SubSeq(stack, p + 1, Len(stack))[j] = stack[p + 1 + j - 1]
      BY <2>1, <3>1, SubSeqProperties
    <3>3. Len(SubSeq(stack, p + 1, Len(stack))) = Len(stack) - p
      BY <1>1, <1>2, <3>2
    <3> QED
      BY <2>2, <3>2, <3>3 DEF Drop
  <2>4. DOMAIN Drop(stack, p) = 1..(Len(stack) - p)
    BY <2>3, LenProperties
  <2>5. \A j \in 1..(Len(stack) - p) : j + p \in DOMAIN stack /\ p + 1 + j - 1 = j + p
    BY <1>1, <1>2
  <2> QED
    BY <1>2, <2>3, <2>4, <2>5
<1>3. CASE ~ p <= Len(stack)
  <2>1. Drop(stack, p) = <<>>
    BY <1>1, <1>3 DEF Drop
  <2> QED
    BY <2>1, <1>3
<1> QED
  BY <1>2, <1>3

\* Words that replace the p topmost ones.
LEMMA Replaced ==
    ASSUME NEW stack \in Seq(Val), NEW top \in Seq(Val), NEW p \in Nat, NEW n \in Nat \ {0}
    PROVE  /\ top \o Drop(stack, p) \in Seq(Val)
           /\ Nth(top \o Drop(stack, p), n) =
                IF n <= Len(top) THEN top[n] ELSE Nth(stack, n - Len(top) + p)
           /\ \A k \in Nat \ {0} : MadeBefore(stack, k) /\ MadeBefore(top, k + 1) =>
                    MadeBefore(top \o Drop(stack, p), k + 1)
<1> DEFINE rest == Drop(stack, p)
<1>1. /\ rest \in Seq(Val) /\ Len(top) \in Nat /\ Len(rest) \in Nat /\ Len(stack) \in Nat
      /\ Len(rest) = IF p <= Len(stack) THEN Len(stack) - p ELSE 0
      /\ \A j \in 1..Len(rest) : j + p \in DOMAIN stack /\ rest[j] = stack[j + p]
  <2>1. rest \in Seq(Val) /\ Len(rest) = IF p <= Len(stack) THEN Len(stack) - p ELSE 0
    BY DropProperties
  <2>2. \A j \in DOMAIN rest : j + p \in DOMAIN stack /\ rest[j] = stack[j + p]
    BY DropProperties
  <2> HIDE DEF rest
  <2>3. Len(top) \in Nat /\ Len(rest) \in Nat /\ Len(stack) \in Nat /\ DOMAIN rest = 1..Len(rest)
    BY <2>1
  <2> QED
    BY <2>1, <2>2, <2>3
<1> HIDE DEF rest
<1>2. /\ top \o rest \in Seq(Val) /\ Len(top \o rest) = Len(top) + Len(rest)
      /\ \A j \in 1..(Len(top) + Len(rest)) :
            (top \o rest)[j] = IF j <= Len(top) THEN top[j] ELSE rest[j - Len(top)]
  BY <1>1, ConcatProperties
<1>3. Nth(top \o rest, n) = IF n <= Len(top) THEN top[n] ELSE Nth(stack, n - Len(top) + p)
  <2>1. CASE n <= Len(top)
    BY <1>1, <1>2, <2>1 DEF Nth
  <2>2. CASE n > Len(top) /\ n <= Len(top) + Len(rest)
    <3>1. n - Len(top) \in 1..Len(rest) /\ n - Len(top) + p <= Len(stack)
      BY <1>1, <2>2
    <3>2. rest[n - Len(top)] = stack[n - Len(top) + p]
      BY <1>1, <3>1
    <3> QED
      BY <1>1, <1>2, <2>2, <3>1, <3>2 DEF Nth
  <2>3. CASE n > Len(top) + Len(rest)
    <3>1. ~ n - Len(top) + p <= Len(stack)
      BY <1>1, <2>3
    <3> QED
      BY <1>1, <1>2, <2>3, <3>1 DEF Nth
  <2> QED
    BY <1>1, <2>1, <2>2, <2>3
<1>4. ASSUME NEW k \in Nat \ {0}, MadeBefore(stack, k), MadeBefore(top, k + 1),
             NEW j \in DOMAIN (top \o rest)
      PROVE  (top \o rest)[j].born < k + 1 /\ (top \o rest)[j].dups \subseteq 1..k
  <2>1. CASE j <= Len(top)
    <3>1. j \in DOMAIN top /\ (top \o rest)[j] = top[j]
      BY <1>1, <1>2, <2>1, LenProperties
    <3> QED
      BY <1>4, <3>1 DEF MadeBefore
  <2>2. CASE ~ j <= Len(top)
    <3>1. j - Len(top) \in 1..Len(rest) /\ (top \o rest)[j] = rest[j - Len(top)]
      BY <1>1, <1>2, <2>2, LenProperties
    <3>2. j - Len(top) + p \in DOMAIN stack /\ (top \o rest)[j] = stack[j - Len(top) + p]
      BY <1>1, <3>1
    <3>3. stack[j - Len(top) + p].born < k /\ stack[j - Len(top) + p].dups \subseteq 1..(k - 1)
      BY <1>4, <3>2 DEF MadeBefore
    <3>4. stack[j - Len(top) + p].born \in Nat
      <4>1. stack[j - Len(top) + p] \in Val
        BY <3>2, ElementOfSeq
      <4> QED
        BY <4>1 DEF Val
    <3>5. stack[j - Len(top) + p].born < k + 1
      BY <3>3, <3>4
    <3>6. 1..(k - 1) \subseteq 1..k
      OBVIOUS
    <3> QED
      BY <3>2, <3>3, <3>5, <3>6
  <2> QED
    BY <2>1, <2>2
<1>5. \A k \in Nat \ {0} : MadeBefore(stack, k) /\ MadeBefore(top, k + 1) => MadeBefore(top \o rest, k + 1)
  <2> SUFFICES ASSUME NEW k \in Nat \ {0}, MadeBefore(stack, k), MadeBefore(top, k + 1)
               PROVE  MadeBefore(top \o rest, k + 1)
    OBVIOUS
  <2>1. (k + 1) - 1 = k
    OBVIOUS
  <2> QED
    BY <1>4, <2>1 DEF MadeBefore
<1> QED
  BY <1>2, <1>3, <1>5 DEF rest

LEMMA NthReplaced ==
    \A stack, top \in Seq(Val) : \A p \in Nat, n \in Nat \ {0} :
        Nth(top \o Drop(stack, p), n) =
            IF n <= Len(top) THEN top[n] ELSE Nth(stack, n - Len(top) + p)
  BY Replaced

\* Words that are pushed on the stack as it is.
LEMMA Pushed ==
    ASSUME NEW stack \in Seq(Val), NEW w \in Val, NEW k \in Nat \ {0}, MadeBefore(stack, k),
           w.born < k + 1, w.dups \subseteq 1..k
    PROVE  /\ <<w>> \o stack \in Seq(Val) /\ MadeBefore(<<w>> \o stack, k + 1)
           /\ \A n \in Nat \ {0} : Nth(<<w>> \o stack, n) = IF n = 1 THEN w ELSE Nth(stack, n - 1)
<1>1. Drop(stack, 0) = stack
  BY SubSeqFull DEF Drop
<1>2. <<w>> \in Seq(Val) /\ Len(<<w>>) = 1 /\ <<w>>[1] = w /\ 0 \in Nat
  OBVIOUS
<1>3. MadeBefore(<<w>>, k + 1)
  BY <1>2 DEF MadeBefore
<1>4. <<w>> \o stack \in Seq(Val) /\ MadeBefore(<<w>> \o stack, k + 1)
  BY <1>1, <1>2, <1>3, Replaced
<1>5. ASSUME NEW n \in Nat \ {0}
      PROVE  Nth(<<w>> \o stack, n) = IF n = 1 THEN w ELSE Nth(stack, n - 1)
  <2>1. Nth(<<w>> \o Drop(stack, 0), n) =
            IF n <= Len(<<w>>) THEN <<w>>[n] ELSE Nth(stack, n - Len(<<w>>) + 0)
    BY <1>2, NthReplaced, Zenon
  <2>2. CASE n = 1
    BY <1>1, <1>2, <2>1, <2>2
  <2>3. CASE n # 1
    <3>1. ~ n <= Len(<<w>>) /\ n - Len(<<w>>) + 0 = n - 1
      BY <1>2, <2>3
    <3> QED
      BY <1>1, <2>1, <2>3, <3>1
  <2> QED
    BY <2>2, <2>3
<1> QED
  BY <1>4, <1>5

\* SWAP exchanges the first word and the m-th.
LEMMA ExchangedProperties ==
    ASSUME NEW stack \in Seq(Val), NEW m \in Nat \ {0}, NEW k \in Nat \ {0}, MadeBefore(stack, k)
    PROVE  /\ Exchanged(stack, m) \in Seq(Val) /\ MadeBefore(Exchanged(stack, m), k + 1)
           /\ \A n \in Nat \ {0} : Nth(Exchanged(stack, m), n) =
                    Nth(stack, IF n = 1 THEN m ELSE IF n = m THEN 1 ELSE n)
<1> DEFINE whence(n) == IF n = 1 THEN m ELSE IF n = m THEN 1 ELSE n
           size == IF Len(stack) < m THEN m ELSE Len(stack)
<1>1. Len(stack) \in Nat /\ size \in Nat /\ size >= m /\ size >= Len(stack) /\ size >= 1
  BY LenProperties
<1>2. \A n \in Nat \ {0} : whence(n) \in Nat \ {0}
  OBVIOUS
<1>3. Exchanged(stack, m) = [j \in 1..size |-> Nth(stack, whence(j))]
  BY DEF Exchanged
<1> HIDE DEF size
<1>4. \A n \in Nat \ {0} : n > size => whence(n) = n
  BY <1>1
<1>5. \A n \in Nat \ {0} : /\ Nth(stack, whence(n)) \in Val /\ Nth(stack, whence(n)).born < k
                           /\ Nth(stack, whence(n)).dups \subseteq 1..(k - 1)
  BY <1>2, NthProperties
<1> HIDE DEF whence
<1>6. \A j \in 1..size : Nth(stack, whence(j)) \in Val
  BY <1>1, <1>5
<1>7. /\ Exchanged(stack, m) \in Seq(Val) /\ Len(Exchanged(stack, m)) = size
      /\ DOMAIN Exchanged(stack, m) = 1..size
      /\ \A j \in 1..size : Exchanged(stack, m)[j] = Nth(stack, whence(j))
  BY <1>1, <1>3, <1>6
<1>8. MadeBefore(Exchanged(stack, m), k + 1)
  <2> SUFFICES ASSUME NEW j \in 1..size
               PROVE  Exchanged(stack, m)[j].born < k + 1 /\ Exchanged(stack, m)[j].dups \subseteq 1..((k + 1) - 1)
    BY <1>7 DEF MadeBefore
  <2>1. Nth(stack, whence(j)).born < k /\ Nth(stack, whence(j)).dups \subseteq 1..(k - 1) /\ Nth(stack, whence(j)).born \in Nat
    BY <1>1, <1>5 DEF Val
  <2> QED
    BY <1>7, <2>1
<1>9. ASSUME NEW n \in Nat \ {0} PROVE Nth(Exchanged(stack, m), n) = Nth(stack, whence(n))
  <2>1. CASE n <= size
    BY <1>1, <1>7, <2>1 DEF Nth
  <2>2. CASE ~ n <= size
    <3>1. Nth(Exchanged(stack, m), n) = Unknown
      BY <1>1, <1>7, <2>2 DEF Nth
    <3>2. whence(n) = n /\ ~ n <= Len(stack)
      BY <1>1, <1>4, <2>2
    <3> QED
      BY <3>1, <3>2 DEF Nth
  <2> QED
    BY <2>1, <2>2
<1> QED
  BY <1>7, <1>8, <1>9 DEF whence

\* u is v before the instruction at k.
Earlier(u, v, k) == u.word = v.word /\ u.born = v.born /\ u.dups = v.dups \ {k}

LEMMA NotCopied ==
    ASSUME NEW stack \in Seq(Val), NEW n \in Nat \ {0}, NEW k \in Nat \ {0}, MadeBefore(stack, k)
    PROVE  Earlier(Nth(stack, n), Nth(stack, n), k)
<1>1. Nth(stack, n).dups \subseteq 1..(k - 1)
  BY NthProperties
<1>2. k \notin 1..(k - 1)
  OBVIOUS
<1>3. k \notin Nth(stack, n).dups
  BY <1>1, <1>2
<1> QED
  BY <1>3 DEF Earlier

Fetched(i) == i.name \in Copying => i.n > 0

LEMMA BackOverDup ==
    ASSUME NEW i \in Instruction, i.name = "DUP", Fetched(i),
           NEW stack \in Seq(Val), NEW k \in Nat \ {0}, MadeBefore(stack, k)
    PROVE  /\ Executed(stack, i, k) \in Seq(Val) /\ MadeBefore(Executed(stack, i, k), k + 1)
           /\ \A n \in Nat \ {0} : k \in Nth(Executed(stack, i, k), n).dups =>
                /\ Before(n, i) \in Nat \ {0}
                /\ Earlier(Nth(stack, Before(n, i)), Nth(Executed(stack, i, k), n), k)
<1> DEFINE u == Nth(stack, i.n)
           w == [u EXCEPT !.dups = @ \cup {k}]
<1>1. i.n \in Nat \ {0}
  BY DEF Fetched, Copying, Instruction
<1>2. u \in Val /\ u.born < k /\ u.dups \subseteq 1..(k - 1)
  BY <1>1, NthProperties
<1>3. Executed(stack, i, k) = <<w>> \o stack
  BY DEF Executed
<1> HIDE DEF u
<1>4. w \in Val /\ w.born = u.born /\ w.word = u.word /\ w.dups = u.dups \cup {k}
  BY <1>2 DEF Val
<1> HIDE DEF w
<1>5. w.born < k + 1 /\ w.dups \subseteq 1..k
  <2>1. u.born \in Nat /\ k \in 1..k /\ 1..(k - 1) \subseteq 1..k
    BY <1>2 DEF Val
  <2>2. w.born < k + 1
    BY <1>2, <1>4, <2>1
  <2>3. w.dups \subseteq 1..k
    BY <1>2, <1>4, <2>1
  <2> QED
    BY <2>2, <2>3
<1>6. /\ <<w>> \o stack \in Seq(Val) /\ MadeBefore(<<w>> \o stack, k + 1)
      /\ \A n \in Nat \ {0} : Nth(<<w>> \o stack, n) = IF n = 1 THEN w ELSE Nth(stack, n - 1)
  BY <1>4, <1>5, Pushed
<1>7. ASSUME NEW n \in Nat \ {0}, k \in Nth(Executed(stack, i, k), n).dups
      PROVE  Before(n, i) \in Nat \ {0} /\ Earlier(Nth(stack, Before(n, i)), Nth(Executed(stack, i, k), n), k)
  <2>1. Before(n, i) = i.n
    <3>1. Pops(i) = i.n /\ Pushes(i) = i.n + 1
      BY DEF Pops, Pushes, Copying, TakeTwo, TakeOne, OneWord
    <3>2. Before(n, i) = (Pops(i) + 1) + Pops(i) - Pushes(i)
      BY DEF Before
    <3> QED
      BY <1>1, <3>1, <3>2
  <2>2. n = 1
    <3> SUFFICES ASSUME n # 1 PROVE FALSE
      OBVIOUS
    <3>1. n - 1 \in Nat \ {0}
      OBVIOUS
    <3>a. Nth(Executed(stack, i, k), n) = Nth(stack, n - 1)
      BY <1>3, <1>6
    <3>2. Nth(stack, n - 1).dups \subseteq 1..(k - 1)
      BY <3>1, NthProperties
    <3>3. k \notin 1..(k - 1)
      OBVIOUS
    <3> QED
      BY <1>7, <3>a, <3>2, <3>3
  <2>3. Nth(Executed(stack, i, k), n) = w
    BY <1>3, <1>6, <2>2
  <2>4. k \notin u.dups
    <3>1. k \notin 1..(k - 1)
      OBVIOUS
    <3> QED
      BY <1>2, <3>1
  <2>5. Earlier(u, w, k)
    BY <1>4, <2>4 DEF Earlier
  <2> QED
    BY <1>1, <2>1, <2>3, <2>5 DEF u
<1> QED
  BY <1>3, <1>6, <1>7

LEMMA BackOverSwap ==
    ASSUME NEW i \in Instruction, i.name = "SWAP", Fetched(i),
           NEW stack \in Seq(Val), NEW k \in Nat \ {0}, MadeBefore(stack, k)
    PROVE  /\ Executed(stack, i, k) \in Seq(Val) /\ MadeBefore(Executed(stack, i, k), k + 1)
           /\ \A n \in Nat \ {0} :
                /\ Before(n, i) \in Nat \ {0}
                /\ Earlier(Nth(stack, Before(n, i)), Nth(Executed(stack, i, k), n), k)
<1>1. i.n \in Nat \ {0} /\ i.n + 1 \in Nat \ {0}
  BY DEF Instruction, Fetched, Copying
<1>2. Executed(stack, i, k) = Exchanged(stack, i.n + 1)
  BY DEF Executed
<1>3. /\ Exchanged(stack, i.n + 1) \in Seq(Val) /\ MadeBefore(Exchanged(stack, i.n + 1), k + 1)
      /\ \A n \in Nat \ {0} : Nth(Exchanged(stack, i.n + 1), n) =
            Nth(stack, IF n = 1 THEN i.n + 1 ELSE IF n = i.n + 1 THEN 1 ELSE n)
  BY <1>1, ExchangedProperties
<1>4. ASSUME NEW n \in Nat \ {0}
      PROVE  Before(n, i) \in Nat \ {0} /\ Earlier(Nth(stack, Before(n, i)), Nth(Executed(stack, i, k), n), k)
  <2>1. Before(n, i) = IF n = 1 THEN i.n + 1 ELSE IF n = i.n + 1 THEN 1 ELSE n
    <3>1. Pops(i) = i.n + 1 /\ Pushes(i) = i.n + 1
      BY DEF Pops, Pushes, Copying, TakeTwo, TakeOne, OneWord
    <3>2. Before(n, i) = Swapped(n, i) + Pops(i) - Pushes(i)
      BY DEF Before
    <3>3. Swapped(n, i) = IF n = 1 THEN i.n + 1 ELSE IF n = i.n + 1 THEN 1 ELSE n
      BY <3>1 DEF Swapped
    <3> QED
      BY <1>1, <3>1, <3>2, <3>3
  <2>2. Before(n, i) \in Nat \ {0}
    BY <1>1, <2>1
  <2>3. Nth(Executed(stack, i, k), n) = Nth(stack, Before(n, i))
    BY <1>2, <1>3, <2>1
  <2> QED
    BY <2>2, <2>3, NotCopied
<1> QED
  BY <1>2, <1>3, <1>4

LEMMA BackOverPush ==
    ASSUME NEW i \in Instruction, i.name = "PUSH",
           NEW stack \in Seq(Val), NEW k \in Nat \ {0}, MadeBefore(stack, k)
    PROVE  /\ Executed(stack, i, k) \in Seq(Val) /\ MadeBefore(Executed(stack, i, k), k + 1)
           /\ Nth(Executed(stack, i, k), 1) = Value(Concrete(i.operand), k, {})
           /\ \A n \in Nat \ {0} : n # 1 =>
                /\ Before(n, i) \in Nat \ {0}
                /\ Earlier(Nth(stack, Before(n, i)), Nth(Executed(stack, i, k), n), k)
<1> DEFINE w == Value(Concrete(i.operand), k, {})
<1>1. Executed(stack, i, k) = <<w>> \o stack
  BY DEF Executed
<1>2. w \in Val /\ w.born = k /\ w.dups = {}
  <2>1. Concrete(i.operand) \in Word
    BY DEF Word, Instruction
  <2> HIDE DEF Concrete
  <2> QED
    BY <2>1 DEF Value, Val
<1> HIDE DEF w
<1>3. w.born < k + 1 /\ w.dups \subseteq 1..k
  BY <1>2
<1>4. /\ <<w>> \o stack \in Seq(Val) /\ MadeBefore(<<w>> \o stack, k + 1)
      /\ \A n \in Nat \ {0} : Nth(<<w>> \o stack, n) = IF n = 1 THEN w ELSE Nth(stack, n - 1)
  BY <1>2, <1>3, Pushed
<1>5. ASSUME NEW n \in Nat \ {0}, n # 1
      PROVE  Before(n, i) \in Nat \ {0} /\ Earlier(Nth(stack, Before(n, i)), Nth(Executed(stack, i, k), n), k)
  <2>1. Pops(i) = 0 /\ Pushes(i) = 1
    BY DEF Pops, Pushes, Copying, TakeTwo, TakeOne, OneWord
  <2>2. Before(n, i) = n + Pops(i) - Pushes(i)
    BY DEF Before
  <2>3. Before(n, i) = n - 1 /\ n - 1 \in Nat \ {0}
    BY <1>5, <2>1, <2>2
  <2>4. Nth(Executed(stack, i, k), n) = Nth(stack, n - 1)
    BY <1>1, <1>4, <1>5
  <2> QED
    BY <2>3, <2>4, NotCopied
<1>6. Nth(Executed(stack, i, k), 1) = w
  BY <1>1, <1>4
<1> QED
  BY <1>1, <1>4, <1>5, <1>6 DEF w

\* The others put words without a constant, or a digest, on top.
LEMMA BackOverOther ==
    ASSUME NEW i \in Instruction, i.name \notin Copying, i.name # "PUSH",
           NEW stack \in Seq(Val), NEW k \in Nat \ {0}, MadeBefore(stack, k)
    PROVE  /\ Executed(stack, i, k) \in Seq(Val) /\ MadeBefore(Executed(stack, i, k), k + 1)
           /\ \A n \in Nat \ {0} : Nth(Executed(stack, i, k), n).word # None =>
                \/ i.name = "SHA3" /\ n = 1 /\ Nth(Executed(stack, i, k), n) = Value(Hashed, k, {})
                \/ /\ ~ (i.name = "SHA3" /\ n = 1) /\ Before(n, i) \in Nat \ {0}
                   /\ Earlier(Nth(stack, Before(n, i)), Nth(Executed(stack, i, k), n), k)
<1>1. PICK word \in {None, Hashed} :
        /\ Executed(stack, i, k) = [j \in 1..Pushes(i) |-> Value(word, k, {})] \o Drop(stack, Pops(i))
        /\ word = Hashed <=> i.name = "SHA3"
        /\ i.name = "SHA3" => Pushes(i) = 1
  <2>1. CASE i.name = "SHA3"
    <3>1. Pushes(i) = 1 /\ Pops(i) = 2
      BY <2>1 DEF Pushes, Pops, Copying, OneWord, TakeTwo, TakeOne
    <3>2. Executed(stack, i, k) = <<Value(Hashed, k, {})>> \o Drop(stack, 2)
      BY <2>1 DEF Executed
    <3>3. <<Value(Hashed, k, {})>> = [j \in 1..1 |-> Value(Hashed, k, {})]
      OBVIOUS
    <3> QED
      BY <2>1, <3>1, <3>2, <3>3
  <2>2. CASE i.name # "SHA3"
    <3>1. Executed(stack, i, k) = [j \in 1..Pushes(i) |-> Value(None, k, {})] \o Drop(stack, Pops(i))
      BY <2>2 DEF Executed, Copying
    <3>2. None # Hashed
      BY DEF None, Hashed
    <3> QED
      BY <2>2, <3>1, <3>2
  <2> QED
    BY <2>1, <2>2
<1> DEFINE w == Value(word, k, {})
           top == [j \in 1..Pushes(i) |-> w]
<1>2. Pops(i) \in Nat /\ Pushes(i) \in {0, 1}
  BY DEF Pops, Pushes, Copying, TakeTwo, TakeOne, OneWord
<1>3. w \in Val /\ w.born = k /\ w.dups = {} /\ w.word = word
  BY UnknownIsVal DEF Value, Val
<1> HIDE DEF w
<1>4. top \in Seq(Val) /\ Len(top) = Pushes(i) /\ \A j \in 1..Pushes(i) : top[j] = w
  BY <1>2, <1>3
<1>5. MadeBefore(top, k + 1)
  BY <1>2, <1>3, <1>4 DEF MadeBefore
<1>6. Executed(stack, i, k) = top \o Drop(stack, Pops(i))
  BY <1>1 DEF w
<1> HIDE DEF top
<1>7. Executed(stack, i, k) \in Seq(Val) /\ MadeBefore(Executed(stack, i, k), k + 1)
  BY <1>2, <1>4, <1>5, <1>6, Replaced
<1>8. ASSUME NEW n \in Nat \ {0}, Nth(Executed(stack, i, k), n).word # None
      PROVE  \/ i.name = "SHA3" /\ n = 1 /\ Nth(Executed(stack, i, k), n) = Value(Hashed, k, {})
             \/ /\ ~ (i.name = "SHA3" /\ n = 1) /\ Before(n, i) \in Nat \ {0}
                /\ Earlier(Nth(stack, Before(n, i)), Nth(Executed(stack, i, k), n), k)
  <2>1. Nth(Executed(stack, i, k), n) =
            IF n <= Len(top) THEN top[n] ELSE Nth(stack, n - Len(top) + Pops(i))
    <3>1. Pops(i) \in Nat /\ top \in Seq(Val)
      BY <1>2, <1>4
    <3>2. Nth(top \o Drop(stack, Pops(i)), n) =
            IF n <= Len(top) THEN top[n] ELSE Nth(stack, n - Len(top) + Pops(i))
      BY <3>1, NthReplaced, Zenon
    <3> QED
      BY <1>6, <3>2
  <2>2. CASE n <= Len(top)
    <3>1. n = 1 /\ Nth(Executed(stack, i, k), n) = w
      BY <1>2, <1>4, <2>1, <2>2
    <3>2. i.name = "SHA3" /\ word = Hashed
      BY <1>1, <1>3, <1>8, <3>1
    <3> QED
      BY <3>1, <3>2 DEF w
  <2>3. CASE ~ n <= Len(top)
    <3>1. Before(n, i) = n + Pops(i) - Pushes(i)
      BY DEF Before, Copying
    <3>2. Before(n, i) = n - Len(top) + Pops(i) /\ Before(n, i) \in Nat \ {0}
      BY <1>2, <1>4, <2>3, <3>1
    <3>3. ~ (i.name = "SHA3" /\ n = 1)
      BY <1>1, <1>4, <2>3
    <3>4. Nth(Executed(stack, i, k), n) = Nth(stack, Before(n, i))
      BY <2>1, <2>3, <3>2
    <3> QED
      BY <3>2, <3>3, <3>4, NotCopied
  <2> QED
    BY <1>2, <1>4, <2>2, <2>3
<1> QED
  BY <1>7, <1>8

\* The EVM's stacks are stacks, with words made by the instructions before.
LEMMA ExecutedType ==
    ASSUME NEW i \in Instruction, Fetched(i),
           NEW stack \in Seq(Val), NEW k \in Nat \ {0}, MadeBefore(stack, k)
    PROVE  Executed(stack, i, k) \in Seq(Val) /\ MadeBefore(Executed(stack, i, k), k + 1)
<1>1. CASE i.name = "DUP"
  BY <1>1, BackOverDup
<1>2. CASE i.name = "SWAP"
  BY <1>2, BackOverSwap
<1>3. CASE i.name = "PUSH"
  BY <1>3, BackOverPush
<1>4. CASE i.name \notin Copying /\ i.name # "PUSH"
  BY <1>4, BackOverOther
<1> QED
  BY <1>1, <1>2, <1>3, <1>4 DEF Copying

\* One round of the loop: the word is what the instruction pushes, or it was at
\* the index Before gives.
LEMMA StepBack ==
    ASSUME NEW i \in Instruction, Fetched(i),
           NEW stack \in Seq(Val), NEW k \in Nat \ {0}, MadeBefore(stack, k),
           NEW n \in Nat \ {0}, Nth(Executed(stack, i, k), n).word # None,
           i.name = "DUP" => k \in Nth(Executed(stack, i, k), n).dups
    PROVE  \/ /\ i.name = "PUSH" /\ n = 1
              /\ Nth(Executed(stack, i, k), n) = Value(Concrete(i.operand), k, {})
           \/ i.name = "SHA3" /\ n = 1 /\ Nth(Executed(stack, i, k), n) = Value(Hashed, k, {})
           \/ /\ ~ (i.name \in {"PUSH", "SHA3"} /\ n = 1) /\ Before(n, i) \in Nat \ {0}
              /\ Earlier(Nth(stack, Before(n, i)), Nth(Executed(stack, i, k), n), k)
<1>1. CASE i.name = "DUP"
  <2>1. Before(n, i) \in Nat \ {0} /\ Earlier(Nth(stack, Before(n, i)), Nth(Executed(stack, i, k), n), k)
    BY <1>1, BackOverDup
  <2> QED
    BY <1>1, <2>1
<1>2. CASE i.name = "SWAP"
  <2>1. Before(n, i) \in Nat \ {0} /\ Earlier(Nth(stack, Before(n, i)), Nth(Executed(stack, i, k), n), k)
    BY <1>2, BackOverSwap
  <2> QED
    BY <1>2, <2>1
<1>3. CASE i.name = "PUSH"
  BY <1>3, BackOverPush
<1>4. CASE i.name \notin Copying /\ i.name # "PUSH"
  <2>1. \/ i.name = "SHA3" /\ n = 1 /\ Nth(Executed(stack, i, k), n) = Value(Hashed, k, {})
        \/ /\ ~ (i.name = "SHA3" /\ n = 1) /\ Before(n, i) \in Nat \ {0}
           /\ Earlier(Nth(stack, Before(n, i)), Nth(Executed(stack, i, k), n), k)
    BY <1>4, BackOverOther
  <2> QED
    BY <1>4, <2>1
<1> QED
  BY <1>1, <1>2, <1>3, <1>4 DEF Copying

----------------------------------------------------------------------------
(* The invariant *)

\* The search is on, or over, at an access.
Accessing ==
    /\ calls # <<>> => slot = {}
    /\ calls # <<>> \/ slot # {} =>
        /\ current \in DOMAIN contracts /\ at \in DOMAIN Program.code
        /\ Program.code[at].name \in Accesses

\* The stack before each instruction up to at is the EVM's.
StacksRight ==
    /\ stacks \in Seq(Seq(Val)) /\ Len(stacks) = at /\ stacks[1] = <<>>
    /\ \A k \in 1..at : MadeBefore(stacks[k], k)
    /\ current \in DOMAIN contracts =>
        /\ at <= Len(Program.code) + 1
        /\ \A k \in 1..(at - 1) : stacks[k + 1] = Executed(stacks[k], Program.code[k], k)

\* The word looked for is one that the search should find.
Findable ==
    /\ Program.code[at].name = "SLOAD"
    /\ Straight /\ Key.word # None /\ OwnCopies

\* index is where the word is on the stack after the instruction at pc, the copies
\* of it that are still to be passed are those up to pc, and no JUMPDEST was passed.
At(index, pc) ==
    /\ pc = at => index = 1
    /\ pc < at => /\ Nth(stacks[pc + 1], index).word = Key.word
                  /\ Nth(stacks[pc + 1], index).born = Key.born
                  /\ Nth(stacks[pc + 1], index).dups = Key.dups \cap (1..pc)
    /\ \A k \in (pc + 1)..at : Program.code[k].name # "JUMPDEST"

WordFollowed ==
    calls # <<>> /\ Findable =>
        \E index \in Nat \ {0}, pc \in 0..at :
            calls = <<Activation(index, pc, FALSE, {})>> /\ At(index, pc)

SearchInv ==
    /\ contracts = <<>> \/ contracts \in Checks
    /\ contracts = <<>> => at = 1
    /\ current \in Nat \ {0} /\ at \in Nat \ {0}
    /\ Accessing /\ StacksRight /\ WordFollowed /\ ReadSlotsRight

----------------------------------------------------------------------------
(* Its initial states and steps *)

LEMMA ProgramType ==
    ASSUME contracts \in Checks, current \in DOMAIN contracts
    PROVE  /\ Len(Program.code) \in Nat /\ DOMAIN Program.code = 1..Len(Program.code)
           /\ \A k \in DOMAIN Program.code : Program.code[k] \in Instruction /\ Fetched(Program.code[k])
           /\ DOMAIN Program.incoming = DOMAIN Program.code
<1>1. /\ contracts \in Seq([code : Seq(Instruction), incoming : Seq(SUBSET Nat)])
      /\ \A m \in DOMAIN contracts :
            /\ Len(contracts[m].incoming) = Len(contracts[m].code)
            /\ \A k \in DOMAIN contracts[m].code :
                    contracts[m].code[k].name \in Copying => contracts[m].code[k].n > 0
  BY CheckAssumption DEF Instruction
<1>2. Program \in [code : Seq(Instruction), incoming : Seq(SUBSET Nat)]
  <2>1. current \in 1..Len(contracts)
    BY <1>1, LenProperties
  <2> QED
    BY <1>1, <2>1, ElementOfSeq DEF Program
<1>3. Program.code \in Seq(Instruction) /\ Program.incoming \in Seq(SUBSET Nat)
  BY <1>2
<1>4. Len(Program.incoming) = Len(Program.code)
  BY <1>1 DEF Program
<1>5. /\ Len(Program.code) \in Nat /\ DOMAIN Program.code = 1..Len(Program.code)
      /\ DOMAIN Program.incoming = 1..Len(Program.incoming)
  BY <1>3, LenProperties
<1>6. ASSUME NEW k \in DOMAIN Program.code
      PROVE  Program.code[k] \in Instruction /\ Fetched(Program.code[k])
  <2>1. Program.code[k] \in Instruction
    BY <1>3, <1>5, <1>6, ElementOfSeq
  <2>2. Fetched(Program.code[k])
    BY <1>1, <1>6 DEF Fetched, Program
  <2> QED
    BY <2>1, <2>2
<1> QED
  BY <1>4, <1>5, <1>6

LEMMA SearchStarts == SearchInit => SearchInv
<1> SUFFICES ASSUME SearchInit PROVE SearchInv
  OBVIOUS
<1> USE DEF SearchInit
<1>1. DOMAIN contracts = {} /\ DOMAIN stacks = {1} /\ stacks[1] = <<>> /\ Len(stacks) = 1
  OBVIOUS
<1>2. stacks \in Seq(Seq(Val))
  <2>1. <<>> \in Seq(Val)
    OBVIOUS
  <2> QED
    BY <2>1
<1>3. Accessing /\ WordFollowed /\ ReadSlotsRight
  BY DEF Accessing, WordFollowed, ReadSlotsRight, KeyRight
<1>4. StacksRight
  BY <1>1, <1>2 DEF StacksRight, MadeBefore
<1> QED
  BY <1>3, <1>4 DEF SearchInv

LEMMA ContractsType ==
    ASSUME SearchInv
    PROVE  /\ Len(contracts) \in Nat /\ DOMAIN contracts = 1..Len(contracts)
           /\ contracts = <<>> => Len(contracts) = 0
           /\ contracts # <<>> => contracts \in Checks
<1>1. CASE contracts = <<>>
  BY <1>1
<1>2. CASE contracts \in Checks
  <2>1. contracts # <<>> /\ contracts \in Seq([code : Seq(Instruction), incoming : Seq(SUBSET Nat)])
    BY <1>2, CheckAssumption DEF Instruction
  <2> QED
    BY <1>2, <2>1, LenProperties
<1> QED
  BY <1>1, <1>2 DEF SearchInv

LEMMA InCodeAt ==
    ASSUME SearchInv, InCode
    PROVE  /\ contracts \in Checks /\ current \in DOMAIN contracts
           /\ Len(Program.code) \in Nat /\ DOMAIN Program.code = 1..Len(Program.code)
           /\ at \in DOMAIN Program.code
<1>1. contracts \in Checks /\ current \in DOMAIN contracts
  BY ContractsType DEF SearchInv, InCode
<1>2. Len(Program.code) \in Nat /\ DOMAIN Program.code = 1..Len(Program.code)
  BY <1>1, ProgramType
<1> QED
  BY <1>1, <1>2 DEF SearchInv, InCode

\* The EVM's stacks after one more instruction.
LEMMA StacksGoOn ==
    ASSUME SearchInv, InCode, NextInstruction, UNCHANGED <<contracts, current>>
    PROVE  StacksRight' /\ at' \in Nat \ {0}
<1>1. /\ contracts \in Checks /\ current \in DOMAIN contracts
      /\ Len(Program.code) \in Nat /\ DOMAIN Program.code = 1..Len(Program.code)
      /\ at \in DOMAIN Program.code
  BY InCodeAt
<1>2. /\ at \in Nat \ {0} /\ stacks \in Seq(Seq(Val)) /\ Len(stacks) = at /\ stacks[1] = <<>>
      /\ \A k \in 1..at : MadeBefore(stacks[k], k)
      /\ \A k \in 1..(at - 1) : stacks[k + 1] = Executed(stacks[k], Program.code[k], k)
  BY <1>1 DEF SearchInv, StacksRight
<1> DEFINE next == Executed(stacks[at], Program.code[at], at)
<1>3. next \in Seq(Val) /\ MadeBefore(next, at + 1)
  <2>1. Program.code[at] \in Instruction /\ Fetched(Program.code[at])
    BY <1>1, ProgramType
  <2>2. stacks[at] \in Seq(Val) /\ MadeBefore(stacks[at], at)
    BY <1>2, ElementOfSeq
  <2> QED
    BY <1>2, <2>1, <2>2, ExecutedType
<1>4. at' = at + 1 /\ stacks' = Append(stacks, next) /\ contracts' = contracts /\ current' = current
      /\ Program' = Program
  BY DEF NextInstruction, Program
<1>5. next = Executed(stacks[at], Program.code[at], at)
  OBVIOUS
<1> HIDE DEF next
<1>6. /\ stacks' \in Seq(Seq(Val)) /\ Len(stacks') = at + 1 /\ stacks'[at + 1] = next
      /\ \A k \in 1..at : stacks'[k] = stacks[k]
  BY <1>2, <1>3, <1>4
<1>7. \A k \in 1..at : stacks'[k + 1] = Executed(stacks'[k], Program.code[k], k)
  <2> SUFFICES ASSUME NEW k \in 1..at PROVE stacks'[k + 1] = Executed(stacks[k], Program.code[k], k)
    BY <1>6
  <2>1. CASE k = at
    BY <1>5, <1>6, <2>1
  <2>2. CASE k # at
    <3>1. k \in 1..(at - 1) /\ k + 1 \in 1..at
      BY <1>2, <2>2
    <3> QED
      BY <1>2, <1>6, <3>1
  <2> QED
    BY <2>1, <2>2
<1>8. \A k \in 1..(at + 1) : MadeBefore(stacks'[k], k)
  <2> SUFFICES ASSUME NEW k \in 1..(at + 1) PROVE MadeBefore(stacks'[k], k)
    OBVIOUS
  <2>1. CASE k = at + 1
    BY <1>3, <1>6, <2>1
  <2>2. CASE k # at + 1
    <3>1. k \in 1..at
      BY <1>2, <2>2
    <3> QED
      BY <1>2, <1>6, <3>1
  <2> QED
    BY <2>1, <2>2
<1>9. at + 1 \in Nat \ {0} /\ (at + 1) - 1 = at /\ at + 1 <= Len(Program.code) + 1 /\ 1 \in 1..at
  BY <1>1, <1>2
<1>10. stacks'[1] = <<>>
  BY <1>2, <1>6, <1>9
<1> QED
  BY <1>1, <1>4, <1>6, <1>7, <1>8, <1>9, <1>10 DEF StacksRight

LEMMA PassKeepsInv ==
    ASSUME SearchInv, Pass
    PROVE  SearchInv'
<1>1. StacksRight' /\ at' \in Nat \ {0}
  BY StacksGoOn DEF Pass
<1>2. contracts # <<>> /\ contracts' = contracts /\ current' = current
  BY ContractsType DEF Pass, InCode, SearchInv
<1>3. calls = <<>> /\ slot = {} /\ calls' = <<>> /\ slot' = {}
  BY DEF SearchInv, Accessing, Pass
<1>4. Accessing' /\ WordFollowed' /\ ReadSlotsRight'
  BY <1>3 DEF Accessing, WordFollowed, ReadSlotsRight, KeyRight
<1> QED
  BY <1>1, <1>2, <1>4 DEF SearchInv

LEMMA KeepKeepsInv ==
    ASSUME SearchInv, Keep
    PROVE  SearchInv'
<1>1. /\ current \in DOMAIN contracts /\ at \in DOMAIN Program.code /\ contracts # <<>>
      /\ calls = <<>>
  BY DEF SearchInv, Accessing, Keep
<1>2. InCode
  <2>1. contracts \in Checks
    BY <1>1 DEF SearchInv
  <2>2. Len(Program.code) \in Nat /\ DOMAIN Program.code = 1..Len(Program.code)
    BY <1>1, <2>1, ProgramType
  <2> QED
    BY <1>1, <2>2, ContractsType DEF InCode, SearchInv
<1>3. StacksRight' /\ at' \in Nat \ {0}
  BY <1>2, StacksGoOn DEF Keep
<1>4. calls' = <<>> /\ slot' = {} /\ contracts' = contracts /\ current' = current
  BY <1>1 DEF Keep
<1>5. Accessing' /\ WordFollowed' /\ ReadSlotsRight'
  BY <1>4 DEF Accessing, WordFollowed, ReadSlotsRight, KeyRight
<1> QED
  BY <1>1, <1>3, <1>4, <1>5 DEF SearchInv

LEMMA CodeLength ==
    ASSUME NEW c \in Checks, NEW m \in DOMAIN c
    PROVE  Len(c[m].code) \in Nat
<1>1. c \in Seq([code : Seq(Instruction), incoming : Seq(SUBSET Nat)])
  BY CheckAssumption DEF Instruction
<1>2. c[m].code \in Seq(Instruction)
  <2>1. m \in 1..Len(c)
    BY <1>1, LenProperties
  <2>2. c[m] \in [code : Seq(Instruction), incoming : Seq(SUBSET Nat)]
    BY <1>1, <2>1, ElementOfSeq
  <2> QED
    BY <2>2
<1> QED
  BY <1>2, LenProperties

\* A search begins with the empty stack.
LEMMA BottomRight ==
    ASSUME stacks' = << <<>> >>, at' = 1, contracts' \in Checks \/ contracts' = <<>>
    PROVE  StacksRight'
<1>1. stacks' \in Seq(Seq(Val)) /\ Len(stacks') = 1 /\ stacks'[1] = <<>>
  <2>1. <<>> \in Seq(Val)
    OBVIOUS
  <2> QED
    BY <2>1
<1>2. \A k \in 1..1 : MadeBefore(stacks'[k], k)
  <2>1. MadeBefore(<<>>, 1)
    BY DEF MadeBefore
  <2> QED
    BY <1>1, <2>1
<1>3. current' \in DOMAIN contracts' => 1 <= Len(Program'.code) + 1
  <2>1. ASSUME current' \in DOMAIN contracts' PROVE Len(Program'.code) \in Nat
    <3>1. contracts' \in Checks
      BY <2>1
    <3> QED
      BY <2>1, <3>1, CodeLength DEF Program
  <2> QED
    BY <2>1
<1>4. \A k \in 1..(1 - 1) : FALSE
  OBVIOUS
<1> QED
  BY <1>1, <1>2, <1>3, <1>4 DEF StacksRight

LEMMA NextContractKeepsInv ==
    ASSUME SearchInv, NextContract
    PROVE  SearchInv'
<1>1. contracts # <<>> /\ contracts \in Checks /\ current \in Nat \ {0} /\ at \in Nat
  BY DEF SearchInv, NextContract
<1>2. at \notin DOMAIN Program.code
  <2>1. Len(Program.code) \in Nat /\ DOMAIN Program.code = 1..Len(Program.code)
    BY <1>1, ProgramType DEF NextContract
  <2> QED
    BY <1>1, <2>1 DEF NextContract
<1>3. calls = <<>> /\ slot = {}
  BY <1>2 DEF SearchInv, Accessing
<1>4. /\ stacks' = << <<>> >> /\ at' = 1 /\ contracts' = contracts /\ current' = current + 1
      /\ calls' = <<>> /\ slot' = {}
  BY <1>3 DEF NextContract
<1>5. Accessing' /\ WordFollowed' /\ ReadSlotsRight'
  BY <1>4 DEF Accessing, WordFollowed, ReadSlotsRight, KeyRight
<1>6. StacksRight'
  BY <1>1, <1>4, BottomRight
<1>7. current' \in Nat \ {0} /\ at' \in Nat \ {0}
  BY <1>1, <1>4
<1> QED
  BY <1>1, <1>4, <1>5, <1>6, <1>7 DEF SearchInv

LEMMA CheckAdvancedKeepsInv ==
    ASSUME SearchInv, contracts = <<>>, NEW c \in Checks, CheckAdvanced(c)
    PROVE  SearchInv'
<1>1. /\ contracts' \in Checks /\ contracts' # <<>> /\ at' = 1 /\ at = 1 /\ current' = current
      /\ calls' = calls /\ slot' = slot /\ stacks' = stacks
  BY CheckAssumption DEF CheckAdvanced, SearchInv
<1>2. calls = <<>> /\ slot = {}
  BY DEF SearchInv, Accessing
<1>3. stacks = << <<>> >>
  <2>1. stacks \in Seq(Seq(Val)) /\ Len(stacks) = 1 /\ stacks[1] = <<>>
    BY <1>1 DEF SearchInv, StacksRight
  <2> HIDE DEF Val
  <2> QED
    BY <2>1
<1>4. Accessing' /\ WordFollowed' /\ ReadSlotsRight'
  BY <1>1, <1>2 DEF Accessing, WordFollowed, ReadSlotsRight, KeyRight
<1>5. StacksRight'
  BY <1>1, <1>3, BottomRight
<1>6. current' \in Nat \ {0} /\ at' \in Nat \ {0}
  BY <1>1 DEF SearchInv
<1> QED
  BY <1>1, <1>4, <1>5, <1>6 DEF SearchInv

LEMMA UnchangedKeepsInv ==
    ASSUME SearchInv, UNCHANGED <<contracts, current, at, calls, slot, stacks>>
    PROVE  SearchInv'
<1>1. Program' = Program /\ Key' = Key
  BY DEF Program, Key
<1>2. (OwnCopies <=> OwnCopies') /\ (Straight <=> Straight')
  BY <1>1 DEF OwnCopies, Straight
<1>3. WordFollowed'
  <2>1. Findable' <=> Findable
    BY <1>1, <1>2 DEF Findable
  <2>2. \A index \in Nat \ {0}, pc \in 0..at : At(index, pc)' <=> At(index, pc)
    BY <1>1 DEF At
  <2> QED
    BY <2>1, <2>2 DEF SearchInv, WordFollowed
<1>4. ReadSlotsRight'
  BY <1>1, <1>2 DEF SearchInv, ReadSlotsRight, KeyRight
<1>5. Accessing' /\ StacksRight'
  BY <1>1 DEF SearchInv, Accessing, StacksRight
<1> QED
  BY <1>3, <1>4, <1>5 DEF SearchInv

\* A search begins at the access, with the word on top.
LEMMA SearchKeepsInv ==
    ASSUME SearchInv, Search
    PROVE  SearchInv'
<1>1. /\ contracts \in Checks /\ current \in DOMAIN contracts /\ at \in DOMAIN Program.code
  BY InCodeAt DEF Search
<1>2. /\ calls' = <<Activation(1, at, FALSE, {})>> /\ slot' = {} /\ contracts' = contracts
      /\ current' = current /\ at' = at /\ stacks' = stacks /\ calls' # <<>>
  BY DEF Search
<1>3. Program' = Program
  BY <1>2 DEF Program
<1>4. Accessing'
  BY <1>1, <1>2, <1>3 DEF Accessing, Search
<1>5. StacksRight'
  BY <1>2, <1>3 DEF SearchInv, StacksRight
<1>6. WordFollowed'
  <2>1. at \in Nat \ {0}
    BY DEF SearchInv
  <2>2. At(1, at)'
    BY <1>2, <2>1 DEF At
  <2>3. 1 \in Nat \ {0} /\ at \in 0..at'
    BY <1>2, <2>1
  <2> QED
    BY <1>2, <2>2, <2>3 DEF WordFollowed
<1>7. ReadSlotsRight'
  BY <1>2 DEF ReadSlotsRight, KeyRight
<1> QED
  BY <1>1, <1>2, <1>4, <1>5, <1>6, <1>7 DEF SearchInv

\* One round of a search for a word that should be found.
LEMMA TraceFollows ==
    ASSUME SearchInv, calls # <<>>, Trace, Findable
    PROVE  /\ calls' # <<>> => slot' = slot /\
                \E index \in Nat \ {0}, pc \in 0..at :
                    calls' = <<Activation(index, pc, FALSE, {})>> /\ At(index, pc)
           /\ slot' # {} => slot' = {IF \E k \in Key.born..at : Program.code[k].name = "JUMPDEST"
                                     THEN None ELSE Key.word}
<1>1. PICK index \in Nat \ {0}, pc \in 0..at :
        calls = <<Activation(index, pc, FALSE, {})>> /\ At(index, pc)
  BY DEF SearchInv, WordFollowed
<1> DEFINE v == Nth(stacks[pc + 1], index)
<1>14. PICK c, i : c = Activation(index, pc, FALSE, {}) /\ i = Program.code[pc]
  OBVIOUS
<1>2. /\ Head(calls) = c /\ Tail(calls) = <<>> /\ Len(calls) = 1
      /\ c.index = index /\ c.pc = pc /\ c.looping = FALSE
  <2>1. calls = <<c>>
    BY <1>14, <1>1
  <2> QED
    BY <1>14, <2>1 DEF Activation
<1>13. ASSUME pc >= 1
  PROVE \/ i.name = "PUSH" /\ index = 1 /\ Return(Concrete(i.operand))
        \/ i.name = "SHA3" /\ index = 1 /\ Return(Hashed)
        \/ i.name = "JUMPDEST" /\ (Program.incoming[pc] = {} => Return(None))
        \/ /\ ~ (i.name \in {"PUSH", "SHA3"} /\ index = 1) /\ i.name # "JUMPDEST"
           /\ GoBack(c, i)
  <2>1. ~ pc < 1
    BY <1>13
  <2>2. (CASE i.name = "PUSH" /\ index = 1 -> Return(Concrete(i.operand))
          [] i.name = "SHA3" /\ index = 1 -> Return(Hashed)
          [] i.name = "JUMPDEST" ->
                IF Program.incoming[pc] = {} THEN Return(None)
                ELSE /\ calls' = <<[c EXCEPT !.looping = TRUE, !.pending = Program.incoming[pc]]>>
                                    \o Tail(calls)
                     /\ UNCHANGED <<visited, slot>>
          [] OTHER -> GoBack(c, i))
    BY <1>14, <1>2, <2>1, Zenon DEF Trace
  <2> QED
    BY <2>2
<1>3. /\ contracts \in Checks /\ current \in DOMAIN contracts /\ at \in DOMAIN Program.code
      /\ Len(Program.code) \in Nat /\ DOMAIN Program.code = 1..Len(Program.code)
  <2>1. current \in DOMAIN contracts /\ at \in DOMAIN Program.code
    BY DEF SearchInv, Accessing
  <2>2. contracts \in Checks
    BY <2>1 DEF SearchInv
  <2> QED
    BY <2>1, <2>2, ProgramType
<1>4. /\ at \in Nat \ {0} /\ stacks \in Seq(Seq(Val)) /\ Len(stacks) = at /\ stacks[1] = <<>>
      /\ \A k \in 1..at : MadeBefore(stacks[k], k)
      /\ \A k \in 1..(at - 1) : stacks[k + 1] = Executed(stacks[k], Program.code[k], k)
  BY <1>3 DEF SearchInv, StacksRight
<1>5. slot = {}
  BY DEF SearchInv, Accessing
<1>6. Key.word # None /\ Program.code[at].name = "SLOAD" /\ OwnCopies /\ Straight
  BY DEF Findable
<1>7. pc >= 1
  <2> SUFFICES ASSUME pc = 0 PROVE FALSE
    BY <1>4
  <2>1. pc < at /\ pc + 1 = 1
    BY <1>4
  <2>2. v = Unknown
    BY <1>4, <2>1 DEF Nth
  <2>3. v.word = Key.word
    BY <1>1, <2>1 DEF At
  <2> QED
    BY <1>6, <2>2, <2>3 DEF Unknown, Value
<1>8. pc \in DOMAIN Program.code /\ pc \in Nat \ {0} /\ pc \in 1..at
  BY <1>3, <1>4, <1>7
<1>9. i \in Instruction /\ Fetched(i) /\ Program.incoming[pc] = {}
  BY <1>14, <1>3, <1>6, <1>8, ProgramType DEF Straight
<1>10. stacks[pc] \in Seq(Val) /\ MadeBefore(stacks[pc], pc)
  BY <1>4, <1>8, ElementOfSeq
<1>11. CASE pc = at
  <2>1. index = 1 /\ i.name = "SLOAD"
    BY <1>14, <1>1, <1>6, <1>11 DEF At
  <2>2. GoBack(c, i)
    BY <1>13, <1>7, <2>1
  <2>3. Before(1, i) = 1
    <3>1. Pops(i) = 1 /\ Pushes(i) = 1
      BY <2>1 DEF Pops, Pushes, Copying, TakeTwo, TakeOne, OneWord
    <3>2. Before(1, i) = 1 + Pops(i) - Pushes(i)
      BY <2>1 DEF Before
    <3> QED
      BY <3>1, <3>2
  <2>4. calls' = <<Activation(1, at - 1, FALSE, {})>> /\ slot' = {}
    <3>1. calls' = <<Activation(1, at - 1, FALSE, {})>> \o <<>>
      BY <1>2, <1>11, <2>1, <2>2, <2>3, Zenon DEF GoBack
    <3>2. slot' = slot
      BY <2>2 DEF GoBack
    <3> QED
      BY <1>5, <3>1, <3>2
  <2>5. At(1, at - 1)
    <3>1. at - 1 # at /\ (at - 1) + 1 = at
      BY <1>4
    <3>2. Nth(stacks[at], 1) = Key /\ Key.dups \subseteq 1..(at - 1)
      <4>1. stacks[at] \in Seq(Val) /\ MadeBefore(stacks[at], at) /\ at \in Nat \ {0} /\ 1 \in Nat \ {0}
        BY <1>4, <1>10, <1>11
      <4>2. Nth(stacks[at], 1).dups \subseteq 1..(at - 1)
        BY <4>1, NthProperties
      <4> QED
        BY <4>2 DEF Key
    <3>3. \A k \in at..at : Program.code[k].name # "JUMPDEST"
      BY <1>4, <1>6
    <3> QED
      BY <3>1, <3>2, <3>3 DEF At
  <2>6. at - 1 \in 0..at
    BY <1>4
  <2>7. 1 \in Nat \ {0} /\ at - 1 \in 0..at
    BY <2>6
  <2>8. \E n \in Nat \ {0}, q \in 0..at : calls' = <<Activation(n, q, FALSE, {})>> /\ At(n, q)
    BY <2>4, <2>5, <2>7, Zenon
  <2> QED
    BY <1>5, <2>4, <2>8
<1>12. CASE pc < at
  <2>1. v = Nth(Executed(stacks[pc], i, pc), index)
    <3>1. pc \in 1..(at - 1)
      BY <1>4, <1>8, <1>12
    <3>2. stacks[pc + 1] = Executed(stacks[pc], i, pc)
      BY <1>14, <1>4, <3>1
    <3> QED
      BY <3>2
  <2>2. /\ v.word = Key.word /\ v.born = Key.born /\ v.dups = Key.dups \cap (1..pc)
        /\ \A k \in (pc + 1)..at : Program.code[k].name # "JUMPDEST"
    BY <1>1, <1>12 DEF At
  <2>3. v \in Val /\ v.born < pc + 1
    <3>1. stacks[pc + 1] \in Seq(Val) /\ MadeBefore(stacks[pc + 1], pc + 1) /\ pc + 1 \in Nat \ {0}
      BY <1>4, <1>8, <1>12, ElementOfSeq
    <3> QED
      BY <3>1, NthProperties
  <2> HIDE DEF v
  <2>4. Key.born \in Nat /\ Key.born <= pc
    BY <1>8, <2>2, <2>3 DEF Val
  <2>5. i.name = "DUP" => pc \in v.dups
    <3>1. pc \in Key.born..(at - 1) /\ pc > 0 /\ pc \in 1..pc
      BY <1>4, <1>8, <1>12, <2>4
    <3>2. i.name = "DUP" => pc \in Key.dups
      BY <1>14, <1>6, <3>1 DEF OwnCopies
    <3> QED
      BY <2>2, <3>1, <3>2
  <2>6. \/ i.name = "PUSH" /\ index = 1 /\ v = Value(Concrete(i.operand), pc, {})
        \/ i.name = "SHA3" /\ index = 1 /\ v = Value(Hashed, pc, {})
        \/ /\ ~ (i.name \in {"PUSH", "SHA3"} /\ index = 1) /\ Before(index, i) \in Nat \ {0}
           /\ Earlier(Nth(stacks[pc], Before(index, i)), v, pc)
    BY <1>6, <1>8, <1>9, <1>10, <2>1, <2>2, <2>5, StepBack
  <2>7. ASSUME NEW word, Return(word)
        PROVE  calls' = <<>> /\ slot' = {word}
    BY <1>2, <2>7 DEF Return
  <2>8. ASSUME i.name # "JUMPDEST", Key.born = pc
        PROVE  ~ \E k \in Key.born..at : Program.code[k].name = "JUMPDEST"
    BY <1>14, <1>4, <1>8, <2>2, <2>8
  <2>9. CASE i.name = "PUSH" /\ index = 1
    <3>1. v = Value(Concrete(i.operand), pc, {})
      BY <2>6, <2>9
    <3>2. Return(Concrete(i.operand))
      BY <1>13, <1>7, <2>9
    <3>3. Key.word = Concrete(i.operand) /\ Key.born = pc
      BY <2>2, <3>1 DEF Value
    <3> QED
      BY <2>7, <2>8, <2>9, <3>2, <3>3
  <2>10. CASE i.name = "SHA3" /\ index = 1
    <3>1. v = Value(Hashed, pc, {})
      BY <2>6, <2>10
    <3>2. Return(Hashed)
      BY <1>13, <1>7, <2>10
    <3>3. Key.word = Hashed /\ Key.born = pc
      BY <2>2, <3>1 DEF Value
    <3> QED
      BY <2>7, <2>8, <2>10, <3>2, <3>3
  <2>11. CASE i.name = "JUMPDEST"
    <3>1. Return(None)
      BY <1>13, <1>7, <1>9, <2>11
    <3>2. \E k \in Key.born..at : Program.code[k].name = "JUMPDEST"
      BY <1>14, <1>4, <1>8, <2>4, <2>11
    <3> QED
      BY <2>7, <3>1, <3>2
  <2>12. CASE ~ (i.name \in {"PUSH", "SHA3"} /\ index = 1) /\ i.name # "JUMPDEST"
    <3>1. GoBack(c, i)
      BY <1>13, <1>7, <2>12
    <3> DEFINE n == Before(index, i)
               u == Nth(stacks[pc], n)
    <3>2. n \in Nat \ {0} /\ Earlier(u, v, pc)
      BY <2>6, <2>12
    <3>3. calls' = <<Activation(n, pc - 1, FALSE, {})>> /\ slot' = {}
      <4>1. calls' = <<Activation(n, pc - 1, FALSE, {})>> \o <<>>
        BY <1>2, <3>1, Zenon DEF GoBack
      <4>2. slot' = slot
        BY <3>1 DEF GoBack
      <4> HIDE DEF n
      <4> QED
        BY <1>5, <4>1, <4>2
    <3> HIDE DEF n
    <3>4. u.word = Key.word /\ u.born = Key.born /\ u.dups = Key.dups \cap (1..(pc - 1))
      <4>1. 1..(pc - 1) = (1..pc) \ {pc}
        BY <1>8
      <4> QED
        BY <2>2, <3>2, <4>1 DEF Earlier
    <3>5. \A k \in pc..at : Program.code[k].name # "JUMPDEST"
      BY <1>14, <1>4, <1>8, <2>2, <2>12
    <3>6. (pc - 1) + 1 = pc /\ pc - 1 # at /\ pc - 1 \in 0..at
      BY <1>4, <1>8, <1>12
    <3>7. At(n, pc - 1)
      BY <3>4, <3>5, <3>6 DEF At
    <3> QED
      BY <1>5, <3>2, <3>3, <3>6, <3>7
  <2> QED
    BY <2>9, <2>10, <2>11, <2>12
<1>15. pc = at \/ pc < at
  BY <1>4, <1>8
<1> QED
  BY <1>11, <1>12, <1>15, Zenon

LEMMA TraceKeepsInv ==
    ASSUME SearchInv, Trace
    PROVE  SearchInv'
<1>1. UNCHANGED <<contracts, current, at, stacks>> /\ calls # <<>> /\ slot = {}
  BY DEF Trace, SearchInv, Accessing
<1>2. Program' = Program /\ Key' = Key
  BY <1>1 DEF Program, Key
<1>3. (OwnCopies <=> OwnCopies') /\ (Straight <=> Straight')
  BY <1>1, <1>2 DEF OwnCopies, Straight
<1>4. Findable' <=> Findable
  BY <1>1, <1>2, <1>3 DEF Findable
<1>5. \A index \in Nat \ {0}, pc \in 0..at : At(index, pc)' <=> At(index, pc)
  BY <1>1, <1>2 DEF At
<1>6. Accessing'
  <2>1. calls' # <<>> => slot' = {}
    BY <1>1 DEF Trace, Return, TryBlock, GoBack
  <2> QED
    BY <1>1, <1>2, <2>1 DEF SearchInv, Accessing
<1>7. StacksRight'
  BY <1>1, <1>2 DEF SearchInv, StacksRight
<1>8. WordFollowed'
  <2> SUFFICES ASSUME calls' # <<>>, Findable
               PROVE  \E index \in Nat \ {0}, pc \in 0..at' :
                            calls' = <<Activation(index, pc, FALSE, {})>> /\ At(index, pc)'
    BY <1>4 DEF WordFollowed
  <2>1. PICK index \in Nat \ {0}, pc \in 0..at :
            calls' = <<Activation(index, pc, FALSE, {})>> /\ At(index, pc)
    BY <1>1, TraceFollows
  <2> QED
    BY <1>1, <1>5, <2>1
<1>9. ReadSlotsRight'
  <2> SUFFICES ASSUME slot' # {}, Findable
               PROVE  slot' = {IF \E k \in Key.born..at : Program.code[k].name = "JUMPDEST"
                               THEN None ELSE Key.word}
    BY <1>1, <1>2, <1>3 DEF ReadSlotsRight, KeyRight, Findable
  <2> QED
    BY <1>1, TraceFollows
<1> QED
  BY <1>1, <1>6, <1>7, <1>8, <1>9 DEF SearchInv

\* The slot of an SLOAD in code without jumps is found, when it is a constant or a
\* digest that SWAPs, and DUPs of itself, have moved to the top: the index that
\* trace_op_input carries back is at each instruction where the EVM has the word,
\* whatever the program, its length and the depth of its stack.
THEOREM ReadSlotsAreRight == SearchSpec => []ReadSlotsRight
<1>1. SearchInit => SearchInv
  BY SearchStarts
<1>2. SearchInv /\ [SearchNext]_searchVars => SearchInv'
  <2> SUFFICES ASSUME SearchInv, [SearchNext]_searchVars PROVE SearchInv'
    OBVIOUS
  <2>1. CASE contracts = <<>> /\ \E c \in Checks : CheckAdvanced(c)
    BY <2>1, CheckAdvancedKeepsInv
  <2>2. CASE Pass
    BY <2>2, PassKeepsInv
  <2>3. CASE Search
    BY <2>3, SearchKeepsInv
  <2>4. CASE Trace
    BY <2>4, TraceKeepsInv
  <2>5. CASE Keep
    BY <2>5, KeepKeepsInv
  <2>6. CASE NextContract
    BY <2>6, NextContractKeepsInv
  <2>7. CASE Intersect
    <3>1. UNCHANGED <<contracts, current, at, calls, slot, stacks>>
      BY <2>7 DEF Intersect
    <3> QED
      BY <3>1, UnchangedKeepsInv
  <2>8. CASE UNCHANGED searchVars
    <3>1. UNCHANGED <<contracts, current, at, calls, slot, stacks>>
      BY <2>8 DEF searchVars
    <3> QED
      BY <3>1, UnchangedKeepsInv
  <2> QED
    BY <2>1, <2>2, <2>3, <2>4, <2>5, <2>6, <2>7, <2>8 DEF SearchNext
<1>3. SearchInv => ReadSlotsRight
  BY DEF SearchInv
<1> QED
  BY <1>1, <1>2, <1>3, PTL DEF SearchSpec

----------------------------------------------------------------------------
(* SourceTree *)

Path == Seq(Names)

\* The number of files whose remappings have been gone through.
FilesSeen == IF saving \in {"idle", "extract"} THEN file - 1 ELSE Len(sources)

\* The remappings that have been gone through.
RemappingsSeen ==
    IF FilesSeen = 0 THEN 1..(remap - 1) ELSE DOMAIN remappings

Changes(r) == r.from # r.to

Recs == [from : Path, slash : BOOLEAN, to : Path]

SaveTypeOK ==
    /\ saving \in {"idle", "extract", "write", "link"}
    /\ sources \in Seq(Path) /\ \A n \in DOMAIN sources : sources[n] # <<>>
    /\ saving = "idle" <=> sources = <<>>
    /\ remappings \in Seq(Recs) /\ kept \in Seq(Recs)
    /\ file \in 1..(Len(sources) + 1)
    /\ remap \in Nat \ {0}
    /\ saving \in {"idle", "extract"} => remap <= Len(remappings) + 1
    /\ saving \in {"idle", "extract"} => tree = EmptyTree

\* main is a file that was seen, one called like the contract if there was any.
MainSoFar ==
    /\ FilesSeen = 0 => main = <<>>
    /\ FilesSeen > 0 => \E n \in 1..FilesSeen : main = sources[n]
    /\ (\E n \in 1..FilesSeen : Last(sources[n]) = called) => Last(main) = called

\* The remappings that are kept are among those seen, none is within another, and
\* each one that was seen is within one that is kept.
KeptSoFar ==
    /\ \A n \in DOMAIN kept :
        \E j \in RemappingsSeen : kept[n] = remappings[j] /\ Changes(remappings[j])
    /\ \A n, m \in DOMAIN kept : n # m => ~ IsPrefix(kept[n].from, kept[m].from)
    /\ \A j \in RemappingsSeen :
        Changes(remappings[j]) => \E n \in DOMAIN kept : IsPrefix(kept[n].from, remappings[j].from)

Trees ==
    [files : SUBSET Path, dirs : SUBSET Path, links : UNION {[d -> Path] : d \in SUBSET Path},
     raised : BOOLEAN]

\* What the directory t holds when n files have been written.
HasFiles(t, n) ==
    /\ t \in Trees /\ ~ t.raised /\ t.links = NoLinks
    /\ t.files = {sources[k] : k \in 1..n}
    /\ \A d \in t.dirs : d = <<>> \/ \E k \in 1..n : IsStrictPrefix(d, sources[k])
    /\ \A k \in 1..n : Parents(sources[k]) \subseteq t.dirs

\* And when n remappings have been gone through after that.
HasLinks(t, n) ==
    /\ t \in Trees /\ ~ t.raised
    /\ t.files = ToSet(sources)
    /\ \A d \in t.dirs :
        \/ d = <<>>
        \/ \E s \in ToSet(sources) : IsStrictPrefix(d, s)
        \/ \E k \in 1..n : IsStrictPrefix(d, kept[k].from)
    /\ \A s \in ToSet(sources) : Parents(s) \subseteq t.dirs
    /\ \A p \in DOMAIN t.links : \E k \in 1..n : p = kept[k].from /\ t.links[p] = kept[k].to
    /\ \A k \in 1..n : \A s \in ToSet(sources) :
        IsStrictPrefix(kept[k].to, s) => kept[k].from \in DOMAIN t.links

SaveInv ==
    /\ SaveTypeOK /\ MainSoFar
    /\ Ordinary =>
        /\ KeptSoFar
        /\ saving = "write" => HasFiles(tree, file - 1)
        /\ saving = "link" => HasLinks(tree, remap - 1) /\ remap <= Len(kept) + 1

----------------------------------------------------------------------------
(* Paths *)

LEMMA PathProperties ==
    ASSUME NEW p \in Path
    PROVE  /\ Len(p) \in Nat /\ DOMAIN p = 1..Len(p)
           /\ \A i \in 1..Len(p) : p[i] \in Names
           /\ \A n \in 0..Len(p) : /\ SubSeq(p, 1, n) \in Path /\ Len(SubSeq(p, 1, n)) = n
                                   /\ \A i \in 1..n : SubSeq(p, 1, n)[i] = p[i]
           /\ SubSeq(p, 1, Len(p)) = p
<1>1. Len(p) \in Nat /\ DOMAIN p = 1..Len(p) /\ \A i \in 1..Len(p) : p[i] \in Names
    BY DEF Path
<1>2. ASSUME NEW n \in 0..Len(p)
      PROVE  /\ SubSeq(p, 1, n) \in Path /\ Len(SubSeq(p, 1, n)) = n
             /\ \A i \in 1..n : SubSeq(p, 1, n)[i] = p[i]
    BY <1>1, SubSeqProperties DEF Path
<1>3. SubSeq(p, 1, Len(p)) = p
    BY <1>1, SubSeqProperties, SeqEqual DEF Path
<1> QED
    BY <1>1, <1>2, <1>3

LEMMA PathsEqual ==
    ASSUME NEW p \in Path, NEW q \in Path, Len(p) = Len(q), \A i \in 1..Len(p) : p[i] = q[i]
    PROVE  p = q
BY SeqEqual DEF Path

LEMMA PrefixMeans ==
    ASSUME NEW p \in Path, NEW q \in Path
    PROVE  IsPrefix(p, q) <=> Len(p) <= Len(q) /\ \A i \in 1..Len(p) : p[i] = q[i]
<1>1. CASE Len(p) <= Len(q)
    <2>1. Len(p) \in 0..Len(q) /\ SubSeq(p, 1, Len(p)) = p
        BY <1>1, PathProperties
    <2>2. /\ SubSeq(q, 1, Len(p)) \in Path /\ Len(SubSeq(q, 1, Len(p))) = Len(p)
          /\ \A i \in 1..Len(p) : SubSeq(q, 1, Len(p))[i] = q[i]
        BY <2>1, PathProperties
    <2>3. p = SubSeq(q, 1, Len(p)) <=> \A i \in 1..Len(p) : p[i] = q[i]
        BY <2>2, PathsEqual
    <2> QED
        BY <1>1, <2>1, <2>3 DEF IsPrefix
<1> QED
    BY <1>1 DEF IsPrefix

\* A prefix is where a path begins.
LEMMA PrefixIsPart ==
    ASSUME NEW p \in Path, NEW q \in Path, IsPrefix(p, q)
    PROVE  Len(p) \in 0..Len(q) /\ p = SubSeq(q, 1, Len(p))
BY PathProperties DEF IsPrefix

LEMMA PartIsPrefix ==
    ASSUME NEW q \in Path, NEW n \in 0..Len(q)
    PROVE  IsPrefix(SubSeq(q, 1, n), q)
<1>1. /\ SubSeq(q, 1, n) \in Path /\ Len(SubSeq(q, 1, n)) = n
      /\ \A i \in 1..n : SubSeq(q, 1, n)[i] = q[i]
    BY PathProperties
<1>2. n <= Len(q)
    BY PathProperties
<1> QED
    BY <1>1, <1>2, PrefixMeans

LEMMA PrefixesOfPrefixes ==
    ASSUME NEW p \in Path, NEW q \in Path, NEW r \in Path, IsPrefix(p, q), IsPrefix(q, r)
    PROVE  IsPrefix(p, r)
<1>1. Len(p) \in Nat /\ Len(q) \in Nat /\ Len(r) \in Nat
    BY PathProperties
<1>2. Len(p) <= Len(q) /\ \A i \in 1..Len(p) : p[i] = q[i]
    BY PrefixMeans
<1>3. Len(q) <= Len(r) /\ \A i \in 1..Len(q) : q[i] = r[i]
    BY PrefixMeans
<1>4. Len(p) <= Len(r) /\ \A i \in 1..Len(p) : p[i] = r[i]
    BY <1>1, <1>2, <1>3
<1> QED
    BY <1>4, PrefixMeans

LEMMA SamePrefix ==
    ASSUME NEW p \in Path, NEW q \in Path, IsPrefix(p, q), Len(q) <= Len(p)
    PROVE  p = q
<1>1. Len(p) <= Len(q) /\ \A i \in 1..Len(p) : p[i] = q[i]
    BY PrefixMeans
<1>2. Len(p) = Len(q)
    BY <1>1, PathProperties
<1> QED
    BY <1>1, <1>2, PathsEqual

\* Of two paths to the same place the shorter one is a prefix of the other.
LEMMA PrefixesCompare ==
    ASSUME NEW p \in Path, NEW q \in Path, NEW r \in Path,
           IsPrefix(p, r), IsPrefix(q, r), Len(p) <= Len(q)
    PROVE  IsPrefix(p, q)
<1>1. Len(p) \in Nat /\ Len(q) \in Nat
    BY PathProperties
<1>2. \A i \in 1..Len(p) : p[i] = r[i]
    BY PrefixMeans
<1>3. \A i \in 1..Len(q) : q[i] = r[i]
    BY PrefixMeans
<1>4. \A i \in 1..Len(p) : p[i] = q[i]
    BY <1>1, <1>2, <1>3
<1> QED
    BY <1>4, PrefixMeans

LEMMA ItsPrefix ==
    ASSUME NEW p \in Path
    PROVE  IsPrefix(p, p) /\ IsPrefix(<<>>, p) /\ <<>> \in Path
<1>1. <<>> \in Path /\ Len(<<>>) = 0
    BY DEF Path
<1> QED
    BY <1>1, PrefixMeans, PathProperties

LEMMA ParentsMeans ==
    ASSUME NEW p \in Path, NEW q
    PROVE  /\ q \in Parents(p) <=> q \in Path /\ IsStrictPrefix(q, p)
           /\ q \in Parents(p) \cup {p} <=> q \in Path /\ IsPrefix(q, p)
<1>1. ASSUME q \in Parents(p)
      PROVE  q \in Path /\ IsStrictPrefix(q, p)
    <2>1. PICK n \in 0..(Len(p) - 1) : q = SubSeq(p, 1, n)
        BY <1>1 DEF Parents
    <2>2. n \in 0..Len(p) /\ n # Len(p)
        BY PathProperties
    <2>3. q \in Path /\ Len(q) = n
        BY <2>1, <2>2, PathProperties
    <2>4. IsPrefix(q, p)
        BY <2>1, <2>2, PartIsPrefix
    <2> QED
        BY <2>2, <2>3, <2>4 DEF IsStrictPrefix
<1>2. ASSUME q \in Path, IsStrictPrefix(q, p)
      PROVE  q \in Parents(p)
    <2>1. IsPrefix(q, p) /\ q # p
        BY <1>2 DEF IsStrictPrefix
    <2>2. Len(q) \in 0..Len(p) /\ q = SubSeq(p, 1, Len(q))
        BY <1>2, <2>1, PrefixIsPart
    <2>3. ~ (Len(p) <= Len(q))
        BY <1>2, <2>1, SamePrefix
    <2>4. Len(q) \in 0..(Len(p) - 1)
        BY <2>2, <2>3, PathProperties
    <2> QED
        BY <2>2, <2>4 DEF Parents
<1>3. IsPrefix(p, p)
    BY ItsPrefix
<1>4. q \in Path /\ IsPrefix(q, p) <=> (q \in Path /\ IsStrictPrefix(q, p)) \/ q = p
    BY <1>3 DEF IsStrictPrefix
<1> QED
    BY <1>1, <1>2, <1>4

LEMMA FrontProperties ==
    ASSUME NEW p \in Path, p # <<>>
    PROVE  /\ Len(p) >= 1 /\ Front(p) \in Path /\ Len(Front(p)) = Len(p) - 1 /\ Last(p) \in Names
           /\ Append(Front(p), Last(p)) = p
           /\ \A q \in Path : IsPrefix(q, Front(p)) <=> IsStrictPrefix(q, p)
<1>1. Len(p) \in Nat /\ Len(p) >= 1 /\ Len(p) - 1 \in 0..Len(p)
    BY EmptySeq, LenProperties DEF Path
<1>2. /\ Front(p) \in Path /\ Len(Front(p)) = Len(p) - 1
      /\ \A i \in 1..(Len(p) - 1) : Front(p)[i] = p[i]
    BY <1>1, PathProperties DEF Front
<1>3. Last(p) = p[Len(p)] /\ Last(p) \in Names
    BY <1>1, PathProperties DEF Last
<1>4. Append(Front(p), Last(p)) = p
    <2>1. /\ Append(Front(p), Last(p)) \in Path
          /\ Len(Append(Front(p), Last(p))) = Len(Front(p)) + 1
          /\ \A i \in 1..Len(Front(p)) : Append(Front(p), Last(p))[i] = Front(p)[i]
          /\ Append(Front(p), Last(p))[Len(Front(p)) + 1] = Last(p)
        BY <1>2, <1>3, AppendProperties DEF Path
    <2>2. ASSUME NEW i \in 1..Len(p)
          PROVE  Append(Front(p), Last(p))[i] = p[i]
        <3>1. CASE i = Len(p)
            BY <1>1, <1>2, <1>3, <2>1, <3>1
        <3>2. CASE i # Len(p)
            BY <1>1, <1>2, <2>1, <3>2
        <3> QED
            BY <3>1, <3>2
    <2>3. Len(Append(Front(p), Last(p))) = Len(p)
        BY <1>1, <1>2, <2>1
    <2>4. \A i \in 1..Len(Append(Front(p), Last(p))) : Append(Front(p), Last(p))[i] = p[i]
        BY <2>2, <2>3
    <2> QED
        BY <2>1, <2>3, <2>4, PathsEqual
<1>5. IsPrefix(Front(p), p)
    BY <1>1, PartIsPrefix DEF Front
<1>6. ASSUME NEW q \in Path, IsPrefix(q, Front(p))
      PROVE  IsStrictPrefix(q, p)
    <2>1. IsPrefix(q, p)
        BY <1>2, <1>5, <1>6, PrefixesOfPrefixes
    <2>2. Len(q) <= Len(Front(p)) /\ Len(q) \in Nat
        BY <1>2, <1>6, PrefixMeans, PathProperties
    <2>3. q # p
        BY <1>1, <1>2, <2>2
    <2> QED
        BY <2>1, <2>3 DEF IsStrictPrefix
<1>7. ASSUME NEW q \in Path, IsStrictPrefix(q, p)
      PROVE  IsPrefix(q, Front(p))
    <2>1. IsPrefix(q, p) /\ q # p
        BY <1>7 DEF IsStrictPrefix
    <2>2. ~ (Len(p) <= Len(q)) /\ Len(q) \in Nat
        BY <2>1, SamePrefix, PathProperties
    <2>3. Len(q) <= Len(Front(p))
        BY <1>1, <1>2, <2>2
    <2> QED
        BY <1>2, <1>5, <2>1, <2>3, PrefixesCompare
<1> QED
    BY <1>1, <1>2, <1>3, <1>4, <1>6, <1>7

LEMMA MovedProperties ==
    ASSUME NEW p \in Path, NEW from \in Path, NEW to \in Path, IsPrefix(from, p)
    PROVE  /\ Moved(p, from, to) \in Path
           /\ Len(Moved(p, from, to)) = Len(to) + Len(p) - Len(from)
           /\ \A i \in 1..Len(to) : Moved(p, from, to)[i] = to[i]
           /\ \A i \in 1..(Len(p) - Len(from)) : Moved(p, from, to)[Len(to) + i] = p[Len(from) + i]
<1> DEFINE rest == SubSeq(p, Len(from) + 1, Len(p))
<1>1. Len(p) \in Nat /\ Len(from) \in Nat /\ Len(to) \in Nat /\ Len(from) <= Len(p)
    BY PathProperties, PrefixMeans
<1>2. /\ rest \in Path
      /\ Len(rest) = IF Len(from) + 1 <= Len(p) THEN Len(p) - (Len(from) + 1) + 1 ELSE 0
      /\ \A i \in 1..(Len(p) - (Len(from) + 1) + 1) : rest[i] = p[Len(from) + 1 + i - 1]
    <2>1. \A i \in (Len(from) + 1)..Len(p) : p[i] \in Names
        <3>1. \A i \in 1..Len(p) : p[i] \in Names
            BY PathProperties
        <3> QED
            BY <1>1, <3>1
    <2> QED
        BY <1>1, <2>1, SubSeqProperties DEF Path
<1>3. Len(rest) = Len(p) - Len(from)
    BY <1>1, <1>2
<1>4. \A i \in 1..(Len(p) - Len(from)) : rest[i] = p[Len(from) + i]
    <2> HIDE DEF rest
    <2> SUFFICES ASSUME NEW i \in 1..(Len(p) - Len(from))
                 PROVE  rest[i] = p[Len(from) + i]
        OBVIOUS
    <2>1. i \in 1..(Len(p) - (Len(from) + 1) + 1) /\ Len(from) + 1 + i - 1 = Len(from) + i
        BY <1>1
    <2> QED
        BY <1>2, <2>1
<1>5. /\ to \o rest \in Path /\ Len(to \o rest) = Len(to) + Len(rest)
      /\ \A i \in 1..(Len(to) + Len(rest)) :
            (to \o rest)[i] = IF i <= Len(to) THEN to[i] ELSE rest[i - Len(to)]
    BY <1>2, ConcatProperties DEF Path
<1>6. Moved(p, from, to) = to \o rest
    BY DEF Moved
<1> HIDE DEF rest
<1>7. \A i \in 1..Len(to) : (to \o rest)[i] = to[i]
    BY <1>1, <1>3, <1>5
<1>8. ASSUME NEW i \in 1..(Len(p) - Len(from))
      PROVE  (to \o rest)[Len(to) + i] = p[Len(from) + i]
    <2>1. Len(to) + i \in 1..(Len(to) + Len(rest)) /\ ~ (Len(to) + i <= Len(to)) /\ Len(to) + i - Len(to) = i
        BY <1>1, <1>3
    <2>2. (to \o rest)[Len(to) + i] = rest[i]
        BY <1>5, <2>1
    <2> QED
        BY <1>4, <2>2
<1> QED
    BY <1>1, <1>3, <1>5, <1>6, <1>7, <1>8

\* A path is behind its new prefix.
LEMMA MovedHasPrefix ==
    ASSUME NEW p \in Path, NEW from \in Path, NEW to \in Path, IsPrefix(from, p)
    PROVE  /\ IsPrefix(to, Moved(p, from, to))
           /\ p # from => IsStrictPrefix(to, Moved(p, from, to))
           /\ Moved(p, from, from) = p
<1>1. Len(p) \in Nat /\ Len(from) \in Nat /\ Len(to) \in Nat /\ Len(from) <= Len(p)
    BY PathProperties, PrefixMeans
<1>2. /\ Moved(p, from, to) \in Path
      /\ Len(Moved(p, from, to)) = Len(to) + Len(p) - Len(from)
      /\ \A i \in 1..Len(to) : Moved(p, from, to)[i] = to[i]
    BY MovedProperties
<1>3. IsPrefix(to, Moved(p, from, to))
    <2>1. Len(to) <= Len(Moved(p, from, to))
        BY <1>1, <1>2
    <2> QED
        BY <1>2, <2>1, PrefixMeans
<1>4. p # from => ~ (Len(p) <= Len(from))
    BY SamePrefix
<1>5. p # from => to # Moved(p, from, to)
    BY <1>1, <1>2, <1>4
<1>6. Moved(p, from, from) = p
    <2>1. /\ Moved(p, from, from) \in Path
          /\ Len(Moved(p, from, from)) = Len(from) + Len(p) - Len(from)
          /\ \A i \in 1..Len(from) : Moved(p, from, from)[i] = from[i]
          /\ \A i \in 1..(Len(p) - Len(from)) : Moved(p, from, from)[Len(from) + i] = p[Len(from) + i]
        BY MovedProperties
    <2>2. \A i \in 1..Len(from) : from[i] = p[i]
        BY PrefixMeans
    <2>3. ASSUME NEW i \in 1..Len(p)
          PROVE  Moved(p, from, from)[i] = p[i]
        <3>1. CASE i <= Len(from)
            BY <1>1, <2>1, <2>2, <3>1
        <3>2. CASE ~ (i <= Len(from))
            <4>1. i - Len(from) \in 1..(Len(p) - Len(from)) /\ Len(from) + (i - Len(from)) = i
                BY <1>1, <3>2
            <4>2. Moved(p, from, from)[Len(from) + (i - Len(from))] = p[Len(from) + (i - Len(from))]
                BY <2>1, <4>1
            <4> QED
                BY <4>1, <4>2
        <3> QED
            BY <3>1, <3>2
    <2>4. Len(Moved(p, from, from)) = Len(p)
        BY <1>1, <2>1
    <2> QED
        BY <2>1, <2>3, <2>4, PathsEqual
<1> QED
    BY <1>3, <1>5, <1>6 DEF IsStrictPrefix

\* To remap a prefix as its own prefix is remapped is to remap the latter.
LEMMA MovedTwice ==
    ASSUME NEW p \in Path, NEW a \in Path, NEW b \in Path, NEW to \in Path,
           IsPrefix(a, b), IsPrefix(b, p)
    PROVE  Moved(p, b, Moved(b, a, to)) = Moved(p, a, to)
<1> DEFINE inner == Moved(b, a, to)
           x == Moved(p, b, inner)
           y == Moved(p, a, to)
<1>1. /\ Len(p) \in Nat /\ Len(a) \in Nat /\ Len(b) \in Nat /\ Len(to) \in Nat
      /\ Len(a) <= Len(b) /\ Len(b) <= Len(p)
    BY PathProperties, PrefixMeans
<1>2. IsPrefix(a, p)
    BY PrefixesOfPrefixes
<1>3. /\ inner \in Path /\ Len(inner) = Len(to) + Len(b) - Len(a)
      /\ \A i \in 1..Len(to) : inner[i] = to[i]
      /\ \A i \in 1..(Len(b) - Len(a)) : inner[Len(to) + i] = b[Len(a) + i]
    BY MovedProperties
<1>4. /\ y \in Path /\ Len(y) = Len(to) + Len(p) - Len(a)
      /\ \A i \in 1..Len(to) : y[i] = to[i]
      /\ \A i \in 1..(Len(p) - Len(a)) : y[Len(to) + i] = p[Len(a) + i]
    <2>1. y \in Path /\ Len(y) = Len(to) + Len(p) - Len(a)
        BY <1>2, MovedProperties
    <2>2. \A i \in 1..Len(to) : y[i] = to[i]
        BY <1>2, MovedProperties
    <2>3. \A i \in 1..(Len(p) - Len(a)) : y[Len(to) + i] = p[Len(a) + i]
        BY <1>2, MovedProperties
    <2> QED
        BY <2>1, <2>2, <2>3
<1> HIDE DEF inner, y
<1>5. /\ x \in Path /\ Len(x) = Len(inner) + Len(p) - Len(b)
      /\ \A i \in 1..Len(inner) : x[i] = inner[i]
      /\ \A i \in 1..(Len(p) - Len(b)) : x[Len(inner) + i] = p[Len(b) + i]
    <2>1. inner \in Path
        BY <1>3
    <2>2. IsPrefix(b, p)
        OBVIOUS
    <2>3. x \in Path /\ Len(x) = Len(inner) + Len(p) - Len(b)
        BY <2>1, <2>2, MovedProperties
    <2>4. \A i \in 1..Len(inner) : x[i] = inner[i]
        BY <2>1, <2>2, MovedProperties
    <2>5. \A i \in 1..(Len(p) - Len(b)) : x[Len(inner) + i] = p[Len(b) + i]
        BY <2>1, <2>2, MovedProperties
    <2> QED
        BY <2>3, <2>4, <2>5
<1>6. \A i \in 1..Len(b) : b[i] = p[i]
    BY PrefixMeans
<1> HIDE DEF x
<1>7. Len(x) = Len(y)
    BY <1>1, <1>3, <1>4, <1>5
<1>8. ASSUME NEW i \in 1..Len(x)
      PROVE  x[i] = y[i]
    <2>1. CASE i <= Len(to)
        <3>1. i \in 1..Len(to) /\ i \in 1..Len(inner)
            BY <1>1, <1>3, <2>1
        <3> QED
            BY <1>3, <1>4, <1>5, <3>1
    <2>2. CASE ~ (i <= Len(to)) /\ i <= Len(inner)
        <3>1. /\ i \in 1..Len(inner)
              /\ i - Len(to) \in 1..(Len(b) - Len(a)) /\ i - Len(to) \in 1..(Len(p) - Len(a))
              /\ Len(to) + (i - Len(to)) = i /\ Len(a) + (i - Len(to)) \in 1..Len(b)
            BY <1>1, <1>3, <2>2
        <3>2. x[i] = inner[i]
            BY <1>5, <3>1
        <3>3. inner[Len(to) + (i - Len(to))] = b[Len(a) + (i - Len(to))]
            BY <1>3, <3>1
        <3>4. y[Len(to) + (i - Len(to))] = p[Len(a) + (i - Len(to))]
            BY <1>4, <3>1
        <3>5. b[Len(a) + (i - Len(to))] = p[Len(a) + (i - Len(to))]
            BY <1>6, <3>1
        <3> QED
            BY <3>1, <3>2, <3>3, <3>4, <3>5
    <2>3. CASE ~ (i <= Len(to)) /\ ~ (i <= Len(inner))
        <3>1. /\ i - Len(inner) \in 1..(Len(p) - Len(b)) /\ Len(inner) + (i - Len(inner)) = i
              /\ i - Len(to) \in 1..(Len(p) - Len(a)) /\ Len(to) + (i - Len(to)) = i
              /\ Len(b) + (i - Len(inner)) = Len(a) + (i - Len(to))
            BY <1>1, <1>3, <1>4, <1>7, <2>3
        <3>2. x[Len(inner) + (i - Len(inner))] = p[Len(b) + (i - Len(inner))]
            BY <1>5, <3>1
        <3>3. y[Len(to) + (i - Len(to))] = p[Len(a) + (i - Len(to))]
            BY <1>4, <3>1
        <3> QED
            BY <3>1, <3>2, <3>3
    <2> QED
        BY <2>1, <2>2, <2>3
<1>9. x = y
    BY <1>4, <1>5, <1>7, <1>8, PathsEqual
<1> QED
    BY <1>9 DEF x, y, inner

----------------------------------------------------------------------------
(* Relative paths and links *)

\* A non-empty bounded set of naturals has a greatest element.
LEMMA GreatestExists ==
    ASSUME NEW A \in SUBSET Nat, A # {}, NEW bound \in Nat, \A a \in A : a <= bound
    PROVE  \E m \in A : \A a \in A : a <= m
<1> DEFINE B == {bound - a : a \in A}
<1>1. B \in SUBSET Nat /\ B # {}
    <2>1. \A a \in A : bound - a \in Nat
        OBVIOUS
    <2> QED
        BY <2>1
<1>2. PICK x \in B : \A y \in B : ~ (<<y, x>> \in OpToRel(<, Nat))
    BY <1>1, NatLessThanWellFounded, WFMin
<1>3. \A y \in B : ~ (y < x)
    BY <1>1, <1>2 DEF OpToRel
<1>4. PICK m \in A : x = bound - m
    BY <1>2
<1>5. ASSUME NEW a \in A
      PROVE  a <= m
    <2>1. bound - a \in B
        OBVIOUS
    <2>2. ~ (bound - a < x)
        BY <1>3, <2>1
    <2> QED
        BY <1>4, <2>2
<1> QED
    BY <1>5

LEMMA CommonPrefixExists ==
    ASSUME NEW p \in Path, NEW q \in Path
    PROVE  LET c == LongestCommonPrefix({p, q}) IN c \in Path /\ IsPrefix(c, p) /\ IsPrefix(c, q)
<1> DEFINE C == CommonPrefixes({p, q})
<1>1. \A c \in C : c \in Path /\ IsPrefix(c, p) /\ IsPrefix(c, q)
    <2>1. \A c \in Prefixes(p) \cup Prefixes(q) : c \in Path
        BY PathProperties DEF Prefixes
    <2>2. \A c \in C : c \in Prefixes(p) \cup Prefixes(q) /\ IsPrefix(c, p) /\ IsPrefix(c, q)
        BY DEF CommonPrefixes
    <2> QED
        BY <2>1, <2>2
<1>2. <<>> \in C
    <2>1. 0 \in 0..Len(p)
        BY PathProperties
    <2>2. SubSeq(p, 1, 0) \in Path /\ Len(SubSeq(p, 1, 0)) = 0
        BY <2>1, PathProperties
    <2>3. SubSeq(p, 1, 0) = <<>>
        BY <2>2, EmptySeq DEF Path
    <2>4. <<>> \in Prefixes(p)
        BY <2>1, <2>3 DEF Prefixes
    <2> QED
        BY <2>4, ItsPrefix DEF CommonPrefixes
<1> HIDE DEF C
<1> DEFINE Lens == {Len(c) : c \in C}
<1>3. Lens \in SUBSET Nat /\ Lens # {} /\ \A a \in Lens : a <= Len(p)
    <2>1. \A c \in C : Len(c) \in Nat /\ Len(c) <= Len(p)
        BY <1>1, PathProperties, PrefixMeans
    <2> QED
        BY <1>2, <2>1
<1>4. PICK m \in Lens : \A a \in Lens : a <= m
    BY <1>3, PathProperties, GreatestExists
<1>5. PICK c \in C : m = Len(c)
    BY <1>4
<1>6. \A other \in C : Len(other) <= Len(c)
    BY <1>4, <1>5
<1>7. LongestCommonPrefix({p, q}) \in C
    BY <1>5, <1>6 DEF LongestCommonPrefix, C
<1> QED
    BY <1>1, <1>7

\* The relative path from a directory to a path leads there.
LEMMA RelPathLeads ==
    ASSUME NEW to \in Path, NEW from \in Path
    PROVE  Above(from, RelPath(to, from).up) \o RelPath(to, from).down = to
<1> DEFINE c == LongestCommonPrefix({to, from})
<1>1. c \in Path /\ IsPrefix(c, to) /\ IsPrefix(c, from)
    BY CommonPrefixExists
<1>2. RelPath(to, from).up = Len(from) - Len(c)
    BY DEF RelPath
<1>3. RelPath(to, from).down = SubSeq(to, Len(c) + 1, Len(to))
    BY DEF RelPath
<1> HIDE DEF c
<1>4. Len(c) \in 0..Len(from) /\ c = SubSeq(from, 1, Len(c)) /\ Len(from) \in Nat
    BY <1>1, PrefixIsPart, PathProperties
<1>5. Above(from, Len(from) - Len(c)) = SubSeq(from, 1, Len(c))
    <2>1. (IF Len(from) - Len(c) < Len(from) THEN Len(from) - (Len(from) - Len(c)) ELSE 0) = Len(c)
        BY <1>4
    <2> QED
        BY <2>1 DEF Above
<1>6. Moved(to, c, c) = to
    BY <1>1, MovedHasPrefix
<1> QED
    BY <1>2, <1>3, <1>4, <1>5, <1>6 DEF Moved

\* A path without links leads where it says.
LEMMA NoLinkOnPath ==
    ASSUME NEW t, NEW p \in Path, \A l \in DOMAIN t.links : ~ IsPrefix(l, p)
    PROVE  LinksOn(t, p) = {} /\ Followed(t, p) = p /\ Real(t, p) = p
<1>1. LinksOn(t, p) = {}
    <2>1. ASSUME NEW n \in LinksOn(t, p)
          PROVE  FALSE
        <3>1. n \in 1..Len(p) /\ SubSeq(p, 1, n) \in DOMAIN t.links
            BY DEF LinksOn
        <3>2. n \in 0..Len(p)
            BY <3>1
        <3> QED
            BY <3>1, <3>2, PartIsPrefix
    <2> QED
        BY <2>1
<1>2. Followed(t, p) = p
    BY <1>1 DEF Followed
<1>3. Twice(t, Twice(t, p)) = p
    BY <1>2 DEF Twice
<1> QED
    BY <1>1, <1>2, <1>3 DEF Real

\* A path with one link leads behind it.
LEMMA OneLinkOnPath ==
    ASSUME NEW t, NEW p \in Path, NEW l \in DOMAIN t.links, l \in Path, l # <<>>, IsPrefix(l, p),
           DOMAIN t.links \subseteq Path, \A m \in DOMAIN t.links : IsPrefix(m, p) => m = l,
           t.links[l] \in Path,
           \A m \in DOMAIN t.links : ~ IsPrefix(m, Moved(p, l, t.links[l]))
    PROVE  Real(t, p) = Moved(p, l, t.links[l])
<1> DEFINE q == Moved(p, l, t.links[l])
<1>1. Len(l) \in 0..Len(p) /\ l = SubSeq(p, 1, Len(l)) /\ Len(l) # 0 /\ Len(p) \in Nat
    BY PrefixIsPart, PathProperties, EmptySeq DEF Path
<1>2. Len(l) \in LinksOn(t, p)
    <2>1. Len(l) \in 1..Len(p)
        BY <1>1
    <2>2. SubSeq(p, 1, Len(l)) \in DOMAIN t.links
        BY <1>1
    <2> QED
        BY <2>1, <2>2 DEF LinksOn
<1>3. ASSUME NEW n \in LinksOn(t, p)
      PROVE  n = Len(l)
    <2>1. n \in 0..Len(p) /\ SubSeq(p, 1, n) \in DOMAIN t.links
        BY DEF LinksOn
    <2>2. SubSeq(p, 1, n) = l
        BY <2>1, PartIsPrefix
    <2> QED
        BY <2>1, <2>2, PathProperties
<1>4. LinksOn(t, p) = {Len(l)}
    BY <1>2, <1>3
<1>5. (CHOOSE n \in LinksOn(t, p) : \A k \in LinksOn(t, p) : n <= k) = Len(l)
    BY <1>1, <1>4
<1>6. Followed(t, p) = q
    BY <1>1, <1>4, <1>5 DEF Followed, Moved
<1>7. q \in Path
    BY MovedProperties
<1>8. LinksOn(t, q) = {} /\ Followed(t, q) = q
    BY <1>7, NoLinkOnPath
<1> HIDE DEF q
<1>9. Twice(t, Twice(t, p)) = q
    BY <1>6, <1>8 DEF Twice
<1>10. Real(t, p) = q
    BY <1>8, <1>9 DEF Real
<1> QED
    BY <1>10 DEF q

----------------------------------------------------------------------------
(* Ordinary remappings *)

LEMMA SourceFiles ==
    ASSUME SaveTypeOK
    PROVE  /\ \A n \in 1..Len(sources) : sources[n] \in Path /\ sources[n] # <<>> /\ sources[n] \in ToSet(sources)
           /\ \A s \in ToSet(sources) : s \in Path /\ s # <<>> /\ \E n \in 1..Len(sources) : s = sources[n]
           /\ DOMAIN sources = 1..Len(sources) /\ Len(sources) \in Nat
           /\ saving # "idle" => Len(sources) >= 1
<1>1. sources \in Seq(Path) /\ (\A n \in DOMAIN sources : sources[n] # <<>>)
    BY DEF SaveTypeOK
<1>2. DOMAIN sources = 1..Len(sources) /\ Len(sources) \in Nat /\ \A n \in 1..Len(sources) : sources[n] \in Path
    BY <1>1
<1>3. saving # "idle" => Len(sources) # 0
    BY <1>1, EmptySeq DEF SaveTypeOK
<1> QED
    BY <1>1, <1>2, <1>3 DEF ToSet

LEMMA RemappingTypes ==
    ASSUME SaveTypeOK
    PROVE  /\ DOMAIN remappings = 1..Len(remappings) /\ Len(remappings) \in Nat
           /\ \A n \in DOMAIN remappings :
                /\ remappings[n] \in Recs /\ remappings[n].from \in Path /\ remappings[n].to \in Path
                /\ remappings[n].slash \in BOOLEAN
           /\ DOMAIN kept = 1..Len(kept) /\ Len(kept) \in Nat
           /\ \A n \in DOMAIN kept :
                kept[n] \in Recs /\ kept[n].from \in Path /\ kept[n].to \in Path
           /\ RemappingsSeen \subseteq DOMAIN remappings
<1>1. remappings \in Seq(Recs) /\ kept \in Seq(Recs)
    BY DEF SaveTypeOK
<1>2. \A r \in Recs : r.from \in Path /\ r.to \in Path /\ r.slash \in BOOLEAN
    BY DEF Recs
<1>3. DOMAIN remappings = 1..Len(remappings) /\ Len(remappings) \in Nat
      /\ \A n \in DOMAIN remappings : remappings[n] \in Recs
    BY <1>1
<1>4. DOMAIN kept = 1..Len(kept) /\ Len(kept) \in Nat /\ \A n \in DOMAIN kept : kept[n] \in Recs
    BY <1>1
<1>5. RemappingsSeen \subseteq DOMAIN remappings
    <2>1. CASE FilesSeen = 0
        <3>1. saving \in {"idle", "extract"}
            BY <2>1, SourceFiles DEF FilesSeen
        <3>2. remap <= Len(remappings) + 1 /\ remap \in Nat
            BY <3>1 DEF SaveTypeOK
        <3> QED
            BY <1>3, <2>1, <3>2 DEF RemappingsSeen
    <2>2. CASE FilesSeen # 0
        BY <2>2 DEF RemappingsSeen
    <2> QED
        BY <2>1, <2>2
<1> QED
    BY <1>2, <1>3, <1>4, <1>5

LEMMA OrdinaryMeans ==
    ASSUME SaveTypeOK, Ordinary
    PROVE  /\ \A s, t \in ToSet(sources) : ~ IsStrictPrefix(s, t)
           /\ \A n \in DOMAIN remappings :
                /\ remappings[n].slash
                /\ Changes(remappings[n]) =>
                    \A s \in ToSet(sources) :
                        /\ ~ IsPrefix(remappings[n].from, s)
                        /\ ~ IsPrefix(s, remappings[n].from)
           /\ \A n, k \in DOMAIN remappings :
                n # k /\ IsPrefix(remappings[k].from, remappings[n].from) =>
                    /\ k < n
                    /\ remappings[n].to
                        = Moved(remappings[n].from, remappings[k].from, remappings[k].to)
BY DEF Ordinary, Changes

\* No two remappings have the same prefix.
LEMMA PrefixesDiffer ==
    ASSUME SaveTypeOK, Ordinary, NEW n \in DOMAIN remappings, NEW k \in DOMAIN remappings,
           remappings[n].from = remappings[k].from
    PROVE  n = k
<1> SUFFICES ASSUME n # k PROVE FALSE
    OBVIOUS
<1>1. remappings[n].from \in Path /\ n \in Nat /\ k \in Nat
    BY RemappingTypes
<1>2. IsPrefix(remappings[n].from, remappings[k].from) /\ IsPrefix(remappings[k].from, remappings[n].from)
    BY <1>1, ItsPrefix
<1>3. k < n
    BY <1>2, OrdinaryMeans
<1>4. n < k
    BY <1>2, OrdinaryMeans
<1> QED
    BY <1>1, <1>3, <1>4

\* A remapping that changes something has a prefix.
LEMMA PrefixNotEmpty ==
    ASSUME SaveTypeOK, Ordinary, saving # "idle", NEW n \in DOMAIN remappings, Changes(remappings[n])
    PROVE  remappings[n].from # <<>>
<1>1. sources[1] \in ToSet(sources) /\ sources[1] \in Path
    BY SourceFiles
<1>2. ~ IsPrefix(remappings[n].from, sources[1])
    BY <1>1, OrdinaryMeans
<1> QED
    BY <1>1, <1>2, ItsPrefix

\* What is kept.
LEMMA KeptProperties ==
    ASSUME SaveTypeOK, Ordinary, KeptSoFar, saving # "idle", NEW n \in DOMAIN kept
    PROVE  /\ kept[n].from \in Path /\ kept[n].to \in Path /\ kept[n].from # <<>>
           /\ kept[n].slash
           /\ \E j \in RemappingsSeen : j \in DOMAIN remappings /\ kept[n] = remappings[j] /\ Changes(remappings[j])
           /\ \A s \in ToSet(sources) : ~ IsPrefix(kept[n].from, s) /\ ~ IsPrefix(s, kept[n].from)
<1>1. PICK j \in RemappingsSeen : kept[n] = remappings[j] /\ Changes(remappings[j])
    BY DEF KeptSoFar
<1>2. j \in DOMAIN remappings
    BY RemappingTypes
<1>3. kept[n].from \in Path /\ kept[n].to \in Path
    BY RemappingTypes
<1>4. kept[n].from # <<>>
    BY <1>1, <1>2, PrefixNotEmpty
<1>5. kept[n].slash /\ \A s \in ToSet(sources) : ~ IsPrefix(kept[n].from, s) /\ ~ IsPrefix(s, kept[n].from)
    BY <1>1, <1>2, OrdinaryMeans
<1> QED
    BY <1>1, <1>2, <1>3, <1>4, <1>5

----------------------------------------------------------------------------
(* Keeping remappings *)

LEMMA PutTypes ==
    ASSUME SaveTypeOK, NEW r \in Recs
    PROVE  Put(r) \in Seq(Recs)
<1>1. kept \in Seq(Recs)
    BY DEF SaveTypeOK
<1> DEFINE same(k) == k.from = r.from /\ k.slash = r.slash
           new == [n \in DOMAIN kept |-> IF same(kept[n]) THEN r ELSE kept[n]]
<1>2. \A n \in 1..Len(kept) : kept[n] \in Recs
    BY RemappingTypes
<1>3. new \in [1..Len(kept) -> Recs]
    BY <1>2, RemappingTypes
<1>4. new \in Seq(Recs)
    BY <1>3, RemappingTypes
<1>5. Append(kept, r) \in Seq(Recs)
    BY <1>1, AppendProperties
<1> QED
    BY <1>4, <1>5 DEF Put

\* A remapping that is kept already is kept as it is.
LEMMA PutAgain ==
    ASSUME SaveTypeOK, Ordinary, KeptSoFar, saving # "idle", NEW j \in DOMAIN remappings,
           NEW i \in DOMAIN kept, kept[i].from = remappings[j].from
    PROVE  Put(remappings[j]) = kept /\ kept[i] = remappings[j]
<1> DEFINE r == remappings[j]
           same(k) == k.from = r.from /\ k.slash = r.slash
           new == [n \in DOMAIN kept |-> IF same(kept[n]) THEN r ELSE kept[n]]
<1>1. ASSUME NEW n \in DOMAIN kept, kept[n].from = r.from
      PROVE  kept[n] = r
    <2>1. PICK k \in RemappingsSeen : k \in DOMAIN remappings /\ kept[n] = remappings[k]
        BY KeptProperties
    <2>2. k = j
        BY <1>1, <2>1, PrefixesDiffer
    <2> QED
        BY <2>1, <2>2
<1>2. new = [n \in DOMAIN kept |-> kept[n]]
    BY <1>1
<1>3. new = kept
    <2>1. kept \in [1..Len(kept) -> Recs]
        BY RemappingTypes DEF SaveTypeOK
    <2> QED
        BY <1>2, <2>1
<1>4. kept[i] = r
    BY <1>1
<1>5. \E k \in ToSet(kept) : same(k)
    BY <1>4 DEF ToSet
<1> QED
    BY <1>3, <1>4, <1>5 DEF Put

\* What KeepRemapping does to the remappings that are kept.
LEMMA KeepMeans ==
    ASSUME SaveTypeOK, Ordinary, KeptSoFar, saving = "extract", KeepRemapping
    PROVE  \/ /\ kept' = kept
              /\ Changes(remappings[remap]) =>
                    \E n \in DOMAIN kept : IsPrefix(kept[n].from, remappings[remap].from)
           \/ /\ kept' = Append(kept, remappings[remap]) /\ Changes(remappings[remap])
              /\ \A n \in DOMAIN kept :
                    /\ ~ IsPrefix(kept[n].from, remappings[remap].from)
                    /\ ~ IsPrefix(remappings[remap].from, kept[n].from)
<1> DEFINE r == remappings[remap]
<1>1. remap \in DOMAIN remappings /\ remap \in Nat /\ r \in Recs /\ r.from \in Path /\ r.slash
    BY RemappingTypes, OrdinaryMeans DEF KeepRemapping, SaveTypeOK
<1>2. kept' = IF r.from = r.to \/ Nested(r) \/ (r.from = <<>> /\ r.slash) THEN kept ELSE Put(r)
    BY DEF KeepRemapping
<1>3. CASE ~ Changes(r)
    BY <1>2, <1>3 DEF Changes
<1>4. CASE Changes(r) /\ Nested(r)
    <2>1. PICK k \in ToSet(kept) : IsStrictPrefix(k.from, r.from)
        BY <1>4 DEF Nested
    <2>2. PICK n \in DOMAIN kept : k = kept[n]
        BY <2>1 DEF ToSet
    <2>3. IsPrefix(kept[n].from, r.from)
        BY <2>1, <2>2 DEF IsStrictPrefix
    <2> QED
        BY <1>2, <1>4, <2>3
<1>5. CASE Changes(r) /\ ~ Nested(r)
    <2>1. r.from # <<>> /\ r.from # r.to
        BY <1>1, <1>5, PrefixNotEmpty DEF Changes
    <2>2. kept' = Put(r)
        BY <1>2, <1>5, <2>1
    <2>3. \A n \in DOMAIN kept : kept[n].slash /\ kept[n].from \in Path
        BY KeptProperties
    <2>4. \A n \in DOMAIN kept : ~ IsStrictPrefix(kept[n].from, r.from)
        BY <1>5, <2>3 DEF Nested, ToSet
    <2>5. CASE \E n \in DOMAIN kept : kept[n].from = r.from
        <3>1. PICK n \in DOMAIN kept : kept[n].from = r.from
            BY <2>5
        <3>2. kept' = kept
            BY <1>1, <2>2, <3>1, PutAgain
        <3>3. IsPrefix(kept[n].from, r.from)
            BY <1>1, <3>1, ItsPrefix
        <3> QED
            BY <3>2, <3>3
    <2>6. CASE \A n \in DOMAIN kept : kept[n].from # r.from
        <3>1. kept' = Append(kept, r)
            BY <2>2, <2>6 DEF Put, ToSet
        <3>2. \A n \in DOMAIN kept : ~ IsPrefix(kept[n].from, r.from)
            BY <2>4, <2>6 DEF IsStrictPrefix
        <3>3. remap \notin RemappingsSeen
            <4>1. remap \in RemappingsSeen => \E n \in DOMAIN kept : IsPrefix(kept[n].from, r.from)
                BY <1>5 DEF KeptSoFar
            <4> QED
                BY <3>2, <4>1
        <3>4. RemappingsSeen = 1..(remap - 1)
            BY <1>1, <3>3 DEF RemappingsSeen
        <3>5. ASSUME NEW n \in DOMAIN kept, IsPrefix(r.from, kept[n].from)
              PROVE  FALSE
            <4>1. PICK j \in RemappingsSeen : j \in DOMAIN remappings /\ kept[n] = remappings[j]
                BY KeptProperties
            <4>2. j # remap /\ j < remap
                BY <1>1, <3>4, <4>1
            <4>3. IsPrefix(remappings[remap].from, remappings[j].from)
                BY <3>5, <4>1
            <4>4. remap < j
                BY <1>1, <4>1, <4>2, <4>3, OrdinaryMeans
            <4> QED
                BY <1>1, <4>2, <4>4, RemappingTypes
        <3> QED
            BY <1>5, <3>1, <3>2, <3>5
    <2> QED
        BY <2>5, <2>6
<1> QED
    BY <1>3, <1>4, <1>5

\* Nothing of this depends on more than the answer and what is kept.
LEMMA SameKept ==
    ASSUME KeptSoFar, kept' = kept, remappings' = remappings, RemappingsSeen' = RemappingsSeen
    PROVE  KeptSoFar'
BY DEF KeptSoFar, Changes

LEMMA SameOrdinary ==
    ASSUME sources' = sources, remappings' = remappings
    PROVE  Ordinary' <=> Ordinary
BY DEF Ordinary

LEMMA SameMain ==
    ASSUME MainSoFar, main' = main, sources' = sources, called' = called, FilesSeen' = FilesSeen
    PROVE  MainSoFar'
BY DEF MainSoFar

LEMMA KeepRemappingKeepsInv ==
    ASSUME SaveInv, KeepRemapping
    PROVE  SaveInv'
<1>1. SaveTypeOK /\ MainSoFar /\ (Ordinary => KeptSoFar) /\ saving = "extract"
    BY DEF SaveInv, KeepRemapping, Extracting
<1>2. /\ remap \in Nat /\ remap \in DOMAIN remappings /\ remap <= Len(remappings)
      /\ remap' = remap + 1 /\ saving' = saving /\ sources' = sources /\ remappings' = remappings
      /\ called' = called /\ file' = file /\ main' = main /\ tree' = tree
    BY <1>1, RemappingTypes DEF SaveTypeOK, KeepRemapping
<1>3. kept' \in Seq(Recs)
    <2>1. remappings[remap] \in Recs
        BY <1>1, <1>2, RemappingTypes
    <2>2. Put(remappings[remap]) \in Seq(Recs)
        BY <1>1, <2>1, PutTypes
    <2>3. kept' \in {kept, Put(remappings[remap])}
        BY DEF KeepRemapping
    <2> QED
        BY <1>1, <2>2, <2>3 DEF SaveTypeOK
<1>4. SaveTypeOK'
    BY <1>1, <1>2, <1>3, RemappingTypes DEF SaveTypeOK
<1>5. MainSoFar'
    BY <1>1, <1>2, SameMain DEF FilesSeen
<1>6. Ordinary' <=> Ordinary
    BY <1>2, SameOrdinary
<1>7. RemappingsSeen' = RemappingsSeen \cup {remap}
    <2>1. FilesSeen' = FilesSeen
        BY <1>2 DEF FilesSeen
    <2>2. CASE FilesSeen = 0
        <3>1. RemappingsSeen = 1..(remap - 1) /\ RemappingsSeen' = 1..(remap + 1 - 1)
            BY <1>2, <2>1, <2>2 DEF RemappingsSeen
        <3> QED
            BY <1>2, <3>1
    <2>3. CASE FilesSeen # 0
        BY <1>2, <2>1, <2>3 DEF RemappingsSeen
    <2> QED
        BY <2>2, <2>3
<1>8. ASSUME Ordinary
      PROVE  KeptSoFar'
    <2> DEFINE r == remappings[remap]
               seen == RemappingsSeen \cup {remap}
    <2>1. KeptSoFar
        BY <1>1, <1>8
    <2>2. \/ /\ kept' = kept
             /\ Changes(r) => \E n \in DOMAIN kept : IsPrefix(kept[n].from, r.from)
          \/ /\ kept' = Append(kept, r) /\ Changes(r)
             /\ \A n \in DOMAIN kept : ~ IsPrefix(kept[n].from, r.from) /\ ~ IsPrefix(r.from, kept[n].from)
        BY <1>1, <1>8, <2>1, KeepMeans
    <2>3. PICK new : new = kept'
        OBVIOUS
    <2>4. SUFFICES
            /\ \A n \in DOMAIN new : \E j \in seen : new[n] = remappings[j] /\ Changes(remappings[j])
            /\ \A n, m \in DOMAIN new : n # m => ~ IsPrefix(new[n].from, new[m].from)
            /\ \A j \in seen :
                Changes(remappings[j]) => \E n \in DOMAIN new : IsPrefix(new[n].from, remappings[j].from)
        BY <1>2, <1>7, <2>3 DEF KeptSoFar, Changes
    <2>5. CASE new = kept /\ (Changes(r) => \E n \in DOMAIN kept : IsPrefix(kept[n].from, r.from))
        BY <2>1, <2>5 DEF KeptSoFar
    <2>6. CASE /\ new = Append(kept, r) /\ Changes(r)
               /\ \A n \in DOMAIN kept : ~ IsPrefix(kept[n].from, r.from) /\ ~ IsPrefix(r.from, kept[n].from)
        <3>1. r \in Recs /\ r.from \in Path /\ kept \in Seq(Recs) /\ Len(kept) \in Nat /\ DOMAIN kept = 1..Len(kept)
            BY <1>1, <1>2, RemappingTypes DEF SaveTypeOK
        <3>2. /\ DOMAIN new = 1..(Len(kept) + 1) /\ new[Len(kept) + 1] = r
              /\ \A n \in DOMAIN kept : n \in DOMAIN new /\ new[n] = kept[n]
              /\ \A n \in DOMAIN new : n \in DOMAIN kept \/ n = Len(kept) + 1
            BY <2>6, <3>1, AppendProperties
        <3>3. ASSUME NEW n \in DOMAIN new
              PROVE  \E j \in seen : new[n] = remappings[j] /\ Changes(remappings[j])
            BY <2>1, <2>6, <3>2 DEF KeptSoFar
        <3>4. ASSUME NEW n \in DOMAIN new, NEW m \in DOMAIN new, n # m
              PROVE  ~ IsPrefix(new[n].from, new[m].from)
            BY <2>1, <2>6, <3>2, <3>4 DEF KeptSoFar
        <3>5. IsPrefix(new[Len(kept) + 1].from, r.from)
            BY <3>1, <3>2, ItsPrefix
        <3>6. ASSUME NEW j \in seen, Changes(remappings[j])
              PROVE  \E n \in DOMAIN new : IsPrefix(new[n].from, remappings[j].from)
            <4>1. CASE j = remap
                BY <3>1, <3>2, <3>5, <4>1
            <4>2. CASE j \in RemappingsSeen
                BY <2>1, <3>2, <3>6, <4>2 DEF KeptSoFar
            <4> QED
                BY <4>1, <4>2
        <3> QED
            BY <3>3, <3>4, <3>6
    <2> QED
        BY <2>2, <2>3, <2>5, <2>6
<1> QED
    BY <1>1, <1>2, <1>4, <1>5, <1>6, <1>8 DEF SaveInv

LEMMA NextFileKeepsInv ==
    ASSUME SaveInv, NextFile
    PROVE  SaveInv'
<1>1. SaveTypeOK /\ MainSoFar /\ (Ordinary => KeptSoFar) /\ saving = "extract"
    BY DEF SaveInv, NextFile, Extracting
<1>2. /\ remap \in Nat /\ Len(remappings) \in Nat /\ remap = Len(remappings) + 1 /\ file \in Nat \ {0}
      /\ file <= Len(sources) /\ Len(sources) \in Nat
      /\ remap' = 1 /\ saving' = saving /\ sources' = sources /\ remappings' = remappings
      /\ called' = called /\ file' = file + 1 /\ kept' = kept /\ tree' = tree
      /\ main' = IF main = <<>> \/ Last(sources[file]) = called THEN sources[file] ELSE main
    BY <1>1, RemappingTypes, SourceFiles DEF SaveTypeOK, NextFile, Extracting
<1>3. SaveTypeOK'
    BY <1>1, <1>2 DEF SaveTypeOK
<1>4. FilesSeen = file - 1 /\ FilesSeen' = file
    BY <1>1, <1>2 DEF FilesSeen
<1>5. MainSoFar'
    <2>1. sources[file] # <<>>
        BY <1>1, <1>2, SourceFiles
    <2>2. FilesSeen' > 0
        BY <1>2, <1>4
    <2>3. CASE main' = sources[file]
        <3>1. \E n \in 1..file : main' = sources[n]
            BY <1>2, <2>3
        <3>2. ASSUME NEW n \in 1..file, Last(sources[n]) = called
              PROVE  Last(main') = called
            <4>1. CASE n = file
                BY <2>3, <3>2, <4>1
            <4>2. CASE n # file
                <5>1. n \in 1..(file - 1)
                    BY <1>2, <4>2
                <5>2. Last(main) = called /\ file - 1 > 0
                    BY <1>1, <1>2, <1>4, <3>2, <5>1 DEF MainSoFar
                <5>3. PICK k \in 1..(file - 1) : main = sources[k]
                    BY <1>1, <1>4, <5>2 DEF MainSoFar
                <5>4. main # <<>>
                    BY <1>1, <1>2, <5>3, SourceFiles
                <5> QED
                    BY <1>2, <2>3, <5>2, <5>4
            <4> QED
                BY <4>1, <4>2
        <3> QED
            BY <1>2, <1>4, <2>2, <3>1, <3>2 DEF MainSoFar
    <2>4. CASE main' = main /\ main # <<>> /\ Last(sources[file]) # called
        <3>1. FilesSeen > 0
            BY <1>1, <1>2, <1>4, <2>4 DEF MainSoFar
        <3>2. PICK k \in 1..(file - 1) : main = sources[k]
            BY <1>1, <1>4, <3>1 DEF MainSoFar
        <3>3. k \in 1..file
            BY <1>2
        <3>4. ASSUME NEW n \in 1..file, Last(sources[n]) = called
              PROVE  Last(main) = called
            <4>1. n \in 1..(file - 1)
                BY <1>2, <2>4, <3>4
            <4> QED
                BY <1>1, <1>4, <3>4, <4>1 DEF MainSoFar
        <3> QED
            BY <1>2, <1>4, <2>2, <2>4, <3>2, <3>3, <3>4 DEF MainSoFar
    <2> QED
        BY <1>2, <2>3, <2>4
<1>6. RemappingsSeen' = RemappingsSeen
    <2>1. RemappingsSeen = DOMAIN remappings
        <3>1. DOMAIN remappings = 1..(remap - 1)
            BY <1>1, <1>2, RemappingTypes
        <3> QED
            BY <3>1 DEF RemappingsSeen
    <2>2. RemappingsSeen' = DOMAIN remappings
        BY <1>2, <1>4 DEF RemappingsSeen
    <2> QED
        BY <2>1, <2>2
<1>7. Ordinary => KeptSoFar'
    BY <1>1, <1>2, <1>6, SameKept
<1> QED
    BY <1>1, <1>2, <1>3, <1>5, <1>7, SameOrdinary DEF SaveInv

----------------------------------------------------------------------------
(* Files and links *)

LEMMA NowhereIsNoPath == Nowhere \notin Path
<1>1. SUFFICES ASSUME Nowhere \in Path PROVE FALSE
    OBVIOUS
<1>2. Nowhere[1] = ".." /\ Len(Nowhere) = 1
    BY DEF Nowhere
<1>3. Nowhere[1] \in Names
    <2>1. \A i \in 1..Len(Nowhere) : Nowhere[i] \in Names
        BY <1>1, PathProperties
    <2>2. 1 \in 1..Len(Nowhere)
        BY <1>2
    <2> QED
        BY <2>1, <2>2
<1> QED
    BY <1>2, <1>3, NamesAssumption

\* A directory is made where no file and no link is in its way.
LEMMA WithDirMakes ==
    ASSUME NEW t \in Trees, ~ t.raised, NEW p \in Path,
           \A l \in DOMAIN t.links : ~ IsPrefix(l, p), \A f \in t.files : ~ IsPrefix(f, p)
    PROVE  WithDir(t, p) = [t EXCEPT !.dirs = @ \cup {q \in Path : IsPrefix(q, p)}]
<1> DEFINE made == Parents(p) \cup {p}
           real == {Real(t, q) : q \in made}
<1>1. DOMAIN t.links \subseteq Path
    BY DEF Trees
<1>2. made = {q \in Path : IsPrefix(q, p)}
    BY ParentsMeans
<1>3. ASSUME NEW q \in made
      PROVE  Real(t, q) = q /\ q \notin DOMAIN t.links /\ q \notin t.files /\ q # Nowhere
    <2>1. q \in Path /\ IsPrefix(q, p)
        BY <1>2
    <2>2. \A l \in DOMAIN t.links : ~ IsPrefix(l, q)
        BY <1>1, <2>1, PrefixesOfPrefixes
    <2>3. Real(t, q) = q
        BY <2>1, <2>2, NoLinkOnPath
    <2>4. q \notin DOMAIN t.links /\ q \notin t.files
        BY <2>1
    <2>5. q # Nowhere
        BY <2>1, NowhereIsNoPath
    <2> QED
        BY <2>3, <2>4, <2>5
<1> HIDE DEF made
<1>4. real = made
    BY <1>3
<1> HIDE DEF real
<1>5. Nowhere \notin real /\ real \cap t.files = {} /\ ~ \E q \in made : q \in DOMAIN t.links /\ ~ IsDir(t, q)
    BY <1>3, <1>4
<1>6. WithDir(t, p) = [t EXCEPT !.dirs = @ \cup real]
    BY <1>5 DEF WithDir, made, real
<1> QED
    BY <1>2, <1>4, <1>6

\* The fields of the directory that is made.
LEMMA WithDirFields ==
    ASSUME NEW t \in Trees, ~ t.raised, NEW p \in Path,
           \A l \in DOMAIN t.links : ~ IsPrefix(l, p), \A f \in t.files : ~ IsPrefix(f, p)
    PROVE  LET made == WithDir(t, p)
           IN  /\ made \in Trees /\ ~ made.raised /\ made.files = t.files /\ made.links = t.links
               /\ made.dirs = t.dirs \cup {q \in Path : IsPrefix(q, p)}
<1> DEFINE D == {q \in Path : IsPrefix(q, p)}
<1>1. WithDir(t, p) = [t EXCEPT !.dirs = @ \cup D]
    BY WithDirMakes
<1>2. D \in SUBSET Path
    OBVIOUS
<1> HIDE DEF D
<1> DEFINE made == [t EXCEPT !.dirs = @ \cup D]
           L == UNION {[d -> Path] : d \in SUBSET Path}
<1>3. t \in [files : SUBSET Path, dirs : SUBSET Path, links : L, raised : BOOLEAN]
    BY DEF Trees
<1> HIDE DEF L
<1>4. /\ made \in [files : SUBSET Path, dirs : SUBSET Path, links : L, raised : BOOLEAN]
      /\ made.raised = t.raised /\ made.files = t.files /\ made.links = t.links
      /\ made.dirs = t.dirs \cup D
    BY <1>2, <1>3
<1>5. made \in Trees
    BY <1>4 DEF Trees, L
<1> QED
    BY <1>1, <1>4, <1>5 DEF D

\* Writing the next file.
LEMMA WriteAddsFile ==
    ASSUME SaveTypeOK, Ordinary, NEW n \in 1..Len(sources), HasFiles(tree, n - 1)
    PROVE  HasFiles(FileWritten(tree, sources[n]), n)
<1> DEFINE s == sources[n]
           p == Front(s)
           made == WithDir(tree, p)
           new == FileWritten(tree, s)
<1>1. s \in Path /\ s # <<>> /\ s \in ToSet(sources) /\ n \in Nat /\ Len(sources) \in Nat
    BY SourceFiles
<1>2. p \in Path /\ \A q \in Path : IsPrefix(q, p) <=> IsStrictPrefix(q, s)
    BY <1>1, FrontProperties
<1>3. /\ tree \in Trees /\ ~ tree.raised /\ DOMAIN tree.links = {}
      /\ tree.files = {sources[k] : k \in 1..(n - 1)}
      /\ \A d \in tree.dirs : d = <<>> \/ \E k \in 1..(n - 1) : IsStrictPrefix(d, sources[k])
      /\ \A k \in 1..(n - 1) : Parents(sources[k]) \subseteq tree.dirs
    BY DEF HasFiles, NoLinks
<1>4. \A k \in 1..n : sources[k] \in Path /\ sources[k] \in ToSet(sources) /\ ~ IsStrictPrefix(s, sources[k])
                        /\ ~ IsStrictPrefix(sources[k], s)
    BY <1>1, SourceFiles, OrdinaryMeans
<1>5. \A f \in tree.files : ~ IsPrefix(f, p)
    BY <1>1, <1>2, <1>3, <1>4
<1> HIDE DEF s, p
<1>6. /\ made \in Trees /\ ~ made.raised /\ made.files = tree.files /\ made.links = tree.links
      /\ made.dirs = tree.dirs \cup {q \in Path : IsPrefix(q, p)}
    BY <1>2, <1>3, <1>5, WithDirFields
<1> HIDE DEF made
<1>7. ASSUME NEW d \in made.dirs
      PROVE  d = <<>> \/ \E k \in 1..n : IsStrictPrefix(d, sources[k])
    <2>1. CASE d \in tree.dirs
        BY <1>1, <1>3, <2>1
    <2>2. CASE d \in Path /\ IsPrefix(d, p)
        BY <1>1, <1>2, <2>2 DEF s
    <2> QED
        BY <1>6, <2>1, <2>2
<1>8. Real(made, s) = s
    BY <1>1, <1>3, <1>6, NoLinkOnPath
<1>9. s \notin made.dirs \cup {Nowhere}
    <2>1. s # Nowhere
        BY <1>1, NowhereIsNoPath
    <2> QED
        BY <1>1, <1>4, <1>7, <2>1
<1>10. new = [made EXCEPT !.files = @ \cup {s}]
    <2>1. ~ (made.raised \/ Real(made, s) \in made.dirs \cup {Nowhere})
        BY <1>6, <1>8, <1>9
    <2>2. new = IF made.raised \/ Real(made, s) \in made.dirs \cup {Nowhere}
                THEN [made EXCEPT !.raised = TRUE]
                ELSE [made EXCEPT !.files = @ \cup {Real(made, s)}]
        BY DEF FileWritten, made, p
    <2> QED
        BY <1>8, <2>1, <2>2
<1> HIDE DEF new
<1> DEFINE L == UNION {[d -> Path] : d \in SUBSET Path}
<1>11. made \in [files : SUBSET Path, dirs : SUBSET Path, links : L, raised : BOOLEAN]
    BY <1>6 DEF Trees
<1> HIDE DEF L
<1>12. /\ new \in [files : SUBSET Path, dirs : SUBSET Path, links : L, raised : BOOLEAN]
       /\ new.raised = made.raised /\ new.links = made.links /\ new.dirs = made.dirs
       /\ new.files = made.files \cup {s}
    BY <1>1, <1>10, <1>11
<1>13. new \in Trees
    BY <1>12 DEF Trees, L
<1>14. new.files = {sources[k] : k \in 1..n}
    <2>1. 1..n = 1..(n - 1) \cup {n}
        BY <1>1
    <2> QED
        BY <1>3, <1>6, <1>12, <2>1 DEF s
<1>15. ASSUME NEW k \in 1..n
       PROVE  Parents(sources[k]) \subseteq new.dirs
    <2>1. CASE k = n
        <3>1. \A q \in Parents(s) : q \in Path /\ IsStrictPrefix(q, s)
            BY <1>1, ParentsMeans
        <3> QED
            BY <1>2, <1>6, <1>12, <2>1, <3>1 DEF s
    <2>2. CASE k \in 1..(n - 1)
        BY <1>3, <1>6, <1>12, <2>2
    <2> QED
        BY <1>1, <2>1, <2>2
<1>16. ~ new.raised /\ new.links = NoLinks
    BY <1>6, <1>12 DEF HasFiles
<1>17. HasFiles(new, n)
    BY <1>7, <1>12, <1>13, <1>14, <1>15, <1>16 DEF HasFiles
<1> QED
    BY <1>17 DEF new, s

\* No kept prefix is on the way to a directory with a file.
LEMMA NoLinkOnTarget ==
    ASSUME SaveTypeOK, Ordinary, KeptSoFar, saving # "idle", NEW t, NEW n \in Nat, n < Len(kept) + 1,
           HasLinks(t, n), NEW p \in Path, NEW s \in ToSet(sources), IsPrefix(p, s)
    PROVE  /\ \A l \in DOMAIN t.links : ~ IsPrefix(l, p)
           /\ Real(t, p) = p
<1>1. \A l \in DOMAIN t.links : \E k \in 1..n : l = kept[k].from /\ t.links[l] = kept[k].to
    BY DEF HasLinks
<1>2. ASSUME NEW l \in DOMAIN t.links, IsPrefix(l, p)
      PROVE  FALSE
    <2>1. PICK k \in 1..n : l = kept[k].from
        BY <1>1
    <2>2. k \in DOMAIN kept
        BY RemappingTypes
    <2>3. l \in Path /\ ~ IsPrefix(l, s)
        BY <2>1, <2>2, KeptProperties
    <2>4. s \in Path
        BY SourceFiles
    <2> QED
        BY <1>2, <2>3, <2>4, PrefixesOfPrefixes
<1> QED
    BY <1>2, NoLinkOnPath

\* Where the link for a remapping is made and where it leads.
LEMMA LinkedMeans ==
    ASSUME SaveTypeOK, Ordinary, KeptSoFar, saving = "link", NEW n \in DOMAIN kept,
           HasLinks(tree, n - 1)
    PROVE  LET new == Linked(tree, kept[n])
               from == kept[n].from
           IN  /\ new \in Trees /\ ~ new.raised /\ new.files = tree.files
               /\ new.dirs = tree.dirs \cup {q \in Path : IsPrefix(q, Front(from))}
               /\ DOMAIN new.links = DOMAIN tree.links \cup {from}
               /\ new.links[from] = kept[n].to
               /\ \A l \in DOMAIN tree.links : l # from /\ new.links[l] = tree.links[l]
<1> DEFINE r == kept[n]
           from == kept[n].from
           to == kept[n].to
           parent == Front(from)
           made == WithDir(tree, parent)
           where == Append(Real(made, parent), Last(from))
           rel == RelPath(to, parent)
           target == Above(Front(where), rel.up) \o rel.down
           new == Linked(tree, r)
<1>1. /\ from \in Path /\ to \in Path /\ from # <<>> /\ n \in 1..Len(kept) /\ Len(kept) \in Nat
      /\ \A s \in ToSet(sources) : s \in Path /\ ~ IsPrefix(from, s) /\ ~ IsPrefix(s, from)
    BY KeptProperties, RemappingTypes, SourceFiles
<1>2. parent \in Path /\ Append(parent, Last(from)) = from
      /\ \A q \in Path : IsPrefix(q, parent) <=> IsStrictPrefix(q, from)
    BY <1>1, FrontProperties
<1>3. /\ tree \in Trees /\ ~ tree.raised /\ tree.files = ToSet(sources)
      /\ \A d \in tree.dirs :
            \/ d = <<>>
            \/ \E s \in ToSet(sources) : IsStrictPrefix(d, s)
            \/ \E k \in 1..(n - 1) : IsStrictPrefix(d, kept[k].from)
      /\ \A l \in DOMAIN tree.links : \E k \in 1..(n - 1) : l = kept[k].from
    BY DEF HasLinks
<1>4. \A k \in 1..(n - 1) : /\ kept[k].from \in Path
                            /\ ~ IsPrefix(kept[k].from, from) /\ ~ IsPrefix(from, kept[k].from)
    <2>1. \A k \in 1..(n - 1) : k \in DOMAIN kept /\ k # n
        BY <1>1
    <2> QED
        BY <2>1, RemappingTypes DEF KeptSoFar
<1>5. \A l \in DOMAIN tree.links : l \in Path /\ ~ IsPrefix(l, parent) /\ l # from
    BY <1>1, <1>2, <1>3, <1>4, ItsPrefix DEF IsStrictPrefix
<1>6. \A f \in tree.files : ~ IsPrefix(f, parent)
    BY <1>1, <1>2, <1>3 DEF IsStrictPrefix
<1> HIDE DEF from, to, parent
<1>7. /\ made \in Trees /\ ~ made.raised /\ made.files = tree.files /\ made.links = tree.links
      /\ made.dirs = tree.dirs \cup {q \in Path : IsPrefix(q, parent)}
    BY <1>2, <1>3, <1>5, <1>6, WithDirFields
<1> HIDE DEF made
<1>8. Real(made, parent) = parent
    BY <1>2, <1>5, <1>7, NoLinkOnPath
<1>9. where = from
    BY <1>2, <1>8
<1> HIDE DEF where
<1>10. target = to
    <2>1. Front(where) = parent
        BY <1>9 DEF parent
    <2> QED
        BY <1>1, <1>2, <2>1, RelPathLeads
<1> HIDE DEF target, rel
<1>11. from \notin made.dirs \cup made.files \cup DOMAIN made.links
    <2>1. from \notin DOMAIN made.links
        BY <1>5, <1>7
    <2>2. from \notin made.files
        BY <1>1, <1>3, <1>7, ItsPrefix
    <2>3. from \notin tree.dirs
        BY <1>1, <1>3, <1>4 DEF IsStrictPrefix
    <2>4. ~ IsPrefix(from, parent)
        BY <1>1, <1>2 DEF IsStrictPrefix
    <2> QED
        BY <1>7, <2>1, <2>2, <2>3, <2>4
<1> DEFINE made2 == [made EXCEPT !.links =
                        [p \in DOMAIN @ \cup {from} |-> IF p = from THEN to ELSE @[p]]]
           ln == [p \in DOMAIN made.links \cup {from} |-> IF p = from THEN to ELSE made.links[p]]
<1>12. new = made2
    <2>1. new = IF made.raised \/ where \in made.dirs \cup made.files \cup DOMAIN made.links
                THEN [made EXCEPT !.raised = TRUE]
                ELSE [made EXCEPT !.links =
                        [p \in DOMAIN @ \cup {where} |-> IF p = where THEN target ELSE @[p]]]
        BY DEF Linked, made, parent, from, to, where, target, rel
    <2>2. ~ (made.raised \/ where \in made.dirs \cup made.files \cup DOMAIN made.links)
        BY <1>7, <1>9, <1>11
    <2> HIDE DEF new
    <2> QED
        BY <1>9, <1>10, <2>1, <2>2
<1>13. made2 = [made EXCEPT !.links = ln]
    OBVIOUS
<1> HIDE DEF new, made2
<1> DEFINE L == UNION {[d -> Path] : d \in SUBSET Path}
<1>14. made \in [files : SUBSET Path, dirs : SUBSET Path, links : L, raised : BOOLEAN]
    BY <1>7 DEF Trees
<1>15. ln \in L
    <2>1. DOMAIN made.links \subseteq Path /\ \A l \in DOMAIN made.links : made.links[l] \in Path
        BY <1>14
    <2>2. ln \in [DOMAIN made.links \cup {from} -> Path] /\ DOMAIN made.links \cup {from} \in SUBSET Path
        BY <1>1, <2>1
    <2> QED
        BY <2>2
<1>16. /\ DOMAIN ln = DOMAIN tree.links \cup {from} /\ ln[from] = to
       /\ \A l \in DOMAIN tree.links : l # from /\ ln[l] = tree.links[l]
    BY <1>5, <1>7
<1> HIDE DEF L, ln
<1>17. /\ new \in [files : SUBSET Path, dirs : SUBSET Path, links : L, raised : BOOLEAN]
       /\ new.raised = made.raised /\ new.files = made.files /\ new.dirs = made.dirs
       /\ new.links = ln
    BY <1>12, <1>13, <1>14, <1>15
<1>18. new \in Trees
    BY <1>17 DEF Trees, L
<1>19. ~ new.raised /\ new.files = tree.files /\ new.dirs = tree.dirs \cup {q \in Path : IsPrefix(q, parent)}
    BY <1>7, <1>17
<1> QED
    BY <1>16, <1>17, <1>18, <1>19 DEF new, r, from, to, parent

\* Going through the next remapping.
LEMMA LinkAddsLink ==
    ASSUME SaveTypeOK, Ordinary, KeptSoFar, saving = "link", NEW n \in DOMAIN kept,
           HasLinks(tree, n - 1)
    PROVE  HasLinks(Remapped(tree, kept[n]), n)
<1> DEFINE from == kept[n].from
           to == kept[n].to
<1>1. /\ from \in Path /\ to \in Path /\ from # <<>> /\ n \in 1..Len(kept) /\ Len(kept) \in Nat
    BY KeptProperties, RemappingTypes
<1>2. n \in 1..n /\ n - 1 \in Nat /\ n - 1 < Len(kept) + 1 /\ 1..n = 1..(n - 1) \cup {n}
    BY <1>1
<1>3. /\ tree \in Trees /\ ~ tree.raised /\ tree.files = ToSet(sources)
      /\ \A d \in tree.dirs :
            \/ d = <<>>
            \/ \E s \in ToSet(sources) : IsStrictPrefix(d, s)
            \/ \E k \in 1..(n - 1) : IsStrictPrefix(d, kept[k].from)
      /\ \A s \in ToSet(sources) : Parents(s) \subseteq tree.dirs
      /\ \A l \in DOMAIN tree.links : \E k \in 1..(n - 1) : l = kept[k].from /\ tree.links[l] = kept[k].to
      /\ \A k \in 1..(n - 1) : \A s \in ToSet(sources) :
            IsStrictPrefix(kept[k].to, s) => kept[k].from \in DOMAIN tree.links
    BY DEF HasLinks
<1>4. CASE ~ IsDir(tree, to)
    <2>1. ASSUME NEW s \in ToSet(sources), IsStrictPrefix(to, s)
          PROVE  FALSE
        <3>1. s \in Path /\ IsPrefix(to, s)
            BY <2>1, SourceFiles DEF IsStrictPrefix
        <3>2. Real(tree, to) = to
            BY <1>1, <1>2, <3>1, NoLinkOnTarget
        <3>3. to \in Parents(s)
            BY <1>1, <2>1, <3>1, ParentsMeans
        <3> QED
            BY <1>3, <1>4, <3>2, <3>3 DEF IsDir
    <2>2. Remapped(tree, kept[n]) = tree
        BY <1>4 DEF Remapped
    <2>3. HasLinks(tree, n)
        <3>1. ASSUME NEW k \in 1..n, NEW s \in ToSet(sources), IsStrictPrefix(kept[k].to, s)
              PROVE  kept[k].from \in DOMAIN tree.links
            BY <1>2, <1>3, <2>1, <3>1
        <3>2. \A d \in tree.dirs :
                \/ d = <<>>
                \/ \E s \in ToSet(sources) : IsStrictPrefix(d, s)
                \/ \E k \in 1..n : IsStrictPrefix(d, kept[k].from)
            BY <1>2, <1>3
        <3>3. \A l \in DOMAIN tree.links : \E k \in 1..n : l = kept[k].from /\ tree.links[l] = kept[k].to
            BY <1>2, <1>3
        <3> QED
            BY <1>3, <3>1, <3>2, <3>3 DEF HasLinks
    <2> QED
        BY <2>2, <2>3
<1>5. CASE IsDir(tree, to)
    <2> DEFINE new == Linked(tree, kept[n])
    <2>1. Remapped(tree, kept[n]) = new
        BY <1>1, <1>5 DEF Remapped
    <2>2. /\ new \in Trees /\ ~ new.raised /\ new.files = tree.files
          /\ new.dirs = tree.dirs \cup {q \in Path : IsPrefix(q, Front(from))}
          /\ DOMAIN new.links = DOMAIN tree.links \cup {from}
          /\ new.links[from] = to
          /\ \A l \in DOMAIN tree.links : l # from /\ new.links[l] = tree.links[l]
        BY LinkedMeans
    <2> HIDE DEF new
    <2>3. ASSUME NEW d \in new.dirs
          PROVE  \/ d = <<>>
                 \/ \E s \in ToSet(sources) : IsStrictPrefix(d, s)
                 \/ \E k \in 1..n : IsStrictPrefix(d, kept[k].from)
        <3>1. CASE d \in tree.dirs
            BY <1>2, <1>3, <3>1
        <3>2. CASE d \in Path /\ IsPrefix(d, Front(from))
            <4>1. IsStrictPrefix(d, from)
                BY <1>1, <3>2, FrontProperties
            <4> QED
                BY <1>2, <4>1
        <3> QED
            BY <2>2, <3>1, <3>2
    <2>4. \A s \in ToSet(sources) : Parents(s) \subseteq new.dirs
        BY <1>3, <2>2
    <2>5. ASSUME NEW l \in DOMAIN new.links
          PROVE  \E k \in 1..n : l = kept[k].from /\ new.links[l] = kept[k].to
        <3>1. CASE l = from
            BY <1>2, <2>2, <3>1
        <3>2. CASE l \in DOMAIN tree.links
            <4>1. PICK k \in 1..(n - 1) : l = kept[k].from /\ tree.links[l] = kept[k].to
                BY <1>3, <3>2
            <4> QED
                BY <1>2, <2>2, <3>2, <4>1
        <3> QED
            BY <2>2, <3>1, <3>2
    <2>6. ASSUME NEW k \in 1..n, NEW s \in ToSet(sources), IsStrictPrefix(kept[k].to, s)
          PROVE  kept[k].from \in DOMAIN new.links
        BY <1>2, <1>3, <2>2, <2>6
    <2>7. HasLinks(new, n)
        BY <1>3, <2>2, <2>3, <2>4, <2>5, <2>6 DEF HasLinks
    <2> QED
        BY <2>1, <2>7
<1> QED
    BY <1>4, <1>5

----------------------------------------------------------------------------
(* The invariant *)

LEMMA EmptyTreeType == EmptyTree \in Trees /\ ~ EmptyTree.raised /\ EmptyTree.links = NoLinks
<1> DEFINE L == UNION {[d -> Path] : d \in SUBSET Path}
<1>1. NoLinks \in [{} -> Path] /\ {} \in SUBSET Path
    BY DEF NoLinks
<1>2. NoLinks \in L
    BY <1>1
<1>3. <<>> \in Path
    BY DEF Path
<1> HIDE DEF L
<1>4. EmptyTree \in [files : SUBSET Path, dirs : SUBSET Path, links : L, raised : BOOLEAN]
    BY <1>2, <1>3 DEF EmptyTree
<1> QED
    BY <1>4 DEF Trees, L, EmptyTree

LEMMA SaveStarts == SaveInit => SaveInv
<1> SUFFICES ASSUME SaveInit PROVE SaveInv
    OBVIOUS
<1>1. /\ saving = "idle" /\ sources = <<>> /\ remappings = <<>> /\ file = 1 /\ remap = 1
      /\ kept = <<>> /\ main = <<>> /\ tree = EmptyTree
    BY DEF SaveInit
<1>2. <<>> \in Seq(Path) /\ <<>> \in Seq(Recs) /\ Len(<<>>) = 0 /\ DOMAIN <<>> = {}
    OBVIOUS
<1>3. SaveTypeOK
    BY <1>1, <1>2 DEF SaveTypeOK
<1>4. FilesSeen = 0
    BY <1>1 DEF FilesSeen
<1>5. MainSoFar
    BY <1>1, <1>4 DEF MainSoFar
<1>6. RemappingsSeen = {}
    BY <1>1, <1>4 DEF RemappingsSeen
<1>7. KeptSoFar
    BY <1>1, <1>2, <1>6 DEF KeptSoFar
<1> QED
    BY <1>1, <1>3, <1>5, <1>7 DEF SaveInv

LEMMA ExtractKeepsInv ==
    ASSUME SaveInv, Extract
    PROVE  SaveInv'
<1>1. /\ sources' \in Downloads.sources /\ remappings' \in Downloads.remappings
      /\ saving' = "extract" /\ file' = 1 /\ remap' = 1 /\ kept' = <<>> /\ main' = main
      /\ saving = "idle" /\ SaveTypeOK /\ MainSoFar /\ tree' = tree
    BY DEF Extract, SaveInv
<1>2. sources' \in Seq(Path) /\ sources' # <<>> /\ \A n \in DOMAIN sources' : sources'[n] # <<>>
    BY <1>1, DownloadsAssumption DEF Path
<1>3. remappings' \in Seq(Recs)
    BY <1>1, DownloadsAssumption DEF Path, Recs
<1>4. <<>> \in Seq(Recs) /\ DOMAIN <<>> = {} /\ Len(sources') \in Nat /\ Len(remappings') \in Nat
    BY <1>2, <1>3
<1>5. SaveTypeOK'
    BY <1>1, <1>2, <1>3, <1>4 DEF SaveTypeOK
<1>6. FilesSeen' = 0
    BY <1>1 DEF FilesSeen
<1>7. MainSoFar'
    <2>1. FilesSeen = 0 /\ main = <<>>
        <3>1. sources = <<>> /\ file \in 1..(Len(sources) + 1)
            BY <1>1 DEF SaveTypeOK
        <3>2. file = 1
            BY <3>1
        <3> QED
            BY <1>1, <3>2 DEF FilesSeen, MainSoFar
    <2> QED
        BY <1>1, <1>6, <2>1 DEF MainSoFar
<1>8. RemappingsSeen' = {}
    BY <1>1, <1>6 DEF RemappingsSeen
<1>9. KeptSoFar'
    BY <1>1, <1>4, <1>8 DEF KeptSoFar
<1> QED
    BY <1>1, <1>5, <1>7, <1>9 DEF SaveInv

\* What save_source leaves alone.
LEMMA SavingKeeps ==
    ASSUME SaveInv, saving' \in {"write", "link"}, saving' = "link" => saving \in {"write", "link"},
           saving = "extract" => file > Len(sources), saving # "idle",
           file' \in 1..(Len(sources) + 1), remap' \in Nat \ {0}, SaveTypeOK',
           UNCHANGED <<sources, remappings, called, kept, main>>
    PROVE  /\ MainSoFar' /\ (Ordinary' <=> Ordinary)
           /\ Ordinary => KeptSoFar /\ KeptSoFar'
<1>1. SaveTypeOK /\ MainSoFar /\ (Ordinary => KeptSoFar)
    BY DEF SaveInv
<1>2. Len(sources) \in Nat /\ Len(sources) >= 1 /\ file \in 1..(Len(sources) + 1)
    BY <1>1, SourceFiles DEF SaveTypeOK
<1>3. FilesSeen = Len(sources)
    BY <1>1, <1>2 DEF FilesSeen, SaveTypeOK
<1>4. FilesSeen' = Len(sources)
    BY DEF FilesSeen
<1>5. MainSoFar'
    BY <1>1, <1>3, <1>4, SameMain
<1>6. RemappingsSeen' = RemappingsSeen
    BY <1>2, <1>3, <1>4 DEF RemappingsSeen
<1>7. Ordinary => KeptSoFar'
    BY <1>1, <1>6, SameKept
<1> QED
    BY <1>1, <1>5, <1>7, SameOrdinary

LEMMA CleanKeepsInv ==
    ASSUME SaveInv, Clean
    PROVE  SaveInv'
<1>1. /\ saving = "extract" /\ file > Len(sources) /\ saving' = "write" /\ file' = 1 /\ tree' = EmptyTree
      /\ UNCHANGED <<sources, remappings, called, remap, kept, main>> /\ SaveTypeOK
    BY DEF Clean, SaveInv
<1>2. Len(sources) \in Nat
    BY <1>1, SourceFiles
<1>3. SaveTypeOK'
    BY <1>1, <1>2 DEF SaveTypeOK
<1>4. remap' \in Nat \ {0} /\ file' \in 1..(Len(sources) + 1)
    BY <1>1, <1>2 DEF SaveTypeOK
<1>5. MainSoFar' /\ (Ordinary' <=> Ordinary) /\ (Ordinary => KeptSoFar')
    BY <1>1, <1>3, <1>4, SavingKeeps
<1>6. HasFiles(EmptyTree, 0)'
    <2>1. EmptyTree.files = {} /\ EmptyTree.dirs = {<<>>}
        BY DEF EmptyTree
    <2> QED
        BY <2>1, EmptyTreeType DEF HasFiles
<1>7. HasFiles(tree, file - 1)'
    BY <1>1, <1>6
<1> QED
    BY <1>1, <1>3, <1>5, <1>7 DEF SaveInv

LEMMA WriteKeepsInv ==
    ASSUME SaveInv, Write
    PROVE  SaveInv'
<1>1. /\ saving = "write" /\ file <= Len(sources) /\ tree' = FileWritten(tree, sources[file]) /\ file' = file + 1
      /\ UNCHANGED <<saving, sources, remappings, called, remap, kept, main>>
      /\ SaveTypeOK /\ (Ordinary => HasFiles(tree, file - 1))
    BY DEF Write, SaveInv
<1>2. Len(sources) \in Nat /\ file \in 1..Len(sources)
    BY <1>1, SourceFiles DEF SaveTypeOK
<1>3. SaveTypeOK'
    BY <1>1, <1>2 DEF SaveTypeOK
<1>4. remap' \in Nat \ {0} /\ file' \in 1..(Len(sources) + 1)
    BY <1>1, <1>2 DEF SaveTypeOK
<1>5. MainSoFar' /\ (Ordinary' <=> Ordinary) /\ (Ordinary => KeptSoFar')
    BY <1>1, <1>3, <1>4, SavingKeeps
<1>6. ASSUME Ordinary
      PROVE  HasFiles(tree, file - 1)'
    <2>1. HasFiles(tree', file)
        BY <1>1, <1>2, <1>6, WriteAddsFile
    <2>2. (file - 1)' = file
        BY <1>1, <1>2
    <2> QED
        BY <1>1, <2>1, <2>2 DEF HasFiles
<1> QED
    BY <1>1, <1>3, <1>5, <1>6 DEF SaveInv

LEMMA StartLinksKeepsInv ==
    ASSUME SaveInv, StartLinks
    PROVE  SaveInv'
<1>1. /\ saving = "write" /\ file > Len(sources) /\ saving' = "link" /\ remap' = 1
      /\ UNCHANGED <<sources, remappings, called, file, kept, main, tree>>
      /\ SaveTypeOK /\ (Ordinary => HasFiles(tree, file - 1))
    BY DEF StartLinks, SaveInv
<1>2. Len(sources) \in Nat /\ file \in 1..(Len(sources) + 1) /\ file = Len(sources) + 1 /\ Len(kept) \in Nat
    BY <1>1, SourceFiles, RemappingTypes DEF SaveTypeOK
<1>3. SaveTypeOK'
    BY <1>1, <1>2 DEF SaveTypeOK
<1>4. remap' \in Nat \ {0} /\ file' \in 1..(Len(sources) + 1)
    BY <1>1, <1>2
<1>5. MainSoFar' /\ (Ordinary' <=> Ordinary) /\ (Ordinary => KeptSoFar')
    BY <1>1, <1>3, <1>4, SavingKeeps
<1>6. ASSUME Ordinary
      PROVE  HasLinks(tree, remap - 1)'
    <2>1. HasFiles(tree, Len(sources))
        BY <1>1, <1>2, <1>6
    <2>2. /\ tree \in Trees /\ ~ tree.raised /\ DOMAIN tree.links = {}
          /\ tree.files = ToSet(sources)
          /\ \A d \in tree.dirs : d = <<>> \/ \E s \in ToSet(sources) : IsStrictPrefix(d, s)
          /\ \A s \in ToSet(sources) : Parents(s) \subseteq tree.dirs
        <3>1. DOMAIN sources = 1..Len(sources)
            BY <1>1, SourceFiles
        <3> QED
            BY <2>1, <3>1 DEF HasFiles, NoLinks, ToSet
    <2>3. HasLinks(tree, 0)
        BY <2>2 DEF HasLinks
    <2>4. (remap - 1)' = 0
        BY <1>1
    <2> QED
        BY <1>1, <2>3, <2>4 DEF HasLinks
<1> QED
    BY <1>1, <1>2, <1>3, <1>5, <1>6 DEF SaveInv

LEMMA LinkKeepsInv ==
    ASSUME SaveInv, Link
    PROVE  SaveInv'
<1>1. /\ saving = "link" /\ remap <= Len(kept) /\ tree' = Remapped(tree, kept[remap]) /\ remap' = remap + 1
      /\ UNCHANGED <<saving, sources, remappings, called, file, kept, main>>
      /\ SaveTypeOK /\ (Ordinary => KeptSoFar /\ HasLinks(tree, remap - 1))
    BY DEF Link, SaveInv
<1>2. Len(kept) \in Nat /\ remap \in 1..Len(kept) /\ remap \in DOMAIN kept
    BY <1>1, RemappingTypes DEF SaveTypeOK
<1>3. SaveTypeOK'
    BY <1>1, <1>2 DEF SaveTypeOK
<1>4. remap' \in Nat \ {0} /\ file' \in 1..(Len(sources) + 1)
    BY <1>1, <1>2 DEF SaveTypeOK
<1>5. MainSoFar' /\ (Ordinary' <=> Ordinary) /\ (Ordinary => KeptSoFar')
    BY <1>1, <1>3, <1>4, SavingKeeps
<1>6. ASSUME Ordinary
      PROVE  HasLinks(tree, remap - 1)'
    <2>1. HasLinks(tree', remap)
        BY <1>1, <1>2, <1>6, LinkAddsLink
    <2>2. (remap - 1)' = remap
        BY <1>1, <1>2
    <2> QED
        BY <1>1, <2>1, <2>2 DEF HasLinks
<1>7. (remap <= Len(kept) + 1)'
    BY <1>1, <1>2
<1> QED
    BY <1>1, <1>3, <1>5, <1>6, <1>7 DEF SaveInv

LEMMA UnchangedSaveInv ==
    ASSUME SaveInv, UNCHANGED saveVars
    PROVE  SaveInv'
<1>1. UNCHANGED <<saving, sources, remappings, called, file, remap, kept, main, tree>>
    BY DEF saveVars
<1>2. FilesSeen' = FilesSeen /\ RemappingsSeen' = RemappingsSeen
    BY <1>1 DEF FilesSeen, RemappingsSeen
<1>3. (SaveTypeOK' <=> SaveTypeOK) /\ (Ordinary' <=> Ordinary)
    BY <1>1, SameOrdinary DEF SaveTypeOK
<1>4. SaveTypeOK /\ MainSoFar
    BY DEF SaveInv
<1>5. MainSoFar' /\ (KeptSoFar => KeptSoFar')
    BY <1>1, <1>2, <1>4, SameMain, SameKept
<1> QED
    BY <1>1, <1>3, <1>4, <1>5 DEF SaveInv, HasFiles, HasLinks

----------------------------------------------------------------------------
(* Imports *)

\* Some remapping of the path applies, if there is any.
LEMMA BestApplies ==
    ASSUME SaveTypeOK, Ordinary, NEW p \in Path, Applying(p) # {}
    PROVE  \E b \in Applying(p) : Imported(p) = Moved(p, remappings[b].from, remappings[b].to)
<1> DEFINE Best(n) == \A k \in Applying(p) \ {n} :
                        \/ Strength(remappings[k]) < Strength(remappings[n])
                        \/ Strength(remappings[k]) = Strength(remappings[n]) /\ k < n
           best == CHOOSE n \in Applying(p) : Best(n)
<1>1. /\ Applying(p) \in SUBSET Nat /\ \A k \in Applying(p) : k <= Len(remappings)
      /\ Len(remappings) \in Nat
      /\ \A k \in Applying(p) : k \in DOMAIN remappings /\ IsPrefix(remappings[k].from, p)
    BY RemappingTypes DEF Applying
<1>2. PICK m \in Applying(p) : \A k \in Applying(p) : k <= m
    BY <1>1, GreatestExists
<1>3. ASSUME NEW k \in Applying(p), k # m
      PROVE  \/ Strength(remappings[k]) < Strength(remappings[m])
             \/ Strength(remappings[k]) = Strength(remappings[m]) /\ k < m
    <2> DEFINE f == remappings[k].from
               g == remappings[m].from
    <2>1. f \in Path /\ g \in Path /\ remappings[k].slash /\ remappings[m].slash
        BY <1>1, RemappingTypes, OrdinaryMeans
    <2>2. IsPrefix(f, p) /\ IsPrefix(g, p)
        BY <1>1
    <2>3. k \in Nat /\ m \in Nat /\ k < m
        BY <1>1, <1>2, <1>3
    <2>4. ~ IsPrefix(g, f)
        <3>1. k \in DOMAIN remappings /\ m \in DOMAIN remappings
            BY <1>1
        <3>2. IsPrefix(g, f) => m < k
            BY <1>3, <3>1, OrdinaryMeans
        <3> QED
            BY <2>3, <3>2
    <2> HIDE DEF f, g
    <2>5. ~ (Len(g) <= Len(f))
        BY <2>1, <2>2, <2>4, PrefixesCompare
    <2>6. Len(f) \in Nat /\ Len(g) \in Nat
        BY <2>1, PathProperties
    <2>7. Strength(remappings[k]) = 2 * Len(f) + 1 /\ Strength(remappings[m]) = 2 * Len(g) + 1
        BY <2>1 DEF Strength, f, g
    <2>8. 2 * Len(f) + 1 < 2 * Len(g) + 1
        BY <2>5, <2>6
    <2> QED
        BY <2>7, <2>8
<1>4. Best(m)
    BY <1>3
<1> HIDE DEF Best
<1>5. best \in Applying(p)
    BY <1>2, <1>4
<1>6. Imported(p) = Moved(p, remappings[best].from, remappings[best].to)
    BY DEF Imported, Best
<1> HIDE DEF best
<1> QED
    BY <1>5, <1>6

LEMMA ImportPathsMean ==
    ASSUME NEW p \in ImportPaths, p \notin ToSet(sources)
    PROVE  \E r \in ToSet(remappings), s \in ToSet(sources) : \E n \in 1..Len(s) :
                p = r.from \o SubSeq(s, n, Len(s))
<1>1. p \in UNION {UNION {Behind(r, s) : s \in ToSet(sources)} : r \in ToSet(remappings)}
    BY DEF ImportPaths
<1>2. PICK r \in ToSet(remappings) : p \in UNION {Behind(r, s) : s \in ToSet(sources)}
    BY <1>1
<1>3. PICK s \in ToSet(sources) : p \in Behind(r, s)
    BY <1>2
<1> QED
    BY <1>3 DEF Behind

\* No kept prefix is itself imported.
LEMMA ImportIsBehind ==
    ASSUME SaveTypeOK, Ordinary, KeptSoFar, saving = "link", NEW p \in ImportPaths,
           NEW n \in DOMAIN kept, RemappingsSeen = DOMAIN remappings
    PROVE  p # kept[n].from
<1> SUFFICES ASSUME p = kept[n].from PROVE FALSE
    OBVIOUS
<1>1. /\ kept[n].from \in Path
      /\ \A s \in ToSet(sources) : ~ IsPrefix(kept[n].from, s)
    BY KeptProperties
<1>2. CASE p \in ToSet(sources)
    BY <1>1, <1>2, ItsPrefix
<1>3. CASE \E r \in ToSet(remappings), s \in ToSet(sources) : \E i \in 1..Len(s) :
                p = r.from \o SubSeq(s, i, Len(s))
    <2>1. PICK r \in ToSet(remappings), s \in ToSet(sources) : \E i \in 1..Len(s) :
                p = r.from \o SubSeq(s, i, Len(s))
        BY <1>3
    <2>2. PICK i \in 1..Len(s) : p = r.from \o SubSeq(s, i, Len(s))
        BY <2>1
    <2>3. PICK k \in DOMAIN remappings : r = remappings[k]
        BY DEF ToSet
    <2>4. PICK j \in RemappingsSeen : /\ j \in DOMAIN remappings /\ kept[n] = remappings[j]
                                      /\ Changes(remappings[j])
        BY KeptProperties
    <2>5. r.from \in Path /\ r.to \in Path /\ s \in Path
        BY <2>3, RemappingTypes, SourceFiles
    <2>6. IsPrefix(r.from, p) /\ r.from # p
        <3> DEFINE rest == SubSeq(s, i, Len(s))
        <3>1. Len(s) \in Nat /\ i \in Nat /\ i <= Len(s) /\ \A m \in i..Len(s) : s[m] \in Names
            BY <2>5, PathProperties
        <3>2. rest \in Path /\ Len(rest) = Len(s) - i + 1
            BY <3>1, SubSeqProperties DEF Path
        <3> HIDE DEF rest
        <3>3. /\ r.from \o rest \in Path /\ Len(r.from \o rest) = Len(r.from) + Len(rest)
              /\ \A m \in 1..(Len(r.from) + Len(rest)) :
                    (r.from \o rest)[m] = IF m <= Len(r.from) THEN r.from[m] ELSE rest[m - Len(r.from)]
            BY <2>5, <3>2, ConcatProperties DEF Path
        <3>4. Len(r.from) \in Nat /\ Len(rest) \in Nat /\ Len(rest) > 0
            BY <2>5, <3>1, <3>2, PathProperties
        <3>5. \A m \in 1..Len(r.from) : (r.from \o rest)[m] = r.from[m]
            BY <3>3, <3>4
        <3>6. Len(r.from) <= Len(r.from \o rest) /\ Len(r.from) # Len(r.from \o rest)
            BY <3>3, <3>4
        <3>7. IsPrefix(r.from, r.from \o rest)
            BY <2>5, <3>3, <3>5, <3>6, PrefixMeans
        <3> QED
            BY <2>2, <3>6, <3>7 DEF rest
    <2>7. k # j /\ IsPrefix(remappings[k].from, remappings[j].from)
        BY <2>3, <2>4, <2>6
    <2>8. remappings[j].to = Moved(remappings[j].from, remappings[k].from, remappings[k].to)
        BY <2>4, <2>7, OrdinaryMeans
    <2>9. Changes(remappings[k])
        <3>1. Moved(remappings[j].from, remappings[k].from, remappings[k].from) = remappings[j].from
            BY <2>4, <2>7, RemappingTypes, MovedHasPrefix
        <3> QED
            BY <2>4, <2>8, <3>1 DEF Changes
    <2>10. PICK m \in DOMAIN kept : IsPrefix(kept[m].from, remappings[k].from)
        BY <2>9 DEF KeptSoFar
    <2>11. kept[m].from \in Path
        BY KeptProperties
    <2>12. IsPrefix(kept[m].from, kept[n].from)
        BY <1>1, <2>3, <2>5, <2>6, <2>10, <2>11, PrefixesOfPrefixes
    <2>13. m # n
        <3>1. ASSUME m = n
              PROVE  FALSE
            <4>1. IsPrefix(p, r.from)
                BY <2>3, <2>10, <3>1
            <4>2. Len(p) <= Len(r.from)
                BY <1>1, <2>5, <4>1, PrefixMeans
            <4> QED
                BY <1>1, <2>5, <2>6, <4>2, SamePrefix
        <3> QED
            BY <3>1
    <2> QED
        BY <2>12, <2>13 DEF KeptSoFar
<1> QED
    BY <1>2, <1>3, ImportPathsMean

LEMMA ImportIsPath ==
    ASSUME SaveTypeOK, NEW p \in ImportPaths
    PROVE  p \in Path
<1>1. CASE p \in ToSet(sources)
    BY <1>1, SourceFiles
<1>2. ASSUME NEW r \in ToSet(remappings), NEW s \in ToSet(sources), NEW n \in 1..Len(s),
             p = r.from \o SubSeq(s, n, Len(s))
      PROVE  p \in Path
    <2>1. PICK k \in DOMAIN remappings : r = remappings[k]
        BY DEF ToSet
    <2>2. r.from \in Path /\ s \in Path
        BY <2>1, RemappingTypes, SourceFiles
    <2>3. Len(s) \in Nat /\ n \in Nat /\ \A m \in n..Len(s) : s[m] \in Names
        BY <2>2, PathProperties
    <2>4. SubSeq(s, n, Len(s)) \in Path
        BY <2>3, SubSeqProperties DEF Path
    <2> QED
        BY <1>2, <2>2, <2>4, ConcatProperties DEF Path
<1> QED
    BY <1>1, <1>2, ImportPathsMean

\* Each import leads where the remappings say when all links are made.
LEMMA ImportLeads ==
    ASSUME SaveTypeOK, Ordinary, KeptSoFar, saving = "link", HasLinks(tree, Len(kept)),
           RemappingsSeen = DOMAIN remappings, NEW p \in Imports
    PROVE  Real(tree, p) = Imported(p)
<1>1. p \in ImportPaths /\ p \in Path /\ Imported(p) \in ToSet(sources) /\ Imported(p) \in Path
    BY ImportIsPath, SourceFiles DEF Imports
<1>2. Len(kept) \in Nat /\ DOMAIN kept = 1..Len(kept) /\ Len(kept) < Len(kept) + 1
    BY RemappingTypes
<1>3. CASE Imported(p) = p
    <2>1. IsPrefix(p, p)
        BY <1>1, ItsPrefix
    <2> QED
        BY <1>1, <1>2, <1>3, <2>1, NoLinkOnTarget
<1>4. CASE Imported(p) # p
    <2> DEFINE s == Imported(p)
    <2>1. Applying(p) # {}
        BY <1>4 DEF Imported
    <2>2. PICK b \in Applying(p) : s = Moved(p, remappings[b].from, remappings[b].to)
        BY <1>1, <2>1, BestApplies
    <2>3. /\ b \in DOMAIN remappings /\ IsPrefix(remappings[b].from, p)
          /\ remappings[b].from \in Path /\ remappings[b].to \in Path
        BY RemappingTypes DEF Applying
    <2>4. Changes(remappings[b])
        BY <1>1, <1>4, <2>2, <2>3, MovedHasPrefix DEF Changes
    <2>5. PICK n \in DOMAIN kept : IsPrefix(kept[n].from, remappings[b].from)
        BY <2>3, <2>4 DEF KeptSoFar
    <2> DEFINE from == kept[n].from
               to == kept[n].to
    <2>6. from \in Path /\ to \in Path /\ from # <<>>
        BY KeptProperties
    <2>7. IsPrefix(from, p)
        BY <1>1, <2>3, <2>5, <2>6, PrefixesOfPrefixes
    <2>8. s = Moved(p, from, to)
        <3>1. PICK j \in RemappingsSeen : j \in DOMAIN remappings /\ kept[n] = remappings[j]
            BY KeptProperties
        <3>2. CASE j = b
            BY <2>2, <3>1, <3>2
        <3>3. CASE j # b
            <4>1. remappings[b].to = Moved(remappings[b].from, from, to)
                BY <2>3, <2>5, <3>1, <3>3, OrdinaryMeans
            <4>2. Moved(p, remappings[b].from, Moved(remappings[b].from, from, to)) = Moved(p, from, to)
                BY <1>1, <2>3, <2>5, <2>6, MovedTwice
            <4> QED
                BY <2>2, <4>1, <4>2
        <3> QED
            BY <3>2, <3>3
    <2>9. p # from
        BY <1>1, ImportIsBehind
    <2>10. IsStrictPrefix(to, s)
        BY <1>1, <2>6, <2>7, <2>8, <2>9, MovedHasPrefix
    <2>11. from \in DOMAIN tree.links
        BY <1>1, <1>2, <2>10 DEF HasLinks
    <2>12. /\ DOMAIN tree.links \subseteq Path
           /\ \A l \in DOMAIN tree.links : \E k \in DOMAIN kept : l = kept[k].from /\ tree.links[l] = kept[k].to
        BY <1>2 DEF HasLinks, Trees
    <2>13. ASSUME NEW l \in DOMAIN tree.links, IsPrefix(l, p)
           PROVE  l = from
        <3>1. PICK k \in DOMAIN kept : l = kept[k].from /\ l \in Path
            BY <2>12
        <3>2. IsPrefix(l, from) \/ IsPrefix(from, l)
            <4>1. Len(l) \in Nat /\ Len(from) \in Nat
                BY <2>6, <3>1, PathProperties
            <4>2. Len(l) <= Len(from) \/ Len(from) <= Len(l)
                BY <4>1
            <4> QED
                BY <1>1, <2>6, <2>7, <2>13, <3>1, <4>2, PrefixesCompare
        <3>3. k = n
            BY <3>1, <3>2 DEF KeptSoFar
        <3> QED
            BY <3>1, <3>3
    <2>14. tree.links[from] = to
        <3>1. PICK k \in DOMAIN kept : from = kept[k].from /\ tree.links[from] = kept[k].to
            BY <2>11, <2>12
        <3>2. IsPrefix(kept[k].from, kept[n].from)
            BY <2>6, <3>1, ItsPrefix
        <3>3. k = n
            BY <3>2 DEF KeptSoFar
        <3> QED
            BY <3>1, <3>3
    <2>15. \A l \in DOMAIN tree.links : ~ IsPrefix(l, s)
        <3>1. IsPrefix(s, s)
            BY <1>1, ItsPrefix
        <3> QED
            BY <1>1, <1>2, <3>1, NoLinkOnTarget
    <2>16. Real(tree, p) = Moved(p, from, tree.links[from])
        <3>1. \A m \in DOMAIN tree.links : ~ IsPrefix(m, Moved(p, from, tree.links[from]))
            BY <2>8, <2>14, <2>15
        <3>2. tree.links[from] \in Path
            BY <2>6, <2>14
        <3> HIDE DEF from
        <3> QED
            BY <1>1, <2>6, <2>7, <2>11, <2>12, <2>13, <3>1, <3>2, OneLinkOnPath
    <2> QED
        BY <2>8, <2>14, <2>16
<1> QED
    BY <1>3, <1>4

LEMMA InvGivesImports == SaveInv => ImportsFound
<1> SUFFICES ASSUME SaveInv, Ended PROVE MainFound /\ (Ordinary => ImportsLead)
    BY DEF ImportsFound
<1>1. /\ SaveTypeOK /\ MainSoFar
      /\ Ordinary =>
            /\ KeptSoFar
            /\ saving = "write" => HasFiles(tree, file - 1)
            /\ saving = "link" => HasLinks(tree, remap - 1) /\ remap <= Len(kept) + 1
    BY DEF SaveInv
<1>2. saving \in {"write", "link"}
    <2>1. saving \in {"idle", "extract"} => ~ tree.raised
        BY <1>1, EmptyTreeType DEF SaveTypeOK
    <2>2. tree.raised \/ saving = "link"
        BY DEF Ended
    <2> QED
        BY <1>1, <2>1, <2>2 DEF SaveTypeOK
<1>3. /\ FilesSeen = Len(sources) /\ Len(sources) \in Nat /\ Len(sources) >= 1
      /\ DOMAIN sources = 1..Len(sources)
    BY <1>1, <1>2, SourceFiles DEF FilesSeen
<1>4. MainFound
    <2>1. /\ \E n \in 1..Len(sources) : main = sources[n]
          /\ (\E n \in 1..Len(sources) : Last(sources[n]) = called) => Last(main) = called
        BY <1>1, <1>3 DEF MainSoFar
    <2> QED
        BY <1>3, <2>1 DEF MainFound, ToSet
<1>5. ASSUME Ordinary
      PROVE  ImportsLead
    <2>1. KeptSoFar /\ ~ tree.raised
        BY <1>1, <1>2, <1>5 DEF HasFiles, HasLinks
    <2>2. saving = "link" /\ remap > Len(kept)
        BY <2>1 DEF Ended
    <2>3. remap \in Nat /\ Len(kept) \in Nat /\ remap <= Len(kept) + 1 /\ HasLinks(tree, remap - 1)
        BY <1>1, <1>5, <2>2, RemappingTypes DEF SaveTypeOK
    <2>4. remap - 1 = Len(kept)
        BY <2>2, <2>3
    <2>5. HasLinks(tree, Len(kept))
        BY <2>3, <2>4
    <2>6. RemappingsSeen = DOMAIN remappings
        BY <1>3 DEF RemappingsSeen
    <2>7. \A p \in Imports : Real(tree, p) = Imported(p)
        BY <1>1, <1>5, <2>1, <2>2, <2>5, <2>6, ImportLeads
    <2> QED
        BY <2>1, <2>7 DEF ImportsLead
<1> QED
    BY <1>4, <1>5

\* The answer of Etherscan becomes a directory in which solc finds the contract
\* and everything that is imported through ordinary remappings
\* (SourceCrawler.py:158-266), for any files and remappings.
THEOREM ImportsAreFound == SaveSpec => []ImportsFound
<1>1. SaveInit => SaveInv
    BY SaveStarts
<1>2. SaveInv /\ [SaveNext]_saveVars => SaveInv'
    <2> SUFFICES ASSUME SaveInv, [SaveNext]_saveVars PROVE SaveInv'
        OBVIOUS
    <2>1. CASE Extract
        BY <2>1, ExtractKeepsInv
    <2>2. CASE KeepRemapping
        BY <2>2, KeepRemappingKeepsInv
    <2>3. CASE NextFile
        BY <2>3, NextFileKeepsInv
    <2>4. CASE Clean
        BY <2>4, CleanKeepsInv
    <2>5. CASE Write
        BY <2>5, WriteKeepsInv
    <2>6. CASE StartLinks
        BY <2>6, StartLinksKeepsInv
    <2>7. CASE Link
        BY <2>7, LinkKeepsInv
    <2>8. CASE UNCHANGED saveVars
        BY <2>8, UnchangedSaveInv
    <2> QED
        BY <2>1, <2>2, <2>3, <2>4, <2>5, <2>6, <2>7, <2>8 DEF SaveNext
<1>3. SaveInv => ImportsFound
    BY InvGivesImports
<1> QED
    BY <1>1, <1>2, <1>3, PTL DEF SaveSpec

=============================================================================
