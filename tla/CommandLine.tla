----------------------------- MODULE CommandLine -----------------------------
(***************************************************************************)
(* The analysis of one proxy from the command line: main of                *)
(* src/proxion/__main__.py calls proxy_check (module ProxyCheck), downloads*)
(* the sources of the proxy and its logic contracts (SourceManager), runs  *)
(* slither on the directories, compares bytecode and prints one JSON       *)
(* object.  The directories stay when the process ends, whatever ends it.  *)
(***************************************************************************)
EXTENDS Integers, Sequences

CONSTANTS
    Address,      \* contracts
    Missing,      \* Python's None
    MaxLogics,    \* bound: how many logic contracts a history has
    MaxRuns       \* bound: how often the program is started

ASSUME MissingAssumption == Missing \notin Address
ASSUME BoundsAssumption == MaxLogics \in Nat /\ MaxRuns \in Nat

VARIABLES
    step,         \* where main is
    proxy,        \* args.address
    logics,       \* the logic addresses, oldest first
    metas,        \* SourceManager.logics so far
    proxyMeta,    \* SourceManager.proxy
    writing,      \* the directory being emptied and written, or Missing
    directory,    \* by address: "absent", "partial", "sources"
    links,        \* by address: the numbers of the links logic1, ... in its directory
    results,      \* the comparisons reported
    position,     \* how many comparisons check_slither has gone through
    runs          \* counts the starts

sourceVars == <<metas, proxyMeta, writing, directory, links>>
resultVars == <<results, position>>
commandVars == <<step, proxy, logics, sourceVars, resultVars, runs>>

Histories == UNION {[1..n -> Address] : n \in 0..MaxLogics}

\* The contract whose source is to be downloaded next: the proxy's first.
Wanted == IF step = "proxySource" THEN proxy ELSE logics[Len(metas) + 1]

Downloading == step = "proxySource" \/ (step = "logicSources" /\ Len(metas) < Len(logics))

----------------------------------------------------------------------------
(* Actions *)

NothingNoted == proxyMeta' = Missing /\ metas' = <<>>

\* The program is started for a proxy; proxy_check returns whatever happens, and
\* the current logic contract is put behind the old ones.  The --no options
\* leave out the parts that follow.
Start ==
    /\ step \in {"idle", "printed", "crashed"} /\ runs < MaxRuns
    /\ \E p \in Address, h \in Histories, first \in {"proxySource", "bytecode", "print"} :
        /\ proxy' = p /\ logics' = h /\ step' = first
    /\ NothingNoted
    /\ results' = <<>> /\ position' = 0
    /\ runs' = runs + 1
    /\ UNCHANGED <<writing, directory, links>>

\* The answer to a download is noted, and the next one is due.
Note(meta) ==
    IF step = "proxySource"
    THEN /\ proxyMeta' = meta /\ step' = "logicSources"
         /\ UNCHANGED metas
    ELSE /\ metas' = Append(metas, meta)
         /\ UNCHANGED <<proxyMeta, step>>

\* A FetchSourceError, or a contract without verified source.
NoSource ==
    /\ Downloading /\ writing = Missing
    /\ Note(Missing)
    /\ UNCHANGED <<proxy, logics, writing, directory, links, resultVars, runs>>

\* Mistake: the directory is emptied of its files only.
FilesRemoved == links

AllRemoved == [links EXCEPT ![Wanted] = {}]

\* ensure_clean_dir empties the directory, links and all.
EmptyDirectory ==
    /\ Downloading /\ writing = Missing
    /\ writing' = Wanted
    /\ directory' = [directory EXCEPT ![Wanted] = "partial"]
    /\ links' = AllRemoved
    /\ UNCHANGED <<step, proxy, logics, metas, proxyMeta, resultVars, runs>>

LinkMade == step = "logicSources" /\ proxyMeta # Missing

Saved == [directory EXCEPT ![writing] = "sources"]

\* The last file is written; the proxy's directory gets a link to a logic
\* contract's.
SourceSaved ==
    /\ writing # Missing
    /\ directory' = Saved
    /\ writing' = Missing
    /\ Note(writing)
    /\ links' = IF LinkMade
                THEN [links EXCEPT ![proxy] = @ \cup {Len(metas) + 1}]
                ELSE links
    /\ UNCHANGED <<proxy, logics, resultVars, runs>>

SourcesDone ==
    /\ step = "logicSources" /\ ~ Downloading
    /\ step' = "slither"
    /\ UNCHANGED <<proxy, logics, sourceVars, resultVars, runs>>

WithProxy(meta) == <<<<proxyMeta, meta>>>>

\* Mistake: the proxy is compared with its oldest logic contract.
ProxyWithOldest == IF metas = <<>> THEN <<>> ELSE WithProxy(metas[1])

ProxyWithNewest == IF metas = <<>> THEN <<>> ELSE WithProxy(metas[Len(metas)])

\* The comparisons of check_slither in order: the proxy and the newest logic
\* contract, then each logic contract and the next.
Pairs ==
    ProxyWithNewest
        \o [n \in 1..(Len(metas) - 1) |-> <<metas[n], metas[n + 1]>>]

HasBoth(pair) == pair[1] # Missing /\ pair[2] # Missing

\* Slither runs and ends, with or without a result; its own "timeout" command
\* ends it in time or it is found to take too long only afterwards.
RunSlither ==
    /\ step = "slither" /\ position < Len(Pairs)
    /\ position' = position + 1
    /\ LET pair == Pairs[position + 1]
       IN  IF HasBoth(pair)
           THEN \E error \in BOOLEAN :
                    results' = Append(results, [first |-> pair[1], second |-> pair[2], error |-> error])
           ELSE UNCHANGED results
    /\ UNCHANGED <<step, proxy, logics, sourceVars, runs>>

SlitherDone ==
    /\ step = "slither" /\ position >= Len(Pairs)
    /\ step' \in {"bytecode", "print"}
    /\ UNCHANGED <<proxy, logics, sourceVars, resultVars, runs>>

\* check_advanced
CompareBytecode ==
    /\ step = "bytecode"
    /\ step' = "print"
    /\ UNCHANGED <<proxy, logics, sourceVars, resultVars, runs>>

PrintResult ==
    /\ step = "print"
    /\ step' = "printed"
    /\ UNCHANGED <<proxy, logics, sourceVars, resultVars, runs>>

\* No exception is caught after proxy_check: not a connection error of a
\* download, not a directory in the way of a link, not the SlitherError of a
\* comparison that took too long, not an RPC error.  The user may end the
\* program as well.
Crash ==
    /\ step \notin {"idle", "printed", "crashed"}
    /\ step' = "crashed" /\ writing' = Missing
    /\ UNCHANGED <<proxy, logics, metas, proxyMeta, directory, links, resultVars, runs>>

Work ==
    \/ NoSource \/ EmptyDirectory \/ SourceSaved \/ SourcesDone
    \/ RunSlither \/ SlitherDone \/ CompareBytecode \/ PrintResult

CommandInit ==
    /\ step = "idle"
    /\ proxy = Missing /\ logics = <<>> /\ metas = <<>> /\ proxyMeta = Missing
    /\ writing = Missing
    /\ directory = [a \in Address |-> "absent"] /\ links = [a \in Address |-> {}]
    /\ results = <<>> /\ position = 0 /\ runs = 0

CommandNext == Start \/ Work \/ Crash

CommandSpec == CommandInit /\ [][CommandNext]_commandVars

----------------------------------------------------------------------------
(* Properties *)

\* Type invariant: also, the logic contracts' sources are noted in their order,
\* and only what is to be downloaded is written to.
CommandTypeOK ==
    /\ step \in {"idle", "proxySource", "logicSources", "slither", "bytecode", "print",
                 "printed", "crashed"}
    /\ proxy \in Address \cup {Missing} /\ logics \in Histories
    /\ proxy = Missing => step = "idle"
    /\ proxyMeta \in {proxy, Missing}
    /\ metas \in Seq(Address \cup {Missing}) /\ Len(metas) <= Len(logics)
    /\ \A n \in 1..Len(metas) : metas[n] \in {logics[n], Missing}
    /\ writing # Missing => Downloading /\ writing = Wanted
    /\ directory \in [Address -> {"absent", "partial", "sources"}]
    /\ links \in [Address -> SUBSET (1..MaxLogics)]
    /\ results \in Seq([first : Address, second : Address, error : BOOLEAN])
    /\ position \in 0..(MaxLogics + 1)
    /\ runs \in 0..MaxRuns

\* Slither is given complete sources only, although an earlier run may have
\* been ended while it wrote a directory, a download may fail that succeeded
\* before, and a contract that was used twice is downloaded again.
CompleteSources ==
    step = "slither" =>
        \A a \in {proxyMeta} \cup {metas[n] : n \in 1..Len(metas)} :
            a # Missing => directory[a] = "sources"

\* The proxy's directory has the links of the logic contracts with a source and
\* no other (those of an earlier run would be in the way of new ones), unless the
\* proxy was its own logic contract or has no source this time.
LinksRight ==
    step = "slither" /\ proxyMeta # Missing /\ (\A n \in 1..Len(logics) : logics[n] # proxy) =>
        links[proxy] = {n \in 1..Len(logics) : metas[n] # Missing}

\* What slither is given.
SourcesRight == CompleteSources /\ LinksRight

Compared(first, second) ==
    \E n \in 1..Len(results) : results[n].first = first /\ results[n].second = second

\* What is printed has a comparison of the proxy with its newest logic contract
\* and of each logic contract with the next one, where both have a source, and no
\* other.
VersionsCompared ==
    step \in {"bytecode", "print", "printed"} /\ metas # <<>> =>
        LET last == Len(logics)
            adjacent == {n \in 1..(last - 1) : metas[n] # Missing /\ metas[n + 1] # Missing}
        IN  /\ \A n \in adjacent : Compared(logics[n], logics[n + 1])
            /\ proxyMeta # Missing /\ metas[last] # Missing => Compared(proxy, logics[last])
            /\ \A n \in 1..Len(results) :
                \/ results[n].first = proxy /\ results[n].second = logics[last]
                \/ \E k \in adjacent :
                        results[n].first = logics[k] /\ results[n].second = logics[k + 1]

=============================================================================
