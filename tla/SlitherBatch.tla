---------------------------- MODULE SlitherBatch ----------------------------
(***************************************************************************)
(* The batch pipeline of src/tools/slither-check-proxies.py: a pool of     *)
(* workers takes (proxy, logic contracts) rows, finds or downloads the     *)
(* sources, runs slither-check-upgradeability on each pair and stores what *)
(* it finds in Postgres tables keyed by bytecode hash, which all workers   *)
(* share.  Every statement autocommits, so one step is one statement, one  *)
(* download or one slither run, and a row can be abandoned between any two *)
(* of them: by the 600 s alarm, a failed download or a failed slither run. *)
(* The source files are shared too: a download empties the directory first.*)
(***************************************************************************)
EXTENDS Integers, Sequences, FiniteSets

CONSTANTS
    Workers,      \* the processes of the pool
    Addresses,    \* contract addresses
    Hashes,       \* bytecode hashes
    HashOf,       \* table bytecode_hash: address to hash, partial
    Rows,         \* what select yields: [proxy |-> address, impls |-> addresses]
    Published,    \* the addresses Etherscan has the source of
    Listed,       \* the addresses proxy_info has a row of
    Minimal,      \* those of them it calls ERC-1167 proxies
    Compilable,   \* the hashes whose source slither can compile
    Slow,         \* the hashes whose analysis may take 180 seconds
    Imported,     \* what verified_contracts holds before the first run
    MaxRuns,      \* bound: how often the script is run
    MaxAborts     \* bound: how many rows and runs are abandoned in all

ASSUME InputAssumption ==
    /\ DOMAIN HashOf \subseteq Addresses /\ \A a \in DOMAIN HashOf : HashOf[a] \in Hashes
    /\ Rows \subseteq [proxy : Addresses, impls : Seq(Addresses)]
    /\ Published \subseteq Addresses
    /\ Minimal \subseteq Listed /\ Listed \subseteq Addresses
    /\ Compilable \subseteq Hashes /\ Slow \subseteq Hashes
    /\ DOMAIN Imported \subseteq Hashes
    /\ \A h \in DOMAIN Imported : Imported[h] \in Addresses

ASSUME BoundsAssumption == MaxRuns \in Nat /\ MaxAborts \in Nat

VARIABLES
    verified,     \* verified_contracts: hash to the address of its source
    noSource,     \* no_source: hashes
    files,        \* source directory per address: "none" | "part" | "all"
    results,      \* slither_result: pairs of hashes
    vars,         \* slither_vars: hash to "absent" | "null" | "data"
    sigs,         \* slither_signatures: the same
    storage,      \* slither_storage_collisions: pairs of hashes
    function,     \* slither_function_collisions: pairs of hashes
    todo,         \* rows of this run no worker has taken
    job,          \* what each worker is doing
    runs, aborts, \* counters for the bounds
    given,        \* history: the rows of this run that were abandoned
    raced,        \* history: a directory was emptied under a worker that has
                  \* found or is filling it, or found while another was filling it
    leftover      \* history: a directory was found that an abandoned row or an
                  \* ended run had left incomplete

tables == <<verified, noSource, files, results, vars, sigs, storage, function>>
batchVars == <<tables, todo, job, runs, aborts, given, raced, leftover>>

(* What a worker is doing: its row, the contract it is at (0 is the proxy, n
   the n-th logic contract), for the contracts that have a source the address
   whose files it is, whether nobody has emptied the directory it is filling,
   the next step of a series, whether it has read a null, and which of the two
   lines of interest its slither run has printed. *)
NoRow == [proxy |-> "none", impls |-> <<>>]

Idle ==
    [pc |-> "idle", row |-> NoRow, n |-> 0, found |-> [k \in {} |-> 0],
     whole |-> TRUE, at |-> 1, null |-> FALSE, printed |-> {}]

----------------------------------------------------------------------------
(* get_source *)

Subject(j) == IF j.n = 0 THEN j.row.proxy ELSE j.row.impls[j.n]

\* The pair of hashes the job is checking.
Pair(j) == <<HashOf[j.row.proxy], HashOf[j.row.impls[j.n]]>>

\* Mistake: the loop starts behind the contract it should start at.
PendingAfter(j, n) == {i \in DOMAIN j.found : i > n /\ i > 0}

\* The logic contracts with a source that check has still to pair.
Pending(j, n) == {i \in DOMAIN j.found : i >= n /\ i > 0}

\* The loop of check from logic contract n on: to the next one with a source.
CheckFrom(j, n) ==
    LET rest == Pending(j, n)
    IN  IF rest = {} THEN Idle
        ELSE [j EXCEPT !.pc = "read", !.at = 1, !.null = FALSE, !.printed = {},
                       !.n = CHOOSE i \in rest : \A k \in rest : i <= k]

\* Mistake: the row goes on without a source of the proxy.
GoOnAnyway(j) ==
    IF j.n < Len(j.row.impls) THEN [j EXCEPT !.pc = "lookup", !.n = @ + 1]
    ELSE CheckFrom(j, 1)

\* The source of the subject has been looked for.  Without one of the proxy
\* the row is over; otherwise the next logic contract is looked at, and after
\* the last one the pairs.
GoOn(j) ==
    IF 0 \notin DOMAIN j.found THEN Idle
    ELSE IF j.n < Len(j.row.impls) THEN [j EXCEPT !.pc = "lookup", !.n = @ + 1]
    ELSE CheckFrom(j, 1)


NotSourced(j) == GoOn(j)

With(j, a) ==
    [j EXCEPT !.found =
        [k \in (DOMAIN j.found) \cup {j.n} |-> IF k = j.n THEN a ELSE j.found[k]]]

\* Mistake: the files are looked for at the subject's own address.
SourcedAtSubject(j, a) == GoOn(With(j, Subject(j)))

\* The subject's source is in the directory of a, which may be the address of
\* another contract with the same bytecode.
SourcedAt(j, a) == GoOn(With(j, a))

Becomes(w, j) == job' = [job EXCEPT ![w] = j]
At(w, pc) == job[w].pc = pc

HistoryUnchanged == UNCHANGED <<given, raced, leftover>>
SharedUnchanged == UNCHANGED <<todo, runs, aborts>> /\ HistoryUnchanged

\* process_row: a worker gets the next row.
Take(w, row) ==
    /\ At(w, "idle") /\ row \in todo
    /\ todo' = todo \ {row}
    /\ Becomes(w, [Idle EXCEPT !.pc = "lookup", !.row = row])
    /\ HistoryUnchanged /\ UNCHANGED <<tables, runs, aborts>>

\* get_bytecode_hash and is_no_source: no row for the address, or a hash that
\* is known to have no source, is no source.
LookUp(w) ==
    /\ At(w, "lookup")
    /\ LET a == Subject(job[w])
           hopeless == a \notin DOMAIN HashOf \/ HashOf[a] \in noSource
       IN  Becomes(w, IF hopeless THEN NotSourced(job[w])
                      ELSE [job[w] EXCEPT !.pc = "meta"])
    /\ SharedUnchanged /\ UNCHANGED tables

\* The address crawler.download is called for.
Wanted(j) == IF j.pc \in {"refetch", "rewrite"} THEN verified[HashOf[Subject(j)]] ELSE Subject(j)

Writing(w, a) == job[w].pc \in {"write", "rewrite"} /\ Wanted(job[w]) = a

\* The directory of a is incomplete, and a worker is filling it, or nobody is
\* because a row was abandoned or a run ended in save_source.
BeingFilled(a) == files[a] = "part" /\ \E w \in Workers : Writing(w, a)
LeftIncomplete(a) == files[a] = "part" /\ \A w \in Workers : ~ Writing(w, a)

\* get_source_meta_by_hash, when verified_contracts has a row: find_contract
\* finds the main contract's file, perhaps in a directory that is not
\* complete, or raises FileNotFoundError.
FindFiles(w) ==
    /\ At(w, "meta")
    /\ LET h == HashOf[Subject(job[w])]
       IN  /\ h \in DOMAIN verified
           /\ \/ /\ files[verified[h]] \in {"part", "all"}
                 /\ Becomes(w, SourcedAt(job[w], verified[h]))
                 /\ raced' = (raced \/ BeingFilled(verified[h]))
                 /\ leftover' = (leftover \/ LeftIncomplete(verified[h]))
              \/ /\ files[verified[h]] \in {"none", "part"}
                 /\ Becomes(w, [job[w] EXCEPT !.pc = "refetch"])
                 /\ UNCHANGED <<raced, leftover>>
    /\ UNCHANGED <<tables, todo, runs, aborts, given>>

\* The row is over, whatever of it is left to do; nothing that is stored is
\* undone.
GivesUp(w) ==
    /\ given' = given \cup {job[w].row}
    /\ Becomes(w, Idle)
    /\ UNCHANGED <<tables, todo, runs, raced, leftover>>

\* There is no row: the source is asked for, unless the address is a minimal
\* proxy.
NoMeta(w) ==
    /\ At(w, "meta")
    /\ Subject(job[w]) \in Listed
    /\ LET a == Subject(job[w])
       IN  /\ HashOf[a] \notin DOMAIN verified
           /\ Becomes(w, [job[w] EXCEPT !.pc = IF a \in Minimal THEN "mark" ELSE "download"])
    /\ SharedUnchanged /\ UNCHANGED tables

\* is_minimal_proxy finds no row in proxy_info: the QueryNoResultError, raised
\* while get_source handles another one, ends in process_row.
NotListed(w) ==
    /\ At(w, "meta")
    /\ Subject(job[w]) \notin Listed
    /\ HashOf[Subject(job[w])] \notin DOMAIN verified
    /\ GivesUp(w) /\ UNCHANGED aborts

\* extract_source_code finds no name or no code in the answer.
NothingPublished(a) == a \notin Published

Has(w, a) ==
    \/ \E k \in DOMAIN job[w].found : job[w].found[k] = a
    \/ At(w, "record") /\ Subject(job[w]) = a

\* crawler.download gets the source and save_source empties its directory, in
\* which other workers may be writing.
Download(w) ==
    /\ job[w].pc \in {"download", "refetch"}
    /\ Wanted(job[w]) \in Published
    /\ LET a == Wanted(job[w])
       IN  /\ files' = [files EXCEPT ![a] = "part"]
           /\ job' = [u \in Workers |->
                IF u = w
                THEN [job[w] EXCEPT !.pc = IF @ = "download" THEN "write" ELSE "rewrite",
                                    !.whole = TRUE]
                ELSE IF Writing(u, a) THEN [job[u] EXCEPT !.whole = FALSE] ELSE job[u]]
           /\ raced' = (raced \/ \E u \in Workers \ {w} : Writing(u, a) \/ Has(u, a))
    /\ UNCHANGED <<todo, runs, aborts, given, leftover>>
    /\ UNCHANGED <<verified, noSource, results, vars, sigs, storage, function>>

\* Etherscan has no source: download returns None, which is recorded only for
\* a hash that had no row.
DownloadNothing(w) ==
    /\ job[w].pc \in {"download", "refetch"}
    /\ NothingPublished(Wanted(job[w]))
    /\ Becomes(w, IF At(w, "download") THEN [job[w] EXCEPT !.pc = "mark"]
                  ELSE NotSourced(job[w]))
    /\ SharedUnchanged /\ UNCHANGED tables

\* save_source has written all files; some are gone if the directory was
\* emptied in between.
Write(w) ==
    /\ job[w].pc \in {"write", "rewrite"}
    /\ files' = [files EXCEPT ![Wanted(job[w])] = IF job[w].whole THEN "all" ELSE @]
    /\ LET j == [job[w] EXCEPT !.whole = TRUE]
       IN  Becomes(w, IF At(w, "write") THEN [j EXCEPT !.pc = "record"]
                      ELSE SourcedAt(j, Wanted(j)))
    /\ SharedUnchanged
    /\ UNCHANGED <<verified, noSource, results, vars, sigs, storage, function>>

\* set_source_meta: INSERT ... ON CONFLICT DO NOTHING.
Record(w) ==
    /\ At(w, "record")
    /\ LET a == Subject(job[w])
           h == HashOf[a]
       IN  /\ verified' = IF h \in DOMAIN verified THEN verified
                          ELSE [k \in (DOMAIN verified) \cup {h} |->
                                    IF k = h THEN a ELSE verified[k]]
           /\ Becomes(w, SourcedAt(job[w], a))
    /\ SharedUnchanged
    /\ UNCHANGED <<noSource, files, results, vars, sigs, storage, function>>

\* set_no_source.
Mark(w) ==
    /\ At(w, "mark")
    /\ noSource' = noSource \cup {HashOf[Subject(job[w])]}
    /\ Becomes(w, NotSourced(job[w]))
    /\ SharedUnchanged
    /\ UNCHANGED <<verified, files, results, vars, sigs, storage, function>>

----------------------------------------------------------------------------
(* check *)

\* The four reads: get_vars and get_signatures of both hashes.
Field(j, n) ==
    LET h == Pair(j)[IF n <= 2 THEN 1 ELSE 2]
    IN  IF n \in {1, 3} THEN vars[h] ELSE sigs[h]

\* Mistake: only the variables are tested for None.
NullVars(j) == j.null \/ (j.at \in {1, 3} /\ Field(j, j.at) = "null")

ReadNull(j) == j.null \/ Field(j, j.at) = "null"

\* A read that finds a row; after the fourth, a null among them ends the pair.
ReadOn(j) ==
    IF j.at < 4 THEN [j EXCEPT !.at = @ + 1, !.null = ReadNull(j)]
    ELSE IF ReadNull(j) THEN CheckFrom(j, j.n + 1)
    ELSE [j EXCEPT !.pc = "storage"]

\* A read that finds no row (QueryNoResultError) leads to a slither run.
Read(w) ==
    /\ At(w, "read")
    /\ Becomes(w, IF Field(job[w], job[w].at) = "absent"
                  THEN [job[w] EXCEPT !.pc = "slither", !.at = 1]
                  ELSE ReadOn(job[w]))
    /\ SharedUnchanged /\ UNCHANGED tables

Fails(j) == [j EXCEPT !.pc = "insert", !.at = 1]

\* slither compiles the logic contract, then the proxy.  A directory that
\* another worker is filling may or may not have all it needs.
Compile(w) ==
    /\ At(w, "slither") /\ job[w].at <= 2
    /\ LET j == job[w]
           k == IF j.at = 1 THEN j.n ELSE 0
           h == Pair(j)[IF j.at = 1 THEN 2 ELSE 1]
       IN  \/ /\ h \in Compilable /\ files[j.found[k]] \in {"part", "all"}
              /\ Becomes(w, [j EXCEPT !.at = @ + 1])
           \/ /\ h \notin Compilable \/ files[j.found[k]] \in {"none", "part"}
              /\ Becomes(w, Fails(j))
    /\ SharedUnchanged /\ UNCHANGED tables

\* The checks print the variables first, then the signatures.
Analyse(w) ==
    /\ At(w, "slither") /\ job[w].at > 2
    /\ Becomes(w, [Fails(job[w]) EXCEPT !.printed = {"vars", "sigs"}])
    /\ SharedUnchanged /\ UNCHANGED tables

\* The timeout command ends slither just before communicate gives up: there
\* is no JSON, but what was printed so far is used.
TimeOut(w) ==
    /\ At(w, "slither")
    /\ Slow \cap {Pair(job[w])[1], Pair(job[w])[2]} # {}
    /\ \E lines \in IF job[w].at > 2 THEN {{}, {"vars"}} ELSE {{}} :
          Becomes(w, [Fails(job[w]) EXCEPT !.printed = lines])
    /\ SharedUnchanged /\ UNCHANGED tables

\* INSERT ... ON CONFLICT DO NOTHING of one row of a table; the value is NULL
\* when slither did not print the line.
Insert(table, h, known) ==
    IF table[h] = "absent"
    THEN [table EXCEPT ![h] = IF known THEN "data" ELSE "null"]
    ELSE table

\* Mistake: the logic contract's variables are not stored.
FourStatements(j) ==
    IF j.at < 4 THEN [j EXCEPT !.at = @ + 1]
    ELSE [j EXCEPT !.pc = "reread", !.at = 1, !.null = FALSE]

FiveStatements(j) ==
    IF j.at < 5 THEN [j EXCEPT !.at = @ + 1]
    ELSE [j EXCEPT !.pc = "reread", !.at = 1, !.null = FALSE]

\* set_slither_result: five statements, each committed by itself.
Store(w) ==
    /\ At(w, "insert")
    /\ LET j == job[w]
           h == Pair(j)[IF j.at \in {2, 4} THEN 1 ELSE 2]
       IN  /\ results' = IF j.at = 1 THEN results \cup {Pair(j)} ELSE results
           /\ sigs' = IF j.at \in {2, 3} THEN Insert(sigs, h, "sigs" \in j.printed) ELSE sigs
           /\ vars' = IF j.at \in {4, 5} THEN Insert(vars, h, "vars" \in j.printed) ELSE vars
           /\ Becomes(w, FiveStatements(j))
    /\ SharedUnchanged
    /\ UNCHANGED <<verified, noSource, files, storage, function>>

\* The four reads again; a row that is not found now abandons the whole row.
Reread(w) ==
    /\ At(w, "reread")
    /\ Field(job[w], job[w].at) # "absent"
    /\ Becomes(w, ReadOn(job[w]))
    /\ SharedUnchanged /\ UNCHANGED tables

\* The collisions of the variables, then of the signatures.
StoreStorage(w) ==
    /\ At(w, "storage")
    /\ storage' = storage \cup {Pair(job[w])}
    /\ Becomes(w, [job[w] EXCEPT !.pc = "function"])
    /\ SharedUnchanged
    /\ UNCHANGED <<verified, noSource, files, results, vars, sigs, function>>

StoreFunction(w) ==
    /\ At(w, "function")
    /\ function' = function \cup {Pair(job[w])}
    /\ Becomes(w, CheckFrom(job[w], job[w].n + 1))
    /\ SharedUnchanged
    /\ UNCHANGED <<verified, noSource, files, results, vars, sigs, storage>>

----------------------------------------------------------------------------
(* Failures and runs *)

\* process_row's bare except: the alarm, FetchSourceError or SlitherError
\* abandons the row wherever it is.
Abandon(w) ==
    /\ job[w].pc \notin {"idle", "stuck"}
    /\ aborts < MaxAborts
    /\ aborts' = aborts + 1
    /\ GivesUp(w)

\* crawler.download swallows the row's only alarm, in urllib3 or in the with of
\* the throttler's lock, and then waits for a lock that nobody gives back.
GetStuck(w) ==
    /\ job[w].pc \in {"download", "refetch"}
    /\ Becomes(w, [Idle EXCEPT !.pc = "stuck", !.row = job[w].row])
    /\ SharedUnchanged /\ UNCHANGED tables

\* A TimeoutError outside process_row's try, or the script being killed, ends
\* the run: the pool terminates its workers wherever they are.
Die ==
    /\ aborts < MaxAborts
    /\ aborts' = aborts + 1
    /\ given' = given \cup todo \cup {job[w].row : w \in {u \in Workers : ~ At(u, "idle")}}
    /\ todo' = {}
    /\ job' = [w \in Workers |-> Idle]
    /\ UNCHANGED <<tables, runs, raced, leftover>>

\* The pool has finished all rows; the script may be run once more.
RunOver == todo = {} /\ \A w \in Workers : At(w, "idle")

RunAgain ==
    /\ RunOver
    /\ runs < MaxRuns
    /\ runs' = runs + 1
    /\ todo' = Rows
    /\ given' = {}
    /\ UNCHANGED <<tables, job, aborts, raced, leftover>>

WorkerStep(w) ==
    \/ \E row \in todo : Take(w, row)
    \/ LookUp(w) \/ FindFiles(w) \/ NoMeta(w) \/ NotListed(w)
    \/ Download(w) \/ DownloadNothing(w) \/ Write(w) \/ Record(w) \/ Mark(w)
    \/ Read(w) \/ Compile(w) \/ Analyse(w) \/ TimeOut(w) \/ Store(w) \/ Reread(w)
    \/ StoreStorage(w) \/ StoreFunction(w)
    \/ Abandon(w) \/ GetStuck(w)

Init ==
    /\ verified = Imported
    /\ noSource = {}
    /\ files \in {f \in [Addresses -> {"none", "all"}] :
                    \A a \in Addresses : f[a] = "all" => \E h \in DOMAIN Imported : Imported[h] = a}
    /\ results = {}
    /\ vars = [h \in Hashes |-> "absent"]
    /\ sigs = [h \in Hashes |-> "absent"]
    /\ storage = {} /\ function = {}
    /\ todo = Rows
    /\ job = [w \in Workers |-> Idle]
    /\ runs = 1 /\ aborts = 0
    /\ given = {} /\ raced = FALSE /\ leftover = FALSE

Next == (\E w \in Workers : WorkerStep(w)) \/ Die \/ RunAgain

\* Each worker is a process of its own.  Its statements and its slither runs end,
\* or the alarm ends the row; a download may not (GetStuck).
Spec == Init /\ [][Next]_batchVars /\ \A w \in Workers : WF_batchVars(WorkerStep(w))

----------------------------------------------------------------------------
(* Properties *)

States == {"absent", "null", "data"}

\* Type invariant: also, a worker that checks a pair knows the files of both.
TypeOK ==
    /\ DOMAIN verified \subseteq Hashes
    /\ \A h \in DOMAIN verified : verified[h] \in Addresses
    /\ noSource \subseteq Hashes
    /\ files \in [Addresses -> {"none", "part", "all"}]
    /\ results \subseteq Hashes \X Hashes
    /\ vars \in [Hashes -> States] /\ sigs \in [Hashes -> States]
    /\ storage \cup function \subseteq Hashes \X Hashes
    /\ todo \subseteq Rows /\ given \subseteq Rows
    /\ raced \in BOOLEAN /\ leftover \in BOOLEAN
    /\ \A w \in Workers :
          job[w].pc \in {"read", "slither", "insert", "reread", "storage", "function"}
          => job[w].n > 0 /\ {0, job[w].n} \subseteq DOMAIN job[w].found

\* The reads after set_slither_result do not raise: whatever other workers
\* store meanwhile, and whatever earlier runs left half stored, all four rows
\* are there (slither-check-proxies.py:245-248).
RereadFinds ==
    \A w \in Workers : At(w, "reread") =>
        \A n \in 1..4 : Field(job[w], n) # "absent"

\* Collisions are computed from data: a pair has collision rows only when
\* variables and signatures of both hashes are stored and not NULL.
CollisionsBacked ==
    \A p \in storage \cup function : \A i \in 1..2 :
        vars[p[i]] = "data" /\ sigs[p[i]] = "data"

\* A hash gets into no_source, which is never emptied, only because a contract
\* with this bytecode is a minimal proxy or has no source at Etherscan, never
\* because a row was abandoned.
NoSourceJustified ==
    \A h \in noSource : \E a \in DOMAIN HashOf :
        HashOf[a] = h /\ (a \in Minimal \/ a \notin Published)

\* The hash of a contract that the pipeline can get the source of.
Obtainable(h) ==
    /\ h \notin noSource
    /\ h \in DOMAIN verified => verified[h] \in Published

\* The row is over in this run, and was not abandoned.
Finished(row) == row \notin given \cup todo /\ \A w \in Workers : At(w, "idle") \/ job[w].row # row

\* A row that was finished in this run is settled, whatever rows abandoned before
\* and runs that died left behind: slither's facts are stored for both contracts
\* of each pair with sources, and unless one is NULL so are the collisions.
CleanRunComplete ==
    \A row \in Rows : Finished(row) =>
        \A i \in DOMAIN row.impls :
            LET pair == {row.proxy, row.impls[i]}
            IN  (\A a \in pair : a \in DOMAIN HashOf /\ Obtainable(HashOf[a])) =>
                LET facts == UNION {{vars[HashOf[a]], sigs[HashOf[a]]} : a \in pair}
                IN  /\ "absent" \notin facts
                    /\ "null" \in facts
                       \/ <<HashOf[row.proxy], HashOf[row.impls[i]]>> \in storage \cap function

\* A NULL is stored for a hash only if it was analysed together with a contract
\* that slither cannot compile or is slow at, until one of two things happens to
\* a source directory (SourceCrawler.py:326, slither-check-proxies.py:163): it is
\* emptied under a worker that uses it or found while another fills it (raced),
\* or it is found as an abandoned row or an ended run has left it, incomplete
\* (leftover).  No other interleaving and no other end of a row or a run spoils
\* the tables, whose rows are never replaced.
Intact == ~ raced /\ ~ leftover

NullJustified ==
    \A h \in Hashes : Intact /\ "null" \in {vars[h], sigs[h]} =>
        \E p \in results : h \in {p[1], p[2]} /\ ~ ({p[1], p[2]} \subseteq Compilable \ Slow)

\* What is kept for good, a hash in no_source and a NULL, has its reason in the
\* contracts.
VerdictsJustified == NoSourceJustified /\ NullJustified


============================================================================
