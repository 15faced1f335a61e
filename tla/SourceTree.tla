------------------------------ MODULE SourceTree ------------------------------
(***************************************************************************)
(* How the answer of Etherscan becomes a directory that solc can compile   *)
(* (src/proxion/SourceCrawler.py, extract_source_code and save_source):    *)
(* the files under their paths and a symbolic link for each import         *)
(* remapping.  A path is a sequence of names below the directory.          *)
(***************************************************************************)
EXTENDS Integers, Sequences, SequencesExt

CONSTANTS
    Names,        \* of files and directories
    Downloads     \* [names |-> of contracts' files, sources |-> lists of paths,
                  \*  remappings |-> lists of remappings]

\* from=to; slash tells whether from ends in one.
Remapping(from, slash, to) == [from |-> from, slash |-> slash, to |-> to]

\* Paths are normal.
ASSUME NamesAssumption == ".." \notin Names

ASSUME DownloadsAssumption ==
    /\ \A s \in Downloads.sources :
        s \in Seq(Seq(Names)) /\ s # <<>> /\ \A n \in DOMAIN s : s[n] # <<>>
    /\ \A r \in Downloads.remappings :
        r \in Seq([from : Seq(Names), slash : BOOLEAN, to : Seq(Names)])

VARIABLES
    saving,       \* "idle", "extract", "write", "link"
    sources,      \* the paths of the files of the answer
    remappings,   \* settings.remappings
    called,       \* what the contract's file should be called
    file,         \* the next file
    remap,        \* the next remapping
    kept,         \* result.remappings
    main,         \* result.path
    tree          \* the directory

saveVars == <<saving, sources, remappings, called, file, remap, kept, main, tree>>

----------------------------------------------------------------------------
(* The directory: files, dirs and links, by their paths. *)

NoLinks == [p \in {} |-> <<>>]

EmptyTree == [files |-> {}, dirs |-> {<<>>}, links |-> NoLinks, raised |-> FALSE]

\* The directories above a path.
Parents(path) == {SubSeq(path, 1, n) : n \in 0..(Len(path) - 1)}

\* The links on a path, by their lengths.
LinksOn(t, path) == {n \in 1..Len(path) : SubSeq(path, 1, n) \in DOMAIN t.links}

\* Where the first of them leads.
Followed(t, path) ==
    LET first == CHOOSE n \in LinksOn(t, path) : \A k \in LinksOn(t, path) : n <= k
    IN  IF LinksOn(t, path) = {} THEN path
        ELSE t.links[SubSeq(path, 1, first)] \o SubSeq(path, first + 1, Len(path))

Twice(t, path) == Followed(t, Followed(t, path))

\* The path without links on it, or Nowhere when there are too many.
Nowhere == <<"..">>

Real(t, path) ==
    LET real == Twice(t, Twice(t, path))
    IN  IF LinksOn(t, real) = {} THEN real ELSE Nowhere

IsDir(t, path) == Real(t, path) \in t.dirs

\* mkdir(parents=True, exist_ok=True), which a file or a dead link in the way
\* makes raise.
WithDir(t, path) ==
    LET made == Parents(path) \cup {path}
        real == {Real(t, p) : p \in made}
        dead(p) == p \in DOMAIN t.links /\ ~ IsDir(t, p)
    IN  IF Nowhere \in real \/ real \cap t.files # {} \/ \E p \in made : dead(p)
        THEN [t EXCEPT !.raised = TRUE]
        ELSE [t EXCEPT !.dirs = @ \cup real]

\* os.path.relpath(to, from), by the names alone: steps up and then down.
RelPath(to, from) ==
    LET common == Len(LongestCommonPrefix({to, from}))
    IN  [up |-> Len(from) - common, down |-> SubSeq(to, common + 1, Len(to))]

Above(path, n) == SubSeq(path, 1, IF n < Len(path) THEN Len(path) - n ELSE 0)

----------------------------------------------------------------------------
(* extract_source_code *)

Extract ==
    /\ saving = "idle"
    /\ sources' \in Downloads.sources /\ remappings' \in Downloads.remappings
    /\ called' \in Downloads.names
    /\ saving' = "extract" /\ file' = 1 /\ remap' = 1 /\ kept' = <<>>
    /\ UNCHANGED <<main, tree>>

\* Mistake: a remapping of a path that is remapped already is kept.
NeverNested(r) == FALSE

\* Only a parent that was written with a slash is recognised.
Nested(r) == \E k \in ToSet(kept) : k.slash /\ IsStrictPrefix(k.from, r.from)

\* A key that is there already keeps its position.
Put(r) ==
    LET same(k) == k.from = r.from /\ k.slash = r.slash
    IN  IF \E k \in ToSet(kept) : same(k)
        THEN [n \in DOMAIN kept |-> IF same(kept[n]) THEN r ELSE kept[n]]
        ELSE Append(kept, r)

Extracting == saving = "extract" /\ file <= Len(sources)

\* The list is gone through once for each file.
KeepRemapping ==
    /\ Extracting /\ remap <= Len(remappings)
    /\ LET r == remappings[remap]
       IN  kept' = IF r.from = r.to \/ Nested(r) \/ (r.from = <<>> /\ r.slash)
                   THEN kept ELSE Put(r)
    /\ remap' = remap + 1
    /\ UNCHANGED <<saving, sources, remappings, called, file, main, tree>>

\* The first file is the contract's, and each one that is called like it.
NextFile ==
    /\ Extracting /\ remap > Len(remappings)
    /\ main' = IF main = <<>> \/ Last(sources[file]) = called THEN sources[file] ELSE main
    /\ file' = file + 1 /\ remap' = 1
    /\ UNCHANGED <<saving, sources, remappings, called, kept, tree>>

----------------------------------------------------------------------------
(* save_source *)

\* ensure_clean_dir
Clean ==
    /\ saving = "extract" /\ file > Len(sources)
    /\ saving' = "write" /\ file' = 1 /\ tree' = EmptyTree
    /\ UNCHANGED <<sources, remappings, called, remap, kept, main>>

\* ensure_file and write_text
FileWritten(t, path) ==
    LET made == WithDir(t, Front(path))
    IN  IF made.raised \/ Real(made, path) \in made.dirs \cup {Nowhere}
        THEN [made EXCEPT !.raised = TRUE]
        ELSE [made EXCEPT !.files = @ \cup {Real(made, path)}]

Write ==
    /\ saving = "write" /\ ~ tree.raised /\ file <= Len(sources)
    /\ tree' = FileWritten(tree, sources[file]) /\ file' = file + 1
    /\ UNCHANGED <<saving, sources, remappings, called, remap, kept, main>>

StartLinks ==
    /\ saving = "write" /\ ~ tree.raised /\ file > Len(sources)
    /\ saving' = "link" /\ remap' = 1
    /\ UNCHANGED <<sources, remappings, called, file, kept, main, tree>>

\* ensure_file and symlink_to.  The link is relative to where it really is.
Linked(t, r) ==
    LET parent == Front(r.from)
        made == WithDir(t, parent)
        where == Append(Real(made, parent), Last(r.from))
        rel == RelPath(r.to, parent)
        target == Above(Front(where), rel.up) \o rel.down
    IN  IF made.raised \/ where \in made.dirs \cup made.files \cup DOMAIN made.links
        THEN [made EXCEPT !.raised = TRUE]
        ELSE [made EXCEPT !.links =
                [p \in DOMAIN @ \cup {where} |-> IF p = where THEN target ELSE @[p]]]

\* A target that is no directory is left out.
Remapped(t, r) == IF r.from = <<>> \/ ~ IsDir(t, r.to) THEN t ELSE Linked(t, r)

Link ==
    /\ saving = "link" /\ ~ tree.raised /\ remap <= Len(kept)
    /\ tree' = Remapped(tree, kept[remap]) /\ remap' = remap + 1
    /\ UNCHANGED <<saving, sources, remappings, called, file, kept, main>>

SaveInit ==
    /\ saving = "idle" /\ sources = <<>> /\ remappings = <<>> /\ called = ""
    /\ file = 1 /\ remap = 1 /\ kept = <<>> /\ main = <<>> /\ tree = EmptyTree

SaveNext == Extract \/ KeepRemapping \/ NextFile \/ Clean \/ Write \/ StartLinks \/ Link

SaveSpec == SaveInit /\ [][SaveNext]_saveVars

----------------------------------------------------------------------------
(* What solc does with the remappings *)

Strength(r) == 2 * Len(r.from) + (IF r.slash THEN 1 ELSE 0)

\* The path behind a prefix, behind another one.
Moved(path, from, to) == to \o SubSeq(path, Len(from) + 1, Len(path))

Applying(path) == {n \in DOMAIN remappings : IsPrefix(remappings[n].from, path)}

\* The longest remapping applies, of equal ones the last.
Imported(path) ==
    LET best == CHOOSE n \in Applying(path) : \A k \in Applying(path) \ {n} :
                    \/ Strength(remappings[k]) < Strength(remappings[n])
                    \/ Strength(remappings[k]) = Strength(remappings[n]) /\ k < n
    IN  IF Applying(path) = {} THEN path
        ELSE Moved(path, remappings[best].from, remappings[best].to)

----------------------------------------------------------------------------
(* Properties *)

\* What is left of a file's path behind a remapping's prefix.
Behind(r, s) == {r.from \o SubSeq(s, n, Len(s)) : n \in 1..Len(s)}

\* The paths of files, as they are and through each remapping.
ImportPaths ==
    ToSet(sources) \cup
    UNION {UNION {Behind(r, s) : s \in ToSet(sources)} : r \in ToSet(remappings)}

\* Imports that solc resolves.
Imports == {p \in ImportPaths : Imported(p) \in ToSet(sources)}

\* Files are in no other file.  Prefixes end in slashes; one within another comes
\* after it and leads to the directory within the other's; none is on the path of
\* a file, or behind one.
Ordinary ==
    LET within(k, n) == IsPrefix(remappings[k].from, remappings[n].from)
    IN  /\ \A s, t \in ToSet(sources) : ~ IsStrictPrefix(s, t)
        /\ \A n \in DOMAIN remappings :
            /\ remappings[n].slash
            /\ remappings[n].from # remappings[n].to =>
                \A s \in ToSet(sources) :
                    ~ IsPrefix(remappings[n].from, s) /\ ~ IsPrefix(s, remappings[n].from)
        /\ \A n, k \in DOMAIN remappings :
            n # k /\ within(k, n) =>
                /\ k < n
                /\ remappings[n].to
                    = Moved(remappings[n].from, remappings[k].from, remappings[k].to)

Ended == tree.raised \/ (saving = "link" /\ remap > Len(kept))

\* The directory of a contract with ordinary remappings is completed, and every
\* import leads to the file that solc's remappings give.
ImportsLead == ~ tree.raised /\ \A p \in Imports : Real(tree, p) = Imported(p)

\* The contract's file is called like it if any is.
MainFound ==
    /\ main \in ToSet(sources)
    /\ (\E s \in ToSet(sources) : Last(s) = called) => Last(main) = called

\* Solc finds the contract and its imports in the directory
\* (SourceCrawler.py:202, "avoid nested remapping").
ImportsFound == Ended => MainFound /\ (Ordinary => ImportsLead)

=============================================================================
