----------------------------- MODULE SourceFormat -----------------------------
(***************************************************************************)
(* The formatter of src/proxion/Parser.py, which makes one file of Solidity*)
(* source compilable again: comments are removed, each definition is put   *)
(* on one line, and contracts are put behind those they inherit from.  A   *)
(* line is a sequence of tokens: comment marks, braces, semicolons, the    *)
(* quotes of string literals, blanks, and words.                           *)
(***************************************************************************)
EXTENDS Integers, Sequences, FiniteSets, SequencesExt

Blank == "_"
Quote == "quote"

Has(line, token) == token \in ToSet(line)

\* str.strip
Stripped(line) ==
    LET words == {n \in DOMAIN line : line[n] # Blank}
    IN  IF words = {} THEN <<>>
        ELSE SubSeq(line, CHOOSE n \in words : \A k \in words : n <= k,
                          CHOOSE n \in words : \A k \in words : n >= k)

FirstOf(line, token) == SelectInSeq(line, LAMBDA t : t = token)

UpTo(line, token) == SubSeq(line, 1, FirstOf(line, token) - 1)
After(line, token) == SubSeq(line, FirstOf(line, token) + 1, Len(line))

Count(s, token) == Cardinality({n \in DOMAIN s : s[n] = token})

----------------------------------------------------------------------------
(* remove_comments *)

RECURSIVE WithoutBlocks(_)

\* A line that opens comments: what is left, and whether one stays open.
WithoutBlocks(line) ==
    IF ~ Has(line, "/*") THEN [left |-> line, open |-> FALSE]
    ELSE LET rest == After(line, "/*")
         IN  IF ~ Has(rest, "*/") THEN [left |-> UpTo(line, "/*"), open |-> TRUE]
             ELSE LET more == WithoutBlocks(After(rest, "*/"))
                  IN  [more EXCEPT !.left = UpTo(line, "/*") \o @]

\* A line is looked at for the end of a comment, then for the start of one,
\* then for //, in string literals too.
Uncommented(done, text) ==
    LET line == Stripped(text)
    IN
    IF done.open
    THEN IF Has(line, "*/")
         THEN [open |-> FALSE, lines |-> Append(done.lines, After(line, "*/"))]
         ELSE done
    ELSE IF Has(line, "/*")
    THEN LET o == WithoutBlocks(line)
         IN  [open |-> o.open, lines |-> Append(done.lines, o.left)]
    ELSE [open |-> FALSE,
          lines |-> Append(done.lines, IF Has(line, "//") THEN UpTo(line, "//") ELSE line)]

RemoveComments(lines) == FoldLeft(Uncommented, [open |-> FALSE, lines |-> <<>>], lines).lines

----------------------------------------------------------------------------
(* compress_to_one_line *)

Raised == <<"raised">>

\* The depth behind each token, when a line starts at depth d.
DepthBehind(line, n, d) ==
    d + Count(SubSeq(line, 1, n), "{") - Count(SubSeq(line, 1, n), "}")

DepthAfter(line, d) == DepthBehind(line, Len(line), d)

TooManyClosed(line, d) == \E n \in DOMAIN line : DepthBehind(line, n, d) < 0

RECURSIVE Compressed(_, _, _)

\* The definitions in lines, when joined was not written yet and is depth deep.
\* An end within braces is an IndexError, and so is a line of blanks outside of
\* them; an end outside drops what was joined.
Compressed(lines, joined, depth) ==
    IF lines = <<>> THEN IF depth > 0 THEN <<Raised>> ELSE <<>>
    ELSE LET line == Head(lines)
             all == joined \o line
             finish == <<all>> \o Compressed(Tail(lines), <<>>, 0)
         IN  IF depth = 0 /\ line = <<>> THEN Compressed(Tail(lines), joined, 0)
             ELSE IF depth = 0 /\ Stripped(line) = <<>> THEN <<Raised>>
             ELSE IF depth = 0 /\ Last(Stripped(line)) = ";" THEN finish
             ELSE IF depth = 0 /\ ~ Has(line, "{") THEN Compressed(Tail(lines), all, 0)
             ELSE IF TooManyClosed(line, depth) THEN <<Raised>>
             ELSE IF DepthAfter(line, depth) > 0
                  THEN Compressed(Tail(lines), all, DepthAfter(line, depth))
             ELSE finish

CompressToOneLine(lines) == Compressed(lines, <<>>, 0)

----------------------------------------------------------------------------
(* format: contracts with what they inherit from.  The code has them under  *)
(* pieces of their text: a contract without bases may have its brace behind *)
(* its name, and a base the arguments of its constructor.                   *)

Base(name, args) == [name |-> name, args |-> args]
Contract(name, brace, bases) == [name |-> name, brace |-> brace, bases |-> bases]

\* The second word of the definition, and a piece between two commas.
Named(c) == <<c.name, IF c.brace THEN "{" ELSE "">>
Waits(c) == {<<b.name, IF b.args THEN "(" ELSE "">> : b \in ToSet(c.bases)}

\* Of a name that comes twice the last definition takes the first one's place.
ByName(contracts) ==
    FoldLeft(LAMBDA d, c :
                IF \E n \in DOMAIN d : Named(d[n]) = Named(c)
                THEN [n \in DOMAIN d |-> IF Named(d[n]) = Named(c) THEN c ELSE d[n]]
                ELSE Append(d, c),
             <<>>, contracts)

\* Mistake: a contract is written as soon as one it inherits from is.
OneWritten(c, waited) == ~ (Waits(c) \subseteq {Named(w) : w \in ToSet(waited)})

CanWrite(c, waited) == Waits(c) \cap {Named(w) : w \in ToSet(waited)} = {}

Forever == Contract("forever", FALSE, <<>>)

RECURSIVE Rounds(_)

\* while(len(waited) > 0), which does not end when nothing can be written.
Rounds(waited) ==
    LET ready == SelectSeq(waited, LAMBDA c : CanWrite(c, waited))
    IN  IF waited = <<>> THEN <<>>
        ELSE IF ready = <<>> THEN <<Forever>>
        ELSE ready \o Rounds(SelectSeq(waited, LAMBDA c : ~ CanWrite(c, waited)))

Ordered(contracts) ==
    LET known == ByName(contracts)
    IN  SelectSeq(known, LAMBDA c : c.bases = <<>>)
            \o Rounds(SelectSeq(known, LAMBDA c : c.bases # <<>>))

----------------------------------------------------------------------------
(* Properties *)

Flat(lines) == FlattenSeq(lines)

\* Solidity's reading of one token: state is "code", "string", "line" or "block".
ReadToken(s, t) ==
    CASE s.state = "code" /\ t = "/*" -> [s EXCEPT !.state = "block"]
      [] s.state = "code" /\ t = "//" -> [s EXCEPT !.state = "line"]
      [] s.state = "code" /\ t = Quote -> [s EXCEPT !.state = "string", !.code = Append(@, t)]
      [] s.state = "string" /\ t = Quote -> [s EXCEPT !.state = "code", !.code = Append(@, t)]
      [] s.state \in {"code", "string"} -> [s EXCEPT !.code = Append(@, t)]
      [] s.state = "block" /\ t = "*/" -> [s EXCEPT !.state = "code"]
      [] OTHER -> s

\* Before token n of a line that begins in the given state.
StateAt(line, state, n) ==
    FoldLeft(ReadToken, [state |-> state, code |-> <<>>], SubSeq(line, 1, n - 1)).state

\* Token n of the line starts a comment where the code sees none, or none where
\* the code sees one: behind the end of a comment the code no longer looks; // is
\* not looked for in a line that has a /*; and in a string literal nothing is a
\* comment.
Misread(line, state, n) ==
    LET at == StateAt(line, state, n)
    IN  IF state = "block" THEN at = "code" /\ line[n] \in {"/*", "//"}
        ELSE \/ at = "code" /\ line[n] = "//" /\ Has(line, "/*")
             \/ at = "string" /\ line[n] = "//" /\ ~ Has(line, "/*")
             \/ at = "string" /\ line[n] = "/*"

RECURSIVE Comments(_, _, _)

\* Solidity's reading of a file: the code of each line that has some, whether any
\* mark is misread, and whether every string literal ends in its line.
Comments(lines, state, sofar) ==
    IF lines = <<>> THEN sofar
    ELSE LET line == Stripped(Head(lines))
             end == FoldLeft(ReadToken, [state |-> state, code |-> <<>>], line)
         IN  Comments(Tail(lines), IF end.state = "block" THEN "block" ELSE "code",
                [code |-> IF end.code = <<>> THEN sofar.code ELSE Append(sofar.code, end.code),
                 misread |-> sofar.misread \/ \E n \in DOMAIN line : Misread(line, state, n),
                 ended |-> sofar.ended /\ end.state # "string"])

\* However many lines and comments there are, what is a comment is removed and
\* nothing else if no mark is misread, and only then (Parser.py:15, 20, 35).
CommentsRight(lines) ==
    LET solidity == Comments(lines, "code", [code |-> <<>>, misread |-> FALSE, ended |-> TRUE])
        left == SelectSeq(RemoveComments(lines), LAMBDA l : l # <<>>)
    IN  solidity.ended => (left = solidity.code <=> ~ solidity.misread)

Balance(s) == Count(s, "{") - Count(s, "}")

\* Braces match, the file ends behind a definition, and a line that ends in a
\* semicolon outside of braces has no open brace.
Orderly(lines) ==
    LET depth(n) == Balance(Flat(SubSeq(lines, 1, n)))
        all == Flat(lines)
    IN  /\ \A n \in DOMAIN all : Balance(SubSeq(all, 1, n)) >= 0
        /\ Balance(all) = 0
        /\ lines # <<>> =>
                /\ Stripped(Last(lines)) # <<>>
                /\ Last(Stripped(Last(lines))) \in {";", "}"}
        /\ \A n \in DOMAIN lines : depth(n - 1) = 0 /\ Stripped(lines[n]) # <<>> =>
            /\ Last(Stripped(lines[n])) = ";" => depth(n) = 0
            /\ Has(lines[n], "}") => Has(lines[n], "{")

\* Definitions are joined to lines without losing or splitting any, up to the
\* first line of blanks outside of all braces, which ends the formatter
\* (Parser.py:51).
LinesRight(lines) ==
    Orderly(lines) =>
        LET items == CompressToOneLine(lines)
            blank == {n \in DOMAIN lines : /\ lines[n] # <<>> /\ Stripped(lines[n]) = <<>>
                                           /\ Balance(Flat(SubSeq(lines, 1, n - 1))) = 0}
            joined == SelectSeq(items, LAMBDA i : i # Raised)
        IN  /\ blank = {} => Flat(items) = Flat(lines)
            /\ blank # {} => Last(items) = Raised /\ IsPrefix(Flat(joined), Flat(lines))
            /\ \A n \in DOMAIN joined : Balance(joined[n]) = 0

\* The texts that a contract waits for, directly or not.
Above(contracts, c) ==
    LET up[n \in 0..Cardinality(contracts)] ==
            IF n = 0 THEN Waits(c)
            ELSE up[n - 1] \cup UNION {Waits(k) : k \in {k \in contracts : Named(k) \in up[n - 1]}}
    IN  up[Cardinality(contracts)]

\* The rounds end unless a contract waits for itself (Parser.py:179).  Then the
\* last definition of every name is written once, and behind all the contracts it
\* inherits from (Parser.py:164) but those that it gives arguments and that
\* inherit themselves: for these it does not wait (Parser.py:172).
OrderRight(contracts) ==
    LET kept == ToSet(ByName(contracts))
        written == Ordered(contracts)
    IN  IF \E c \in kept : Named(c) \in Above(kept, c) THEN Last(written) = Forever
        ELSE /\ ToSet(written) = kept /\ Len(written) = Cardinality(kept)
             /\ \A n, k \in DOMAIN written : \A b \in ToSet(written[n].bases) :
                    b.name = written[k].name /\ (b.args => written[k].bases = <<>>) => k < n

=============================================================================
