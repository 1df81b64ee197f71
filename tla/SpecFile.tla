-------------------------------- MODULE SpecFile --------------------------------
(***************************************************************************)
(* FileSpec (file/spec.py): the index a program keeps of a SPEC data file  *)
(* while SPEC is still writing it, and the scans it parses from it.        *)
(*                                                                         *)
(* The file is a sequence of words.  "#" and the end of a line are words   *)
(* of their own, because the reader splits what it reads at "\n#"; so is   *)
(* the rest of a header line, and each number of a data line.              *)
(***************************************************************************)
EXTENDS Naturals, Sequences, FiniteSets, SequencesExt

CONSTANTS
    Plan,       \* the headers and scans SPEC writes
    Stops(_),   \* Stops(text): where a reader may find the end of the file
    MaxUpdates, \* bound: calls of update() that read
    None        \* not parsed

W(kind, value) == [k |-> kind, v |-> value]
HASH == W("#", 0)
NL   == W("end of line", 0)
More == W("\\", 0)              \* an MCA line that is continued
Number(value) == W("number", value)

(***************************************************************************)
(* What SPEC writes.  A scan has, for each point, the spectra of its       *)
(* detectors, a number to a line, and a row of numbers.  A remark is a     *)
(* line like "#Finished", which only looks like the start of a header.     *)
(***************************************************************************)
HeaderLine(kind, value) == <<HASH, W(kind, value), NL>>
Row(values) == [i \in DOMAIN values |-> Number(values[i])] \o <<NL>>
Spectrum(values) ==
    <<W("@A", 0)>> \o FlattenSeq([i \in DOMAIN values |->
        IF i = Len(values) THEN <<Number(values[i]), NL>> ELSE <<Number(values[i]), More, NL>>])

Written(b) ==
    CASE b.kind = "header" ->
           HeaderLine("F", b.file) \o HeaderLine("E", 0) \o HeaderLine("O", b.names)
      [] b.kind = "remark" -> HeaderLine("remark", b.text)
      [] b.kind = "scan" ->
           HeaderLine("S", b.number) \o HeaderLine("N", b.columns)
             \o HeaderLine("P", b.positions) \o HeaderLine("L", b.columns)
             \o FlattenSeq([i \in DOMAIN b.points |->
                    FlattenSeq([d \in DOMAIN b.points[i].spectra |->
                                  Spectrum(b.points[i].spectra[d])])
                      \o Row(b.points[i].row)])
             \o IF b.comment THEN HeaderLine("C", 0) ELSE <<>>
Text == FlattenSeq([i \in DOMAIN Plan |->
            IF i = 1 THEN Written(Plan[i]) ELSE <<NL>> \o Written(Plan[i])])

IsSequence(s) == s \in Seq(Range(s))
ASSUME SpecFileAssumption ==
    /\ IsSequence(Plan) /\ MaxUpdates \in Nat
    /\ Plan # <<>> => Plan[1].kind = "header"
    /\ \A b \in Range(Plan) :
          \/ b.kind \in {"header", "remark"}
          \/ /\ b.kind = "scan" /\ IsSequence(b.points)
             /\ \A p \in Range(b.points) :
                   /\ IsSequence(p.row) /\ IsSequence(p.spectra)
                   /\ \A s \in Range(p.spectra) : IsSequence(s) /\ s # <<>>
    /\ Stops(Text) \subseteq 0..Len(Text)

VARIABLES
    size,       \* how much of Text the file holds
    pc,         \* "closed", "idle", "indexing": update() has seen a larger file
    st_size,    \* the size update() saw last
    lastpos,    \* FileSpec.lastpos
    index,      \* the blocks found so far
    updates,    \* how many updates have read
    clean       \* history: every read ended where the next one can go on

vars == <<size, pc, st_size, lastpos, index, updates, clean>>

NoIndex == [scans |-> <<>>, headers |-> <<>>, origfilename |-> None, parsed |-> <<>>,
            fb |-> <<"none", 0>>, read |-> FALSE, ignored |-> <<>>]

TypeOK ==
    /\ size \in 0..Len(Text) /\ st_size <= size /\ lastpos <= size
    /\ pc \in {"closed", "idle", "indexing"}
    /\ pc # "closed" => index.scans # <<>>
    /\ Len(index.parsed) = Len(index.scans)
    /\ \A i \in DOMAIN index.scans : index.scans[i].header <= Len(index.headers)

Init ==
    /\ size = 0 /\ st_size = 0 /\ lastpos = 0 /\ updates = 0
    /\ pc = "closed" /\ index = NoIndex /\ clean = TRUE

(***************************************************************************)
(* Parsing a block.                                                        *)
(***************************************************************************)
LinesOf(words) ==
    FoldLeft(LAMBDA lines, w : IF w = NL THEN Append(lines, <<>>)
                               ELSE [lines EXCEPT ![Len(lines)] = Append(@, w)],
             << <<>> >>, words)

\* resetParsedData, and the local variables of parse().
NothingParsed ==
    [columns |-> 0, labels |-> 0, names |-> <<>>, positions |-> <<>>, comments |-> 0,
     wrong |-> 0, data |-> <<>>, oneds |-> <<>>, mca |-> <<>>, find_oned |-> TRUE,
     reading_mca |-> FALSE, oned_idx |-> 1, data_line |-> 0, comp_line |-> 2,
     raised |-> FALSE]

\* The handlers of header lines.  What only a getter returns is left out.
Letters == {"S", "N", "L", "O", "P", "C", "F", "E"}
Handled(p, w) ==
    CASE w.k = "N" -> [p EXCEPT !.columns = IF @ = 0 THEN w.v ELSE @]
      [] w.k = "L" -> IF p.labels # 0 THEN p
                      ELSE [p EXCEPT !.labels = w.v, !.columns = IF @ = 0 THEN w.v ELSE @]
      [] w.k = "O" -> [p EXCEPT !.names = @ \o w.v]
      [] w.k = "P" -> [p EXCEPT !.positions = @ \o w.v]
      [] w.k = "C" -> [p EXCEPT !.comments = @ + 1]
      [] w.k \in {"S", "F", "E", "@A"} -> p

\* McaData._addLine, and what parse() does with a complete one: it raises when
\* there is no OneD for it, which happens when the "#S" of its scan was missed.
McaLine(p, line) ==
    LET numbers == SelectSeq(line, LAMBDA w : w.k = "number")
        mca == p.mca \o [i \in DOMAIN numbers |-> numbers[i].v]
    IN CASE Last(line) = More         -> [p EXCEPT !.mca = mca]
         [] Last(line) # More /\ p.oned_idx > Len(p.oneds) -> [p EXCEPT !.raised = TRUE]
         [] OTHER -> [p EXCEPT !.mca = mca, !.reading_mca = FALSE, !.oned_idx = @ + 1,
                               !.oneds[p.oned_idx] = Append(@, mca)]

StartMca(p, line) ==
    McaLine([p EXCEPT !.comp_line = IF p.data_line = 1 THEN 1 ELSE @,
                      !.reading_mca = TRUE,
                      !.mca = <<>>,
                      !.oneds = IF p.find_oned THEN Append(@, <<>>) ELSE @],
            Tail(line))

\* Mutant: the next point's spectra do not start with the first detector again.
DataLineGoingOn(p, line) ==
    IF Len(line) # p.columns THEN [p EXCEPT !.wrong = @ + 1]
    ELSE [p EXCEPT !.data = Append(@, [i \in DOMAIN line |-> line[i].v])]

DataLine(p, line) ==
    LET wrong == Len(line) # p.columns \/ \E i \in DOMAIN line : line[i].k # "number"
        data  == Append(p.data, [i \in DOMAIN line |-> line[i].v])
    IN IF wrong
         THEN [p EXCEPT !.oned_idx = 1, !.wrong = @ + 1]
         ELSE [p EXCEPT !.oned_idx = 1, !.data = data,
                        !.find_oned = @ /\ Len(data) # p.comp_line]

ParseLine(p, line) ==
    LET counted == [p EXCEPT !.data_line = @ + 1] IN
    IF p.raised THEN p
    ELSE CASE line[1].k = "@A"     -> StartMca(Handled(p, line[1]), line)
           [] line[1].k \in Letters -> Handled(p, line[1])
           [] OTHER -> IF p.reading_mca THEN McaLine(counted, line) ELSE DataLine(counted, line)

Parse(lines) == FoldLeft(ParseLine, NothingParsed, lines)

\* finalizeParsing: the motors' names are the scan's own or those of its header.
Motors(scan, headers) ==
    LET p     == Parse(scan.lines)
        names == IF p.names # <<>> THEN p.names
                 ELSE IF scan.header = 0 THEN <<>> ELSE Parse(headers[scan.header].lines).names
    IN IF names = <<>> \/ Len(names) # Len(p.positions) THEN None
       ELSE [i \in DOMAIN names |-> <<names[i], p.positions[i]>>]

(***************************************************************************)
(* _indexscans.                                                            *)
(***************************************************************************)
\* data.split("\n#"), each chunk as its lines.
Chunks(words) ==
    FoldLeft(LAMBDA chunks, line :
                 CASE chunks = <<>>                       -> << <<line>> >>
                   [] chunks # <<>> /\ line # <<>> /\ line[1] = HASH -> Append(chunks, <<Tail(line)>>)
                   [] OTHER -> [chunks EXCEPT ![Len(chunks)] = Append(@, line)],
             <<>>, LinesOf(words))

IsBlank(chunk) == \A i \in DOMAIN chunk : chunk[i] = <<>>
Opens(chunk) == chunk[1] # <<>> /\ chunk[1][1].k \in {"S", "F", "E"}

\* Mutant: the end of a block keeps what has been parsed of it.
EndKeeping(s) == s

\* fb.end(): a scan forgets what was parsed of it.  A header parses itself, once
\* and for ever; Parse of its lines stands for what it keeps.
End(s) ==
    IF s.fb[1] = "scan" THEN [s EXCEPT !.parsed[s.fb[2]] = None] ELSE s

\* Mutant: a scan takes the place of an earlier one with its number.
BlockReplacing(s, w) ==
    LET same == {i \in DOMAIN s.scans : s.scans[i].number = w.v}
        scan == [number |-> w.v, header |-> Len(s.headers), lines |-> <<>>]
        new  == IF same = {} THEN Append(s.scans, scan)
                ELSE [i \in DOMAIN s.scans |-> IF i \in same THEN scan ELSE s.scans[i]]
    IN IF w.k # "S"
         THEN [s EXCEPT !.headers = Append(@, [file |-> s.origfilename, lines |-> <<>>]),
                        !.fb = <<"header", Len(s.headers) + 1>>]
         ELSE [s EXCEPT !.scans = new, !.parsed = [i \in DOMAIN new |-> None],
                        !.fb = <<"scan", Len(new)>>]

Block(s, w) ==
    LET file == IF w.k = "F" THEN w.v ELSE s.origfilename IN
    IF w.k = "S"
      THEN [s EXCEPT !.scans = Append(@, [number |-> w.v, header |-> Len(s.headers),
                                          lines |-> <<>>]),
                     !.parsed = Append(@, None),
                     !.fb = <<"scan", Len(s.scans) + 1>>]
      ELSE [s EXCEPT !.headers = Append(@, [file |-> file, lines |-> <<>>]),
                     !.origfilename = file,
                     !.fb = <<"header", Len(s.headers) + 1>>]

\* fb.addLine, whose empty lines parse() will skip.
AddLines(s, chunk) ==
    LET lines == FlattenSeq([i \in DOMAIN chunk |->
                    IF chunk[i] = <<>> THEN <<>> ELSE <<chunk[i]>>]) IN
    CASE s.fb[1] = "scan"   -> [s EXCEPT !.scans[s.fb[2]].lines = @ \o lines]
      [] s.fb[1] = "header" -> [s EXCEPT !.headers[s.fb[2]].lines = @ \o lines]
      [] s.fb[1] = "none"   -> s

\* "block not followed by space is not a block.  ignore line": the chunk is not
\* read, with the lines after its first.  History: what was ignored.
Dropped(chunk) == chunk[1] # <<>> /\ chunk[1][1].k = "remark"

AddChunk(s, chunk) ==
    IF IsBlank(chunk) THEN s
    ELSE IF Dropped(chunk) THEN [s EXCEPT !.ignored = Append(@, [lines |-> chunk])]
    ELSE [AddLines(IF Opens(chunk) THEN Block(End(s), chunk[1][1]) ELSE s, chunk)
            EXCEPT !.read = TRUE]

\* Mutant: what comes before the first new block is nobody's.
ResumedNowhere(s) == [s EXCEPT !.fb = <<"none", 0>>, !.read = FALSE]
Resumed(s) ==
    [s EXCEPT !.fb = IF s.scans = <<>> THEN <<"none", 0>> ELSE <<"scan", Len(s.scans)>>,
              !.read = FALSE]

IndexScans(s, words) == End(FoldLeft(AddChunk, Resumed(s), Chunks(words)))

\* Mutants: the position counts a character that is not there; it advances over
\* blanks, so that the "#" after them is no separator any more.
PositionBeyond(s) == IF s.read THEN size + 1 ELSE lastpos
PositionAlways(s) == size
\* The position advances when a chunk was read.
Position(s) == IF s.read THEN size ELSE lastpos

\* getScanByNumber: the dictionary scans, which is made anew by each _indexscans.
WithNumber(scans, n) == {i \in DOMAIN scans : scans[i].number = n}
Order(scans, i) == Cardinality(WithNumber(scans, scans[i].number) \cap 1..i - 1)
GetScanByNumber(scans, n, order) ==
    CHOOSE i \in WithNumber(scans, n) : Order(scans, i) = order

(***************************************************************************)
(* The two programs.                                                       *)
(***************************************************************************)
Write ==
    /\ size < Len(Text)
    /\ size' \in {p \in Stops(Text) \cup {Len(Text)} : p > size
                    /\ \A q \in Stops(Text) : q > size => q >= p}
    /\ UNCHANGED <<pc, st_size, lastpos, index, updates, clean>>

\* History: from p on, what follows belongs to the block that resuming picks, or
\* opens one of its own, and no line is cut.
CleanAt(p, s) ==
    LET rest == Chunks(SubSeq(Text, p + 1, Len(Text)))
        next == SelectSeq(rest, LAMBDA c : ~IsBlank(c))
    IN next # <<>> =>
         \/ /\ ~IsBlank(rest[1]) /\ s.fb[1] = "scan"
            /\ rest[1][1] = <<>> \/ (Text[p] = NL /\ rest[1][1][1] # HASH)
         \/ IsBlank(rest[1]) /\ (s.fb[1] = "scan" \/ Opens(next[1]))

\* What is ignored in a read that takes nothing will be met again.
Indexed(s) ==
    /\ index' = [s EXCEPT !.ignored = IF s.read THEN @ ELSE index.ignored]
    /\ lastpos' = Position(s)
    /\ clean' = (clean /\ (s.read => CleanAt(size, s)))

\* FileSpec(filename), which raises FileSpecFormatUnknown without a scan.
Open ==
    LET s == IndexScans(NoIndex, SubSeq(Text, 1, size)) IN
    /\ pc = "closed" /\ s.scans # <<>>
    /\ pc' = "idle"
    /\ Indexed(s)
    /\ UNCHANGED <<size, st_size, updates>>

\* update(): SPEC may go on writing after stat and before the file is read.
Update ==
    /\ pc = "idle" /\ size > st_size /\ updates < MaxUpdates
    /\ st_size' = size
    /\ updates' = updates + 1
    /\ pc' = "indexing"
    /\ UNCHANGED <<size, lastpos, index, clean>>

UpdateReads ==
    /\ pc = "indexing"
    /\ pc' = "idle"
    /\ Indexed(IndexScans(index, SubSeq(Text, lastpos + 1, size)))
    /\ UNCHANGED <<size, st_size, updates>>

\* A getter that needs the parsed scan.  One that raises leaves it unparsed (and
\* the rows it has stored, to which the next one will add them again).
ParseScan(i) ==
    /\ pc = "idle" /\ i <= Len(index.scans) /\ index.parsed[i] = None
    /\ LET p == Parse(index.scans[i].lines) IN
         /\ ~p.raised
         /\ index' = [index EXCEPT !.parsed[i] = p]
    /\ UNCHANGED <<size, pc, st_size, lastpos, updates, clean>>

Next == Write \/ Open \/ Update \/ UpdateReads \/ \E i \in DOMAIN Plan : ParseScan(i)

Spec == Init /\ [][Next]_vars

(***************************************************************************)
(* Properties.                                                             *)
(***************************************************************************)
Scans == SelectSeq(Plan, LAMBDA b : b.kind = "scan")
HeaderOf(i) ==      \* the header in force when the i-th scan was written
    LET at(j) == Len(SelectSeq(SubSeq(Plan, 1, j), LAMBDA b : b.kind = "scan"))
        where == CHOOSE j \in DOMAIN Plan : at(j) = i /\ Plan[j].kind = "scan"
    IN Last(SelectSeq(SubSeq(Plan, 1, where), LAMBDA b : b.kind = "header"))
GetSource(i) == index.headers[index.scans[i].header].file
Seen == pc = "idle" /\ st_size = Len(Text)      \* update() has seen all of the file

\* A program that reads the file piece by piece while SPEC writes it finds what
\* SPEC wrote: the scans with their numbers, the motors and the file name of the
\* header each was written under (but for a name in the first line, which is not
\* read), and of their rows the first ones; after the last update all.
ScansRead ==
    clean =>
        /\ Len(index.scans) <= Len(Scans) /\ (Seen => Len(index.scans) = Len(Scans))
        /\ \A i \in DOMAIN index.scans :
             LET p    == Parse(index.scans[i].lines)
                 b    == Scans[i]
                 rows == [j \in DOMAIN b.points |-> b.points[j].row]
                 motors == [m \in DOMAIN b.positions |-> <<HeaderOf(i).names[m], b.positions[m]>>]
             IN /\ index.scans[i].number = b.number
                /\ GetSource(i) = IF HeaderOf(i) = Plan[1] THEN None ELSE HeaderOf(i).file
                /\ IsPrefix(p.data, rows) /\ p.wrong = 0 /\ ~p.raised
                /\ Motors(index.scans[i], index.headers) \in {motors, None}
                /\ Seen => /\ p.data = rows
                           /\ p.comments = IF b.comment THEN 1 ELSE 0
                           /\ Motors(index.scans[i], index.headers) = motors

\* The spectra of a detector are those it took, point by point, though the parser
\* never knows how many detectors there are (it may add some without spectra).
SpectraRead ==
    clean => \A i \in DOMAIN index.scans :
        LET oneds == Parse(index.scans[i].lines).oneds
            all   == Scans[i].points
            Taken(d) == [j \in DOMAIN all |-> all[j].spectra[d]]
            detectors == IF all = <<>> THEN {} ELSE DOMAIN all[1].spectra
        IN \A d \in DOMAIN oneds \cup detectors :
             IF d \notin detectors THEN oneds[d] = <<>>
             ELSE /\ d \in DOMAIN oneds => IsPrefix(oneds[d], Taken(d))
                  /\ Seen => oneds[d] = Taken(d)

\* What was parsed of a scan is what its lines say, also after an update has
\* found more of them.
ParsedIsCurrent ==
    \A i \in DOMAIN index.scans :
        index.parsed[i] \in {None, Parse(index.scans[i].lines)}

\* Wherever a read ends, no word is read twice and none is lost but in what
\* follows a remark: after the first line, which is nobody's, each word stands in
\* the blocks and the ignored chunks as often as in the file up to lastpos.
Times(words, w) == Cardinality({i \in DOMAIN words : words[i] = w})
AllWords(blocks) == FlattenSeq([i \in DOMAIN blocks |-> FlattenSeq(blocks[i].lines)])
EveryWordKept ==
    LET kept  == AllWords(index.scans) \o AllWords(index.headers) \o AllWords(index.ignored)
        first == CHOOSE i \in DOMAIN Text : Text[i] = NL /\ \A j \in 1..i - 1 : Text[j] # NL
        read  == SubSeq(Text, first + 1, lastpos)
    IN pc # "closed" =>
         /\ \A w \in (Range(kept) \cup Range(read)) \ {NL, HASH} : Times(kept, w) = Times(read, w)
         /\ \A c \in Range(index.ignored) : Dropped(c.lines)

\* A scan that a program holds or looks up by its number and order stays that
\* scan through every update, and only gains lines.
IndexStable ==
    [][\A i \in DOMAIN index.scans :
         /\ i \in DOMAIN index'.scans
         /\ [index.scans[i] EXCEPT !.lines = <<>>] = [index'.scans[i] EXCEPT !.lines = <<>>]
         /\ IsPrefix(index.scans[i].lines, index'.scans[i].lines)
         /\ GetScanByNumber(index'.scans, index.scans[i].number, Order(index.scans, i)) = i]_vars
================================================================================
