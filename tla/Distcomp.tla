----------------------------- MODULE Distcomp -----------------------------
(***************************************************************************)
(* The distribution compiler of the kit (dcomp.c, dcgram.c, grammar.c): it *)
(* reads the statements of a source file and of the files that one         *)
(* includes, keeps a distribution per "create" and writes them all into    *)
(* one file, the offsets of the distributions in an index at its end, and  *)
(* the numbers of the named columns into a header.  A statement is a       *)
(* record of its parts, without its blanks, line ends and comments; a      *)
(* written file is a function from byte offsets to what begins there.      *)
(***************************************************************************)
EXTENDS Integers, Sequences, FiniteSets, TLC, SequencesExt

CONSTANTS
  DstFiles,       \* name of a source file |-> its statements
  EntryBlock,     \* entries a distribution is extended by (100)
  StringBlock,    \* bytes its strings are extended by (1000)
  D_NAME_LEN,     \* bytes of a name in the index (20)
  Unwritable,     \* names of files that cannot be opened for writing
  NoFile

VARIABLES
  files,          \* the names given: [input, output, header], or NoFile
  reading,        \* files being parsed, the innermost first: [file, line]
  pEntries,       \* the distributions so far, the last one the current one
  compiled,       \* OUTPUT: [cells, size], or NoFile
  header,         \* HEADER: the column numbers <<distribution, name, number>>
  compiling       \* "options", "parse", "write", "done", "failed"

distcompVars == <<files, reading, pEntries, compiled, header, compiling>>

Garbage == [text |-> "?", n |-> -1]

----------------------------------------------------------------------------
(* The current distribution, pCurrentIndexEntry                            *)

NewEntry(name, index) ==
  [name |-> name, index |-> index, v_width |-> 0, w_width |-> 0, length |-> 0,
   types |-> <<>>, weights |-> <<>>, offsets |-> <<>>, names |-> <<>>,
   strings |-> <<>>, str_space |-> 0, nRemainingStrSpace |-> 0,
   allocated |-> 0, nAllocatedLength |-> 0]

Current == pEntries[Len(pEntries)]

Updated(entry) == [pEntries EXCEPT ![Len(pEntries)] = entry]

\* A string takes its bytes and the one that ends it.
Space(value) == Len(value.text) + 1

SpaceOf(values) == FoldLeft(LAMBDA n, value : n + Space(value), 0, values)

\* Room for the strings of a row: another block when the row does not leave a
\* byte of what is left, however long the row is.
Extended(entry, space) ==
  IF entry.nRemainingStrSpace <= space
  THEN [entry EXCEPT !.nRemainingStrSpace = StringBlock,
                     !.allocated = entry.str_space + StringBlock]
  ELSE entry

\* One string of a row; what lies beyond the allocation may be overwritten by
\* whatever else the program allocates.
Stored(entry, value) ==
  [entry EXCEPT
     !.offsets[Len(entry.offsets)] = Append(@, entry.str_space),
     !.strings = @ @@ (entry.str_space :>
                   IF entry.str_space + Space(value) <= entry.allocated
                   THEN value ELSE Garbage),
     !.str_space = @ + Space(value)]

\* The values of a row and its weights; the value sets are kept row by row.
\* Values beyond the declared ones are read as weights, weights beyond the
\* declared ones are left.
Weights(entry, values, weights) ==
  [i \in 1..Len(values) - entry.v_width |-> values[entry.v_width + i].n]
    \o weights

Appended(entry, values, weights, room) ==
  LET row == SubSeq(values, 1, entry.v_width)
      longer == [room EXCEPT
                   !.nAllocatedLength =
                     IF @ = entry.length THEN entry.length + EntryBlock ELSE @,
                   !.weights = Append(@, SubSeq(Weights(entry, values, weights),
                                                1, entry.w_width)),
                   !.offsets = Append(@, <<>>)]
  IN  [FoldLeft(Stored, longer, row) EXCEPT !.length = @ + 1]

\* A bug DistributionsAsWritten must find: the room a row takes is not
\* subtracted, so the strings are never extended.
WithRowUnpaid(entry, values, weights) ==
  LET space == SpaceOf(SubSeq(values, 1, entry.v_width))
  IN  Appended(entry, values, weights, Extended(entry, space))

WithRow(entry, values, weights) ==
  LET space == SpaceOf(SubSeq(values, 1, entry.v_width))
      room == Extended(entry, space)
  IN  Appended(entry, values, weights,
               [room EXCEPT !.nRemainingStrSpace = @ - space])

----------------------------------------------------------------------------
(* One statement of the file being parsed                                  *)

At == reading[1]

Statement == DstFiles[At.file][At.line]

AtStatement(kind) ==
  /\ compiling = "parse"
  /\ reading # <<>>
  /\ At.line <= Len(DstFiles[At.file])
  /\ Statement.kind = kind

\* The statement is done; the files around it stand at their "#include".
Advance == reading' = [reading EXCEPT ![1].line = @ + 1]

\* An error code ends every file being parsed, and main with it; the report of
\* the error reads the line number of a file ref that distcomp never sets.
Fail ==
  /\ compiling' = "failed"
  /\ UNCHANGED <<reading, pEntries>>

Unwritten == UNCHANGED <<files, compiled, header>>

\* create <name>: names are unique and, with the byte that ends them, fit.
ProcessDistribution ==
  /\ AtStatement("create")
  /\ LET name == Statement.name
     IN  IF \/ \E i \in 1..Len(pEntries) : pEntries[i].name = name
            \/ Len(name) > D_NAME_LEN
         THEN Fail
         ELSE /\ pEntries' = Append(pEntries,
                                    NewEntry(name, Len(pEntries) + 1))
              /\ Advance
              /\ UNCHANGED compiling
  /\ Unwritten

\* set weights, set types, set names: the names only after the other two.  Set
\* for a distribution that has rows, weights or types take new row pointers
\* that are NULL: the next statement that uses them ends in a crash.
ProcessSet ==
  /\ AtStatement("set")
  /\ LET s == Statement
     IN  IF \/ pEntries = <<>>
            \/ s.what \in {"weights", "types"} /\ Current.length > 0
            \/ s.what = "names" /\ (Current.v_width <= 0 \/ Current.w_width <= 0)
         THEN Fail
         ELSE /\ pEntries' = Updated(
                   CASE s.what = "weights" -> [Current EXCEPT !.w_width = s.count]
                     [] s.what = "types" ->
                          [Current EXCEPT !.v_width = Len(s.list), !.types = s.list]
                     [] s.what = "names" -> [Current EXCEPT !.names = s.list])
              /\ Advance
              /\ UNCHANGED compiling
  /\ Unwritten

\* add(<values>: <weights>), once types and weights are set.
ProcessAdd ==
  /\ AtStatement("add")
  /\ LET s == Statement
     IN  IF \/ pEntries = <<>>
            \/ Current.v_width = 0 \/ Current.w_width = 0
            \/ Len(s.values) < Current.v_width
            \/ Len(Weights(Current, s.values, s.weights)) < Current.w_width
         THEN Fail
         ELSE /\ pEntries' = Updated(WithRow(Current, s.values, s.weights))
              /\ Advance
              /\ UNCHANGED compiling
  /\ Unwritten

\* #include <file>: the statements of that file come next.
ProcessInclude ==
  /\ AtStatement("#include")
  /\ IF Statement.file \in DOMAIN DstFiles
     THEN /\ reading' = <<[file |-> Statement.file, line |-> 1]>> \o
                        [reading EXCEPT ![1].line = @ + 1]
          /\ UNCHANGED <<pEntries, compiling>>
     ELSE Fail
  /\ Unwritten

\* Anything else is a syntax error.
ProcessOther ==
  /\ AtStatement("other")
  /\ Fail
  /\ Unwritten

\* The end of a file: back to the one that includes it, or to WriteIndex.
EndOfFile ==
  /\ compiling = "parse"
  /\ reading # <<>>
  /\ At.line > Len(DstFiles[At.file])
  /\ reading' = Tail(reading)
  /\ compiling' = IF Len(reading) = 1 THEN "write" ELSE "parse"
  /\ UNCHANGED pEntries
  /\ Unwritten

----------------------------------------------------------------------------
(* The compiled file                                                       *)

Put(file, bytes, value) ==
  IF bytes = 0 THEN file
  ELSE [cells |-> file.cells @@ (file.size :> value), size |-> file.size + bytes]

PutInts(file, values) ==
  [cells |-> file.cells @@
     [offset \in {file.size + 4 * (k - 1) : k \in 1..Len(values)} |->
        values[(offset - file.size) \div 4 + 1]],
   size |-> file.size + 4 * Len(values)]

Column(rows, i) == [k \in 1..Len(rows) |-> rows[k][i]]

NameSpace(names) == FoldLeft(LAMBDA n, name : n + Len(name) + 1, 0, names)

\* A distribution: its types, the weight sets, the offsets of the values set
\* by set, the names of the columns, the strings.
PutDistribution(file, entry) ==
  LET types == PutInts(file, entry.types)
      weights == FoldLeft(LAMBDA f, i : PutInts(f, Column(entry.weights, i)),
                          types, [i \in 1..entry.w_width |-> i])
      values == FoldLeft(LAMBDA f, i : PutInts(f, Column(entry.offsets, i)),
                         weights, [i \in 1..entry.v_width |-> i])
      names == Put(values, NameSpace(entry.names), entry.names)
  IN  Put(names, entry.str_space, entry.strings)

\* The entry of a distribution in the index: D_NAME_LEN bytes and 7 integers.
PutEntry(file, entry, offset) ==
  PutInts(Put(file, D_NAME_LEN, entry.name),
          <<entry.index, offset, entry.str_space, entry.length, entry.w_width,
            entry.v_width, NameSpace(entry.names)>>)

\* The number the header gives a named column: values and weights from 1 each.
ColumnNumbers(entry) ==
  {<<entry.name, entry.names[i],
     IF i > entry.v_width THEN i - entry.v_width ELSE i>> :
     i \in 1..Len(entry.names)}

\* The count, the distributions one after the other, then the index.
Written(entries) ==
  LET PutNext(w, entry) ==
        [file |-> PutDistribution(w.file, entry),
         offsets |-> Append(w.offsets, w.file.size)]
      count == Put([cells |-> << >>, size |-> 0], 4, Len(entries))
      all == FoldLeft(PutNext, [file |-> count, offsets |-> <<>>], entries)
  IN  FoldLeft(LAMBDA f, i : PutEntry(f, entries[i], all.offsets[i]), all.file,
               [i \in 1..Len(entries) |-> i])

----------------------------------------------------------------------------
(* main, from the options on                                               *)

DistcompInit ==
  /\ files = [input |-> NoFile, output |-> NoFile, header |-> NoFile]
  /\ reading = <<>>
  /\ pEntries = <<>>
  /\ compiled = NoFile
  /\ header = {}
  /\ compiling = "options"

\* The parse begins; an input file that cannot be opened fails as an error in
\* it does.
Compile(input, output, headerFile) ==
  /\ compiling = "options"
  /\ files' = [input |-> input, output |-> output, header |-> headerFile]
  /\ IF input \in DOMAIN DstFiles
     THEN /\ reading' = <<[file |-> input, line |-> 1]>>
          /\ compiling' = "parse"
     ELSE /\ compiling' = "failed"
          /\ UNCHANGED reading
  /\ UNCHANGED <<pEntries, compiled, header>>

\* WriteIndex.  Its output file is opened, and emptied, before the header's.
WriteIndex ==
  /\ compiling = "write"
  /\ IF files.output \in Unwritable
     THEN /\ compiling' = "failed"
          /\ UNCHANGED <<compiled, header>>
     ELSE IF files.header \in Unwritable
     THEN /\ compiling' = "failed"
          /\ compiled' = [cells |-> << >>, size |-> 0]
          /\ UNCHANGED header
     ELSE /\ compiling' = "done"
          /\ compiled' = Written(pEntries)
          /\ header' = UNION {ColumnNumbers(pEntries[i]) : i \in 1..Len(pEntries)}
  /\ UNCHANGED <<files, reading, pEntries>>

DistcompNext ==
  \/ ProcessDistribution \/ ProcessSet \/ ProcessAdd \/ ProcessInclude
  \/ ProcessOther \/ EndOfFile \/ WriteIndex
=============================================================================
