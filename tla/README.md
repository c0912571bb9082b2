# A verification of the TPC-DS data generator

This repository collects what is needed to load-test Impala and Kudu with
TPC-DS data: the C kit (`src/etc/tpcds-kit-2.10.0`) with the data generator
`dsdgen`, the query generator `dsqgen` and the distribution compiler
`distcomp`; a Java port of dsdgen (`src/etc/tpcds-dsdgen-java`); MapReduce
wrappers that run the generators on a cluster (`src/impala-tpcds-kit`,
`src/etc/hive-testbench-hdp3`); and SQL, drivers' manuals and notes. The hard
promise is one that tests hardly reach: a data set of terabytes, built in
hundreds of processes that never speak to each other, killed and restarted as
clusters do, by either generator, must be the data set one process would have
built; and what is built must agree with itself, with its declared tables, and
with the updates that are to replace parts of it. This directory models that.

Sections: inventory, modules, runs and bounds, fairness, proofs, what is not
modelled, plan.

## 1. Inventory

Paths without a directory are in `src/etc/tpcds-kit-2.10.0/tools`.

| Component | State | Operations | Interacts with | Must be true |
|---|---|---|---|---|
| Division into chunks, `split_work()` (parallel.c) | none: computed from the row count and `-parallel`, `-child` | first row and row count of a child | `main()`, `skipDays()` | every row in exactly one chunk |
| Streams (genrand.c, parallel.c, column_list.txt) | per stream: seed, `nUsed`, `nUsedPerRow` | `next_random`, `skip_random`, `row_skip`, `row_stop`/`checkSeeds` | every builder | at a row's start a stream is where a serial build has it |
| Build loops (driver.c, validate.c) and builders (`w_*.c`, `s_*.c`) | the table, the row, rows left; per order its line items; statics of the builders | skip, divide, build, pad; walk back under `-validate` | all of the above | the files add up to the serial data set; a later version of a row is built on the version before |
| Output (print.c) | `tdef.outfile`, the files, the delete file | `print_start`, `print_end`, `print_close`, `openDeleteFile` | builders | a rerun leaves no old line in a finished file; a return has its sale; a set's files hold the set |
| NULLs and printed rows (nulls.c, `pr_*`) | a NULL map per table, the last table looked up | `nullSet`, `nullCheck`, the prints of each table | builders, tpcds.sql, tpcds_source.sql | a row can be loaded into its table; its empty fields are its own |
| Sales calendar (`skipDays` in driver.c, `dateScaling`, `mk_master`) | current day, last order of the day | find the day of the first order; walk on | `split_work` | an order's date does not depend on the chunk |
| Dates and the date dimension (date.c, w_datetbl.c) | the static row | `jtodt`, `dttoj`, `date_t_op`, `mk_w_date` | everything dated | derived columns agree with the date |
| Slowly changing dimensions (scd.c, scaling.c) | last key of each table, dates per version | `setSCDKeys`, `scd_join`, `matchSCDSK`, `getIDCount`, `getSKFromID`, `getFirstSK` | dimension builders, sales | a sale joins a row of the id it drew, the version of its time |
| Row counts, update sets (scaling.c) | row counts, update dates, day counts | `get_rowcount`, `setUpdateDates`, `setUpdateScaling` | everything | update sets hold the days they delete |
| Parameters (r_params.c) | option table, values, `OPT_SET` flags | `set_option`, `process_options`, `read_file` | every program | the command line wins over a file |
| distcomp and distributions (dcomp.c, dcgram.c, dist.c) | the entries being compiled; the compiled file; the distributions loaded | parse, grow, write; find, load, look up, pick | dsdgen, dsqgen | what is read is what the source says |
| dsqgen (QgenMain.c, eval.c, substitution.c, list.c, permute.c) | templates, substitutions and their values, the order of a stream | options, parse, evaluate, print, log | distributions | each stream is a permutation of its own; the copies of a value in a query agree |
| Java port (`com.teradata.tpcds`) | per chunk: a session, row generators, seeds | `Driver` starts a thread per chunk; `TableGenerator`, `Results` | files | as the C build |
| GenTable (MapReduce), setup scripts | job, `/tmp` input and jar, the tasks, the map task's child process | `run`, `copyJar`, `genInput`, `map`; `ls`, generate, `ls` | HDFS, the generators | the output of a job that succeeds is whole; every setup ends |
| SQL, manuals | | | | |

What is hard here: chunks meet only by arithmetic; a stream's place after a
row must not depend on what the row held; a parent table drags its returns
table along in some places (`row_stop`, `row_skip`, `print_close`) and every
one must agree; duplicate streams are moved across tables; a process may be
killed between any two lines it writes and be run again on top of its files;
64-bit row numbers pass through an int; statics of a builder outlive its row;
fields are matched with declared columns by nothing but the order of calls;
the calendar's entries are counted as in a leap year here and in a common year
there; the port repeats all of it in another language; jobs share files in
`/tmp`. `PROJECT.json` lists each at its line, with the properties that would
catch it going wrong.

## 2. How the program works, and how it is modelled

### 2.1 A build in chunks: `SplitWork`, `ChunkedBuild`, `Delivery`

A child runs the loop of `main()` over the tables in the order of `w_tdefs.h`.
Returns tables (FL_CHILD) are passed over: they are written by the builder of
their sales table. For any other table `split_work()` says which rows are the
child's. If they do not begin with row 1, `row_skip()` moves the streams of
the table, of its returns table, and the target of every duplicate stream, to
(first row - 1) times the stream's budget. `gen_tbl()` then builds row after
row, and after each `row_stop()` draws what is left of each budget.

**`SplitWork`** is `split_work()` as operators of the row count, P and c.

**`ChunkedBuild`** is the whole build: all children, their memory and their
files. `pc[c]` says where a child is: at a table, at a row, in an order
(`line`: a line item is due; `sale`: its sale is due to be printed, its return
is printed), at `row_stop()`, ended. A step is the code between two points
where being killed makes a difference on disk, that is, between two flushed
lines. A random number is not a number but a place in its stream: `next_random`
is +1, `skip_random(N)` sets the place to N, and a printed line is
identified by its row, its line item and the places its streams were at. Two
builds agree on a line exactly if they drew it from the same places, so
comparing these records compares the columns, whatever the columns are. The
only numbers looked at are the two that steer the build, how many line items
an order has and whether one is returned; they are read from `Random`. Line
items are numbered by the countdown of the loop.

| Code | Action |
|---|---|
| the operator starts `dsdgen -parallel P -child c` | `Launch` |
| `main()` passes over a table | `SkipTable` |
| `split_work`, `row_skip` (both), the call of `gen_tbl` | `BeginTable` |
| a builder without children, then the loader's print | `BuildRow` |
| `mk_master()` and the number of line items | `BuildOrder` |
| `mk_detail()` up to and with the return's print | `BuildLine` |
| the sale's print, next line item | `PrintSale` |
| `row_stop()`, `checkSeeds()` for the table and its returns table | `RowStop` |
| `print_close()` | `EndTable` |
| `return 0` | `Exit` |
| `print_start()` finds a file and no `-force`: `exit(-1)` | `Refuse` |
| a signal, between two steps, or between `fopen("w")` and the first flush | `Kill`, `KillAtOpen` |

**`Delivery`** is what a build promises its reader, in one action: a child hands
over its whole chunk of every table, once, for good. `ChunkedBuild` implements
it (property `WholeChunks`, the refinement mapping is `Handed`).

What this model assumes of the code and where it comes from:

- A row draws at most its stream's budget (`BudgetAssumption`): column_list.txt
  sets the budgets; for the kit's divided tables `RowBuilders` (2.2) checks it
  and `RowsKeepToBudgets` (5) proves it. Rows draw
  a number that depends on the stream's place (`PerRow`), line items a fixed
  number (`PerLine`): a line of returns draws from its own table's streams only.
  The streams that decide a return (SR_, CR_, WR_IS_RETURNED) belong to the
  sales tables (column_list.txt:157, 425, 549).
- Streams with budget 0 (the item permutations) are drawn once per process
  before the first row, the same in every child, and are left out of `Stream`.
- P is at most a million (`BuildAssumption`), so that a divided table has a
  row for each child. The code does not check it, nor that c is at most P.
- Every child of a build is given the same P and `-force`.
- The disk keeps what was flushed.

### 2.2 The real tables: `ColumnList`, `RowDraws`, `Texts`, `RowBuilders`

`ChunkedBuild` takes tables as constants; here they are the kit's.
`ColumnList` has, for each table of column_list.txt, its streams with their
budgets, and which streams duplicate another. `RowDraws` has one operator per builder: the bag of
streams a row draws from, in each case the builder tells apart (`outcome`: the
row is a new version or the next of one, an order has so many line items, a
field is picked from one distribution or another; loops that depend on data
(text, character sets, exponential draws) have their least and largest counts).
How many numbers a text can take is worked out in `Texts`: `gen_text()` draws a
length and then whole sentences, whose forms and shortest and longest words are
those of english.dst, and cuts off the last one only when it was drawn. A text of
up to 50 characters takes 5 to 36 numbers, of 100 up to 61, of 200 up to 110; that
is the `TextLeast` and `TextMost` of the runs (`TextsAsDrawn`), whatever the
budgets are.
`RowBuilders` builds tables with them in any of the ways of `main()`: all
tables one after the other, one alone, a chunk, an update, or under `-validate`
the picked rows of `validate.c`, with `validateSCD()` walking back to the first
version of an id. `kept` is the row in the builder's statics.

### 2.3 Dates: `Dates`, `DateTable`, `JavaDates`, `SalesDates`

`Dates` is date.c: the conversions between days and dates, leap years, weekdays
and `date_t_op()`, as operators; the update sets use them too. `DateTable`
builds the date dimension row after row, with the row as the static it is, so
that what a row leaves behind is seen in the next. `JavaDates` is the port's `Date` and
`DateDimRow` for the same columns. `SalesDates` is the calendar of
catalog_sales for one child: `skipDays()` turn by turn, then the walk of
`mk_master()`, with the port's `Parallel.skipDays` and its walk beside it. Only
catalog_sales prints the walk's day (`cs_sold_date_sk`); store_sales and
web_sales keep the same walk but print a date drawn at random.

### 2.4 Versions and joins: `VersionJoins`

A table of type 2 repeats six rows for three ids with one, two and three
versions. `SetSCDKeys` builds the rows in order; `Sell` draws an id and a day
and joins a row as `scd_join()` does (its `matchSCDSK`, the last key of the
table, no revision in the future). The dates of the versions are moved by six
days times the table's number, those of the join are not: `JoinNearlyValid`
says exactly how far the version joined can be from the one valid. The port's
`computeScdKey`, `matchSurrogateKey` and `generateScdJoinKey` are operators of
the same module.

### 2.5 Printed rows: `PrintFunctions`, `PrintedRows`

`PrintFunctions` has the prints of each `pr_*` function in order, each with its
kind and the column it looks up for NULL, and the declared tables of tpcds.sql
and tpcds_source.sql. `PrintedRows` is a process that builds tables in turn
(`NextTable`, `NextRow`, and for orders `NextLine`; `TableBuilt`). A row is the
calls its builder makes, in their order: `nullSet()` draws the map of a table
(`SetNulls`), a print function writes a row (`PrintRow`) and looks up each
column's bit in the map of the column's own table, whichever row it prints. A
returned line item sets two maps before either row is printed; a row of an
update may be built with the map of the table it comes from. What is drawn is
kept beside the maps, until the row is written, to compare them with.

### 2.6 Updates: `RowCounts`, `UpdateSets`

`RowCounts` is `get_rowcount()` with its four kinds of scaling and the port's
`Scaling` beside it. `UpdateSets` is the processes of one directory, each
building one update set. The days of a set (`setUpdateDates()`) and the orders of
each (`setUpdateScaling()`) are computed from the days drawn; a process goes
through its files, the delete files first, past those it has no rows for
(`PassOver`): it looks whether one exists (`Check`), empties it (`Open`) and writes it (`Fill`), or ends at its first line
under `-filter` (`NoOutput`). A kill may come between any two steps and takes
what is not flushed. Dates are those of `Dates`.

### 2.7 The Java port: `JavaColumns`, `JavaRows`, `JavaBuild`

`JavaColumns` has the port's generator columns and their seeds per row,
`JavaRows` the draws of each row generator, with `RowDraws`' outcomes, and
`JavaBuild` one thread: `generateTable` for each table (passing over children,
opening the parent's and the child's file), `Results.computeNext` call by call,
`rowStop`, the close. The streams, the files and what was handed on are its
state; `SplitWork`, `RowCounts` and `RowDraws` are what it is compared with.

### 2.8 Generation jobs: `GenTable`

The setups of tpcds-setup.sh, tpch-setup.sh and the impala kit's GenTable with
the Java port. A setup looks for the data (`Start`), makes an input file named
by scale and second (`genInput`) and a jar named by the digest of nothing
(`copyJar`), submits, waits, deletes both files (`cleanup`) and looks again
(`Verify`). A task gets the jar and the line of the input as they are when it
is launched (`Launch`), runs the generator to its end and copies the files of
its chunk (`map`); attempts are lost (`Crash`) and repeated. The cluster is
external: what GenTable relies on in it (attempts, cached files, output that
shows when a task, or the job, commits) is modelled from how it is used.

### 2.9 Queries: `Options`, `Distcomp`, `Distributions`, `Expressions`, `Evaluation`, `TemplateMeaning`, `StreamOrder`, `QueryStreams`

`Options` is r_params.c: an option table, the words of the command line one at
a time, parameter files. It is instanced twice, with distcomp's and dsqgen's
tables. `Distcomp` parses the statements of distribution sources (with
includes) into entries, growing their storage in blocks, and writes the
compiled file, a sequence of cells at byte offsets; `Distributions` reads it
back as `load_dist()` does and has `dist_member`, `dist_weight`, `dist_op` and
the rest. `Expressions` is what the parser of templates builds of a `define`,
`Evaluation` is eval.c: the values an expression draws, with the list, ulist
and range modifiers. `TemplateMeaning` is the reference for it: the values a
definition allows, given all others, without an order. `StreamOrder` is the
loops of `generateQueryStreams()` and `makePermutation()`: the streams, the
order of the templates in each, the copies of each query. The numbers that the
permutation takes from the seed set back for each stream are a constant, any
sequence of numbers. `QueryStreams` composes all this into a session: distcomp
with its command line, then dsqgen with its own; the template list, the
dialect, the parse of each template; then its streams. Each of its actions there
has an action of `StreamOrder` as a conjunct (`StartStream` has `OpenStream`,
`PrintQuery` has `WriteQuery`) and adds the file, the evaluation of the query
and the log; a substitution's value changes none of `StreamOrder`'s variables.
What a substitution draws is a choice.

## 3. The runs

| Run | Instance | Shows |
|---|---|---|
| `chunked_build` | five tables of 5, 3 (sales, with returns), 2 and 1 rows, the small-table limit at 3; seven streams, two of them duplicates, one of another table's stream; orders of one or two line items, with no, one and two returns; serial and P = 2; `-force` or not; up to two kills, at any step of either child | streams, files, a forced build finishes, refinement of `Delivery` |
| `big_tables` | the same with an int whose largest value is 1 | `StreamsInSync` fails: finding 1 |
| `sales_dates` | 22 orders over days of 3, 1, 4, 0, 5, 2, 3, 1, 6, 4 orders; serial and P = 2..9, every child | dates are right unless a chunk begins with the last order of a day, the port's are the same, and the walks end |
| `aligned_dates` | the same | `DatesAsSerial` fails: finding 2 |
| `row_builders` | every table with all its streams, up to 6 rows of each; builds whole, alone, in chunks, as an update, validated; loops of data with their least and largest counts | rows begin in place; overruns are in eleven streams and no other; later versions follow |
| `date_table` | all 73,049 rows, no bound | dates, derived columns, flags, the port |
| `version_joins` | tables 0, 11 and 23 of 6, 8 and 10 rows (ending after, and within, an id); the period of the kit; every id on days around each change | versions tile, joins |
| `update_sets` | (a) every entry of the calendar that can be drawn, in each of the years 1998 to 2002; (b) two or three processes in a directory, children with and without `-force`, two sets, `-filter`, no or one kill | dates, inventory, files, the port's counts |
| `printed_rows` | every table of a build and of an update, alone and two in order, two rows each (`RowCount`), orders of up to two line items (`MaxLine`); maps with all bits or every other, thresholds below and above every limit | rows fit the tables; NULLs are the row's own |
| `gen_jobs` | the three kits; scale 2 or 3 with as many tasks, two attempts each, up to two lost; setups alone, after one another, and together in the same or the next second; pipes of 3 lines | output is whole; every setup ends |
| `java_build` | all 25 tables, whole and in halves, and each divided table alone, at one scale; four tables at four other scales, between and beyond the volumes | rows, streams, draws, returns, end |
| `query_streams` | two distributions (varchar and int columns, 2 and 6 weight sets, names); blocks of 8 bytes and 2 rows; 15 command lines and sources of distcomp and 17 of dsqgen, most of them wrong in one place; three templates, three streams, a count of 2 with QUALIFY, a year of four days | options, distributions, stream order, query values, end |

Properties, by run:

`chunked_build`
- `TypeOK`: the type invariant of the module.
- `StreamsInSync`: before each row the streams of the table and its returns
  table are at (row - 1) x budget with `nUsed` 0; in a row none exceeds its
  budget.
- `FilesAreSerial`: at every moment each line of each file is one of the
  serial build's lines for that child's rows, and is there once.
- `CompleteBuild`: when all children ended with 0, the files hold all lines,
  no line twice, and a small table one file.
- `ReturnsHaveSales`: whenever a child is not in a row, at most one return
  lacks its sale. This holds for one kill. Two kills can break it: the second
  hits a rerun that has emptied the sales file and not yet the returns file.
- `ForcedBuildFinishes`: with `-force`, every build ends with all children
  successful, in spite of the kills.
- `WholeChunks`: a reader of finished children's files sees whole chunks that
  never change.

`sales_dates`
- `DatedAsSerial`: a chunk that does not begin with the last order of a day is
  dated as in a serial build; `PortDatesSame`: the port dates every chunk as
  dsdgen does, the misdated ones too; `Finishes`: the walks end.

`row_builders`
- `InPlace`: whatever was built before in the process, whichever chunk or
  picked row it is, every stream that shows in a row is where a build of the
  table alone from row 1 has it, if its rows kept to their budgets; in the
  streams that rows can overdraw a serial build may be further on, never behind.
  `RevisionFollows`: a later version of a row is built on the version before,
  also when `-validate` jumps to it.
- `NoOtherOverrun`: no row of any table, the update's included, draws more than
  its budget from a stream `row_stop()` pads, but from eleven streams
  (`Overdrawn`), each of which some row does overdraw (`OverdrawnAre`). Two are
  texts, CC_MARKET_DESC (61 of 50) and WEB_MARKET_CLASS (36 of 20). Six belong to
  the lines of an update's catalog orders, nine lines with the budget of one;
  three to the returns of the other two orders, with half of what twelve returns
  draw. Call centers and web sites are written whole by one process, so that no
  chunk is wrong, but `-validate` comes to a row by budgets: after a row that
  overdrew, it may show another text than the build wrote.

`date_table`
- `RowsFollow`: a row is dated the day after the row before, its key is the
  date's, its weekday is the next but in the first two months of 1900 and 2100
  (`is_leap()` takes every century for a leap year), and the sequences of weeks,
  months and quarters never fall or leave one out. The quarter sequence turns
  in March, June, September and December, where `d_qoy` turns a month later.
- `EarlierDays`: the days a row refers to (same day last year, last quarter,
  first of month) and its quarter, with the exceptions named there: the first
  day of a later quarter of a common year counts to the one before.
- `FlagsDoNotLinger`: each row is the one `-validate` builds from scratch.
- `PortBuildsSameDate`: every column computed the same, the last day of a month
  too, which both take from days gone and is wrong in both.

`version_joins`
- `VersionsTile`, `JoinKeepsId`, `JoinNearlyValid`, `IdsAreRows`,
  `PortJoinsSame`: the versions of an id share out the time; a sale within the
  period joins a row, of the id drawn, of the version valid some days ago, never
  one to come; ids and rows agree; the port builds and joins the same.

`update_sets`
- `UpdateDatesInZone`: the days of the delete files lie in their seasons, in
  pairs, but for the days on which the next entry of the calendar belongs to
  another season. `InventoryReplaces`: the rows of S_INVENTORY are exactly those
  of the days in the set's delete file. `SetDelivered`: whatever order the
  processes took turns in, a process that ended has what it built in its files,
  unless the file is one another set may write (names of children leave out
  the set) or a delete file of a set with a killed child. `PortCountsSame`: the
  port counts the rows of each update day as dsdgen does.

`printed_rows`
- `RowsAsDeclared`: a row has a field for each declared column, of a type that
  fits, and none empty where the column is NOT NULL; s_promotion lacks its last.
- `NullsOfThisRow`: a field is empty only by the map drawn for this very row.

`gen_jobs`
- `WholeOutput`: the output of a job that succeeded has each row of each table
  once, whatever was lost, repeated, or deleted by other jobs; no output has a
  row twice or of another kit. `SetupsEnd`: every setup ends; it rests on a
  generator saying no more than a pipe holds.

`java_build`
- `ChunkAsDsdgen`: a thread generates the rows dsdgen builds with the same
  child at the same scale, and begins each with the streams where dsdgen has
  them. `DrawsAsDsdgen`: a row draws from every stream what dsdgen's draws, but
  for six columns that the port writes as constants. `ReturnsWithSales`: a
  returns file gets a row per returned sale, built with the sales or alone.
  `BuildEnds`: a thread ends with its files written, unless one existed and may
  not be overwritten.

`query_streams`
- `CommandLineWins`: an option on the command line keeps its value, wherever
  the parameter file stands and whatever its lines say.
  `DistributionsAsWritten`: what the programs read is what the sources say,
  through every growth of the storage. `StreamsInOrder`: each finished stream
  has every template COUNT times in the order that is its number's, whatever
  was drawn meanwhile. `ConsistentQueries`: every value printed is one its
  definition allows given the others, and every copy of it, in the query and
  the log, is the same. `SessionEnds`: both programs end.

### Bounds

- Builds. Children share only the directory, in which their files have
  different names, so what two children can do to each other shows with two;
  three chunks of a table differ from two only in the arithmetic, which is
  proved for all P. A chunk needs two rows for the padding to matter and the
  second child a first row other than 1; five rows divide unevenly. Two line
  items are needed for one to be returned and the next not. Two kills show a
  rerun that is itself cut off on top of the files of the run before (or a kill
  of each child); a third finds files that again hold prefixes of the same
  chunk. `MaxCrashes` bounds the kills, `Period` the generator's period.
- `sales_dates` has an empty day, a chunk boundary in the middle, at the first
  and at the last order of a day, and divisions with unequal chunks.
- `row_builders`: `MaxRow` 6 is a whole cycle of versions; chunks begin with row
  2 or 3, a new version or the next of one. `Ids` 3 bounds the shuffled ids.
  Texts draw the fewest or the most numbers they can.
- `update_sets`: every day is taken, with counts small enough that days of each
  weight differ; three processes are two children and a rival of another set.
- `gen_jobs`: two attempts (`MaxAttempts`) and two losses let a task succeed the
  second time and a job fail; `MaxSecond` 2 lets inputs share a name or not.
- `printed_rows`: a stale map shows in the next row, line item or table. That
  the kit's print functions, declarations and masks go together is evaluated for
  every table by itself (`KitIsDeclared`).
- `java_build`: small tables below and sales above the limit of division, and as
  in the kit none of those above it has a stream that rows can overdraw; a scale
  between two volumes and at each end.
- `query_streams`: the storage grows at least twice in each dimension; a
  3-cycle tells the first, second and third shuffle apart; a year of four days
  has the leap day, both ends and an inner day.

Deadlock is checked in every run: the only states without another step are
those where all is over, which the modules give a step of their own.

### Findings

1. `driver.c:555-557` casts the rows to skip to int. store_sales has 2.4e9
   orders at SCALE 10000 (scaling.dst:66), so chunks that begin beyond 2^31
   start with wrong streams. parallel.c:203 knew the parameter needed to be a
   ds_key_t; the parameter was widened and the callers were not.
2. `driver.c:128` takes a skipped day back only if it went past the first
   order, not if it ended on it. A chunk that begins with the last order of a
   day is dated from the day after. At SCALE 10 this is child 9 of 53, child 30
   of 66 and child 20 of 76; at SCALE 100 child 140 of 141 and 98 of 162.
   `Parallel.java` of the Java port repeats the condition. tests/chunked_data.sh
   compares two chunks with the same first row and cannot see it.

Other disagreements met on the way are in `PROJECT.json` under "hazards", each
with its line and a note where no property is about it.

## 4. Fairness

`FairSpec` of `ChunkedBuild` is weak fairness of each child's own steps: a
process that runs is scheduled, and the operator starts every child and starts
a killed one again. Kills are never fair. `Refuse` and `Launch` are part of a
child's step. `FairSpec` of `SalesDates` and `Spec` of `JavaBuild` are weak
fairness of one process. `Spec` of `GenTable` is weak fairness of all steps
together: the shells, the cluster and the generators go on; losses are bounded
by the session. `Fairness` of `QueryStreams` is weak fairness of the two
programs, one after the other, written out: either they are over again and
again or a step is taken again and again. (Until they are over some step is
enabled, which the deadlock check of the run shows.) Nothing stronger is
assumed.

## 5. What is proved

tlapm checks these for every value of the constants that satisfies the named
assumptions (`SmallTableAssumption` in `SplitWork`; `TableAssumption`,
`StreamAssumption`, `LineAssumption`, `BudgetAssumption`, `BuildAssumption` in
`ChunkedBuild`; `TextAssumption` and `IdsAssumption` in `RowDraws`;
`BuildersAssumption` and `DrawsAssumption` in `RowBuilders`; `CalendarAssumption` in `SalesDates`;
`DatesAssumption` and `TablesAssumption` in `VersionJoins`; `RowsAssumption` in
`DateTable`; `SessionAssumption`, `RowsAssumption` and `DrawnAssumption` in
`UpdateSets`; `MapsAssumption` in `PrintedRows`; `BuildAssumption` in
`JavaBuild`; `SetupAssumption` in `GenTable`; `StreamOneAssumption` in
`StreamOrder`). TLC evaluates each for the values
of the runs. Where a theorem needs more of the kit's own tables than that (that
the columns of the two programs have the same seeds, say) the need is a named
definition and a hypothesis of the theorem, and an ASSUME of the MC module has
TLC evaluate it for the kit: `KitIsSound` in `MCRowBuilders`, of which
`StreamsOwned` is a part (what `DrawsAssumption` says of texts is what `Texts`
comes to, see `TextsAsDrawn`); `TablesAreDeclared` in `MCPrintedRows`; `CountsAlike`,
`SeedsAlike` and `RowsFit` in `MCJavaBuild`. None of them is about a step.

- `EveryRowOnce` (ArithmeticProofs): every row of a table is in the chunk of
  exactly one child; no chunk reaches beyond the table. By `DividedChunk` a
  chunk is the interval from 1 + (c-1)q + min(c-1, e) to the same at c + 1, so
  chunks abut; `DividedCover` finds the child of a row by dividing by q + 1
  below the e-th larger chunk's end and by q above it.
- `TypeCorrect` (ChunkedBuildProofs): `Spec => []TypeOK`. Types alone are not
  inductive: that `left` and `lines` do not go below 0 and that `tab` is a table
  depends on where a process is in its loops (`Control`).
- `RowsStartInSync` (ChunkedBuildProofs): if the row counts fit an int (`Fits`,
  which finding 1 is the lack of), `Spec => []StreamsInSync`. The invariant
  `SyncInv` adds two things. Within a row a stream is at its row's start plus
  `nUsed`, and `nUsed` plus what the outstanding line items draw is within the
  budget, so `row_stop()` lands exactly on the next row. And child 1, which
  skips nothing, has not touched the streams of the tables ahead, which needs
  that no two tables built by themselves share a stream (`FamiliesApart`).
  For other children nothing is claimed of tables ahead, and nothing could be:
  the duplicates move their streams. It is enough that such a child skips, and
  so resets, every stream of each table it has rows of (`ShareType`).
  The number of kills is a constant without a bound.
- `FilesHoldSerialLines`, `FilesHoldSerialBuild`, `BuildsDeliverChunks`
  (ChunkedBuildProofs): with `Fits`, `Spec => []FilesAreSerial`,
  `Spec => []CompleteBuild` and `Spec => WholeChunks`: what the children leave
  on disk is the serial build's data set, and the build implements `Delivery`.
  `SyncInv` is not enough: it knows where a row begins, not where its third
  return does, and nothing of the files of an earlier, killed run. `FilesInv`
  adds that within an order each stream is where the line items drawn, or those
  of them returned, have brought it (`InPlace`); that rows go up and line items
  down in a file, so that no line is there twice (`Sorted`, `SortedOnce`); and,
  for each file of a child (`FileRight`), that an open one holds just the lines
  the process has come past (`Passed`), one not yet opened has none to hold, one
  of a table already ended holds the child's share, and any other, of an earlier
  run, a part of it. A step that prints a line (`LinePrinted`) comes past that
  line and no other; a step that prints none (`NothingPrinted`) passes no line
  the child owes. The set of streams, tables and line items is arbitrary; what
  is assumed of the returns is `LineAssumption`, that the sales table's own
  streams decide on them.
- `ReturnsLackOneSale` (ChunkedBuildProofs): with `Fits`,
  `Spec => []ReturnsHaveSales`. Within a table, from its first return on, and
  after its end it follows from `FilesInv` (`WithinTable`); what is left are the
  files of earlier runs. `ReturnsInv` adds that a file that does not exist holds
  nothing, that before the first kill a child's files are those its only run has
  open or is done with (`FirstRun`), and that, up to one kill, a child lacks at
  most one sale except while it prints sales over an old file and no return yet
  (`Exposed`), which it does only with -force. `FilesInv` and the facts that
  follow from it are used before and after the step, as invariants proved
  already.
- `ChunkDatedAsSerial` (SalesDatesProofs): `Spec => []DatedAsSerial`. In
  `skipDays()` the index is the last order of the days passed over (`Skipping`);
  unless it meets the first order exactly, the day returned is the one whose
  last order is `end`, and the walk keeps it so (`Walking`).
- `TypeCorrect`, `PortDatesAlike` (SalesDatesProofs): `Spec => []TypeOK` and
  `Spec => []PortDatesSame`, also for the chunks that are dated a day late. The
  invariant `Alike` ties the walk to the port's: `end` is where the port's walk
  over the same chunk ends that day (`PortEnd`), and behind the calendar by the
  first day's orders at most. Hence a late chunk can walk that much further
  than a serial build; that it meets no day past the last is the last line of
  `CalendarAssumption`: the orders and one more day's worth fit before
  `LastDay`. The code asks no less and sets no end: `dateScaling()` weighs any
  day it is given, and the calendar's weights go round every year.
- `RowsKeepToBudgets` (RowBuildersProofs):
  `StreamsOwned => (Spec => []NoOtherOverrun)`, whatever the gifts, the versions,
  the line items and the returns, for every table. `DrawsAssumption` bounds the
  numbers of a text by the most `gen_text()` can draw (not by the budgets, which
  two of the texts exceed) and the line items by the most the code gives an order.
  What the row of each table draws is compared with its budget, builder by builder
  (`SimpleFits`, `TablesFit`), and for sales and the update's orders the order plus
  the most lines times what a line and its return draw (`SalesFit`, `OrdersFit`).
  `StreamsOwned` says that a stream belongs to one table.
- `RowsBeginInPlace` (RowBuildersProofs): `KitIsSound => (Spec => []InPlace)`, for
  any number of rows, chunks and picked rows, whichever tables were built before.
  `row_skip()` brings every stream that shows to its place, from wherever it is
  (`SkipTo`), and `row_stop()` makes up what a row left of a budget (`BudgetUsed`);
  a row that draws more leaves a serial build ahead. That this happens in the
  streams of `Overdrawn` only is `RowsKeepToBudgets`; that no divided table has
  one is part of `KitIsSound` (`StreamsStopped`). A serial build skips nothing:
  that a table finds its streams at their first seeds takes the invariant
  `AheadUntouched`, and of the kit that no table draws from the streams of another
  but such as do not show (`TablesApart`).
- `VersionsFollow` (RowBuildersProofs): `Spec => []RevisionFollows`, without a
  hypothesis: before the first row of a table and between rows, a next row that
  is a later version follows the one `kept` (`Following`). No child jumps into a
  table with versions, as none is ever divided (`BuildersAssumption`), and
  `validateSCD()` goes back to a first one.
- `NullsAreDrawn`, `RowsCanBeLoaded` (RowBuildersProofs):
  `PrintSpec => []NullsOfThisRow` and
  `TablesAreDeclared => (PrintSpec => []RowsAsDeclared)`, for any order of tables,
  any numbers of rows and line items, and anything drawn. `NullsInv` says that
  the map of a table whose row is not written yet is what `nullSet()` made of the
  numbers drawn for it, that a table without NULLs has an empty map, and that
  the calls still to come are `Ready`: before a row is printed the NULLs of the
  table its columns are looked up in have been drawn, and no row of that table
  was printed in between. That holds of each builder's calls (`NullableBuilt`:
  a row shows columns that can be NULL of one table only, the one it is built
  for) and, for orders, of a line with its return. A mask then takes the columns
  that are NOT NULL out of whatever was drawn.
- `Tiled`, `JoinsKeepId`, `JoinsNearlyValid`, `IdsMatchRows`, `PortJoinsAlike`
  (DimensionProofs): the five invariants of `version_joins`, for every period
  of three days or more, every table number and every row count. That the port
  agrees (`PortRow`, `PortJoin`) needs no invariant but that the state holds the
  rows of their keys and a sale the code makes. `Versions`,
  `MovedVersions`, `FirstRows`, `VersionOfDay`, `RowsBetween` and `Joined` are
  the arithmetic of keys modulo 6 and ids modulo 3, each stated once. The
  inductive invariant `IInv` says what types do not: that the rows are
  `setSCDKeys()` of their keys, though the code carries the business key of the
  row before in a static, and that the sale is a join of an id the table has
  (`RowsAreKeyed`, `SaleIsJoin`). `TypeCorrect` is proved on the way.
- `FlagsEnd`, `RowsGoOn`, `RowsReferBack`, `PortAgrees` (DimensionProofs): the
  four properties of `date_table`, for any number of rows, where the run has the
  kit's 73,049. All rest on `RowsFromScratch`: row n is what `mk_w_date()` makes
  of day n alone, though it writes over the row before, since each of its
  branches for a current day, week or month sets or clears every flag
  (`FlagsCleared`). What is left is arithmetic, in `ArithmeticProofs`: a day is a
  place in a year that begins in March, a year a place in a century
  (`EveryDayIsMarchDay`), `jtodt()` takes the place apart (`DateOfMarchDay`) and
  `dttoj()` puts it together (`NumberOfMarchDay`), so that each undoes the other
  (`DatesAndNumbers`) and the next day's date is the Gregorian one (`NextDay`).
  A year's weekdays follow from its doomsday, which `set_dow()` takes from the
  century (`WeekdayOfYear`); they go on from day to day but where `is_leap()`
  calls a century year a leap year (`WeekdaysOnEnd`). The port computes its
  leap years and weekdays alike (`SameRow`), and no date it makes on its way is
  one that its constructor refuses (`AcceptedDate`).
- `OutputIsWhole` (ToolProofs): `PortAlone => (Spec => []WholeOutput)`, for
  any number of setups, scales, tables, attempts and crashes. `JobsRight` says
  that a file of commands, whoever wrote it last, holds the commands of a kit
  set up at the scale in its name (`CommandsByName`); so a task, though it reads
  its line after other jobs may have replaced the file, runs the command of its
  own number or one of another kit, which fails in its directory
  (`TaskRight`). An output is of one job and holds what tasks of that job wrote
  (`JobRight`). The two ways generators name their files come to the same chunks
  (`TaskRowsIs`), and chunks to each row once by `EveryRowOnce`. `PortAlone` says
  that the port is not set up at the scale of a kit of C: the port's job has one
  command, so that three setups in the same second, a kit's, the port's and the
  kit's again, could submit a job with one task for its many children. The runs
  have no such sessions, and neither have the scripts, which do not run the port.
- `QueriesInOrder`, `EachTemplateOnce` (ToolProofs):
  `OrderSpec => []StreamsInOrder`, for any templates, any COUNT and number of
  streams, and any numbers the shuffle draws; and the order of every stream has
  each template once. `OrderInv` says that the permutation at hand is the order
  of the stream it was made for, and that a stream has the first `Done` of its
  queries printed. Shuffling what the last stream left, with the numbers of the
  first shuffle again, is the last order taken through the first
  (`ShuffleThrough`), since a swap of places comes to the same before and after a
  renaming (`SwapThrough`). The shuffle and the orders are recursive functions:
  that they exist (`CountedUp`) and what holds along them (`Induction`) is proved
  from the least counterexample of a set of numbers, where the library's
  theorems would want an operator. The session of `query_streams` takes the
  steps of `OrderSpec` by the way its actions are made, from the moment all
  templates are read; that is read off `QueryStreams`, and not proved, as that
  module reaches RECURSIVE operators.
- `Delivered` (UpdateSetsProofs): `Spec => []SetDelivered`, for any number of
  processes, of any sets, in any order, with and without `-force`, killed or
  not. `SessionAssumption` says that no two processes build the same chunk of
  the same set. `Delivering` keeps, for every file a process has opened, that it
  exists and holds the process's rows and no other's unless another set's child
  has the same name (`OwnRows`), and of the two delete files, which all children
  of a set write, that they hold no other set's days (`OwnDays`), and that one
  which is empty is so because some process of the set has the days in its
  buffer, is about to write them or was killed (`DaysBuffered`,
  `ThursdaysPending`). So one that is done is not among those, which is the step
  from this invariant to the property.
- `PortCounts` (UpdateSetsProofs): `Spec => []PortCountsSame`, for all row counts
  and days drawn. dsdgen adds up the rows of the days, the port asks for each
  day: the differences of the sums are what `dateScaling()` gives a day, and the
  port's `getRowCountForDate` is that, with the divisions in its order
  (`RowsOfDay`).
- `DatesInZone` (UpdateSetsProofs): `Spec => []UpdateDatesInZone`, for every entry
  of every season and each of the five years. `setUpdateDates()` steps through
  entries of a calendar of 366, and looks each day's entry up again. A day is
  its place in its year (`DayByPlace`), its weekday that of the year's first day
  and the place (`WeekdayOfDrawn`), so that the first and the second day of a
  pair, and the Thursdays of the inventory, are places the seasons' bounds are
  compared with (`PairDrawn`, `FirstThursday`, `SecondThursday`). The five years
  differ in their first weekday and in whether they leap; that the one leap day
  among them, 29 February 2000, is no Thursday (`NoLeapThursday`) is used.
- `InventoryReplaced` (UpdateSetsProofs): `Spec => []InventoryReplaces`, for every
  number of items and warehouses. A row of S_INVENTORY is its day, item and
  warehouse in mixed radix, and so is a row of INVENTORY: the map between them
  is one to one and onto the rows of the set's days. Of the days it is used that
  they are six different ones on which stock was taken, whatever was drawn, which
  is `ThursdaysOfSet`. `DrawnAssumption` says of what is drawn only that an entry
  is of its season and that the year is one of the five.
- `PortBuildsChunk` (JavaBuildProofs):
  `CountsAlike /\ SeedsAlike /\ RowsFit => (Spec => []ChunkAsDsdgen)`, for every
  number of rows, threads and line items. The two `splitWork`s come to the same
  interval (`SplitAlike`). `ChunkInv` says that within a row a stream is at the
  row's start plus what the row drew, and that as many of the dearest lines as
  are left still fit the budget, so that `consumeRemainingSeedsForRow()` ends on
  the next row. Only tables that are divided at some scale need the same seeds
  in both programs: the port gives `T_NULLS` another number, but TIME_DIM is
  never divided.
- `ReturnsBuiltWithSales`, `PortDrawsAlike` (JavaBuildProofs):
  `Spec => []ReturnsWithSales` and `Spec => []DrawsAsDsdgen`, with no hypothesis
  about the tables, for any numbers of line items, of ids, and any lengths of
  texts. The port makes an order line by line, dsdgen at once. `LinesInv` counts
  the lines and returns handed on so far; `DrawsSoFar` says that what they drew
  is what dsdgen draws for an order of just these lines and returns:
  `OrderTotals` and `LineTotals` take the two programs' draws apart into the
  shuffle, the order, its lines and returns, and the lines' parts are the same,
  builder by builder. Inside an order the shuffle is done with and the order's
  own draws are made once, whatever the order of calls. Where only sales are
  asked for the port draws nothing for returns; those streams do not show.
  `SimpleRowsAlike` is the comparison for the other nineteen generators.

Only model-checked, and why:

- `CommandLineWins`, `ConsistentQueries` and `DistributionsAsWritten`: `Options`,
  `Evaluation`, `Distributions` and what uses them follow the code's recursion
  with RECURSIVE operators, in which nothing can be proved. What they say is also
  about what loops over lists leave, an induction over data.
- `KitIsSound`, `TablesAreDeclared`, `CountsAlike`, `SeedsAlike`, `RowsFit`: facts
  about the kit's own tables, finite, and TLC evaluates the whole of each.
- Liveness (`ForcedBuildFinishes`, `Finishes`, `BuildEnds`, `SetupsEnd`,
  `SessionEnds`) is out of the prover's reach.

## 6. What is not modelled

- The arithmetic of the generator (genrand.c) and of what the columns hold: a
  column is determined by the places it was drawn from. Pricing, addresses and
  words enter by what they draw, a text by the fewest and the most numbers.
- The values of dimension joins other than versions (catalog pages, web pages
  and sites: join.c), `changeSCD()`'s choice of fields, sparse keys.
- `dateScaling()`'s weights in `SalesDates`: a parameter (`RowsOn`, `DayEnd`).
- `-dbload` (its loaders do nothing), the vld_ functions of update tables, the
  chunks of update orders.
- Rounding in the scaling of row counts between volumes; scales below 1.
- The text of a printed field; names of days and quarters; usage texts.
- Disk errors and unflushed pages (a machine's crash).
- Template text (scanning, parsing, #include, which the kit's templates do not
  use) and text-valued references (`[x]` in an expression for a text), whose
  buffers alias each other: the kit's templates refer to numbers only.
- mkheader, scripts beyond the setups' checks, SQL, manuals: sequential
  translators and data.
- The Java driver's threads together: each has its own session and files, and
  nothing joins or watches them.

## 7. Plan

Done: all modules of section 2 and the theorems of section 5. Left, in order of
importance:

1. `WebJoins`: cp_join, web_join and the sites that replace each other, with the
   catalogs out of print.
2. The vld_ functions of update tables in `RowBuilders`.
