---------------------------- MODULE QueryStreams ----------------------------
(***************************************************************************)
(* The making of the benchmark's queries: distcomp compiles the            *)
(* distributions, dsqgen parses the query templates that draw from them    *)
(* (QgenMain.c, qgen.y, substitution.c, keywords.c, list.c) and writes     *)
(* STREAMS files, each with all templates in an order of its own           *)
(* (permute.c), every template COUNT times with values drawn anew          *)
(* (query_handler.c).  Both programs read their parameters as Options      *)
(* says.  A template is a sequence of statements, as the grammar makes     *)
(* them of the dialect's file and the template's; texts are words.         *)
(*                                                                         *)
(* The templates define each name once, and _LIMIT before a tag that needs *)
(* it; dsqgen's DISTRIBUTIONS is the file distcomp has written.  Templates *)
(* that include others are left out: the kit has none.                     *)
(***************************************************************************)
EXTENDS TemplateMeaning, StreamOrder

CONSTANTS
  DcompOptions, QgenOptions,  \* the option tables of the two programs
  ParamFiles, NoOption, NoWord,
  Jobs,         \* [compile, generate]: the command lines of the two programs
  Templates,    \* <<directory, template or dialect>> |-> its statements
  QueryLists,   \* file named by INPUT |-> the templates it lists
  MissingDirs,  \* directories that are not there, or cannot be written to
  NameOrder     \* the names of substitutions, as strcasecmp sorts them

VARIABLES
  words, option_num, res,
  job,          \* the command lines of this session
  unparsed,     \* templates that are still to be parsed
  rowlimit,     \* what "define _LIMIT" has set, in whatever template
  S,            \* the values of the query at hand and what was referred to
  log,          \* the values selected so far, in the order of the LOG file
  output        \* the values printed for the last query, by segment

dsqgenVars == <<stage, unparsed, TemplateList, rowlimit, pPermutation, nStream,
                nQuery, nCount, S, log, output, printed>>

optionVars == <<words, settings, option_num, res>>

vars == <<job, program, dsqgenVars, optionVars, distcompVars>>

Dcomp == INSTANCE Options WITH OptionTable <- DcompOptions
Qgen == INSTANCE Options WITH OptionTable <- QgenOptions

----------------------------------------------------------------------------
(* Parsing a template                                                      *)

NoTag == ""

Place(name) == CHOOSE i \in 1..Len(NameOrder) : NameOrder[i] = name

\* The head when it comes first, else right behind the head: the loop that
\* looks for the place stops where it begins.
addList(subs, sub) ==
  IF subs = <<>> \/ Place(sub.name) <= Place(subs[1].name)
  THEN <<sub>> \o subs
  ELSE <<subs[1], sub>> \o Tail(subs)

Names(subs) == {subs[i].name : i \in 1..Len(subs)}

\* A name of the template, or one all templates have, which becomes one of it.
findSubstitution(t, name) ==
  IF name \in Names(t.subs) \/ name \notin Range(GlobalNames) THEN t
  ELSE [t EXCEPT !.subs = addList(@, [name |-> name, expr |-> MakeKeyword(name)])]

\* The names of the right side are looked up as it is parsed, before the
\* substitution itself is there.
defineSubstitution(t, name, expr) ==
  [FoldLeft(findSubstitution, t, References(expr)) EXCEPT
     !.subs = addList(@, [name |-> name, expr |-> expr]),
     !.failed = @ \/ ~IsValid(expr)]

AddQuerySegment(t, text) ==
  [t EXCEPT !.segments = Append(@, [text |-> text, tag |-> NoTag, nSubCount |-> 0,
                                    nSubUse |-> 0, eos |-> FALSE])]

\* A tag belongs to the text before it, or to an empty one; a list counts its
\* values from 1.  A name that is not defined ends the program.
AddQuerySubstitution(t, name, use, suffix) ==
  LET found == findSubstitution(t, name)
      last == Len(t.segments)
      room == IF last = 0 \/ t.segments[last].tag # NoTag
              THEN AddQuerySegment(found, "") ELSE found
      list == \E i \in 1..Len(found.subs) :
                /\ found.subs[i].name = name
                /\ found.subs[i].expr.modifiers \cap {"list", "ulist"} # {}
  IN  IF name \notin Names(found.subs) THEN [t EXCEPT !.failed = TRUE]
      ELSE [room EXCEPT
              !.segments[Len(room.segments)].tag = name,
              !.segments[Len(room.segments)].nSubCount = use,
              !.segments[Len(room.segments)].nSubUse = IF list THEN suffix - 1 ELSE suffix]

\* A statement; the first one that fails is the last one read.
Parsed(t, s) ==
  CASE t.failed -> t
    [] ~t.failed /\ s.kind = "define" -> defineSubstitution(t, s.name, s.expr)
    [] ~t.failed /\ s.kind = "limit" ->
         [findSubstitution(t, "_LIMIT") EXCEPT !.limit = s.n]
    [] ~t.failed /\ s.kind = "sql" -> AddQuerySegment(t, s.text)
    [] ~t.failed /\ s.kind = "tag" -> AddQuerySubstitution(t, s.name, s.use, s.suffix)
    [] ~t.failed /\ s.kind = "eos" -> [t EXCEPT !.segments[Len(t.segments)].eos = TRUE]
    [] ~t.failed /\ s.kind = "other" -> [t EXCEPT !.failed = TRUE]

\* What the program puts around the query: [_BEGIN] on a line before it,
\* [_END] on one behind it.
Framed(t) ==
  LET end == AddQuerySegment(
               AddQuerySubstitution(AddQuerySegment(t, "\n"), "_END", 0, 0), "\n")
      begin == [text |-> "", tag |-> IF "_BEGIN" \in Names(end.subs) THEN "_BEGIN" ELSE NoTag,
                nSubCount |-> 0, nSubUse |-> 0, eos |-> FALSE]
      line == [begin EXCEPT !.text = "\n", !.tag = NoTag]
  IN  [end EXCEPT !.segments = <<begin, line>> \o @]

Path(file) ==
  <<IF Qgen!is_set("DIRECTORY") THEN Qgen!get_str("DIRECTORY") ELSE ".", file>>

\* The path of the dialect begins with DIRECTORY, set or not.
DialectPath ==
  <<IF Qgen!is_set("DIRECTORY") THEN Qgen!get_str("DIRECTORY") ELSE "/",
    Qgen!get_str("DIALECT")>>

----------------------------------------------------------------------------
(* The options of the two programs                                         *)

Init ==
  /\ job \in Jobs
  /\ program = "distcomp"
  /\ words = job.compile
  /\ Dcomp!OptionsInit
  /\ DistcompInit
  /\ stage = "options"
  /\ unparsed = <<>> /\ TemplateList = <<>> /\ rowlimit = 0
  /\ pPermutation = <<>> /\ nStream = 0 /\ nQuery = 1 /\ nCount = 1
  /\ S = [values |-> << >>, queried |-> {}] /\ log = <<>> /\ output = <<>>
  /\ printed = <<>>

ReadDistcompOption ==
  /\ program = "distcomp"
  /\ Dcomp!ProcessOption
  /\ UNCHANGED <<job, program, dsqgenVars, distcompVars>>

\* main of distcomp: without INPUT the usage is printed; OUTPUT has a default,
\* the header's is OUTPUT with ".h" behind it.
DistcompMain ==
  /\ program = "distcomp"
  /\ Dcomp!OptionsRead
  /\ compiling = "options"
  /\ IF ~Dcomp!is_set("INPUT") \/ ~Dcomp!is_set("OUTPUT")
     THEN /\ Exit
          /\ UNCHANGED <<settings, distcompVars>>
     ELSE LET named == Dcomp!is_set("HEADER")
              headerFile == IF named THEN Dcomp!get_str("HEADER")
                            ELSE Dcomp!get_str("OUTPUT") \o ".h"
          IN  /\ settings' = IF named THEN settings
                             ELSE Dcomp!set_str(settings, "HEADER", headerFile)
              /\ Compile(Dcomp!get_str("INPUT"), Dcomp!get_str("OUTPUT"), headerFile)
              /\ UNCHANGED program
  /\ UNCHANGED <<job, dsqgenVars, words, option_num, res>>

RunDistcomp ==
  /\ program = "distcomp"
  /\ DistcompNext
  /\ UNCHANGED <<job, program, dsqgenVars, optionVars>>

StartDsqgen ==
  /\ program = "distcomp"
  /\ compiling = "done"
  /\ program' = "dsqgen"
  /\ words' = job.generate
  /\ settings' = Qgen!init_params
  /\ option_num' = 1
  /\ res' = 1
  /\ UNCHANGED <<job, dsqgenVars, distcompVars>>

\* Either program ends with the option that ends it, distcomp with its errors.
ExitEarly ==
  /\ \/ settings.exit # "running" /\ program # "over"
     \/ compiling = "failed" /\ program = "distcomp"
  /\ Exit
  /\ UNCHANGED <<job, dsqgenVars, optionVars, distcompVars>>

ReadDsqgenOption ==
  /\ program = "dsqgen" /\ stage = "options"
  /\ Qgen!ProcessOption
  /\ UNCHANGED <<job, program, dsqgenVars, distcompVars>>

----------------------------------------------------------------------------
(* dsqgen: the templates                                                   *)

Elsewhere == UNCHANGED <<job, optionVars, distcompVars>>

\* TEMPLATE alone, or those the file INPUT lists; without INPUT, or when its
\* file is not there, the program ends.
DsqgenMain ==
  /\ dsqgenAt("options")
  /\ Qgen!OptionsRead
  /\ IF Qgen!is_set("TEMPLATE")
     THEN /\ unparsed' = <<Qgen!get_str("TEMPLATE")>>
          /\ stage' = "parse"
          /\ UNCHANGED program
     ELSE IF Qgen!is_set("INPUT") /\ Qgen!get_str("INPUT") \in DOMAIN QueryLists
     THEN /\ unparsed' = QueryLists[Qgen!get_str("INPUT")]
          /\ stage' = "parse"
          /\ UNCHANGED program
     ELSE /\ Exit
          /\ UNCHANGED <<unparsed, stage>>
  /\ UNCHANGED <<TemplateList, rowlimit, pPermutation, nStream, nQuery, nCount,
                 S, log, output, printed>>
  /\ Elsewhere

\* parseTemplate: the dialect's file is opened last and so is read first.
ParseTemplate ==
  /\ dsqgenAt("parse")
  /\ unparsed # <<>>
  /\ LET name == Head(unparsed)
         paths == {Path(name), DialectPath}
         empty == [subs |-> <<>>, segments |-> <<>>, limit |-> rowlimit,
                   failed |-> FALSE]
         t == Framed(FoldLeft(Parsed, empty,
                              Templates[DialectPath] \o Templates[Path(name)]))
     IN  IF ~(paths \subseteq DOMAIN Templates)
         THEN Exit /\ UNCHANGED <<unparsed, TemplateList, rowlimit>>
         ELSE IF t.failed
         THEN Exit /\ UNCHANGED <<unparsed, TemplateList, rowlimit>>
         ELSE /\ TemplateList' =
                   Append(TemplateList,
                          [name |-> name, subs |-> t.subs, segments |-> t.segments])
              /\ rowlimit' = t.limit
              /\ unparsed' = Tail(unparsed)
              /\ UNCHANGED program
  /\ UNCHANGED <<stage, pPermutation, nStream, nQuery, nCount, S, log, output, printed>>
  /\ Elsewhere

\* The LOG file is opened before the first stream.
TemplatesRead ==
  /\ dsqgenAt("parse")
  /\ unparsed = <<>>
  /\ IF Qgen!is_set("LOG") /\ Qgen!get_str("LOG") \in Unwritable
     THEN Exit /\ UNCHANGED stage
     ELSE stage' = "stream" /\ UNCHANGED program
  /\ UNCHANGED <<unparsed, TemplateList, rowlimit, pPermutation, nStream, nQuery,
                 nCount, S, log, output, printed>>
  /\ Elsewhere

----------------------------------------------------------------------------
(* dsqgen: the streams                                                     *)

\* The file of the stream is opened unless the queries go to the standard
\* output.
StartStream ==
  /\ OpenStream(Qgen!is_set("FILTER") \/ Qgen!get_str("OUTPUT_DIR") \notin MissingDirs)
  /\ UNCHANGED <<unparsed, rowlimit, S, log, output>>
  /\ Elsewhere

EndStreams ==
  /\ CloseStreams
  /\ UNCHANGED <<unparsed, rowlimit, S, log, output>>
  /\ Elsewhere

Definitions ==
  [name \in Names(Template.subs) |->
     Template.subs[CHOOSE i \in 1..Len(Template.subs) :
                     Template.subs[i].name = name].expr]

Query == [number |-> nQuery, stream |-> nStream, template |-> Template.name,
          limit |-> rowlimit, definitions |-> Definitions]

BeginQuery ==
  /\ StartQuery
  /\ S' = [values |-> [name \in Names(Template.subs) |->
                         [i \in 1..Definitions[name].nValueCount |-> Blank]],
           queried |-> {}]
  /\ log' = <<>>
  /\ output' = <<>>
  /\ UNCHANGED <<unparsed, rowlimit>>
  /\ Elsewhere

NextTemplate ==
  /\ AdvanceTemplate
  /\ output' = <<>>
  /\ UNCHANGED <<unparsed, rowlimit, S, log>>
  /\ Elsewhere

EndStream ==
  /\ CloseStream
  /\ UNCHANGED <<unparsed, rowlimit, S, log, output>>
  /\ Elsewhere

\* The next substitution of the list: its texts are emptied, whether or not a
\* reference has given it its values before its turn, then it is evaluated.
SelectValue ==
  /\ dsqgenAt("select")
  /\ Len(log) < Len(Template.subs)
  /\ LET sub == Template.subs[Len(log) + 1]
         reset == [i \in DOMAIN S.values[sub.name] |->
                     [S.values[sub.name][i] EXCEPT !.text = <<>>]]
         before == [S EXCEPT !.values[sub.name] = reset]
     IN  \E r \in EvalExpr(sub.expr, reset, FALSE, Query, before) :
           IF r.v = Ended
           THEN FailQuery /\ UNCHANGED <<S, log>>
           ELSE /\ S' = [r.S EXCEPT !.values[sub.name] = r.v]
                /\ log' = Append(log, [i \in 1..Len(r.v) |-> Printed(r.v[i])])
                /\ UNCHANGED orderVars
  /\ UNCHANGED <<unparsed, rowlimit, output>>
  /\ Elsewhere

\* The value a segment prints behind its text: beyond the values there are, it
\* is what lies there.
findValue(segment) ==
  LET values == S.values[segment.tag]
      at == Definitions[segment.tag].nValueCount * segment.nSubCount + segment.nSubUse + 1
  IN  IF at \in 1..Len(values) THEN Printed(values[at]) ELSE <<Garbage.text>>

PrintQuery ==
  /\ dsqgenAt("select")
  /\ Len(log) = Len(Template.subs)
  /\ WriteQuery
  /\ output' = [i \in 1..Len(Template.segments) |->
                  IF Template.segments[i].tag = NoTag THEN <<>>
                  ELSE findValue(Template.segments[i])]
  /\ UNCHANGED <<unparsed, rowlimit, S, log>>
  /\ Elsewhere

Over == program = "over" /\ UNCHANGED vars

Next ==
  \/ ReadDistcompOption \/ DistcompMain \/ RunDistcomp \/ StartDsqgen \/ ExitEarly
  \/ ReadDsqgenOption \/ DsqgenMain \/ ParseTemplate \/ TemplatesRead
  \/ StartStream \/ EndStreams \/ BeginQuery \/ NextTemplate \/ EndStream
  \/ SelectValue \/ PrintQuery \/ Over

\* Each program is one process that waits for nothing: while one runs there is
\* a next step (the runs check that nothing deadlocks) and it is taken.  This is
\* weak fairness of Next with "program runs" in place of ENABLED.
Fairness == []<>(program = "over") \/ []<><<Next>>_vars

Spec == Init /\ [][Next]_vars /\ Fairness

----------------------------------------------------------------------------
(* Properties                                                              *)

\* "command line options over-ride those in a file" (r_params.c, read_file):
\* in either program, wherever FILE stands among the words and whatever its
\* lines say.
CommandLineWins ==
  /\ program = "distcomp" /\ compiling = "options" => Dcomp!CommandLineWins
  /\ program = "dsqgen" /\ stage = "options" => Qgen!CommandLineWins

\* The order in which substitutions are evaluated is not the order in which
\* they are defined, and a reference evaluates its substitution before its
\* turn; still all values of a printed query agree: each is one its definition
\* allows given the others, the log has the values the query has, and every
\* tag prints the value the log has for it.
ConsistentQueries ==
  dsqgenAt("query") /\ output # <<>> =>
    LET done == [Query EXCEPT !.number = nQuery] IN
    /\ \A i \in 1..Len(Template.subs) :
         LET sub == Template.subs[i]
             values == S.values[sub.name]
         IN  /\ log[i] = [k \in 1..Len(values) |-> Printed(values[k])]
             /\ AsDefined(sub.expr, values, S.values, done)
    /\ \A k \in 1..Len(Template.segments) :
         LET segment == Template.segments[k]
             at == segment.nSubUse + 1
         IN  segment.tag # NoTag /\ segment.nSubCount = 0
               /\ at \in 1..Definitions[segment.tag].nValueCount =>
             \E i \in 1..Len(Template.subs) :
               Template.subs[i].name = segment.tag /\ output[k] = log[i][at]

\* Whatever the command lines and files are, both programs end.
SessionEnds == <>(program = "over")
=============================================================================
