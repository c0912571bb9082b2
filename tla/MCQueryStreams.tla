--------------------------- MODULE MCQueryStreams ---------------------------
EXTENDS QueryStreams

----------------------------------------------------------------------------
(* The options of the two programs, dcomp_params.h and qgen_params.h       *)

Flag(action, dflt) == [type |-> "FLG", action |-> action, dflt |-> dflt, set |-> FALSE]
IntOf(n) == [type |-> "INT", action |-> "none", dflt |-> n, set |-> FALSE]
Str(dflt) == [type |-> "STR", action |-> "none", dflt |-> dflt, set |-> FALSE]
Prog(dflt) == [Str(dflt) EXCEPT !.set = TRUE]

MCDcompOptions ==
  [PROG |-> Prog("distcomp"), INPUT |-> Str(""), VERBOSE |-> Flag("none", "N"),
   HELP |-> Flag("usage", "N"), OUTPUT |-> Str("."), HEADER |-> Str("")]

MCQgenOptions ==
  [PROG |-> Prog("qgen2"), FILE |-> [Str("") EXCEPT !.action = "read_file"],
   VERBOSE |-> Flag("none", "N"), HELP |-> Flag("usage", "N"),
   DISTRIBUTIONS |-> Str("tpcds.idx"), OUTPUT_DIR |-> Str("."), PATH_SEP |-> Str("/"),
   DUMP |-> Flag("none", "N"), YYDEBUG |-> Flag("none", "N"), QUIET |-> Flag("none", "N"),
   STREAMS |-> IntOf(1), INPUT |-> Str(""), SCALE |-> IntOf(1), RNGSEED |-> IntOf(19620718),
   RELEASE |-> Flag("printReleaseInfo", ""), TEMPLATE |-> Str(""), COUNT |-> IntOf(1),
   DEBUG |-> Flag("none", "N"), LOG |-> Str(""), FILTER |-> Flag("none", "N"),
   QUALIFY |-> Flag("none", "N"), DIALECT |-> Str("ansi"), DIRECTORY |-> Str("")]

\* A word "-o", one that begins several options, and an argument.
O(o) == [text |-> o, cut |-> o, open |-> FALSE, dash |-> TRUE, begins |-> {o}, yes |-> TRUE]
Short(os) == [O("") EXCEPT !.begins = os]
V(text) == [text |-> text, cut |-> text, open |-> FALSE, dash |-> FALSE,
            begins |-> {}, yes |-> FALSE]
OpenQuote == [V("q") EXCEPT !.open = TRUE]

MCParamFiles ==
  [params |-> <<[begins |-> {"STREAMS"}, arg |-> V(2)],
                [begins |-> {"QUALIFY"}, arg |-> [V("Y") EXCEPT !.yes = TRUE]],
                [begins |-> {}, arg |-> V("x")],
                [begins |-> {"DIRECTORY", "DIALECT"}, arg |-> V("x")],
                [begins |-> {"INPUT"}, arg |-> NoWord],
                [begins |-> {"INPUT"}, arg |-> V("one")],
                [begins |-> {"INPUT"}, arg |-> V("none")],
                [begins |-> {"FILTER"}, arg |-> V("N")]>>]

Compile1 == <<O("INPUT"), V("tpcds.dst"), O("OUTPUT"), V("tpcds.idx"), O("HEADER"), V("tpcds.h")>>

Good(generate) == [compile |-> Compile1, generate |-> generate]
Bad(compile) == [compile |-> compile, generate |-> <<>>]
From(dst) == Bad(<<O("INPUT"), V(dst), O("OUTPUT"), V("tpcds.idx")>>)

In == <<O("DIRECTORY"), V("templates")>>

MCJobs ==
  {Bad(w) : w \in {<<>>, <<O("HELP")>>, <<O("VERBOSE"), Short({"HEADER", "HELP"})>>,
                   <<O("VERBOSE"), O("INPUT"), OpenQuote>>, <<O("VERBOSE"), O("INPUT")>>,
                   <<O("INPUT"), V("tpcds.dst")>>,
                   <<O("INPUT"), V("tpcds.dst"), O("OUTPUT"), V("dir"), V("dir")>>,
                   <<O("INPUT"), V("tpcds.dst"), O("HEADER"), V("dir"), O("OUTPUT"), V("i")>>}}
  \cup {From(dst) : dst \in {"none", "twice", "late", "short", "names", "missing", "other"}}
  \cup {Good(g) : g \in
    {In \o <<O("INPUT"), V("list"), O("STREAMS"), V(3)>>,
     In \o <<O("TEMPLATE"), V("q2"), O("QUALIFY"), V("Y"), O("COUNT"), V(2), O("LOG"), V("log")>>,
     In \o <<O("INPUT"), V("one"), O("FILE"), V("params"), O("STREAMS"), V(1)>>,
     In \o <<O("STREAMS"), V(1), O("QUALIFY"), V("N"), O("FILE"), V("params")>>,
     In \o <<O("FILE"), V("nofile")>>,
     In \o <<O("INPUT"), V("list"), O("OUTPUT_DIR"), V("dir")>>,
     In \o <<O("INPUT"), V("empty"), O("OUTPUT_DIR"), V("dir"), O("FILTER")>>,
     In \o <<O("INPUT"), V("list"), O("LOG"), V("dir")>>,
     In \o <<O("INPUT"), V("none")>>, In, <<O("TEMPLATE"), V("q2")>>,
     In \o <<O("TEMPLATE"), V("q2"), O("DIALECT"), V("none")>>,
     In \o <<O("RELEASE")>>,
     In \o <<O("TEMPLATE"), V("q4")>>, In \o <<O("TEMPLATE"), V("q5")>>,
     In \o <<O("TEMPLATE"), V("q6")>>, In \o <<O("TEMPLATE"), V("q7")>>}}

----------------------------------------------------------------------------
(* Distributions                                                           *)

Create(name) == [kind |-> "create", name |-> name]
Types(list) == [kind |-> "set", what |-> "types", list |-> list]
WeightSets(n) == [kind |-> "set", what |-> "weights", count |-> n]
ColumnNames(list) == [kind |-> "set", what |-> "names", list |-> list]
Add(values, weights) == [kind |-> "add", values |-> values, weights |-> weights]
Include(file) == [kind |-> "#include", file |-> file]
T(text) == [text |-> text, n |-> 0]
N(n) == [text |-> ToString(n), n |-> n]

Head4 == <<Create("fips"), Types(<<"varchar", "int">>), WeightSets(2)>>

MCDstFiles ==
  ("tpcds.dst" :> <<Include("fips.dst"), Create("calendar"), WeightSets(6), Types(<<"int">>),
                    Add(<<N(1)>>, <<1, 1, 1, 2, 1, 1>>), Add(<<N(2)>>, <<1, 1, 2, 2, 1, 1>>),
                    Add(<<N(3)>>, <<1, 1, 2, 1, 1, 1>>), Add(<<N(4)>>, <<1, 1, 1, 1, 1, 1>>),
                    Add(<<N(5)>>, <<0, 1, 0, 1, 0, 1>>), Include("none.dst")>>) @@
  ("fips.dst" :> Head4 \o <<ColumnNames(<<"county", "gmt", "uniform", "active">>),
                    Add(<<T("Ada"), N(-7)>>, <<2, 0>>), Add(<<T("Bell"), N(-6)>>, <<1, 1>>),
                    Add(<<T("Cass"), N(-5)>>, <<0, 1>>)>>) @@
  ("none.dst" :> <<>>) @@
  ("twice" :> Head4 \o <<Create("fips")>>) @@
  ("late" :> Head4 \o <<Add(<<T("Ada"), N(-7)>>, <<2, 0>>), WeightSets(1)>>) @@
  ("short" :> Head4 \o <<Add(<<T("Ada")>>, <<2, 0>>)>>) @@
  ("names" :> <<Create("fips"), ColumnNames(<<"county", "uniform">>)>>) @@
  ("missing" :> <<Include("absent.dst")>>) @@
  ("other" :> <<[kind |-> "other"]>>)

----------------------------------------------------------------------------
(* Templates                                                               *)

Define(name, expr) == [kind |-> "define", name |-> name, expr |-> expr]
Sql(text) == [kind |-> "sql", text |-> text]
Tag(name) == [kind |-> "tag", name |-> name, use |-> 0, suffix |-> 0]
TagAt(name, suffix) == [Tag(name) EXCEPT !.suffix = suffix]
Eos == [kind |-> "eos"]

I(n) == MakeIntConstant(n)
L(text) == MakeStringConstant(<<text>>)
K(name) == MakeKeyword(name)
R(name) == MakeVariableReference(name, 0)
RandomOf(min, max) == MakeFunctionCall("random", <<I(min), I(max), K("uniform")>>)
Dist(func, a, b) == MakeFunctionCall(func, <<L("fips"), a, b>>)
Plus(a, b) == makeArithmeticExpr("+", a, b)
Day(text) == Plus(R("YEAR"), L(text))

Dialect ==
  <<Define("__LIMITA", L("")), Define("__LIMITB", MakeStringConstant(<<"top ", "%d">>)),
    Define("__LIMITC", L("")),
    Define("_BEGIN", Plus(Plus(Plus(L("start "), K("_QUERY")), L(" in ")), K("_STREAM"))),
    Define("_END", Plus(L("end "), K("_TEMPLATE")))>>

Counties ==
  <<Define("COUNTY", RandomOf(1, 3)), Define("STATE", Dist("distmember", R("COUNTY"), I(1))),
    [kind |-> "limit", n |-> 100], Define("GMT", Dist("distmember", R("COUNTY"), I(2))),
    Sql("select"), Tag("_LIMITB"), Tag("STATE"), Sql("and"), Tag("GMT"), Tag("_LIMITC"), Eos>>

Dates ==
  <<Define("YEAR", RandomOf(1998, 1999)),
    Define("SALES_DATE", MakeFunctionCall("date", <<Day("-01-01"), Day("-02-02"), K("sales")>>)),
    Define("CITY", MakeListExpr("ulist", Dist("dist", I(1), I(1)), 2)),
    Sql("in"), TagAt("CITY", 1), Sql(","), TagAt("CITY", 2), Tag("SALES_DATE"), Tag("YEAR"), Eos>>

Numbers ==
  <<Define("IDX", MakeListExpr("ulist", RandomOf(1, 3), 2)),
    Define("C_A", Dist("distmember", MakeVariableReference("IDX", 1), I(2))),
    Define("C_B", Dist("distweight", MakeVariableReference("IDX", 2), I(1))),
    Define("AGG", MakeFunctionCall("text", <<MakeReplacement(<<"sum">>, 1),
                                             MakeReplacement(<<"avg">>, 1)>>)),
    Sql("x"), Tag("AGG"), Tag("C_A"), Sql("y"), Tag("C_B"), TagAt("IDX", 2), Eos>>

Others ==
  <<Define("GMT", Dist("dist", L("gmt"), L("active"))), Define("AGG", Plus(R("GMT"), I(12))),
    Define("IDX", MakeListExpr("range", RandomOf(1, 4), 40)),
    Define("C_A", MakeListExpr("list", Dist("dist", I(2), I(1)), 2)),
    Define("SALES_DATE", MakeListExpr("range",
       MakeFunctionCall("date", <<Day("-01-01"), Day("-02-02"), K("sales")>>), 40)),
    Define("YEAR", RandomOf(1999, 1999)), Define("_LIMITED", K("_LIMIT")),
    Define("C_B", MakeFunctionCall("date", <<Day("-01-01"), Day("-02-01"), K("uniform")>>)),
    Sql("z"), Tag("AGG"), Tag("_LIMITED"), TagAt("IDX", 0), TagAt("IDX", 1), Sql(""), TagAt("C_A", 1),
    TagAt("C_A", 0), TagAt("SALES_DATE", 1), Tag("_SEED"), Tag("C_B"), Eos>>

MCTemplates ==
  (<<"templates", "ansi">> :> Dialect) @@ (<<"templates", "q1">> :> Counties) @@
  (<<"templates", "q2">> :> Dates) @@ (<<"templates", "q3">> :> Numbers) @@
  (<<"templates", "q7">> :> Others) @@ (<<".", "q2">> :> Dates) @@
  (<<"templates", "q4">> :> <<Tag("CITY"), Eos>>) @@
  (<<"templates", "q5">> :> <<Define("CITY", MakeFunctionCall("random", <<I(1), I(2)>>))>>) @@
  (<<"templates", "q6">> :> <<Define("CITY", Dist("distmember", I(4), I(1))), Tag("CITY"), Eos>>)

MCQueryLists == [list |-> <<"q1", "q2", "q3">>, one |-> <<"q3">>, empty |-> <<>>]

MCNameOrder ==
  <<"__LIMITA", "__LIMITB", "__LIMITC", "_BEGIN", "_END", "_LIMIT", "_LIMITA", "_LIMITB",
    "_LIMITC", "_LIMITED", "_QUERY", "_SEED", "_STREAM", "_TEMPLATE", "AGG", "C_A", "C_B",
    "CITY", "COUNTY", "GMT", "IDX", "SALES_DATE", "STATE", "YEAR">>

----------------------------------------------------------------------------
(* A calendar of four days a year, two in each of two months               *)

Days == 1..8

MCDateOf == [text \in {<<y, d>> : y \in {1998, 1999}, d \in {"-01-01", "-02-01", "-02-02"}} |->
               (text[1] - 1998) * 4 +
               (CASE text[2] = "-01-01" -> 1 [] text[2] = "-02-01" -> 3 [] text[2] = "-02-02" -> 4)]

MCDayOf == [j \in -4..12 |-> [year |-> 1998 + ((j - 1) \div 4), day |-> ((j - 1) % 2) + 1,
                             number |-> ((j - 1) % 4) + 1]]

MCStreamOne == <<1, 2, 5>>
=============================================================================
