----------------------------- MODULE Evaluation -----------------------------
(***************************************************************************)
(* The values of the substitutions of one query (eval.c).  Each draw of a  *)
(* random number is a choice, so an expression has a set of outcomes.      *)
(*                                                                         *)
(* The value of a substitution is a sequence of Expr_Val_t, one for each   *)
(* of the values a list has: a number or a text, and whether it was set    *)
(* for this query.  S is what the evaluation of one expression does to     *)
(* others: the values a reference evaluates before their turn (values) and *)
(* the substitutions that were referred to (queried).  c is the query: its *)
(* number, stream, template, definitions and row limit.                    *)
(*                                                                         *)
(* References copy a text's buffer by its address in the program, which is *)
(* modelled for numbers only: the kit's templates refer to numbers.        *)
(***************************************************************************)
EXTENDS Distributions, Expressions

CONSTANTS
  DateOf,      \* strtodt: text |-> day
  DayOf,       \* jtodt: day |-> [year, day (of the month), number (of the year)]
  Leap,        \* leap years
  DaysInYear,  \* 365
  Seeds        \* seeds Streams[0] may stand at

Blank == [int |-> FALSE, n |-> 0, text |-> <<>>, set |-> FALSE]

\* The program ends: an error that is reported, or memory that is not there.
Ended == <<>>

DistNumber == [uniform |-> 1, sales |-> 3, returns |-> 5]

SetInt(v, i, n) == [v EXCEPT ![i].int = TRUE, ![i].n = n]
AddText(v, i, text) == [v EXCEPT ![i].text = @ \o text]

SetInts(v, ns) ==
  [i \in 1..Len(v) |-> IF i <= Len(ns) THEN [v[i] EXCEPT !.int = TRUE, !.n = ns[i]] ELSE v[i]]
AddTexts(v, texts) ==
  [i \in 1..Len(v) |-> IF i <= Len(texts) THEN [v[i] EXCEPT !.text = @ \o texts[i]] ELSE v[i]]

\* The first entries of a permutation of 1..n that is drawn.
Permuted(n, count) ==
  {p \in [1..count -> 1..n] : \A i, j \in 1..count : i # j => p[i] # p[j]}

\* A list is no parameter of another function, and of one kind only.
WrongList(e, isParam) ==
  \/ isParam /\ e.modifiers # {}
  \/ Cardinality(e.modifiers) > 1

----------------------------------------------------------------------------
(* The functions.  ps are the values of the arguments; for a list the last *)
(* one is the number of values wanted, but a text's number is taken from   *)
(* its second replacement.                                                 *)

EvalArithmetic(e, v, ps) ==
  LET a == ps[1]  b == ps[2]
      AsText(x) == IF x.int THEN <<x.n>> ELSE x.text
      Quotient == (IF (a.n < 0) = (b.n < 0) THEN 1 ELSE -1)
                    * ((IF a.n < 0 THEN -a.n ELSE a.n) \div (IF b.n < 0 THEN -b.n ELSE b.n))
  IN  CASE e.name = "+" /\ a.int /\ b.int -> {SetInt(v, 1, a.n + b.n)}
        [] e.name = "+" /\ ~(a.int /\ b.int) ->
             {AddText([v EXCEPT ![1].int = FALSE], 1, AsText(a) \o AsText(b))}
        [] e.name = "-" -> {SetInt(v, 1, a.n - b.n)}
        [] e.name = "*" -> {SetInt(v, 1, a.n * b.n)}
        [] e.name = "/" -> {IF b.n = 0 THEN Ended ELSE SetInt(v, 1, Quotient)}

\* text(...): one of the replacements with a weight; a list draws among the
\* arguments, the number of values counted as one of them.
EvalText(e, v, ps) ==
  LET count == ps[2].n
      Texts(pick) == [i \in DOMAIN pick |-> e.args[pick[i]].text]
  IN  CASE e.modifiers = {"list"} ->
             {AddTexts(v, Texts(pick)) : pick \in [1..count -> 1..Len(e.args)]}
        [] e.modifiers = {"ulist"} ->
             IF count >= Len(e.args) THEN {Ended}
             ELSE {AddTexts(v, Texts(pick)) : pick \in Permuted(Len(e.args) - 1, count)}
        [] e.modifiers = {"range"} -> {Ended}
        [] OTHER -> {AddText(v, 1, e.args[i].text) :
                       i \in {k \in 1..Len(e.args) : e.args[k].n > 0}}

\* The ends of a range: the upper one first, up to the maximum, then the lower
\* one; an upper end that starts at the maximum goes on beyond it.
Widened(low, high, left, max) ==
  IF high = max THEN <<low, high + left>>
  ELSE LET up == IF max - high < left THEN max - high ELSE left
       IN  <<low - (left - up), high + up>>

\* random(min, max, ...): a list without duplicates is a permutation of as many
\* numbers as there are from min to max; more of them than that are read from
\* the memory behind it.
EvalRandom(e, v, ps) ==
  LET min == ps[1].n
      max == ps[2].n
      size == max - min + 1
      count == ps[4].n
      Stray == min - size + 1..max
      Values(p) == {vs \in [1..count -> Stray] :
                      \A i \in 1..count : i <= size => vs[i] = (p[i] % size) + min}
  IN  CASE e.modifiers = {"list"} ->
             {SetInts(v, [i \in 1..count |-> (n[i] % size) + min]) :
                n \in [1..count -> min..max]}
        [] e.modifiers = {"ulist"} ->
             UNION {{SetInts(v, vs) : vs \in Values(p)} :
                      p \in Permuted(size, IF count < size THEN count ELSE size)}
        [] e.modifiers = {"range"} ->
             {SetInts(v, Widened(n, n, ((max - min) * count) \div 100, max)) :
                n \in min..max}
        [] OTHER -> {SetInt(v, 1, n) : n \in min..max}

\* dist(...), distmember(...), distweight(...): a column that is given by name
\* is looked up among the names of the distribution.
EvalDist(e, v, ps) ==
  LET d == find_dist(compiled, ps[1].text[1])
      row == IF ps[2].int THEN ps[2].n ELSE ValueIndex(d, ps[2].text[1])
      col == IF ps[3].int THEN ps[3].n ELSE WeightIndex(d, ps[3].text[1])
      count == ps[4].n
      Put1(i, at, vset) ==
        IF dist_type(d, vset) = "int" THEN SetInt(v, i, Value(d, at, vset))
        ELSE AddText(v, i, <<Value(d, at, vset)>>)
      PutAll(rows) ==
        IF dist_type(d, row) = "int"
        THEN SetInts(v, [i \in DOMAIN rows |-> Value(d, rows[i], row)])
        ELSE AddTexts(v, [i \in DOMAIN rows |-> <<Value(d, rows[i], row)>>])
      NoTwins(rows) ==
        \A i, j \in DOMAIN rows : i # j => Value(d, rows[i], row) # Value(d, rows[j], row)
  IN  IF d = NoDist THEN {Ended}
      ELSE CASE e.name = "distmember" ->
             {IF IsMember(d, row, col) THEN Put1(1, row, col) ELSE Ended}
        [] e.name = "distweight" ->
             {IF row \in 1..d.length /\ col \in 1..w_width(d)
              THEN SetInt(v, 1, dist_weight(d, row, col)) ELSE Ended}
        [] e.name = "dist" /\ (row \notin 1..v_width(d) \/ col \notin 1..w_width(d)) -> {Ended}
        [] e.modifiers = {"list"} -> {PutAll(rows) : rows \in [1..count -> 1..d.length]}
        [] e.modifiers = {"ulist"} ->
             LET picks == {rows \in Permuted(d.length, count) : NoTwins(rows)}
             IN  IF count > d.length \/ picks = {} THEN {Ended}
                 ELSE {PutAll(rows) : rows \in picks}
        [] e.modifiers = {"range"} ->
             IF dist_type(d, row) # "int" THEN {Ended}
             ELSE UNION {{IF end > d.length THEN Ended
                          ELSE [SetInt(v, 1, Value(d, start, row)) EXCEPT
                                  ![2].n = Value(d, end, row)] :
                            end \in IntegrateDist(d, count, start, col)} :
                         start \in pick_distribution(d, col)}
        [] OTHER -> {Put1(1, at, row) : at \in pick_distribution(d, col)}

----------------------------------------------------------------------------
(* Dates                                                                   *)

is_leap(year) == IF year \in Leap THEN 1 ELSE 0

DayWeight(dist, year, number) ==
  dist_weight(find_dist(compiled, "calendar"), number, dist + is_leap(year))

\* The day after one that is given by its number and its year.
NextDay(day) ==
  IF day.number = DaysInYear + is_leap(day.year)
  THEN [year |-> day.year + 1, number |-> 1]
  ELSE [day EXCEPT !.number = @ + 1]

\* genrand_date: a date between two by the weights of the calendar, or any.
\* The weights are counted from the day of the month the first date has, as
\* if it were a day of the year, up to the day before the last but one.
genrand_date(dist, min, max) ==
  LET first == [year |-> DayOf[min].year, number |-> DayOf[min].day]
      day[k \in Nat] == IF k = 0 THEN first ELSE NextDay(day[k - 1])
      weight(k) == DayWeight(dist, day[k].year, day[k].number)
      total == FoldSet(LAMBDA k, sum : sum + weight(k), 0, 0..max - min - 2)
      walk[at \in Nat \X Int] ==
        IF at[2] < 0 THEN min + at[1]
        ELSE walk[<<at[1] + 1, at[2] - weight(at[1])>>]
  IN  IF dist = DistNumber.uniform THEN min..max
      ELSE {walk[<<0, temp>>] : temp \in 1..total}

\* A range of dates is as wide as its share of the weights between the two
\* dates, drawn as a range of numbers is.
DateRange(dist, begin, end, pct) ==
  LET weight(j) == DayWeight(dist, DayOf[j].year, DayOf[j].number)
      total == FoldSet(LAMBDA j, sum : sum + weight(j), 0, begin..end - 1)
      walk[at \in Int \X Int \X Int \X BOOLEAN] ==
        LET low == at[1]  high == at[2]  left == at[3]  up == at[4]
        IN  IF left <= 0 THEN <<low, high>>
            ELSE IF up THEN walk[<<low, high + 1, left - weight(high + 1), high + 1 # end>>]
            ELSE walk[<<low - 1, high, left - weight(low - 1), FALSE>>]
  IN  {walk[<<day, day, (total * pct) \div 100, TRUE>>] :
         day \in genrand_date(dist, begin, end)}

\* date(begin, end, distribution): a list without duplicates is taken from a
\* range of begin - begin days, so it stays empty.
EvalDate(e, v, ps) ==
  LET begin == DateOf[ps[1].text]
      end == DateOf[ps[2].text]
      dist == ps[3].n
      total == end - begin
      count == IF ps[4].n > total THEN total ELSE ps[4].n
  IN  CASE e.modifiers = {"list"} ->
             {AddTexts(v, [i \in 1..count |-> <<begin + j[i] - 1>>]) :
                j \in [1..count -> 1..total]}
        [] e.modifiers = {"ulist"} -> {v}
        [] e.modifiers = {"range"} ->
             {AddTexts(v, <<<<ends[1]>>, <<ends[2]>>>>) :
                ends \in DateRange(dist, begin, end, ps[4].n)}
        [] OTHER -> {AddText(v, 1, <<day>>) : day \in genrand_date(dist, begin, end)}

----------------------------------------------------------------------------
(* Expressions                                                             *)

\* Where "%d" stands in a text, the number of rows wanted.
WithLimit(text, limit) ==
  [i \in 1..Len(text) |-> IF text[i] = "%d" THEN limit ELSE text[i]]

LimitText == [_LIMITA |-> "__LIMITA", _LIMITB |-> "__LIMITB", _LIMITC |-> "__LIMITC"]

EvalKeyword(e, v, c) ==
  CASE e.name = "_QUERY"  -> {SetInt(v, 1, c.number)}
    [] e.name = "_STREAM" -> {SetInt(v, 1, c.stream)}
    [] e.name = "_LIMIT"  -> {SetInt(v, 1, c.limit)}
    [] e.name = "_SEED"   -> {SetInt(v, 1, seed) : seed \in Seeds}
    [] e.name = "_TEMPLATE" -> {AddText([v EXCEPT ![1].int = FALSE], 1, <<c.template>>)}
    [] e.name \in DOMAIN LimitText ->
         {IF LimitText[e.name] \notin DOMAIN c.definitions THEN Ended
          ELSE AddText([v EXCEPT ![1].int = FALSE], 1,
                 WithLimit(c.definitions[LimitText[e.name]].text, c.limit))}
    [] OTHER -> {SetInt(v, 1, DistNumber[e.name])}

EvalConstant(e, v, c) ==
  IF "keyword" \in e.types THEN EvalKeyword(e, v, c)
  ELSE IF e.types = {"int"} THEN {SetInt(v, 1, e.n)}
  ELSE {AddText([v EXCEPT ![1].int = FALSE], 1, e.text)}

EvalCall(e, v, ps, isParam) ==
  CASE e.name \in {"+", "-", "*", "/"} -> EvalArithmetic(e, v, ps)
    [] e.name \in {"distmember", "distweight"} -> EvalDist(e, v, ps)
    [] e.name \in {"text", "random", "dist", "date"} /\ WrongList(e, isParam) -> {Ended}
    [] e.name = "text"   /\ ~WrongList(e, isParam) -> EvalText(e, v, ps)
    [] e.name = "random" /\ ~WrongList(e, isParam) -> EvalRandom(e, v, ps)
    [] e.name = "dist"   /\ ~WrongList(e, isParam) -> EvalDist(e, v, ps)
    [] e.name = "date"   /\ ~WrongList(e, isParam) -> EvalDate(e, v, ps)

RECURSIVE EvalExpr(_, _, _, _, _), EvalArgs(_, _, _)

\* The arguments from the first to the last, each of which may refer to others.
EvalArgs(args, c, S) ==
  IF args = <<>> THEN {[ps |-> <<>>, S |-> S, ended |-> FALSE]}
  ELSE UNION {{[ps |-> before.ps \o r.v, S |-> r.S,
                ended |-> before.ended \/ r.v = Ended] :
                 r \in EvalExpr(Last(args), <<Blank>>, TRUE, c, before.S)} :
              before \in EvalArgs(Front(args), c, S)}

\* A substitution that was not referred to in this query is evaluated on the
\* spot, unless its turn in the list has come before.
EvalReference(e, v, c, S) ==
  IF e.name \notin DOMAIN c.definitions THEN {[v |-> Ended, S |-> S]}
  ELSE LET of == IF e.name \in S.queried THEN {[v |-> S.values[e.name], S |-> S]}
                 ELSE EvalExpr(c.definitions[e.name], S.values[e.name], FALSE, c, S)
       IN  {[v |-> IF r.v = Ended \/ e.nSubElement > Len(r.v) THEN Ended
                   ELSE [v EXCEPT ![1] = r.v[e.nSubElement]],
             S |-> [r.S EXCEPT !.values[e.name] = r.v, !.queried = @ \cup {e.name}]] :
              r \in of}

\* A bug ConsistentQueries must find: the value a reference has evaluated before
\* its turn is evaluated once more.
EvalExprAgain(e, v, isParam, c, S) ==
  LET Set(r) == IF r.v = Ended THEN r ELSE [r EXCEPT !.v[1].set = TRUE]
      raw == CASE e.kind = "const" -> {[v |-> w, S |-> S] : w \in EvalConstant(e, v, c)}
               [] e.kind = "repl" ->
                    {[v |-> AddText([v EXCEPT ![1].n = e.n], 1, e.text), S |-> S]}
               [] e.kind = "subst" -> EvalReference(e, v, c, S)
               [] e.kind = "func" ->
                    UNION {{[v |-> w, S |-> a.S] :
                              w \in IF a.ended THEN {Ended}
                                    ELSE EvalCall(e, v, a.ps, isParam)} :
                           a \in EvalArgs(e.args, c, S)}
  IN  {Set(r) : r \in raw}

\* EvalExpr: all but a constant is evaluated once for a query.
EvalExpr(e, v, isParam, c, S) ==
  LET Set(r) == IF r.v = Ended THEN r ELSE [r EXCEPT !.v[1].set = TRUE]
      raw == CASE e.kind = "const" -> {[v |-> w, S |-> S] : w \in EvalConstant(e, v, c)}
               [] e.kind # "const" /\ v[1].set -> {[v |-> v, S |-> S]}
               [] e.kind = "repl" /\ ~v[1].set ->
                    {[v |-> AddText([v EXCEPT ![1].n = e.n], 1, e.text), S |-> S]}
               [] e.kind = "subst" /\ ~v[1].set -> EvalReference(e, v, c, S)
               [] e.kind = "func" /\ ~v[1].set ->
                    UNION {{[v |-> w, S |-> a.S] :
                              w \in IF a.ended THEN {Ended}
                                    ELSE EvalCall(e, v, a.ps, isParam)} :
                           a \in EvalArgs(e.args, c, S)}
  IN  {Set(r) : r \in raw}
=============================================================================
