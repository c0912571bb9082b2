-------------------------- MODULE TemplateMeaning --------------------------
(***************************************************************************)
(* What a "define" of a query template promises of the value it names: the *)
(* kit's template language read without the order in which dsqgen          *)
(* evaluates.  env gives the values all substitutions have in one query.   *)
(***************************************************************************)
EXTENDS Evaluation

Number(n) == [int |-> TRUE, n |-> n, text |-> <<>>]
Text(text) == [int |-> FALSE, n |-> 0, text |-> text]

\* A value as it is printed.
Printed(value) == IF value.int THEN <<value.n>> ELSE value.text

Plain(value) == IF value.int THEN Number(value.n) ELSE Text(value.text)

\* What a column of a distribution has in a row.
Entry(d, vset, row) ==
  IF d.types[vset] = "int" THEN Number(Value(d, row, vset))
  ELSE Text(<<Value(d, row, vset)>>)

\* A column that is given by its name has the number the header has.
ColumnOf(d, col) ==
  IF col.int THEN col.n
  ELSE (CHOOSE named \in header : named[1] = d.name /\ named[2] = col.text[1])[3]

RECURSIVE Meaning(_, _, _)

\* The values an expression may stand for, its list modifier left aside.
Meaning(e, env, c) ==
  LET Arg(i) == Meaning(e.args[i], env, c)
      Dists == {find_dist(compiled, x.text[1]) : x \in Arg(1)}
  IN  IF e.kind = "subst" THEN {Plain(env[e.name][e.nSubElement])}
      ELSE IF e.kind = "const"
      THEN {Plain(v[1]) : v \in EvalConstant(e, <<Blank>>, c)}
      ELSE CASE
        e.name = "+" ->
          {IF a.int /\ b.int THEN Number(a.n + b.n)
           ELSE Text(Printed(a) \o Printed(b)) : a \in Arg(1), b \in Arg(2)}
      [] e.name = "-" -> {Number(a.n - b.n) : a \in Arg(1), b \in Arg(2)}
      [] e.name = "*" -> {Number(a.n * b.n) : a \in Arg(1), b \in Arg(2)}
      [] e.name = "/" -> {Number(a.n \div b.n) : a \in Arg(1), b \in Arg(2)}
      [] e.name = "text" ->
          {Text(e.args[i].text) : i \in {k \in 1..Len(e.args) :
                                           e.args[k].kind = "repl" /\ e.args[k].n > 0}}
      [] e.name = "random" ->
          UNION {{Number(n) : n \in a.n..b.n} : a \in Arg(1), b \in Arg(2)}
      [] e.name = "date" ->
          UNION {{Text(<<j>>) : j \in DateOf[a.text]..DateOf[b.text]} :
                   a \in Arg(1), b \in Arg(2)}
      [] e.name = "distmember" ->
          {Entry(d, ColumnOf(d, col), row.n) : d \in Dists, row \in Arg(2), col \in Arg(3)}
      [] e.name = "distweight" ->
          {Number(dist_weight(d, row.n, ColumnOf(d, w))) : d \in Dists, row \in Arg(2), w \in Arg(3)}
      [] e.name = "dist" ->
          UNION {{Entry(d, ColumnOf(d, vset), row) :
                    row \in {r \in 1..d.length : dist_weight(d, r, ColumnOf(d, wset)) > 0}} :
                 d \in Dists, vset \in Arg(2), wset \in Arg(3)}

\* A list draws from all the rows, whatever their weights.
ListMeaning(e, env, c) ==
  IF e.name # "dist" THEN Meaning(e, env, c)
  ELSE UNION {LET d == find_dist(compiled, x.text[1])
              IN  {Entry(d, ColumnOf(d, vset), row) : row \in 1..d.length} :
              x \in Meaning(e.args[1], env, c), vset \in Meaning(e.args[2], env, c)}

\* Whether the values of a substitution are what its definition says: as many
\* as the list has, each one of those it is a list of, without duplicates where
\* it is a ulist.  The ends of a range are beyond what they are a range of when
\* they are drawn at its end, and the list of a text may draw the number of
\* values: nothing is said of these.
AsDefined(e, values, env, c) ==
  IF e.modifiers = {}
  THEN Plain(values[1]) \in Meaning(e, env, c)
  ELSE /\ Len(values) = e.nValueCount
       /\ "ulist" \in e.modifiers =>
            \A i, j \in 1..Len(values) : i # j => Printed(values[i]) # Printed(values[j])
       /\ e.name \in {"random", "dist"} /\ "range" \notin e.modifiers =>
            \A i \in 1..Len(values) : Plain(values[i]) \in ListMeaning(e, env, c)
=============================================================================
