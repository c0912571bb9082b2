--------------------------- MODULE Distributions ---------------------------
(***************************************************************************)
(* How dsdgen and dsqgen read the compiled distributions (dist.c): the     *)
(* index at the end of the file, a distribution from its offset, and what  *)
(* is drawn from one or looked up in it.  The file is the function from    *)
(* byte offsets to what begins there that Distcomp writes.  A draw of the  *)
(* random number streams is a choice: an operator that draws gives the set *)
(* of its results.                                                         *)
(***************************************************************************)
EXTENDS Distcomp

NoDist == [length |-> -1]

----------------------------------------------------------------------------
(* The file                                                                *)

Cell(file, offset) ==
  IF offset \in DOMAIN file.cells THEN file.cells[offset] ELSE Garbage

Ints(file, offset, n) == [k \in 1..n |-> Cell(file, offset + 4 * (k - 1))]

Sum(ints) == FoldLeft(LAMBDA total, n : total + n, 0, ints)

IDX_SIZE == D_NAME_LEN + 7 * 4

\* The entries of the index, read from the end of the file backwards.
Index(file) ==
  LET count == Cell(file, 0)
      start(i) == file.size - count * IDX_SIZE + (i - 1) * IDX_SIZE
      field(i, k) == Cell(file, start(i) + D_NAME_LEN + 4 * (k - 1))
  IN  {[name |-> Cell(file, start(i)), index |-> field(i, 1),
        offset |-> field(i, 2), str_space |-> field(i, 3),
        length |-> field(i, 4), w_width |-> field(i, 5),
        v_width |-> field(i, 6), name_space |-> field(i, 7)] : i \in 1..count}

\* The weights of a set are added up as they are read.
Cumulated(weights) ==
  [k \in 1..Len(weights) |-> Sum(SubSeq(weights, 1, k))]

load_dist(file, di) ==
  LET ofWeights == di.offset + 4 * di.v_width
      ofValues == ofWeights + 4 * di.w_width * di.length
      ofNames == ofValues + 4 * di.v_width * di.length
      ofStrings == ofNames + di.name_space
  IN  [name |-> di.name, length |-> di.length,
       types |-> Ints(file, di.offset, di.v_width),
       weight_sets |-> [w \in 1..di.w_width |->
         Cumulated(Ints(file, ofWeights + 4 * (w - 1) * di.length, di.length))],
       value_sets |-> [v \in 1..di.v_width |->
         Ints(file, ofValues + 4 * (v - 1) * di.length, di.length)],
       names |-> IF di.name_space = 0 THEN <<>> ELSE Cell(file, ofNames),
       strings |-> Cell(file, ofStrings)]

find_dist(file, name) ==
  LET found == {di \in Index(file) : di.name = name}
  IN  IF found = {} THEN NoDist ELSE load_dist(file, CHOOSE di \in found : TRUE)

----------------------------------------------------------------------------
(* Rows and weights                                                        *)

v_width(d) == Len(d.value_sets)
w_width(d) == Len(d.weight_sets)

dist_max(d, wset) == Last(d.weight_sets[wset])

\* The value of a row, the text or the number it reads as.
Value(d, row, vset) ==
  LET offset == d.value_sets[vset][row]
      value == IF offset \in DOMAIN d.strings THEN d.strings[offset] ELSE Garbage
  IN  IF d.types[vset] = "int" THEN value.n ELSE value.text

\* dist_op for a weighted draw: the first row whose cumulated weight reaches
\* the level drawn.
pick_distribution(d, wset) ==
  LET sums == d.weight_sets[wset]
  IN  {row \in 1..d.length :
        \E level \in 1..dist_max(d, wset) :
          sums[row] >= level /\ \A r \in 1..row - 1 : sums[r] < level}

\* dist_op for a row that is given: another one ends the program.
IsMember(d, row, vset) == row \in 1..d.length /\ vset \in 1..v_width(d)

dist_member(d, row, vset) == Value(d, row, vset)

\* The weight of a row, out of the cumulated ones.
dist_weight(d, row, wset) ==
  d.weight_sets[wset][row]
    - (IF row > 1 THEN d.weight_sets[wset][row - 1] ELSE 0)

dist_type(d, vset) ==
  IF d = NoDist \/ vset \notin 1..v_width(d) THEN "none" ELSE d.types[vset]

distsize(d) == d.length

----------------------------------------------------------------------------
(* Columns by name                                                         *)

\* The place of a name among the names of the values and of the weights, from
\* 0; one that is none of them is behind the last.
NamePlace(d, name) ==
  LET all == v_width(d) + w_width(d)
      places == {i \in 1..all : d.names[i] = name}
  IN  IF places = {} THEN all ELSE (CHOOSE i \in places : \A j \in places : i <= j) - 1

\* The first weight's name is not found, and any name that is none of them is
\* the weight behind the last one.
WeightIndex(d, name) ==
  LET res == NamePlace(d, name)
  IN  IF res > v_width(d) THEN res - v_width(d) + 1 ELSE -1

ValueIndex(d, name) ==
  LET res == NamePlace(d, name)
  IN  IF res < v_width(d) THEN res + 1 ELSE -1

----------------------------------------------------------------------------
(* A share of a distribution                                               *)

\* IntegrateDist, from a row on as many rows as make up pct percent of the
\* weights, in a circle of rows of which none is counted as row 0.  The rows
\* are not brought back to the circle's in the result, and the goal is taken
\* from the set behind wset: from memory behind the array for the last set.
IntegrateDist(d, pct, start, wset) ==
  LET Weight(row) ==
        IF row % d.length = 0 THEN 0 ELSE dist_weight(d, row % d.length, wset)
      f[at \in Nat \X Int] ==
        IF at[2] < 0 THEN at[1] ELSE f[<<at[1] + 1, at[2] - Weight(at[1] + 1)>>]
  IN  IF wset = w_width(d) THEN start..d.length + 1
      ELSE {f[<<start, (dist_max(d, wset + 1) * pct) \div 100>>]}

----------------------------------------------------------------------------
(* What the sources of the distributions say                               *)

RECURSIVE StatementsOf(_)

\* The statements of a file, those of the files it includes in their place.
StatementsOf(file) ==
  FlattenSeq([i \in 1..Len(DstFiles[file]) |->
    LET s == DstFiles[file][i]
    IN  IF s.kind = "#include" THEN StatementsOf(s.file) ELSE <<s>>])

\* The statements that belong to the create statement at a place.
Belonging(all, i) ==
  LET next == {j \in i + 1..Len(all) : all[j].kind = "create"}
      end == IF next = {} THEN Len(all) ELSE (CHOOSE j \in next : \A k \in next : j <= k) - 1
  IN  SubSeq(all, i + 1, end)

SettingOf(mine, what) ==
  LET set == SelectSeq(mine, LAMBDA s : s.kind = "set" /\ s.what = what)
  IN  IF set = <<>> THEN <<>> ELSE Last(set).list

\* A row of the source, read back.
RowAsWritten(d, row, types, add) ==
  /\ \A v \in 1..Len(types) :
       Value(d, row, v) = IF types[v] = "int" THEN add.values[v].n ELSE add.values[v].text
  /\ Len(add.values) = Len(types) =>
       \A w \in 1..w_width(d) : dist_weight(d, row, w) = add.weights[w]

\* Whatever the file of a distribution, the order of the files and the growth
\* of its arrays, a program that looks it up by name in the compiled file
\* finds the rows, the weights and the column numbers its source gives it -
\* as long as no row is longer than one block of string space.
DistributionsAsWritten ==
  compiling = "done" =>
    LET all == StatementsOf(files.input)
    IN  \A i \in {k \in 1..Len(all) : all[k].kind = "create"} :
          LET mine == Belonging(all, i)
              adds == SelectSeq(mine, LAMBDA s : s.kind = "add")
              types == SettingOf(mine, "types")
              names == SettingOf(mine, "names")
              d == find_dist(compiled, all[i].name)
          IN  (\A r \in 1..Len(adds) : SpaceOf(adds[r].values) <= StringBlock) =>
                /\ d.length = Len(adds)
                /\ \A r \in 1..Len(adds) : RowAsWritten(d, r, types, adds[r])
                /\ \A k \in 1..Len(names) :
                     \E number \in 1..Len(names) :
                       /\ <<all[i].name, names[k], number>> \in header
                       /\ k <= Len(types) => ValueIndex(d, names[k]) = number
=============================================================================
