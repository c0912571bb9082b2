-------------------------- MODULE ArithmeticProofs --------------------------
(***************************************************************************)
(* The arithmetic the models build on, for all numbers: split_work()       *)
(* divides a table into chunks that are disjoint and together hold every   *)
(* row; and date.c takes every day to a date of the calendar and back.     *)
(***************************************************************************)
EXTENDS SplitWork, Dates, TLAPS

(* The division of the rows leaves less than one row per child over.       *)
LEMMA DivisionLaw ==
  ASSUME NEW total \in Nat, NEW par \in Nat \ {0}
  PROVE  /\ Extra(total, par) \in 0 .. par - 1
         /\ Rowset(total, par) \in Nat
         /\ total = par * Rowset(total, par) + Extra(total, par)
<1>1. Extra(total, par) \in 0 .. par - 1
  BY DEF Extra
<1>2. total = par * (total \div par) + Extra(total, par)
  BY DEF Extra
<1> DEFINE q == total \div par
<1>3. q \in Nat
  OBVIOUS
<1>4. total - Extra(total, par) = par * q
  BY <1>1, <1>2, <1>3
<1>5. (par * q) \div par = q
  BY <1>3
<1>6. Rowset(total, par) = q
  BY <1>4, <1>5 DEF Rowset
<1> QED
  BY <1>1, <1>2, <1>3, <1>6

(* Products keep the order of their factors.                               *)
LEMMA TimesMonotone ==
  ASSUME NEW a \in Nat, NEW b \in Nat, NEW q \in Nat, a <= b
  PROVE  /\ a * q \in Nat
         /\ b * q \in Nat
         /\ a * q <= b * q
<1>1. b = a + (b - a) /\ b - a \in Nat
  OBVIOUS
<1>2. b * q = a * q + (b - a) * q
  BY <1>1
<1>3. a * q \in Nat /\ (b - a) * q \in Nat
  BY <1>1
<1> QED
  BY <1>2, <1>3

(* The chunk of a child of a divided table, its bounds written out: the    *)
(* next child's chunk begins where it ends.                                *)
LEMMA DividedChunk ==
  ASSUME NEW total \in Nat, NEW par \in Nat \ {0}, total >= SmallTable,
         NEW c \in 1 .. par
  PROVE  LET q == Rowset(total, par)
             e == Extra(total, par)
         IN /\ FirstRow(total, par, c) = 1 + (c - 1) * q + LeastOf(c - 1, e)
            /\ FirstRow(total, par, c) + RowCount(total, par, c)
                 = 1 + c * q + LeastOf(c, e)
<1> DEFINE q == Rowset(total, par)
           e == Extra(total, par)
<1>1. q \in Nat /\ e \in Nat
  BY DivisionLaw
<1>2. ~Undivided(total, par) /\ ~(total < SmallTable) /\ par # Unset
  BY SmallTableAssumption DEF Undivided, Unset
<1>3. FirstRow(total, par, c) = 1 + (c - 1) * q + LeastOf(c - 1, e)
  BY <1>2 DEF FirstRow
<1>4. RowCount(total, par, c) = q + IF c <= e THEN 1 ELSE 0
  BY <1>2 DEF RowCount
<1>5. c * q = (c - 1) * q + q
  BY <1>1
<1>6. (c - 1) * q \in Nat
  BY <1>1
<1>7. LeastOf(c - 1, e) + (IF c <= e THEN 1 ELSE 0) = LeastOf(c, e)
  BY <1>1 DEF LeastOf
<1>8. LeastOf(c - 1, e) \in Nat
  BY <1>1 DEF LeastOf
<1> HIDE DEF q, e
<1>9. FirstRow(total, par, c) + RowCount(total, par, c) = 1 + c * q + LeastOf(c, e)
  BY <1>1, <1>3, <1>4, <1>5, <1>6, <1>7, <1>8
<1> QED
  BY <1>3, <1>9 DEF q, e

(* A later child's chunk begins after an earlier child's ends.             *)
LEMMA ChunksInOrder ==
  ASSUME NEW total \in Nat, NEW par \in Nat \ {0}, total >= SmallTable,
         NEW c \in 1 .. par, NEW d \in 1 .. par, c < d
  PROVE  FirstRow(total, par, c) + RowCount(total, par, c) <= FirstRow(total, par, d)
<1> DEFINE q == Rowset(total, par)
           e == Extra(total, par)
<1>1. q \in Nat /\ e \in Nat
  BY DivisionLaw
<1>2. c \in Nat /\ d - 1 \in Nat /\ c <= d - 1
  OBVIOUS
<1>3. /\ c * q \in Nat
      /\ (d - 1) * q \in Nat
      /\ c * q <= (d - 1) * q
  BY <1>1, <1>2, TimesMonotone
<1>4. /\ LeastOf(c, e) \in Nat
      /\ LeastOf(d - 1, e) \in Nat
      /\ LeastOf(c, e) <= LeastOf(d - 1, e)
  BY <1>1, <1>2 DEF LeastOf
<1>5. FirstRow(total, par, c) + RowCount(total, par, c) = 1 + c * q + LeastOf(c, e)
  BY DividedChunk
<1>6. FirstRow(total, par, d) = 1 + (d - 1) * q + LeastOf(d - 1, e)
  BY DividedChunk
<1> HIDE DEF q, e
<1> QED
  BY <1>3, <1>4, <1>5, <1>6

(* What the sizes of the first c chunks come to is at most the table.      *)
LEMMA ChunkWithinTable ==
  ASSUME NEW total \in Nat, NEW par \in Nat \ {0}, total >= SmallTable,
         NEW c \in 1 .. par
  PROVE  /\ FirstRow(total, par, c) \in Nat \ {0}
         /\ RowCount(total, par, c) \in Nat
         /\ FirstRow(total, par, c) + RowCount(total, par, c) <= total + 1
<1> DEFINE q == Rowset(total, par)
           e == Extra(total, par)
<1>1. q \in Nat /\ e \in Nat /\ e < par /\ total = par * q + e
  BY DivisionLaw
<1>2. ~Undivided(total, par) /\ ~(total < SmallTable) /\ par # Unset
  BY SmallTableAssumption DEF Undivided, Unset
<1>3. RowCount(total, par, c) = q + IF c <= e THEN 1 ELSE 0
  BY <1>2 DEF RowCount
<1>4. /\ (c - 1) * q \in Nat
      /\ c * q \in Nat
      /\ par * q \in Nat
      /\ c * q <= par * q
  BY <1>1, TimesMonotone
<1>5. /\ LeastOf(c - 1, e) \in Nat
      /\ LeastOf(c, e) \in Nat
      /\ LeastOf(c, e) <= e
  BY <1>1 DEF LeastOf
<1>6. FirstRow(total, par, c) = 1 + (c - 1) * q + LeastOf(c - 1, e)
  BY DividedChunk
<1>7. FirstRow(total, par, c) + RowCount(total, par, c) = 1 + c * q + LeastOf(c, e)
  BY DividedChunk
<1> HIDE DEF q, e
<1>8. RowCount(total, par, c) \in Nat
  BY <1>1, <1>3
<1>9. FirstRow(total, par, c) \in Nat \ {0}
  BY <1>4, <1>5, <1>6
<1> QED
  BY <1>1, <1>4, <1>5, <1>7, <1>8, <1>9

(* The same for a table that may or may not be divided.                    *)
LEMMA ChunkBounds ==
  ASSUME NEW total \in Nat, NEW par \in Nat, NEW c \in Kids(par)
  PROVE  /\ FirstRow(total, par, c) \in Nat \ {0}
         /\ RowCount(total, par, c) \in Nat
         /\ FirstRow(total, par, c) + RowCount(total, par, c) <= total + 1
<1>1. CASE Undivided(total, par)
  <2>1. FirstRow(total, par, c) = 1
    BY <1>1 DEF FirstRow
  <2>2. RowCount(total, par, c) = IF total < SmallTable /\ c > 1 THEN 0 ELSE total
    BY <1>1, SmallTableAssumption DEF RowCount, Undivided
  <2> QED
    BY <2>1, <2>2
<1>2. CASE ~Undivided(total, par)
  <2>1. par \in Nat \ {0} /\ total >= SmallTable /\ c \in 1 .. par
    BY <1>2, SmallTableAssumption DEF Undivided, Kids, Unset
  <2> QED
    BY <2>1, ChunkWithinTable
<1> QED
  BY <1>1, <1>2

(* The quotient of a division, without its remainder.                      *)
LEMMA Quotient ==
  ASSUME NEW a \in Nat, NEW b \in Nat \ {0}
  PROVE  /\ a \div b \in Nat
         /\ (a \div b) * b <= a
         /\ a < (a \div b) * b + b
<1>1. a = b * (a \div b) + (a % b) /\ a % b \in 0 .. b - 1
  OBVIOUS
<1>2. a \div b \in Nat
  OBVIOUS
<1>3. b * (a \div b) = (a \div b) * b /\ (a \div b) * b \in Nat
  BY <1>2
<1> QED
  BY <1>1, <1>2, <1>3

(* A product is less than another only if its factor is.                   *)
LEMMA FactorLess ==
  ASSUME NEW a \in Nat, NEW b \in Nat, NEW q \in Nat, a * q < b * q
  PROVE  a < b
<1> SUFFICES ASSUME b <= a PROVE FALSE
  OBVIOUS
<1>1. b * q <= a * q /\ a * q \in Nat /\ b * q \in Nat
  BY TimesMonotone
<1> QED
  BY <1>1

(* Every row of a divided table is in the chunk of a child.                *)
LEMMA DividedCover ==
  ASSUME NEW total \in Nat, NEW par \in Nat \ {0}, total >= SmallTable,
         NEW r \in 1 .. total
  PROVE  \E c \in 1 .. par : r \in Chunk(total, par, c)
<1> DEFINE q == Rowset(total, par)
           e == Extra(total, par)
           k == r - 1
<1>1. q \in Nat /\ e \in Nat /\ e < par /\ total = par * q + e
  BY DivisionLaw
<1>2. k \in Nat /\ k < total
  OBVIOUS
<1>3. SUFFICES \E c \in 1 .. par : /\ (c - 1) * q + LeastOf(c - 1, e) <= k
                                   /\ k < c * q + LeastOf(c, e)
  <2>1. ASSUME NEW c \in 1 .. par,
               (c - 1) * q + LeastOf(c - 1, e) <= k,
               k < c * q + LeastOf(c, e)
        PROVE  r \in Chunk(total, par, c)
    <3>1. FirstRow(total, par, c) = 1 + (c - 1) * q + LeastOf(c - 1, e)
      BY DividedChunk
    <3>2. FirstRow(total, par, c) + RowCount(total, par, c) = 1 + c * q + LeastOf(c, e)
      BY DividedChunk
    <3>3. /\ FirstRow(total, par, c) \in Nat \ {0}
          /\ RowCount(total, par, c) \in Nat
      BY ChunkWithinTable
    <3>4. (c - 1) * q \in Nat /\ c * q \in Nat
      BY <1>1, TimesMonotone
    <3>5. LeastOf(c - 1, e) \in Nat /\ LeastOf(c, e) \in Nat
      BY <1>1 DEF LeastOf
    <3> HIDE DEF q, e
    <3>6. FirstRow(total, par, c) <= r
      BY <2>1, <3>1, <3>4, <3>5
    <3>7. r <= FirstRow(total, par, c) + RowCount(total, par, c) - 1
      BY <2>1, <3>2, <3>3, <3>4, <3>5
    <3> QED
      BY <3>3, <3>6, <3>7 DEF Chunk
  <2> QED
    BY <2>1
<1> HIDE DEF q, e, k
<1>4. CASE k < e * (q + 1)
  <2> DEFINE j == k \div (q + 1)
  <2>1. j \in Nat /\ j * (q + 1) <= k /\ k < (j + 1) * (q + 1)
    <3> DEFINE b == q + 1
    <3>1. b \in Nat \ {0}
      BY <1>1
    <3> HIDE DEF b
    <3>2. /\ k \div b \in Nat
          /\ (k \div b) * b <= k
          /\ k < (k \div b) * b + b
      BY <1>2, <3>1, Quotient
    <3>3. /\ j \in Nat
          /\ j * (q + 1) <= k
          /\ k < j * (q + 1) + (q + 1)
      BY <3>2 DEF b
    <3>4. (j + 1) * (q + 1) = j * (q + 1) + (q + 1)
      BY <1>1, <3>3
    <3> QED
      BY <3>3, <3>4
  <2> HIDE DEF j
  <2>2. j * (q + 1) < e * (q + 1)
    <3>1. j * (q + 1) \in Nat /\ e * (q + 1) \in Nat
      BY <1>1, <2>1
    <3> QED
      BY <1>2, <1>4, <2>1, <3>1
  <2>3. j < e
    BY <1>1, <2>1, <2>2, FactorLess
  <2>4. LeastOf(j, e) = j /\ LeastOf(j + 1, e) = j + 1
    BY <1>1, <2>1, <2>3 DEF LeastOf
  <2>5. j * (q + 1) = j * q + j /\ (j + 1) * (q + 1) = (j + 1) * q + (j + 1)
    BY <1>1, <2>1
  <2>6. j + 1 \in 1 .. par /\ (j + 1) - 1 = j
    BY <1>1, <2>1, <2>3
  <2> QED
    BY <2>1, <2>4, <2>5, <2>6
<1>5. CASE ~(k < e * (q + 1))
  <2> DEFINE m == k - e * (q + 1)
             j == m \div q
  <2>1. e * (q + 1) \in Nat /\ e * (q + 1) = e * q + e /\ e * q \in Nat
    BY <1>1
  <2>2. m \in Nat /\ k = m + e * q + e
    <3> DEFINE s == e * (q + 1)
    <3>1. s \in Nat /\ ~(k < s) /\ m = k - s
      BY <1>5, <2>1
    <3> HIDE DEF s, m
    <3>2. m \in Nat /\ k = m + s
      BY <1>2, <3>1
    <3> QED
      BY <1>1, <2>1, <3>2 DEF s
  <2>3. par * q = (par - e) * q + e * q /\ par - e \in Nat /\ (par - e) * q \in Nat
    BY <1>1
  <2> HIDE DEF m
  <2>4. m < (par - e) * q
    BY <1>1, <1>2, <2>1, <2>2, <2>3
  <2>5. q # 0
    BY <2>2, <2>3, <2>4
  <2>6. j \in Nat /\ j * q <= m /\ m < j * q + q /\ j * q \in Nat
    <3>1. j \in Nat /\ j * q <= m /\ m < j * q + q
      BY <1>1, <2>2, <2>5, Quotient
    <3> QED
      BY <1>1, <3>1
  <2> HIDE DEF j
  <2>7. j * q < (par - e) * q
    BY <2>2, <2>3, <2>4, <2>6
  <2>8. j < par - e
    BY <1>1, <2>3, <2>6, <2>7, FactorLess
  <2>9. LeastOf(e + j, e) = e /\ LeastOf(e + j + 1, e) = e
    BY <1>1, <2>6 DEF LeastOf
  <2>10. (e + j) * q = e * q + j * q /\ (e + j + 1) * q = e * q + j * q + q
    BY <1>1, <2>6
  <2>11. e + j + 1 \in 1 .. par /\ (e + j + 1) - 1 = e + j
    BY <1>1, <2>6, <2>8
  <2>12. (e + j) * q + LeastOf(e + j, e) <= k
    BY <1>1, <2>1, <2>2, <2>6, <2>9, <2>10
  <2>13. k < (e + j + 1) * q + LeastOf(e + j + 1, e)
    BY <1>1, <2>1, <2>2, <2>6, <2>9, <2>10
  <2> QED
    BY <2>11, <2>12, <2>13
<1> QED
  BY <1>4, <1>5

(* However a table is divided, or when it is not, every row is built by    *)
(* exactly one child, and no child builds a row the table does not have.   *)
THEOREM EveryRowOnce ==
  ASSUME NEW total \in Nat, NEW par \in Nat
  PROVE  /\ \A r \in 1 .. total :
              \E c \in Kids(par) :
                /\ r \in Chunk(total, par, c)
                /\ \A d \in Kids(par) : r \in Chunk(total, par, d) => d = c
         /\ \A c \in Kids(par) : Chunk(total, par, c) \subseteq 1 .. total
<1>1. CASE Undivided(total, par)
  <2>1. \A c \in Kids(par) :
          Chunk(total, par, c) = 1 .. IF total < SmallTable /\ c > 1 THEN 0 ELSE total
    BY <1>1, SmallTableAssumption
       DEF Undivided, Chunk, FirstRow, RowCount, Kids, Unset
  <2>2. 1 \in Kids(par)
    BY DEF Kids, Unset
  <2>3. \A c \in Kids(par) : c \in Nat \ {0}
    BY DEF Kids, Unset
  <2>4. \A d \in Kids(par) : d > 1 => total < SmallTable
    BY <1>1 DEF Undivided, Kids, Unset
  <2>5. Chunk(total, par, 1) = 1 .. total
    BY <2>1, <2>2
  <2>6. \A d \in Kids(par) : d # 1 => Chunk(total, par, d) = 1 .. 0
    BY <2>1, <2>3, <2>4
  <2> QED
    BY <2>2, <2>5, <2>6
<1>2. CASE ~Undivided(total, par)
  <2>1. total >= SmallTable /\ par \in Nat \ {0} /\ Kids(par) = 1 .. par
    BY <1>2, SmallTableAssumption DEF Undivided, Kids, Unset
  <2>2. \A c \in 1 .. par : /\ FirstRow(total, par, c) \in Nat \ {0}
                            /\ RowCount(total, par, c) \in Nat
                            /\ FirstRow(total, par, c) + RowCount(total, par, c) <= total + 1
    BY <2>1, ChunkWithinTable
  <2>3. ASSUME NEW r \in 1 .. total, NEW c \in 1 .. par, NEW d \in 1 .. par,
               r \in Chunk(total, par, c), r \in Chunk(total, par, d), c < d
        PROVE  FALSE
    <3>1. FirstRow(total, par, c) + RowCount(total, par, c) <= FirstRow(total, par, d)
      BY <2>1, <2>3, ChunksInOrder
    <3> QED
      BY <2>2, <2>3, <3>1 DEF Chunk
  <2>4. ASSUME NEW r \in 1 .. total
        PROVE  \E c \in 1 .. par :
                 /\ r \in Chunk(total, par, c)
                 /\ \A d \in 1 .. par : r \in Chunk(total, par, d) => d = c
    <3>1. PICK c \in 1 .. par : r \in Chunk(total, par, c)
      BY <2>1, DividedCover
    <3>2. ASSUME NEW d \in 1 .. par, r \in Chunk(total, par, d) PROVE d = c
      <4>1. ~(c < d) /\ ~(d < c)
        BY <2>3, <3>1, <3>2
      <4> QED
        BY <4>1
    <3> QED
      BY <3>1, <3>2
  <2>5. ASSUME NEW c \in 1 .. par PROVE Chunk(total, par, c) \subseteq 1 .. total
    BY <2>2 DEF Chunk
  <2> QED
    BY <2>1, <2>4, <2>5
<1> QED
  BY <1>1, <1>2

-----------------------------------------------------------------------------
(***************************************************************************)
(* Dates.                                                                  *)
(***************************************************************************)
(* jtodt() counts days in years that begin in March, so that the leap day  *)
(* is the last of its year, by centuries: the first day of a century and   *)
(* that of a year in it, and the century and the year of a day.            *)
CenturyStart(n) == (146097 * n + 3) \div 4
CenturyAt(l1)   == (4 * l1) \div 146097
YearStart(i)    == (1461 * i) \div 4
YearAt(l2)      == (4000 * (l2 + 1)) \div 1461001

(* The r-th day of the i-th year of the n-th century, and its date.        *)
MarchDay(n, i, r) == CenturyStart(n) + YearStart(i) + r

MarchMonth(r) == (80 * (r + 31)) \div 2447
MarchDom(r)   == r + 31 - (2447 * MarchMonth(r)) \div 80

MarchDate(n, i, r) ==
  LET j  == MarchMonth(r)
      l4 == j \div 11
  IN [year |-> 100 * (n - 49) + i + l4, month |-> j + 2 - 12 * l4,
      day |-> MarchDom(r)]

(* Day s is that day; only a leap day is the last of 366.                  *)
FallsOn(s, n, i, r) ==
  /\ n \in Int /\ i \in Int /\ 0 <= i /\ i <= 99 /\ r \in Int /\ 0 <= r /\ r <= 365
  /\ r = 365 => (i + 1) % 4 = 0
  /\ r = 365 /\ i = 99 => n % 4 = 0
  /\ s + 68569 = MarchDay(n, i, r)

LEMMA Years ==
  ASSUME NEW i \in 0 .. 99
  PROVE  YearStart(i) = 365 * i + i \div 4
  BY SMT DEF YearStart

LEMMA YearBounds ==
  ASSUME NEW i \in Int, 0 <= i, i <= 99
  PROVE  /\ YearStart(i) \in Int /\ 0 <= YearStart(i) /\ YearStart(i) <= 36159
         /\ i < 99 => YearStart(i) <= 35794
  BY SMT DEF YearStart

LEMMA CenturyBounds ==
  ASSUME NEW n \in Int
  PROVE  CenturyStart(n) \in Int
  BY SMT DEF CenturyStart

LEMMA Centuries ==
  ASSUME NEW n \in Int
  PROVE  CenturyStart(n) = 36524 * n + (n + 3) \div 4 /\ CenturyStart(n) \in Int
<1> DEFINE k == n \div 4
           m == n % 4
<1>1. k \in Int /\ m \in 0 .. 3 /\ n = 4 * k + m
  BY SMT
<1> HIDE DEF k, m
<1>2. CASE m = 0 BY <1>1, <1>2, SMT DEF CenturyStart
<1>3. CASE m = 1 BY <1>1, <1>3, SMT DEF CenturyStart
<1>4. CASE m = 2 BY <1>1, <1>4, SMT DEF CenturyStart
<1>5. CASE m = 3 BY <1>1, <1>5, SMT DEF CenturyStart
<1> QED BY <1>1, <1>2, <1>3, <1>4, <1>5, SMT

LEMMA CenturyOf ==
  ASSUME NEW n \in Int, NEW d \in Int, 0 <= d, d <= 36524, d = 36524 => n % 4 = 0
  PROVE  CenturyAt(CenturyStart(n) + d) = n
<1> DEFINE k == n \div 4
           m == n % 4
<1>1. k \in Int /\ m \in 0 .. 3 /\ n = 4 * k + m
  BY SMT
<1> HIDE DEF k
<1>2. CASE m = 0 BY <1>1, <1>2, SMT DEF CenturyStart, CenturyAt
<1>3. CASE m = 1 BY <1>1, <1>3, SMT DEF CenturyStart, CenturyAt
<1>4. CASE m = 2 BY <1>1, <1>4, SMT DEF CenturyStart, CenturyAt
<1>5. CASE m = 3 BY <1>1, <1>5, SMT DEF CenturyStart, CenturyAt
<1> QED BY <1>1, <1>2, <1>3, <1>4, <1>5, SMT

LEMMA YearOf ==
  ASSUME NEW i \in Int, 0 <= i, i <= 99, NEW r \in Int, 0 <= r, r <= 365,
         r = 365 => (i + 1) % 4 = 0
  PROVE  YearAt(YearStart(i) + r) = i
<1> DEFINE k == i \div 4
           m == i % 4
<1>1. k \in 0 .. 24 /\ m \in 0 .. 3 /\ i = 4 * k + m
  BY SMT
<1> HIDE DEF k
<1>2. CASE m = 0 BY <1>1, <1>2, SMT DEF YearStart, YearAt
<1>3. CASE m = 1 BY <1>1, <1>3, SMT DEF YearStart, YearAt
<1>4. CASE m = 2 BY <1>1, <1>4, SMT DEF YearStart, YearAt
<1>5. CASE m = 3 BY <1>1, <1>5, SMT DEF YearStart, YearAt
<1> QED BY <1>1, <1>2, <1>3, <1>4, <1>5, SMT

LEMMA DateOfMarchDay ==
  ASSUME NEW n \in Int, NEW i \in Int, 0 <= i, i <= 99, NEW r \in Int, 0 <= r, r <= 365,
         r = 365 => (i + 1) % 4 = 0, r = 365 /\ i = 99 => n % 4 = 0
  PROVE  jtodt(MarchDay(n, i, r) - 68569) = MarchDate(n, i, r)
<1> DEFINE s  == MarchDay(n, i, r) - 68569
           l1 == s + 68569
           l2 == l1 - CenturyStart(CenturyAt(l1))
           l3 == l2 - YearStart(YearAt(l2)) + 31
           j  == (80 * l3) \div 2447
           l4 == j \div 11
           date == [year |-> 100 * (CenturyAt(l1) - 49) + YearAt(l2) + l4,
                    month |-> j + 2 - 12 * l4, day |-> l3 - (2447 * j) \div 80]
<1>1. jtodt(s) = date
  BY SMT DEF jtodt, CenturyStart, CenturyAt, YearStart, YearAt
<1> HIDE DEF s, l1, l2, l3, j, l4, date
<1>2. /\ YearStart(i) \in Int /\ 0 <= YearStart(i) /\ YearStart(i) <= 36159
      /\ i < 99 => YearStart(i) <= 35794
      /\ CenturyStart(n) \in Int
  BY YearBounds, CenturyBounds, SMT
<1>3. l1 = CenturyStart(n) + (YearStart(i) + r) /\ l1 \in Int
  BY <1>2, SMT DEF s, l1, MarchDay
<1>4. CenturyAt(l1) = n
  <2> DEFINE d == YearStart(i) + r
  <2>1. d \in Int /\ 0 <= d /\ d <= 36524 /\ (d = 36524 => n % 4 = 0)
    BY <1>2, SMT
  <2>2. l1 = CenturyStart(n) + d
    BY <1>3, SMT
  <2> HIDE DEF d
  <2> QED BY <2>1, <2>2, CenturyOf, SMT
<1>5. l2 = YearStart(i) + r
  BY <1>2, <1>3, <1>4, SMT DEF l2
<1>6. YearAt(l2) = i
  BY <1>5, YearOf, SMT
<1>7. l3 = r + 31
  BY <1>2, <1>5, <1>6, SMT DEF l3
<1>8. MarchMonth(r) = j
  BY <1>7, SMT DEF MarchMonth, j
<1>9. j \in Int /\ l4 \in Int
  BY <1>7, SMT DEF j, l4
<1>10. MarchDate(n, i, r) = date
  <2>1. MarchDate(n, i, r) =
          [year |-> 100 * (n - 49) + i + l4, month |-> j + 2 - 12 * l4,
           day |-> r + 31 - (2447 * j) \div 80]
    BY <1>8, SMT DEF MarchDate, MarchDom, l4
  <2>2. /\ 100 * (CenturyAt(l1) - 49) + YearAt(l2) + l4 = 100 * (n - 49) + i + l4
        /\ l3 - (2447 * j) \div 80 = r + 31 - (2447 * j) \div 80
    BY <1>4, <1>6, <1>7, <1>9, SMT
  <2> QED BY <2>1, <2>2, SMT DEF date
<1>11. jtodt(s) = MarchDate(n, i, r)
  BY <1>1, <1>10, SMT
<1> QED BY <1>11, SMT DEF s

LEMMA CenturyParts ==
  ASSUME NEW l1 \in Int
  PROVE  /\ CenturyAt(l1) \in Int
         /\ LET d == l1 - CenturyStart(CenturyAt(l1))
            IN d \in Int /\ 0 <= d /\ d <= 36524 /\ (d = 36524 => CenturyAt(l1) % 4 = 0)
<1> DEFINE n == CenturyAt(l1)
           q == CenturyStart(n)
           k == n \div 4
           m == n % 4
<1>1. n \in Int /\ 146097 * n <= 4 * l1 /\ 4 * l1 < 146097 * n + 146097
  BY SMT DEF CenturyAt
<1> HIDE DEF n
<1>2. k \in Int /\ m \in Int /\ 0 <= m /\ m <= 3 /\ n = 4 * k + m
  BY <1>1, SMT
<1>3. q \in Int /\ 4 * q <= 146097 * n + 3 /\ 146097 * n < 4 * q + 1
  BY <1>1, SMT DEF CenturyStart
<1> HIDE DEF k, q
<1>4. l1 - q \in Int /\ 0 <= l1 - q /\ l1 - q <= 36524 /\ (l1 - q = 36524 => m = 0)
  <2> HIDE DEF m
  <2>1. CASE m = 0 BY <1>1, <1>2, <1>3, <2>1, SMT
  <2>2. CASE m = 1 BY <1>1, <1>2, <1>3, <2>2, SMT
  <2>3. CASE m = 2 BY <1>1, <1>2, <1>3, <2>3, SMT
  <2>4. CASE m = 3 BY <1>1, <1>2, <1>3, <2>4, SMT
  <2> QED BY <1>2, <2>1, <2>2, <2>3, <2>4, SMT
<1> QED BY <1>1, <1>4, SMT DEF q, n

LEMMA YearParts ==
  ASSUME NEW l2 \in Int, 0 <= l2, l2 <= 36524
  PROVE  /\ YearAt(l2) \in Int /\ 0 <= YearAt(l2) /\ YearAt(l2) <= 99
         /\ LET r == l2 - YearStart(YearAt(l2))
            IN /\ r \in Int /\ 0 <= r /\ r <= 365
               /\ r = 365 => (YearAt(l2) + 1) % 4 = 0
               /\ r = 365 /\ YearAt(l2) = 99 => l2 = 36524
<1> DEFINE i == YearAt(l2)
           r == l2 - YearStart(i)
           k == i \div 4
           m == i % 4
<1>1. /\ i \in Int /\ 0 <= i /\ i <= 99 /\ 1461001 * i <= 4000 * (l2 + 1)
      /\ 4000 * (l2 + 1) < 1461001 * i + 1461001
  BY SMT DEF YearAt
<1> HIDE DEF i
<1>2. /\ k \in Int /\ 0 <= k /\ k <= 24 /\ i = 4 * k + m
      /\ m \in Int /\ 0 <= m /\ m <= 3
  BY <1>1, SMT
<1>3. r \in Int /\ 0 <= r /\ r <= 365 /\ (r = 365 => m = 3)
  <2> HIDE DEF k, m
  <2>1. CASE m = 0 BY <1>1, <1>2, <2>1, SMT DEF YearStart
  <2>2. CASE m = 1 BY <1>1, <1>2, <2>2, SMT DEF YearStart
  <2>3. CASE m = 2 BY <1>1, <1>2, <2>3, SMT DEF YearStart
  <2>4. CASE m = 3 BY <1>1, <1>2, <2>4, SMT DEF YearStart
  <2> QED BY <1>2, <2>1, <2>2, <2>3, <2>4, SMT
<1>4. r = 365 => (i + 1) % 4 = 0
  BY <1>1, <1>2, <1>3, SMT
<1>5. i = 99 /\ r = 365 => l2 = 36524
  BY SMT DEF YearStart
<1> QED BY <1>1, <1>3, <1>4, <1>5, SMT DEF i

(* Every day is one of those years.                                        *)
LEMMA EveryDayIsMarchDay ==
  ASSUME NEW s \in Int
  PROVE  \E n, i, r : FallsOn(s, n, i, r)
<1> DEFINE l1 == s + 68569
           n  == CenturyAt(l1)
           l2 == l1 - CenturyStart(n)
           i  == YearAt(l2)
           r  == l2 - YearStart(i)
<1>1. l1 \in Int
  BY SMT
<1> HIDE DEF l1
<1>2. /\ n \in Int /\ l2 \in Int /\ 0 <= l2 /\ l2 <= 36524
      /\ l2 = 36524 => n % 4 = 0
  BY <1>1, CenturyParts, SMT
<1>3. CenturyStart(n) \in Int
  BY <1>2, CenturyBounds, SMT
<1>4. l1 = CenturyStart(n) + l2
  BY <1>1, <1>3, SMT
<1> HIDE DEF n, l2
<1>5. /\ i \in Int /\ 0 <= i /\ i <= 99 /\ r \in Int /\ 0 <= r /\ r <= 365
      /\ r = 365 => (i + 1) % 4 = 0
      /\ r = 365 /\ i = 99 => l2 = 36524
  BY <1>2, YearParts, SMT
<1>6. YearStart(i) \in Int
  BY <1>5, YearBounds, SMT
<1>7. l2 = YearStart(i) + r
  BY <1>2, <1>6, SMT
<1> HIDE DEF i, r
<1>8. l1 = MarchDay(n, i, r)
  BY <1>3, <1>4, <1>5, <1>6, <1>7, SMT DEF MarchDay
<1>9. r = 365 /\ i = 99 => n % 4 = 0
  BY <1>2, <1>5, SMT
<1>10. s + 68569 = MarchDay(n, i, r)
  BY <1>8, SMT DEF l1
<1>11. FallsOn(s, n, i, r)
  BY <1>2, <1>5, <1>9, <1>10, SMT DEF FallsOn
<1> QED BY <1>11, Zenon

(* The months of a year that begins in March.                              *)
MarchLength(m) == IF m = 14 THEN 29 ELSE IF m \in {4, 6, 9, 11} THEN 30 ELSE 31

LEMMA MarchMonths ==
  ASSUME NEW m \in 3 .. 14, NEW d \in Int, 1 <= d, d <= MarchLength(m)
  PROVE  LET r == (153 * m - 457) \div 5 + d - 1
         IN /\ r \in Int /\ 0 <= r /\ r <= 365
            /\ r = 365 => m = 14 /\ d = 29
            /\ MarchMonth(r) = m - 2
            /\ MarchDom(r) = d
<1>1. d <= 31
  BY SMT DEF MarchLength
<1>3. CASE m = 3 BY <1>1, <1>3, SMT DEF MarchMonth, MarchDom
<1>4. CASE m = 4 BY <1>4, SMT DEF MarchMonth, MarchDom, MarchLength
<1>5. CASE m = 5 BY <1>1, <1>5, SMT DEF MarchMonth, MarchDom
<1>6. CASE m = 6 BY <1>6, SMT DEF MarchMonth, MarchDom, MarchLength
<1>7. CASE m = 7 BY <1>1, <1>7, SMT DEF MarchMonth, MarchDom
<1>8. CASE m = 8 BY <1>1, <1>8, SMT DEF MarchMonth, MarchDom
<1>9. CASE m = 9 BY <1>9, SMT DEF MarchMonth, MarchDom, MarchLength
<1>10. CASE m = 10 BY <1>1, <1>10, SMT DEF MarchMonth, MarchDom
<1>11. CASE m = 11 BY <1>11, SMT DEF MarchMonth, MarchDom, MarchLength
<1>12. CASE m = 12 BY <1>1, <1>12, SMT DEF MarchMonth, MarchDom
<1>13. CASE m = 13 BY <1>1, <1>13, SMT DEF MarchMonth, MarchDom
<1>14. CASE m = 14 BY <1>14, SMT DEF MarchMonth, MarchDom, MarchLength
<1>15. m \in Int /\ 3 <= m /\ m <= 14
  BY SMT
<1> QED BY <1>3, <1>4, <1>5, <1>6, <1>7, <1>8, <1>9, <1>10, <1>11, <1>12, <1>13, <1>14, <1>15, SMT

(* and back *)
LEMMA MonthsOfMarch ==
  ASSUME NEW r \in Int, 0 <= r, r <= 365
  PROVE  /\ MarchMonth(r) \in Int /\ 1 <= MarchMonth(r) /\ MarchMonth(r) <= 12
         /\ MarchDom(r) \in Int /\ 1 <= MarchDom(r)
         /\ MarchDom(r) <= MarchLength(MarchMonth(r) + 2)
         /\ r = (153 * (MarchMonth(r) + 2) - 457) \div 5 + MarchDom(r) - 1
         /\ MarchMonth(r) = 12 /\ MarchDom(r) = 29 => r = 365
<1> DEFINE j == MarchMonth(r)
           d == MarchDom(r)
<1>1. d = r + 31 - (2447 * j) \div 80
  BY SMT DEF MarchDom
<1>2. j \in Int /\ 1 <= j /\ j <= 12 /\ 2447 * j <= 80 * (r + 31) /\ 80 * (r + 31) < 2447 * j + 2447
  BY SMT DEF MarchMonth
<1> HIDE DEF j, d
<1>3. /\ d \in Int /\ 1 <= d /\ d <= MarchLength(j + 2)
      /\ r = (153 * (j + 2) - 457) \div 5 + d - 1
      /\ j = 12 /\ d = 29 => r = 365
  <2>1. CASE j = 1 BY <1>1, <1>2, <2>1, SMT DEF MarchLength
  <2>2. CASE j = 2 BY <1>1, <1>2, <2>2, SMT DEF MarchLength
  <2>3. CASE j = 3 BY <1>1, <1>2, <2>3, SMT DEF MarchLength
  <2>4. CASE j = 4 BY <1>1, <1>2, <2>4, SMT DEF MarchLength
  <2>5. CASE j = 5 BY <1>1, <1>2, <2>5, SMT DEF MarchLength
  <2>6. CASE j = 6 BY <1>1, <1>2, <2>6, SMT DEF MarchLength
  <2>7. CASE j = 7 BY <1>1, <1>2, <2>7, SMT DEF MarchLength
  <2>8. CASE j = 8 BY <1>1, <1>2, <2>8, SMT DEF MarchLength
  <2>9. CASE j = 9 BY <1>1, <1>2, <2>9, SMT DEF MarchLength
  <2>10. CASE j = 10 BY <1>1, <1>2, <2>10, SMT DEF MarchLength
  <2>11. CASE j = 11 BY <1>1, <1>2, <2>11, SMT DEF MarchLength
  <2>12. CASE j = 12 BY <1>1, <1>2, <2>12, SMT DEF MarchLength
  <2> QED BY <1>2, <2>1, <2>2, <2>3, <2>4, <2>5, <2>6, <2>7, <2>8, <2>9, <2>10, <2>11, <2>12, SMT
<1> QED BY <1>2, <1>3, SMT DEF j, d

(* dttoj(), of a month and a year that count from March.                   *)
FromMarch(y, m, d) ==
  d + (153 * m - 457) \div 5
    + 365 * y + y \div 4 - y \div 100 + y \div 400 + 1721118 + 1

LEMMA NumberOfMarchDay ==
  ASSUME NEW n \in Int, NEW i \in Int, 0 <= i, i <= 99,
         NEW m \in Int, 3 <= m, m <= 14, NEW d \in Int,
         NEW y \in Int, y = 100 * (n - 49) + i,
         NEW r \in Int, r = (153 * m - 457) \div 5 + d - 1
  PROVE  FromMarch(y, m, d) + 68569 = MarchDay(n, i, r)
<1> DEFINE c == n - 49
           t == (153 * m - 457) \div 5
<1>1. c \in Int /\ n = c + 49 /\ t \in Int /\ y = 100 * c + i /\ r = t + d - 1
  BY SMT
<1> HIDE DEF c, t
<1>2. y \div 100 = c /\ y \div 4 = 25 * c + i \div 4 /\ y \div 400 = c \div 4
  BY <1>1, SMT
<1>3. CenturyStart(n) = 36524 * n + (n + 3) \div 4
  BY Centuries, SMT
<1>4. (n + 3) \div 4 = c \div 4 + 13
  BY <1>1, SMT
<1>5. YearStart(i) = 365 * i + i \div 4
  BY Years, SMT
<1>6. c \div 4 \in Int /\ i \div 4 \in Int
  BY <1>1, SMT
<1>7. FromMarch(y, m, d) = d + t + 365 * (100 * c + i) + (25 * c + i \div 4) - c + c \div 4 + 1721119
  BY <1>1, <1>2, <1>6, SMT DEF FromMarch, t
<1>8. MarchDay(n, i, r) = 36524 * (c + 49) + (c \div 4 + 13) + 365 * i + i \div 4 + t + d - 1
  BY <1>1, <1>3, <1>4, <1>5, <1>6, SMT DEF MarchDay
<1> QED BY <1>1, <1>6, <1>7, <1>8, SMT

(* A date of the calendar is that of its number.                           *)
LEMMA DateOfNumber ==
  ASSUME NEW y \in Int, NEW m \in 1 .. 12, NEW d \in Int, 1 <= d, d <= MonthDays(y, m)
  PROVE  /\ dttoj(Date(y, m, d)) \in Int
         /\ jtodt(dttoj(Date(y, m, d))) = Date(y, m, d)
<1> DEFINE early == IF m <= 2 THEN 1 ELSE 0
           mm == m + 12 * early
           yy == y - early
           n == yy \div 100 + 49
           i == yy % 100
           r == (153 * mm - 457) \div 5 + d - 1
           s == dttoj(Date(y, m, d))
<1>1. /\ early \in Int /\ (early = 0 \/ early = 1)
      /\ mm \in 3 .. 14 /\ (early = 1 <=> mm >= 13) /\ m = mm - 12 * early
      /\ yy \in Int /\ y = yy + early
  BY SMT
<1>2. s = FromMarch(yy, mm, d)
  BY SMT DEF dttoj, Date, FromMarch
<1>3. d <= MarchLength(mm) /\ (mm = 14 /\ d = 29 => LeapYear(yy + 1))
  BY <1>1, SMT DEF MonthDays, MarchLength
<1> HIDE DEF early, mm, yy, s
<1>4. n \in Int /\ i \in Int /\ 0 <= i /\ i <= 99 /\ yy = 100 * (n - 49) + i
  BY <1>1, SMT
<1> HIDE DEF n, i
<1>5. /\ r \in Int /\ 0 <= r /\ r <= 365
      /\ r = 365 => mm = 14 /\ d = 29
      /\ MarchMonth(r) = mm - 2
      /\ MarchDom(r) = d
  BY <1>1, <1>3, MarchMonths, SMT
<1>6. r = (153 * mm - 457) \div 5 + d - 1 /\ mm \in Int /\ 3 <= mm /\ mm <= 14
  BY <1>1, SMT
<1> HIDE DEF r
<1>7. s + 68569 = MarchDay(n, i, r)
  BY <1>1, <1>2, <1>4, <1>5, <1>6, NumberOfMarchDay, SMT
<1>8. ASSUME r = 365 PROVE (i + 1) % 4 = 0 /\ (i = 99 => n % 4 = 0)
  <2>1. (yy + 1) % 4 = 0 /\ ((yy + 1) % 100 # 0 \/ (yy + 1) % 400 = 0)
    BY <1>3, <1>5, <1>8, SMT DEF LeapYear
  <2>2. (i + 1) % 4 = 0
    BY <1>4, <2>1, SMT
  <2>3. ASSUME i = 99 PROVE n % 4 = 0
    <3>1. yy + 1 = 100 * (n - 48)
      BY <1>4, <2>3, SMT
    <3>2. (yy + 1) % 400 = 0
      BY <1>4, <2>1, <3>1, SMT
    <3> QED BY <1>4, <3>1, <3>2, SMT
  <2> QED BY <2>2, <2>3, SMT
<1>9. jtodt(MarchDay(n, i, r) - 68569) = MarchDate(n, i, r)
  BY <1>4, <1>5, <1>8, DateOfMarchDay, SMT
<1>10. MarchDay(n, i, r) \in Int
  BY <1>4, <1>5, YearBounds, CenturyBounds, SMT DEF MarchDay
<1>11. s \in Int /\ s = MarchDay(n, i, r) - 68569
  <2>1. s \in Int
    BY <1>1, <1>2, SMT DEF FromMarch
  <2> QED BY <1>7, <1>10, <2>1, SMT
<1>12. MarchDate(n, i, r) = Date(y, m, d)
  <2>1. (mm - 2) \div 11 = early
    BY <1>1, SMT
  <2>2. 100 * (n - 49) + i + early = y /\ mm - 2 + 2 - 12 * early = m
    BY <1>1, <1>4, SMT
  <2> QED BY <1>5, <2>1, <2>2, SMT DEF MarchDate, Date
<1>13. jtodt(s) = Date(y, m, d)
  BY <1>9, <1>11, <1>12, SMT
<1> QED BY <1>11, <1>13, SMT DEF s

(* Day s is the d-th of month m of year y.                                 *)
IsDayOf(s, y, m, d) ==
  /\ y \in Int /\ m \in Int /\ 1 <= m /\ m <= 12
  /\ d \in Int /\ 1 <= d /\ d <= MonthDays(y, m)
  /\ jtodt(s) = Date(y, m, d) /\ dttoj(Date(y, m, d)) = s

(* Every number is that of a date of the calendar.                         *)
LEMMA NumberOfDate ==
  ASSUME NEW s \in Int
  PROVE  \E y, m, d : IsDayOf(s, y, m, d)
<1>1. PICK n, i, r : FallsOn(s, n, i, r)
  BY EveryDayIsMarchDay, Zenon
<1>2. /\ n \in Int /\ i \in Int /\ 0 <= i /\ i <= 99 /\ r \in Int /\ 0 <= r /\ r <= 365
      /\ r = 365 => (i + 1) % 4 = 0
      /\ r = 365 /\ i = 99 => n % 4 = 0
      /\ s + 68569 = MarchDay(n, i, r)
  BY <1>1, SMT DEF FallsOn
<1> DEFINE j == MarchMonth(r)
           d == MarchDom(r)
           early == j \div 11
           m == j + 2 - 12 * early
           yy == 100 * (n - 49) + i
           y == yy + early
<1>3. /\ j \in Int /\ 1 <= j /\ j <= 12 /\ d \in Int /\ 1 <= d
      /\ d <= MarchLength(j + 2)
      /\ r = (153 * (j + 2) - 457) \div 5 + d - 1
      /\ j = 12 /\ d = 29 => r = 365
  BY <1>2, MonthsOfMarch, SMT
<1>4. jtodt(s) = Date(y, m, d)
  <2>1. jtodt(MarchDay(n, i, r) - 68569) = MarchDate(n, i, r)
    BY <1>2, DateOfMarchDay, SMT
  <2>2. MarchDay(n, i, r) - 68569 = s
    BY <1>2, SMT
  <2>3. MarchDate(n, i, r) = Date(y, m, d)
    BY <1>2, SMT DEF MarchDate, Date
  <2> QED BY <2>1, <2>2, <2>3, SMT
<1> HIDE DEF j, d
<1>5. /\ early \in Int /\ (early = 0 \/ early = 1) /\ (early = 1 <=> j >= 11)
      /\ yy \in Int
  BY <1>2, <1>3, SMT
<1> HIDE DEF early
<1>6. m \in 1 .. 12 /\ y \in Int
  BY <1>3, <1>5, SMT
<1>7. d <= MonthDays(y, m)
  <2>1. CASE j = 12
    <3>1. m = 2
      BY <1>5, <2>1, SMT
    <3>2. CASE d = 29
      <4>1. (i + 1) % 4 = 0 /\ (i = 99 => n % 4 = 0) /\ y = 100 * (n - 49) + i + 1
        BY <1>2, <1>3, <1>5, <2>1, <3>2, SMT
      <4>2. LeapYear(y)
        <5>1. y % 4 = 0
          BY <1>2, <4>1, SMT
        <5>2. CASE i = 99
          <6>1. n % 4 = 0 /\ y = 100 * (n - 48)
            BY <1>2, <4>1, <5>2, SMT
          <6>2. y % 400 = 0
            BY <1>2, <6>1, SMT
          <6> QED BY <5>1, <6>2, SMT DEF LeapYear
        <5>3. CASE i # 99
          <6>1. y % 100 # 0
            BY <1>2, <4>1, <5>3, SMT
          <6> QED BY <5>1, <6>1, SMT DEF LeapYear
        <5> QED BY <5>2, <5>3
      <4> QED BY <3>1, <3>2, <4>2, SMT DEF MonthDays
    <3>3. CASE d # 29
      BY <1>3, <2>1, <3>1, <3>3, SMT DEF MonthDays, MarchLength
    <3> QED BY <3>2, <3>3
  <2>2. CASE j # 12
    BY <1>3, <1>5, <2>2, SMT DEF MonthDays, MarchLength
  <2> QED BY <2>1, <2>2
<1>8. dttoj(Date(y, m, d)) = s
  <2>1. dttoj(Date(y, m, d)) = FromMarch(yy, j + 2, d)
    BY <1>3, <1>5, SMT DEF dttoj, Date, FromMarch
  <2>2. FromMarch(yy, j + 2, d) + 68569 = MarchDay(n, i, r)
    <3> DEFINE mm == j + 2
    <3>1. /\ mm \in Int /\ 3 <= mm /\ mm <= 14 /\ d \in Int
          /\ r = (153 * mm - 457) \div 5 + d - 1
      BY <1>3, SMT
    <3>2. yy = 100 * (n - 49) + i /\ yy \in Int
      BY <1>5, SMT
    <3> HIDE DEF mm, yy
    <3>3. FromMarch(yy, mm, d) + 68569 = MarchDay(n, i, r)
      BY <1>2, <3>1, <3>2, NumberOfMarchDay, SMT
    <3> QED BY <3>3, SMT DEF mm
  <2>3. FromMarch(yy, j + 2, d) \in Int
    BY <1>3, <1>5, SMT DEF FromMarch
  <2> QED BY <1>2, <2>1, <2>2, <2>3, SMT
<1> HIDE DEF m, y
<1>9. IsDayOf(s, y, m, d)
  BY <1>3, <1>4, <1>6, <1>7, <1>8, SMT DEF IsDayOf
<1> QED BY <1>9, Zenon

(* The number of a date, month by month: February ends at 59 or 60.        *)
YearNumber(y) == 365 * (y - 1) + (y - 1) \div 4 - (y - 1) \div 100 + (y - 1) \div 400

LEMMA LeapDays ==
  ASSUME NEW y \in Int
  PROVE  /\ YearNumber(y) \in Int
         /\ YearNumber(y + 1) = YearNumber(y) + IF LeapYear(y) THEN 366 ELSE 365
<1> DEFINE k == y \div 400
           q == y % 400
           c == q \div 100
           e == q % 100
<1>1. k \in Int /\ q \in Int /\ 0 <= q /\ q <= 399 /\ y = 400 * k + q
  BY SMT
<1> HIDE DEF k, q
<1>2. c \in Int /\ 0 <= c /\ c <= 3 /\ e \in Int /\ 0 <= e /\ e <= 99 /\ q = 100 * c + e
  BY <1>1, SMT
<1> HIDE DEF c, e
<1>3. y = 400 * k + 100 * c + e
  BY <1>1, <1>2, SMT
<1>4. /\ y \div 400 = k /\ y \div 100 = 4 * k + c /\ y \div 4 = 100 * k + 25 * c + e \div 4
  BY <1>1, <1>2, <1>3, SMT
<1>5. /\ (y - 1) \div 400 = IF c = 0 /\ e = 0 THEN k - 1 ELSE k
      /\ (y - 1) \div 100 = IF e = 0 THEN 4 * k + c - 1 ELSE 4 * k + c
      /\ (y - 1) \div 4 = IF e % 4 = 0 THEN 100 * k + 25 * c + e \div 4 - 1
                          ELSE 100 * k + 25 * c + e \div 4
  BY <1>1, <1>2, <1>3, SMT
<1>6. LeapYear(y) <=> e % 4 = 0 /\ (e # 0 \/ c = 0)
  BY <1>1, <1>2, <1>3, SMT DEF LeapYear
<1>7. (y + 1) - 1 = y /\ e \div 4 \in Int
  BY <1>2, SMT
<1>8. YearNumber(y) \in Int
  BY SMT DEF YearNumber
<1>9. YearNumber(y + 1) = 365 * y + y \div 4 - y \div 100 + y \div 400
  BY <1>7, SMT DEF YearNumber
<1>10. YearNumber(y) = 365 * (y - 1) + (y - 1) \div 4 - (y - 1) \div 100 + (y - 1) \div 400
  BY SMT DEF YearNumber
<1>11. CASE e % 4 = 0
  <2>1. CASE e = 0 BY <1>1, <1>2, <1>4, <1>5, <1>6, <1>7, <1>9, <1>10, <1>11, <2>1, <1>8, SMT
  <2>2. CASE e # 0 BY <1>1, <1>2, <1>4, <1>5, <1>6, <1>7, <1>9, <1>10, <1>11, <2>2, <1>8, SMT
  <2> QED BY <2>1, <2>2
<1>12. CASE e % 4 # 0
  BY <1>1, <1>2, <1>4, <1>5, <1>6, <1>7, <1>9, <1>10, <1>12, <1>8, SMT
<1> QED BY <1>11, <1>12

(* The days before each month, in a year of the calendar.                  *)
DaysBefore(y, m) ==
  m_days[1][m] + IF m > 2 /\ LeapYear(y) THEN 1 ELSE 0

LEMMA DateNumbers ==
  ASSUME NEW y \in Int, NEW m \in 1 .. 12, NEW d \in Int
  PROVE  dttoj(Date(y, m, d)) = YearNumber(y) + 1721425 + DaysBefore(y, m) + d
<1>1. YearNumber(y + 1) = YearNumber(y) + IF LeapYear(y) THEN 366 ELSE 365
  BY LeapDays, SMT
<1>2. YearNumber(y) \in Int /\ YearNumber(y + 1) \in Int
  BY LeapDays, SMT
<1>3. CASE m <= 2
  <2>1. dttoj(Date(y, m, d)) = d + (153 * (m + 12) - 457) \div 5 + YearNumber(y) + 1721119
    BY <1>3, SMT DEF dttoj, Date, YearNumber
  <2>2. CASE m = 1 BY <1>2, <2>1, <2>2, SMT DEF DaysBefore, m_days
  <2>3. CASE m = 2 BY <1>2, <2>1, <2>3, SMT DEF DaysBefore, m_days
  <2> QED BY <1>3, <2>2, <2>3, SMT
<1>4. CASE m > 2
  <2>1. dttoj(Date(y, m, d)) = d + (153 * m - 457) \div 5 + YearNumber(y + 1) + 1721119
    <3>1. y + 1 - 1 = y
      BY SMT
    <3> QED BY <1>4, <3>1, SMT DEF dttoj, Date, YearNumber
  <2>3. CASE m = 3 BY <1>1, <1>2, <2>1, <2>3, SMT DEF DaysBefore, m_days
  <2>4. CASE m = 4 BY <1>1, <1>2, <2>1, <2>4, SMT DEF DaysBefore, m_days
  <2>5. CASE m = 5 BY <1>1, <1>2, <2>1, <2>5, SMT DEF DaysBefore, m_days
  <2>6. CASE m = 6 BY <1>1, <1>2, <2>1, <2>6, SMT DEF DaysBefore, m_days
  <2>7. CASE m = 7 BY <1>1, <1>2, <2>1, <2>7, SMT DEF DaysBefore, m_days
  <2>8. CASE m = 8 BY <1>1, <1>2, <2>1, <2>8, SMT DEF DaysBefore, m_days
  <2>9. CASE m = 9 BY <1>1, <1>2, <2>1, <2>9, SMT DEF DaysBefore, m_days
  <2>10. CASE m = 10 BY <1>1, <1>2, <2>1, <2>10, SMT DEF DaysBefore, m_days
  <2>11. CASE m = 11 BY <1>1, <1>2, <2>1, <2>11, SMT DEF DaysBefore, m_days
  <2>12. CASE m = 12 BY <1>1, <1>2, <2>1, <2>12, SMT DEF DaysBefore, m_days
  <2> QED BY <1>4, <2>3, <2>4, <2>5, <2>6, <2>7, <2>8, <2>9, <2>10, <2>11, <2>12, SMT
<1> QED BY <1>3, <1>4, SMT

LEMMA MonthsAddUp ==
  ASSUME NEW y \in Int, NEW m \in Int, 1 <= m, m <= 12
  PROVE  /\ DaysBefore(y, m) \in Int /\ MonthDays(y, m) \in Int
         /\ 28 <= MonthDays(y, m) /\ MonthDays(y, m) <= 31
         /\ m < 12 => DaysBefore(y, m + 1) = DaysBefore(y, m) + MonthDays(y, m)
         /\ m = 12 => DaysBefore(y, m) + MonthDays(y, m)
                        = IF LeapYear(y) THEN 366 ELSE 365
         /\ DaysBefore(y, 1) = 0 /\ MonthDays(y, 1) = 31
<1>1. CASE m = 1 BY <1>1, SMT DEF DaysBefore, m_days, MonthDays
<1>2. CASE m = 2 BY <1>2, SMT DEF DaysBefore, m_days, MonthDays
<1>3. CASE m = 3 BY <1>3, SMT DEF DaysBefore, m_days, MonthDays
<1>4. CASE m = 4 BY <1>4, SMT DEF DaysBefore, m_days, MonthDays
<1>5. CASE m = 5 BY <1>5, SMT DEF DaysBefore, m_days, MonthDays
<1>6. CASE m = 6 BY <1>6, SMT DEF DaysBefore, m_days, MonthDays
<1>7. CASE m = 7 BY <1>7, SMT DEF DaysBefore, m_days, MonthDays
<1>8. CASE m = 8 BY <1>8, SMT DEF DaysBefore, m_days, MonthDays
<1>9. CASE m = 9 BY <1>9, SMT DEF DaysBefore, m_days, MonthDays
<1>10. CASE m = 10 BY <1>10, SMT DEF DaysBefore, m_days, MonthDays
<1>11. CASE m = 11 BY <1>11, SMT DEF DaysBefore, m_days, MonthDays
<1>12. CASE m = 12 BY <1>12, SMT DEF DaysBefore, m_days, MonthDays
<1> QED BY <1>1, <1>2, <1>3, <1>4, <1>5, <1>6, <1>7, <1>8, <1>9, <1>10, <1>11, <1>12, SMT

LEMMA DatesAndNumbers ==
  ASSUME NEW s \in Int, NEW dt, jtodt(s) = dt
  PROVE  dttoj(dt) = s
<1>1. PICK y, m, d : IsDayOf(s, y, m, d)
  BY NumberOfDate, Zenon
<1> QED BY <1>1, Zenon DEF IsDayOf

LEMMA NextDay ==
  ASSUME NEW s \in Int
  PROVE  jtodt(s + 1) = DayAfter(jtodt(s))
<1>1. PICK y, m, d : IsDayOf(s, y, m, d)
  BY NumberOfDate, Zenon
<1>2. /\ y \in Int /\ m \in 1 .. 12 /\ d \in Int
      /\ 1 <= d /\ d <= MonthDays(y, m)
      /\ jtodt(s) = Date(y, m, d) /\ dttoj(Date(y, m, d)) = s
  BY <1>1, SMT DEF IsDayOf
<1>3. /\ YearNumber(y) \in Int
      /\ YearNumber(y + 1) = YearNumber(y) + IF LeapYear(y) THEN 366 ELSE 365
  BY <1>2, LeapDays, SMT
<1>4. m \in Int /\ 1 <= m /\ m <= 12
  BY <1>2, SMT
<1>5. /\ DaysBefore(y, m) \in Int /\ MonthDays(y, m) \in Int
      /\ m < 12 => DaysBefore(y, m + 1) = DaysBefore(y, m) + MonthDays(y, m)
      /\ m = 12 => DaysBefore(y, m) + MonthDays(y, m)
                        = IF LeapYear(y) THEN 366 ELSE 365
  BY <1>2, <1>4, MonthsAddUp, SMT
<1>6. s = YearNumber(y) + 1721425 + DaysBefore(y, m) + d
  BY <1>2, DateNumbers, SMT
<1>7. /\ Date(y, m, d).year = y /\ Date(y, m, d).month = m /\ Date(y, m, d).day = d
  BY SMT DEF Date
<1>8. CASE d < MonthDays(y, m)
  <2>1. DayAfter(Date(y, m, d)) = Date(y, m, d + 1)
    BY <1>7, <1>8, SMT DEF DayAfter
  <2>2. dttoj(Date(y, m, d + 1)) = s + 1
    <3>1. dttoj(Date(y, m, d + 1)) = YearNumber(y) + 1721425 + DaysBefore(y, m) + (d + 1)
      BY <1>2, DateNumbers, SMT
    <3> QED BY <1>2, <1>3, <1>5, <1>6, <3>1, SMT
  <2>3. jtodt(dttoj(Date(y, m, d + 1))) = Date(y, m, d + 1)
    <3>1. d + 1 \in Int /\ 1 <= d + 1 /\ d + 1 <= MonthDays(y, m)
      BY <1>2, <1>5, <1>8, SMT
    <3> QED BY <1>2, <3>1, DateOfNumber, SMT
  <2> QED BY <1>2, <2>1, <2>2, <2>3, SMT
<1>9. CASE d = MonthDays(y, m) /\ m < 12
  <2>1. DayAfter(Date(y, m, d)) = Date(y, m + 1, 1)
    BY <1>4, <1>5, <1>7, <1>9, SMT DEF DayAfter
  <2>2. m + 1 \in 1 .. 12 /\ 1 <= MonthDays(y, m + 1)
    BY <1>2, <1>4, <1>9, MonthsAddUp, SMT DEF MonthDays
  <2>3. dttoj(Date(y, m + 1, 1)) = s + 1
    <3>1. dttoj(Date(y, m + 1, 1)) = YearNumber(y) + 1721425 + DaysBefore(y, m + 1) + 1
      BY <1>2, <2>2, DateNumbers, SMT
    <3> QED BY <1>3, <1>5, <1>6, <1>9, <3>1, SMT
  <2>4. jtodt(dttoj(Date(y, m + 1, 1))) = Date(y, m + 1, 1)
    BY <1>2, <2>2, DateOfNumber, SMT
  <2> QED BY <1>2, <2>1, <2>3, <2>4, SMT
<1>10. CASE d = MonthDays(y, m) /\ m = 12
  <2>1. DayAfter(Date(y, m, d)) = Date(y + 1, 1, 1)
    BY <1>4, <1>5, <1>7, <1>10, SMT DEF DayAfter
  <2>2. /\ DaysBefore(y + 1, 1) = 0 /\ MonthDays(y + 1, 1) = 31
        /\ y + 1 \in Int
    BY <1>2, SMT DEF DaysBefore, m_days, MonthDays
  <2>3. dttoj(Date(y + 1, 1, 1)) = s + 1
    <3>1. dttoj(Date(y + 1, 1, 1)) = YearNumber(y + 1) + 1721425 + DaysBefore(y + 1, 1) + 1
      BY <1>2, DateNumbers, SMT
    <3> QED BY <1>3, <1>5, <1>6, <1>10, <2>2, <3>1, SMT
  <2>4. jtodt(dttoj(Date(y + 1, 1, 1))) = Date(y + 1, 1, 1)
    BY <1>2, <2>2, DateOfNumber, SMT
  <2> QED BY <1>2, <2>1, <2>3, <2>4, SMT
<1> QED BY <1>2, <1>4, <1>5, <1>8, <1>9, <1>10, SMT

LEMMA FieldsOfDate ==
  ASSUME NEW y, NEW m, NEW d
  PROVE  Date(y, m, d).year = y /\ Date(y, m, d).month = m /\ Date(y, m, d).day = d
  BY SMT DEF Date

LEMMA NumbersAreInt ==
  ASSUME NEW y \in Int, NEW m \in Int, NEW d \in Int
  PROVE  dttoj(Date(y, m, d)) \in Int
<1>1. CASE m <= 2
  BY <1>1, FieldsOfDate, SMT DEF dttoj
<1>2. CASE ~(m <= 2)
  BY <1>2, FieldsOfDate, SMT DEF dttoj
<1> QED BY <1>1, <1>2, SMT

LEMMA SameLeaps ==
  ASSUME NEW y \in Int
  PROVE  is_leap(y) = isLeapYear(y) /\ (LeapYear(y) => isLeapYear(y))
<1>1. y % 100 = 0 => y % 4 = 0 /\ (y % 400) % 2 = 0
  BY SMT
<1>2. is_leap(y) <=> isLeapYear(y)
  BY <1>1, SMT DEF is_leap, isLeapYear
<1>3. is_leap(y) \in BOOLEAN /\ isLeapYear(y) \in BOOLEAN
  BY Zenon DEF is_leap, isLeapYear
<1>4. LeapYear(y) => isLeapYear(y)
  BY SMT DEF LeapYear, isLeapYear
<1> QED BY <1>2, <1>3, <1>4, Zenon

(* Two days on end: in a month, two months or two years.                   *)
OnEnd(y, m, d, y1, m1, d1) ==
  \/ d < MonthDays(y, m) /\ y1 = y /\ m1 = m /\ d1 = d + 1
  \/ d = MonthDays(y, m) /\ m < 12 /\ y1 = y /\ m1 = m + 1 /\ d1 = 1
  \/ d = MonthDays(y, m) /\ m = 12 /\ y1 = y + 1 /\ m1 = 1 /\ d1 = 1

LEMMA DaysOnEnd ==
  ASSUME NEW s \in Int
  PROVE  \E y, m, d, y1, m1, d1 : /\ IsDayOf(s, y, m, d)
                                  /\ IsDayOf(s + 1, y1, m1, d1)
                                  /\ OnEnd(y, m, d, y1, m1, d1)
<1>1. PICK y, m, d : IsDayOf(s, y, m, d)
  BY NumberOfDate, Zenon
<1>2. s + 1 \in Int
  BY SMT
<1>3. PICK y1, m1, d1 : IsDayOf(s + 1, y1, m1, d1)
  BY <1>2, NumberOfDate, Zenon
<1>4. /\ y \in Int /\ m \in Int /\ 1 <= m /\ m <= 12 /\ d \in Int
      /\ d <= MonthDays(y, m) /\ jtodt(s) = Date(y, m, d)
  BY <1>1, Zenon DEF IsDayOf
<1>5. jtodt(s + 1) = Date(y1, m1, d1)
  BY <1>3, Zenon DEF IsDayOf
<1>6. Date(y1, m1, d1) = DayAfter(Date(y, m, d))
  BY <1>4, <1>5, NextDay, Zenon
<1>7. MonthDays(y, m) \in Int
  BY <1>4, MonthsAddUp, SMT
<1>8. OnEnd(y, m, d, y1, m1, d1)
  <2>1. /\ Date(y, m, d).year = y /\ Date(y, m, d).month = m /\ Date(y, m, d).day = d
        /\ Date(y1, m1, d1).year = y1 /\ Date(y1, m1, d1).month = m1
        /\ Date(y1, m1, d1).day = d1
    BY FieldsOfDate, SMT
  <2>2. CASE d < MonthDays(y, m)
    <3>1. Date(y1, m1, d1) = Date(y, m, d + 1)
      BY <1>6, <2>1, <2>2, SMT DEF DayAfter
    <3> QED BY <2>1, <2>2, <3>1, FieldsOfDate, SMT DEF OnEnd
  <2>3. CASE d = MonthDays(y, m) /\ m < 12
    <3>1. Date(y1, m1, d1) = Date(y, m + 1, 1)
      BY <1>6, <1>7, <2>1, <2>3, SMT DEF DayAfter
    <3> QED BY <2>1, <2>3, <3>1, FieldsOfDate, SMT DEF OnEnd
  <2>4. CASE d = MonthDays(y, m) /\ m = 12
    <3>1. Date(y1, m1, d1) = Date(y + 1, 1, 1)
      BY <1>6, <1>7, <2>1, <2>4, SMT DEF DayAfter
    <3> QED BY <2>1, <2>4, <3>1, FieldsOfDate, SMT DEF OnEnd
  <2> QED BY <1>4, <1>7, <2>2, <2>3, <2>4, SMT
<1> QED BY <1>1, <1>3, <1>8, Zenon

(* Weekdays: doomsday() moves by a day a year, and by two into a leap year *)
OneIfLeap(y) == IF LeapYear(y) THEN 1 ELSE 0

Anchor(c) == <<3, 2, 0, 5>>[1 + (c % 4)]

LEMMA DoomsdayByParts ==
  ASSUME NEW y, NEW c \in Int, NEW q \in Int, NEW r \in Int, NEW n \in Int,
         y \div 100 = n, (n - 15) % 4 = c % 4,
         (y % 100) \div 12 = q, (y % 100) % 12 = r
  PROVE  doomsday(y) = (Anchor(c) + q + r + r \div 4) % 7
  BY SMT DEF doomsday, Anchor

LEMMA WeekdayOfYear ==
  ASSUME NEW y \in Int
  PROVE  /\ doomsday(y) \in 0 .. 6
         /\ doomsday(y + 1) = (doomsday(y) + 1 + OneIfLeap(y + 1)) % 7
<1> DEFINE z == y + 1
           k == y \div 400
           c == (y % 400) \div 100
           e == y % 100
           q == e \div 12
           r == e % 12
           n == 4 * k + c
           c1 == c + 1
           l == OneIfLeap(z)
           a == Anchor(c1)
<1>1. /\ k \in Int /\ c \in Int /\ 0 <= c /\ c <= 3 /\ e \in Int /\ 0 <= e /\ e <= 99
      /\ y = 400 * k + 100 * c + e
  BY SMT
<1>2. /\ q \in Int /\ 0 <= q /\ q <= 8 /\ r \in Int /\ 0 <= r /\ r <= 11 /\ e = 12 * q + r
  BY <1>1, SMT
<1>3. /\ y \div 100 = n /\ y % 100 = e /\ n \in Int /\ (n - 15) % 4 = c1 % 4
      /\ c1 \in Int /\ c1 = c + 1 /\ n = 4 * k + c
  BY <1>1, SMT
<1>4. e \div 12 = q /\ e % 12 = r
  OBVIOUS
<1>5. z \in Int /\ z = y + 1
  BY SMT
<1>6. a \in 0 .. 5
  BY <1>1, SMT DEF Anchor
<1>7. l \in 0 .. 1 /\ (l = 1 <=> LeapYear(z))
  BY SMT DEF OneIfLeap
<1> HIDE DEF z, k, c, e, q, r, n, c1, l
<1>8. doomsday(y) = (a + q + r + r \div 4) % 7
  BY <1>2, <1>3, <1>4, DoomsdayByParts, SMT
<1>9. CASE e < 99 /\ r < 11
  <2> DEFINE r1 == r + 1
  <2>1. /\ z \div 100 = n /\ (z % 100) \div 12 = q /\ (z % 100) % 12 = r1 /\ r1 \in Int
    BY <1>1, <1>2, <1>3, <1>5, <1>9, SMT
  <2>2. LeapYear(z) <=> r1 % 4 = 0
    <3>1. z % 4 = r1 % 4 /\ z % 100 # 0
      BY <1>1, <1>2, <1>5, <1>9, SMT
    <3> QED BY <3>1, SMT DEF LeapYear
  <2>3. r1 \div 4 = r \div 4 + l
    BY <1>2, <1>7, <2>2, SMT
  <2>4. r1 = r + 1
    OBVIOUS
  <2> HIDE DEF r1
  <2>5. doomsday(z) = (a + q + r1 + r1 \div 4) % 7
    BY <1>2, <1>3, <2>1, DoomsdayByParts, SMT
  <2> HIDE DEF a
  <2>6. doomsday(z) = (doomsday(y) + 1 + l) % 7 /\ doomsday(y) \in 0 .. 6
    BY <1>2, <1>6, <1>7, <1>8, <2>3, <2>4, <2>5, SMT
  <2> QED BY <2>6, Zenon DEF l, z
<1>10. CASE e < 99 /\ r = 11
  <2> DEFINE q1 == q + 1
  <2>1. /\ z \div 100 = n /\ (z % 100) \div 12 = q1 /\ (z % 100) % 12 = 0 /\ q1 \in Int
        /\ q1 = q + 1
    BY <1>1, <1>2, <1>3, <1>5, <1>10, SMT
  <2>2. l = 1
    <3>1. z % 4 = 0 /\ z % 100 # 0
      BY <1>1, <1>2, <1>5, <1>10, SMT
    <3> QED BY <1>7, <3>1, SMT DEF LeapYear
  <2> HIDE DEF q1
  <2>3. 0 \in Int
    BY SMT
  <2>4. doomsday(z) = (a + q1 + 0 + 0 \div 4) % 7
    BY <1>3, <2>1, <2>3, DoomsdayByParts, SMT
  <2> HIDE DEF a
  <2>5. doomsday(z) = (doomsday(y) + 1 + l) % 7 /\ doomsday(y) \in 0 .. 6
    BY <1>2, <1>6, <1>8, <1>10, <2>1, <2>2, <2>4, SMT
  <2> QED BY <2>5, Zenon DEF l, z
<1>11. CASE e = 99
  <2> DEFINE n1 == n + 1
             c2 == c + 2
  <2>1. q = 8 /\ r = 3
    BY <1>2, <1>11, SMT
  <2>2. /\ z \div 100 = n1 /\ (z % 100) \div 12 = 0 /\ (z % 100) % 12 = 0
        /\ (n1 - 15) % 4 = c2 % 4 /\ n1 \in Int /\ c2 \in Int
    BY <1>1, <1>3, <1>5, <1>11, SMT
  <2>3. LeapYear(z) <=> c = 3
    <3>1. z % 4 = 0 /\ z % 100 = 0 /\ (z % 400 = 0 <=> c = 3)
      BY <1>1, <1>5, <1>11, SMT
    <3> QED BY <3>1, SMT DEF LeapYear
  <2>4. c2 = c + 2 /\ 0 \in Int
    BY SMT
  <2> HIDE DEF n1, c2
  <2>5. doomsday(z) = (Anchor(c2) + 0 + 0 + 0 \div 4) % 7
    BY <2>2, <2>4, DoomsdayByParts, SMT
  <2>6. doomsday(z) = Anchor(c2) % 7 /\ doomsday(y) = (a + 11) % 7
    BY <1>1, <1>6, <1>8, <2>1, <2>4, <2>5, SMT DEF Anchor
  <2>7. doomsday(z) = (doomsday(y) + 1 + l) % 7 /\ doomsday(y) \in 0 .. 6
    <3>1. CASE c = 0 BY <1>3, <1>7, <2>3, <2>4, <2>6, <3>1, SMT DEF Anchor
    <3>2. CASE c = 1 BY <1>3, <1>7, <2>3, <2>4, <2>6, <3>2, SMT DEF Anchor
    <3>3. CASE c = 2 BY <1>3, <1>7, <2>3, <2>4, <2>6, <3>3, SMT DEF Anchor
    <3>4. CASE c = 3 BY <1>3, <1>7, <2>3, <2>4, <2>6, <3>4, SMT DEF Anchor
    <3> QED BY <1>1, <3>1, <3>2, <3>3, <3>4, SMT
  <2> QED BY <2>7, Zenon DEF l, z
<1> QED BY <1>1, <1>2, <1>9, <1>10, <1>11, SMT

LEMMA WeekdayOfDay ==
  ASSUME NEW y \in Int, NEW m \in Int, 1 <= m, m <= 12, NEW d \in Int
  PROVE  /\ knownDay(Date(y, m, d)) \in 0 .. 12
         /\ set_dow(Date(y, m, d))
              = (d - knownDay(Date(y, m, d)) + doomsday(y)) % 7
         /\ set_dow(Date(y, m, d)) \in 0 .. 6
<1>1. knownDay(Date(y, m, d)) \in 0 .. 12
  BY FieldsOfDate, SMT DEF knownDay
<1>2. doomsday(y) \in 0 .. 6
  BY WeekdayOfYear, SMT
<1>3. set_dow(Date(y, m, d)) = (((d - knownDay(Date(y, m, d))) % 7) + doomsday(y)) % 7
  BY FieldsOfDate, SMT DEF set_dow
<1> QED BY <1>1, <1>2, <1>3, SMT

LEMMA WeekdaysOnEnd ==
  ASSUME NEW y, NEW m, NEW d, NEW y1, NEW m1, NEW d1, NEW s, NEW t,
         IsDayOf(s, y, m, d), IsDayOf(t, y1, m1, d1), OnEnd(y, m, d, y1, m1, d1)
  PROVE  \/ set_dow(Date(y1, m1, d1)) = (set_dow(Date(y, m, d)) + 1) % 7
         \/ d1 = 1 /\ m1 \in {1, 3} /\ is_leap(y1) # LeapYear(y1)
<1> DEFINE k == knownDay(Date(y, m, d))
           k1 == knownDay(Date(y1, m1, d1))
<1>1. /\ y \in Int /\ m \in Int /\ 1 <= m /\ m <= 12 /\ d \in Int
      /\ y1 \in Int /\ m1 \in Int /\ 1 <= m1 /\ m1 <= 12 /\ d1 \in Int
  BY Zenon DEF IsDayOf
<1>2. /\ k \in Int /\ k1 \in Int /\ doomsday(y) \in Int /\ doomsday(y1) \in Int
      /\ set_dow(Date(y, m, d)) = (d - k + doomsday(y)) % 7
      /\ set_dow(Date(y1, m1, d1)) = (d1 - k1 + doomsday(y1)) % 7
  <2>1. /\ k \in 0 .. 12 /\ k1 \in 0 .. 12
        /\ set_dow(Date(y, m, d)) = (d - k + doomsday(y)) % 7
        /\ set_dow(Date(y1, m1, d1)) = (d1 - k1 + doomsday(y1)) % 7
    BY <1>1, WeekdayOfDay, SMT
  <2>2. doomsday(y) \in 0 .. 6 /\ doomsday(y1) \in 0 .. 6
    BY <1>1, WeekdayOfYear, SMT
  <2> HIDE DEF k, k1
  <2> QED BY <2>1, <2>2, SMT
<1> SUFFICES ASSUME d1 = 1 /\ m1 \in {1, 3} => is_leap(y1) = LeapYear(y1)
             PROVE  set_dow(Date(y1, m1, d1)) = (set_dow(Date(y, m, d)) + 1) % 7
  OBVIOUS
<1>3. CASE d < MonthDays(y, m) /\ y1 = y /\ m1 = m /\ d1 = d + 1
  <2>1. k1 = k
    BY <1>3, FieldsOfDate, SMT DEF knownDay
  <2> HIDE DEF k, k1
  <2> QED BY <1>1, <1>2, <1>3, <2>1, SMT
<1>4. CASE d = MonthDays(y, m) /\ m < 12 /\ y1 = y /\ m1 = m + 1 /\ d1 = 1
  <2>1. (d + k1) % 7 = k % 7
    <3>0. /\ Date(y, m, d).year = y /\ Date(y, m, d).month = m
          /\ Date(y1, m1, d1).year = y /\ Date(y1, m1, d1).month = m + 1
      BY <1>4, FieldsOfDate, SMT
    <3>1. CASE m = 1 BY <1>4, <3>0, <3>1, SMT DEF MonthDays, knownDay
    <3>2. CASE m = 2 BY <1>4, <3>0, <3>2, SMT DEF MonthDays, knownDay
    <3>3. CASE m = 3 BY <1>4, <3>0, <3>3, SMT DEF MonthDays, knownDay
    <3>4. CASE m = 4 BY <1>4, <3>0, <3>4, SMT DEF MonthDays, knownDay
    <3>5. CASE m = 5 BY <1>4, <3>0, <3>5, SMT DEF MonthDays, knownDay
    <3>6. CASE m = 6 BY <1>4, <3>0, <3>6, SMT DEF MonthDays, knownDay
    <3>7. CASE m = 7 BY <1>4, <3>0, <3>7, SMT DEF MonthDays, knownDay
    <3>8. CASE m = 8 BY <1>4, <3>0, <3>8, SMT DEF MonthDays, knownDay
    <3>9. CASE m = 9 BY <1>4, <3>0, <3>9, SMT DEF MonthDays, knownDay
    <3>10. CASE m = 10 BY <1>4, <3>0, <3>10, SMT DEF MonthDays, knownDay
    <3>11. CASE m = 11 BY <1>4, <3>0, <3>11, SMT DEF MonthDays, knownDay
    <3> QED BY <1>1, <1>4, <3>1, <3>2, <3>3, <3>4, <3>5, <3>6, <3>7, <3>8, <3>9, <3>10, <3>11, SMT
  <2> HIDE DEF k, k1
  <2> QED BY <1>1, <1>2, <1>4, <2>1, SMT
<1>5. CASE d = MonthDays(y, m) /\ m = 12 /\ y1 = y + 1 /\ m1 = 1 /\ d1 = 1
  <2>1. d = 31 /\ k = 12 /\ k1 = 3 + OneIfLeap(y1)
    BY <1>5, FieldsOfDate, SMT DEF MonthDays, knownDay, OneIfLeap
  <2>2. doomsday(y1) = (doomsday(y) + 1 + OneIfLeap(y1)) % 7 /\ OneIfLeap(y1) \in 0 .. 1
    BY <1>1, <1>5, WeekdayOfYear, SMT DEF OneIfLeap
  <2> HIDE DEF k, k1
  <2> QED BY <1>1, <1>2, <1>5, <2>1, <2>2, SMT
<1> QED BY <1>3, <1>4, <1>5, Zenon DEF OnEnd
==============================================================================
