----------------------------- MODULE VersionJoins -----------------------------
(***************************************************************************)
(* Slowly changing dimensions (call_center, item, store, web_page and      *)
(* web_site).  Their rows are versions: ids have one, two and three of     *)
(* them in turn, so that six rows hold three ids, and setSCDKeys() divides *)
(* the calendar among the versions of an id.  A sale draws an id and joins *)
(* the version of its day: scd_join() works out, from id and day alone,    *)
(* the key of a row that another process may not have built yet.           *)
(*                                                                         *)
(* The modulus of a key says which version of its id it is; each table     *)
(* moves its dates by days of its own, which scd_join() does not.          *)
(***************************************************************************)
EXTENDS Integers

CONSTANTS
  MinimumDate, MaximumDate, (* DATA_START_DATE and DATA_END_DATE           *)
  Tables,       (* the numbers of the tables                               *)
  RowCounts,    (* the rows they may have                                  *)
  Days          (* the days sales are made on                              *)

ASSUME DatesAssumption ==
  /\ MinimumDate \in Nat /\ MaximumDate \in Nat
  /\ MinimumDate + 3 <= MaximumDate
ASSUME TablesAssumption ==
  /\ \A t \in Tables : t \in Nat /\ 6 * t < MinimumDate
  /\ RowCounts \subseteq Nat \ {0}
  /\ Days \subseteq {d \in Nat : d >= MinimumDate}

VARIABLES
  nTable,    (* the table                                                  *)
  kRowcount, (* get_rowcount(nTable)                                       *)
  built,     (* its rows built so far                                      *)
  arBKey,    (* arBKeys[nTable]: the business key of the last row          *)
  rows,      (* the rows: business key, first and last day                 *)
  sale       (* the last sale: the id drawn, the day and the key joined    *)

vars == <<nTable, kRowcount, built, arBKey, rows, sale>>

-----------------------------------------------------------------------------
(* A half and the thirds of the period.                                    *)
H1DataDate == MinimumDate + (MaximumDate - MinimumDate) \div 2
T1DataDate == MinimumDate + (MaximumDate - MinimumDate) \div 3
T2DataDate == T1DataDate + (MaximumDate - MinimumDate) \div 3

Open == -1       (* the end of a version that is still current             *)
NoRow == -1      (* a join that finds none                                 *)

(* The business key is that of the id's first row.                         *)
BusinessKey(k) ==
  IF k % 6 \in {1, 2, 4} THEN k ELSE IF k % 6 \in {3, 5} THEN k - 1 ELSE k - 2

FirstDay(k) ==
  IF k % 6 \in {1, 2, 4} THEN MinimumDate
  ELSE IF k % 6 = 3 THEN H1DataDate + 1
  ELSE IF k % 6 = 5 THEN T1DataDate + 1
  ELSE T2DataDate + 1

(* Mutant: the second of three versions ends where the second of two       *)
(* begins.                                                                 *)
LastDayHalved(k) ==
  IF k % 6 \in {2, 5} THEN H1DataDate ELSE IF k % 6 = 4 THEN T1DataDate ELSE Open

LastDay(k) ==
  IF k % 6 = 2 THEN H1DataDate
  ELSE IF k % 6 = 4 THEN T1DataDate
  ELSE IF k % 6 = 5 THEN T2DataDate
  ELSE Open

Stagger(tbl) == 6 * tbl

setSCDKeys(k, tbl) ==
  LET last == LastDay(k) - Stagger(tbl)
  IN [id    |-> BusinessKey(k),
      begin |-> FirstDay(k) - Stagger(tbl),
      end   |-> IF LastDay(k) = Open \/ last > MaximumDate THEN Open ELSE last]

(* Mutant: as if all ids had two versions.                                 *)
IDCountEven(n) == n \div 2

(* getIDCount()                                                            *)
IDCount(n) ==
  3 * (n \div 6) + IF n % 6 \in {0, 1} THEN n % 6
                    ELSE IF n % 6 \in {2, 3} THEN 2 ELSE 3

(* getFirstSK()                                                            *)
FirstSK(id) ==
  IF id % 3 = 0 THEN 6 * (id \div 3 - 1) + 4
  ELSE 6 * (id \div 3) + (id % 3)

(* The keys getSKFromID() draws from: any version of the id.               *)
SKFromID(id) ==
  FirstSK(id) .. FirstSK(id) + ((id + 2) % 3)

After(day, date) == IF day > date THEN 1 ELSE 0

(* Mutant: the version changes on the last day of the one before.          *)
NotBefore(day, date) == IF day >= date THEN 1 ELSE 0
VersionKeyEarly(id, day) ==
  6 * (id \div 3)
  + IF id % 3 = 1 THEN 1
    ELSE IF id % 3 = 2 THEN 2 + NotBefore(day, H1DataDate)
    ELSE NotBefore(day, T1DataDate) + NotBefore(day, T2DataDate) - 2

VersionKey(id, day) ==
  6 * (id \div 3)
  + IF id % 3 = 1 THEN 1
    ELSE IF id % 3 = 2 THEN 2 + After(day, H1DataDate)
    ELSE After(day, T1DataDate) + After(day, T2DataDate) - 2

(* Mutant: the end of the table is forgotten.                              *)
matchSCDSKBeyond(id, day, n) == VersionKey(id, day)

(* The version may be one the table ends before.                           *)
matchSCDSK(id, day, n) ==
  LET k == VersionKey(id, day) IN IF k > n THEN n ELSE k

scd_join(id, day, n) ==
  IF day > MaximumDate \/ matchSCDSK(id, day, n) > n
  THEN NoRow ELSE matchSCDSK(id, day, n)

-----------------------------------------------------------------------------
(* The Java port: computeScdKey(), matchSurrogateKey() and                 *)
(* generateScdJoinKey(), which looks at the period before the id is drawn. *)
(* Tables have the same numbers, the order of enum Table.                  *)
computeScdKey(k, table) ==
  LET new == k % 6 \in {1, 2, 4}
      second == k % 6 \in {3, 5}
      moved(date) == date - table * 6
      end == IF k % 6 = 2 THEN moved(H1DataDate)
             ELSE IF k % 6 = 4 THEN moved(T1DataDate)
             ELSE IF k % 6 = 5 THEN moved(T2DataDate)
             ELSE Open
  IN [id |-> IF new THEN k ELSE IF second THEN k - 1 ELSE k - 2,
      begin |-> IF new THEN moved(MinimumDate)
                ELSE IF k % 6 = 3 THEN moved(H1DataDate) + 1
                ELSE IF k % 6 = 5 THEN moved(T1DataDate) + 1
                ELSE moved(T2DataDate) + 1,
      end |-> IF end > MaximumDate THEN Open ELSE end]

(* Mutant: the first of three versions is taken for the third.             *)
matchSurrogateKeyShifted(unique, day, n) ==
  LET k == 6 * (unique \div 3)
           + IF unique % 3 = 1 THEN 1
             ELSE IF unique % 3 = 2 THEN 2 + After(day, H1DataDate)
             ELSE After(day, T1DataDate) + After(day, T2DataDate)
  IN IF k > n THEN n ELSE k

matchSurrogateKey(unique, day, n) ==
  LET k == 6 * (unique \div 3)
           + IF unique % 3 = 1 THEN 1
             ELSE IF unique % 3 = 2 THEN 2 + After(day, H1DataDate)
             ELSE After(day, T1DataDate) + After(day, T2DataDate) - 2
  IN IF k > n THEN n ELSE k

generateScdJoinKey(unique, day, n) ==
  IF day > MaximumDate THEN NoRow ELSE matchSurrogateKey(unique, day, n)

-----------------------------------------------------------------------------
NoSale == [id |-> 0, day |-> 0, key |-> NoRow]

Init ==
  /\ nTable \in Tables
  /\ kRowcount \in RowCounts
  /\ built = 0
  /\ arBKey = 0
  /\ rows = <<>>
  /\ sale = NoSale

(* The builder of the table comes to its next row.  The key of the id is   *)
(* kept from row to row.                                                   *)
BuildRow ==
  /\ built < kRowcount
  /\ built' = built + 1
  /\ arBKey' = setSCDKeys(built', nTable).id
  /\ rows' = [k \in 1 .. built' |->
                IF k < built' THEN rows[k]
                ELSE [setSCDKeys(built', nTable) EXCEPT !.id = arBKey']]
  /\ UNCHANGED <<nTable, kRowcount, sale>>

(* A builder of sales, in this process or in another, joins a row.         *)
Sell ==
  /\ \E id \in 1 .. IDCount(kRowcount), day \in Days :
       sale' = [id |-> id, day |-> day, key |-> scd_join(id, day, kRowcount)]
  /\ UNCHANGED <<nTable, kRowcount, built, arBKey, rows>>

Next == BuildRow \/ Sell

Spec == Init /\ [][Next]_vars

-----------------------------------------------------------------------------
(***************************************************************************)
(* Properties.                                                             *)
(***************************************************************************)

(* The variables keep their types.                                         *)
TypeOK ==
  /\ nTable \in Tables
  /\ kRowcount \in RowCounts
  /\ built \in 0 .. kRowcount
  /\ arBKey \in 0 .. kRowcount
  /\ rows \in [1 .. built -> [id : 1 .. kRowcount, begin : Int, end : Int]]
  /\ sale \in [id : 0 .. kRowcount, day : Nat, key : 1 .. kRowcount \cup {NoRow}]

(* The versions of an id share out the time: the next row is of the same   *)
(* id if and only if this one has a last day, and it begins the day after. *)
VersionsTile ==
  \A k \in 1 .. built - 1 :
    /\ (rows[k].end # Open) <=> (rows[k + 1].id = rows[k].id)
    /\ rows[k].end # Open => /\ rows[k].begin <= rows[k].end
                             /\ rows[k + 1].begin = rows[k].end + 1

(* No sale within the period is left without a row, and the row it joins   *)
(* is of the id that was drawn, also when the table ends within an id.     *)
JoinKeepsId ==
  /\ sale.id > 0 /\ sale.day <= MaximumDate => sale.key # NoRow
  /\ sale.key \in 1 .. built => rows[sale.key].id = FirstSK(sale.id)

Valid(row, day) == row.begin <= day /\ (row.end = Open \/ day <= row.end)

(* A sale joins the version that was valid as many days ago as the table's *)
(* dates are moved by, or the last there is; never one that is to come.    *)
JoinNearlyValid ==
  sale.key \in 1 .. built =>
    LET ago == sale.day - Stagger(nTable) IN
    \/ Valid(rows[sale.key], ago)
    \/ sale.key = kRowcount /\ rows[sale.key].begin <= ago

(* Every id that can be drawn has its first row in the table, and every    *)
(* row is of such an id.                                                   *)
IdsAreRows ==
  /\ \A id \in 1 .. IDCount(kRowcount) :
       FirstSK(id) <= kRowcount /\ BusinessKey(FirstSK(id)) = FirstSK(id)
  /\ \A k \in 1 .. built :
       \E id \in 1 .. IDCount(kRowcount) : rows[k].id = FirstSK(id) /\ k \in SKFromID(id)

(* The Java port builds the same rows and joins the same ones.             *)
PortJoinsSame ==
  /\ \A k \in 1 .. built : rows[k] = computeScdKey(k, nTable)
  /\ sale.id > 0 => sale.key = generateScdJoinKey(sale.id, sale.day, kRowcount)
==============================================================================
