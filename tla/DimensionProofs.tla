---------------------------- MODULE DimensionProofs ----------------------------
(***************************************************************************)
(* The two dimensions whose rows are made of dates.                        *)
(*                                                                         *)
(* The versions of slowly changing dimensions, for any period, any tables  *)
(* and any numbers of rows: the variables keep their types, the versions   *)
(* of an id share out the time, and a sale joins a row of the id it drew,  *)
(* of a version as old as the table's dates are moved by, and never of one *)
(* that is to come.                                                        *)
(*                                                                         *)
(* The date dimension, for any number of rows: they follow the calendar,   *)
(* refer back to days of it, show no flag of an earlier row, and are those *)
(* of the Java port.                                                       *)
(***************************************************************************)
EXTENDS VersionJoins, JavaDates, ArithmeticProofs

-----------------------------------------------------------------------------
(***************************************************************************)
(* Slowly changing dimensions.                                             *)
(***************************************************************************)
(* The remainders of keys and ids.                                         *)
LEMMA KeyParts ==
  ASSUME NEW k \in Nat
  PROVE  /\ k \div 6 \in Nat
         /\ k % 6 \in 0 .. 5
         /\ k = 6 * (k \div 6) + (k % 6)
  OBVIOUS

LEMMA IdParts ==
  ASSUME NEW id \in Nat
  PROVE  /\ id \div 3 \in Nat
         /\ id % 3 \in 0 .. 2
         /\ id = 3 * (id \div 3) + (id % 3)
  OBVIOUS

(* A period of three days or more has a half and thirds in order.          *)
LEMMA PeriodParts ==
  /\ MinimumDate \in Nat /\ MaximumDate \in Nat
  /\ H1DataDate \in Nat /\ T1DataDate \in Nat /\ T2DataDate \in Nat
  /\ MinimumDate < H1DataDate /\ H1DataDate < MaximumDate
  /\ MinimumDate < T1DataDate /\ T1DataDate < T2DataDate
  /\ T2DataDate <= MaximumDate
  BY DatesAssumption DEF H1DataDate, T1DataDate, T2DataDate

(* A row's business key is that of its id's first row; a version that is   *)
(* not the last of its id is followed by the next.                         *)
LEMMA Versions ==
  ASSUME NEW k \in Nat \ {0}
  PROVE  /\ BusinessKey(k) \in 1 .. k
         /\ FirstDay(k) \in Nat /\ LastDay(k) \in Int
         /\ MinimumDate <= FirstDay(k)
         /\ LastDay(k) # Open =>
              /\ FirstDay(k) <= LastDay(k) /\ LastDay(k) <= MaximumDate
              /\ MinimumDate <= LastDay(k)
              /\ BusinessKey(k + 1) = BusinessKey(k)
              /\ FirstDay(k + 1) = LastDay(k) + 1
         /\ LastDay(k) = Open => BusinessKey(k + 1) # BusinessKey(k)
<1>1. /\ k % 6 \in 0 .. 5
      /\ (k + 1) % 6 = IF k % 6 = 5 THEN 0 ELSE (k % 6) + 1
      /\ k >= k % 6
      /\ k % 6 = 0 => k >= 6
  OBVIOUS
<1> DEFINE m == k % 6
           m1 == (k + 1) % 6
<1>2. CASE m = 0 BY <1>1, <1>2, PeriodParts DEF BusinessKey, FirstDay, LastDay, Open
<1>3. CASE m = 1 BY <1>1, <1>3, PeriodParts DEF BusinessKey, FirstDay, LastDay, Open
<1>4. CASE m = 2 BY <1>1, <1>4, PeriodParts DEF BusinessKey, FirstDay, LastDay, Open
<1>5. CASE m = 3 BY <1>1, <1>5, PeriodParts DEF BusinessKey, FirstDay, LastDay, Open
<1>6. CASE m = 4 BY <1>1, <1>6, PeriodParts DEF BusinessKey, FirstDay, LastDay, Open
<1>7. CASE m = 5 BY <1>1, <1>7, PeriodParts DEF BusinessKey, FirstDay, LastDay, Open
<1> QED BY <1>1, <1>2, <1>3, <1>4, <1>5, <1>6, <1>7

(* What a table makes of it: its dates are moved, and no last day is lost, *)
(* since none is after the period or before day 0.                         *)
LEMMA MovedVersions ==
  ASSUME NEW k \in Nat \ {0}, NEW t \in Tables
  PROVE  /\ Stagger(t) \in Nat
         /\ setSCDKeys(k, t) =
              [id |-> BusinessKey(k), begin |-> FirstDay(k) - Stagger(t),
               end |-> IF LastDay(k) = Open THEN Open ELSE LastDay(k) - Stagger(t)]
         /\ setSCDKeys(k, t).end = Open <=> LastDay(k) = Open
<1>1. Stagger(t) \in Nat /\ Stagger(t) < MinimumDate
  BY TablesAssumption DEF Stagger
<1>2. LastDay(k) # Open => /\ MinimumDate <= LastDay(k)
                           /\ LastDay(k) <= MaximumDate
  BY Versions
<1>3. LastDay(k) \in Int BY Versions
<1>4. LastDay(k) # Open => /\ ~(LastDay(k) - Stagger(t) > MaximumDate)
                           /\ LastDay(k) - Stagger(t) # Open
  BY <1>1, <1>2, <1>3, PeriodParts DEF Open
<1>5. setSCDKeys(k, t) =
        [id |-> BusinessKey(k), begin |-> FirstDay(k) - Stagger(t),
         end |-> IF LastDay(k) = Open THEN Open ELSE LastDay(k) - Stagger(t)]
  BY <1>4 DEF setSCDKeys
<1>6. setSCDKeys(k, t).end
        = IF LastDay(k) = Open THEN Open ELSE LastDay(k) - Stagger(t)
  BY <1>5
<1> QED BY <1>1, <1>4, <1>5, <1>6

(* The first row of every id that can be drawn is in the table.            *)
LEMMA FirstRows ==
  ASSUME NEW n \in Nat \ {0}, NEW id \in 1 .. IDCount(n)
  PROVE  /\ FirstSK(id) \in 1 .. n
         /\ IDCount(n) \in 1 .. n
         /\ BusinessKey(FirstSK(id)) = FirstSK(id)
<1>1. n % 6 \in 0 .. 5 /\ n \div 6 \in Nat /\ n = 6 * (n \div 6) + (n % 6)
  BY KeyParts
<1>2. IDCount(n) \in 1 .. n
  BY <1>1 DEF IDCount
<1>3. id \in Nat /\ id % 3 \in 0 .. 2 /\ id \div 3 \in Nat
      /\ id = 3 * (id \div 3) + (id % 3)
  BY <1>2, IdParts
<1>4. FirstSK(id) \in 1 .. n
  BY <1>1, <1>3 DEF FirstSK, IDCount
<1>5. FirstSK(id) % 6 \in {1, 2, 4}
  BY <1>2, <1>3 DEF FirstSK
<1> QED BY <1>2, <1>4, <1>5 DEF BusinessKey

(* The version a day is given is one of the id's, and began by that day;   *)
(* if it has a last day, that is still to come.                            *)
LEMMA VersionOfDay ==
  ASSUME NEW id \in Nat \ {0}, NEW day \in Nat, day >= MinimumDate
  PROVE  /\ VersionKey(id, day) \in Nat \ {0}
         /\ FirstSK(id) <= VersionKey(id, day)
         /\ BusinessKey(VersionKey(id, day)) = FirstSK(id)
         /\ FirstDay(VersionKey(id, day)) <= day
         /\ LastDay(VersionKey(id, day)) # Open =>
              day <= LastDay(VersionKey(id, day))
<1> DEFINE q == id \div 3
           k == VersionKey(id, day)
<1>1. id % 3 \in 0 .. 2 /\ q \in Nat /\ id = 3 * q + (id % 3)
  BY IdParts
<1>2. CASE id % 3 = 1
  <2>1. k = 6 * q + 1 /\ FirstSK(id) = k
    BY <1>2 DEF VersionKey, FirstSK
  <2>2. k % 6 = 1 BY <1>1, <2>1
  <2> QED BY <1>1, <2>1, <2>2, PeriodParts DEF BusinessKey, FirstDay, LastDay, Open
<1>3. CASE id % 3 = 2
  <2>1. FirstSK(id) = 6 * q + 2
    BY <1>3 DEF FirstSK
  <2>2. CASE day > H1DataDate
    <3>1. k = 6 * q + 3 BY <1>1, <1>3, <2>2 DEF VersionKey, After
    <3>2. k % 6 = 3 BY <1>1, <3>1
    <3> QED BY <1>1, <2>1, <2>2, <3>1, <3>2, PeriodParts
            DEF BusinessKey, FirstDay, LastDay, Open
  <2>3. CASE ~(day > H1DataDate)
    <3>1. k = 6 * q + 2 BY <1>1, <1>3, <2>3 DEF VersionKey, After
    <3>2. k % 6 = 2 BY <1>1, <3>1
    <3> QED BY <1>1, <2>1, <2>3, <3>1, <3>2, PeriodParts
            DEF BusinessKey, FirstDay, LastDay, Open
  <2> QED BY <2>2, <2>3
<1>4. CASE id % 3 = 0
  <2>1. FirstSK(id) = 6 * (q - 1) + 4 /\ q >= 1
    BY <1>1, <1>4 DEF FirstSK
  <2>2. CASE day > T2DataDate
    <3>1. k = 6 * (q - 1) + 6
      BY <1>1, <1>4, <2>2, PeriodParts DEF VersionKey, After
    <3>2. k % 6 = 0 BY <1>1, <2>1, <3>1
    <3> QED BY <1>1, <2>1, <2>2, <3>1, <3>2, PeriodParts
            DEF BusinessKey, FirstDay, LastDay, Open
  <2>3. CASE day > T1DataDate /\ ~(day > T2DataDate)
    <3>1. k = 6 * (q - 1) + 5
      BY <1>1, <1>4, <2>3, PeriodParts DEF VersionKey, After
    <3>2. k % 6 = 5 BY <1>1, <2>1, <3>1
    <3> QED BY <1>1, <2>1, <2>3, <3>1, <3>2, PeriodParts
            DEF BusinessKey, FirstDay, LastDay, Open
  <2>4. CASE ~(day > T1DataDate)
    <3>1. k = 6 * (q - 1) + 4
      BY <1>1, <1>4, <2>4, PeriodParts DEF VersionKey, After
    <3>2. k % 6 = 4 BY <1>1, <2>1, <3>1
    <3> QED BY <1>1, <2>1, <2>4, <3>1, <3>2, PeriodParts
            DEF BusinessKey, FirstDay, LastDay, Open
  <2> QED BY <2>2, <2>3, <2>4
<1> QED BY <1>1, <1>2, <1>3, <1>4

(* The rows between the first of an id and another of its rows are its own *)
(* and began no later than that.                                           *)
LEMMA RowsBetween ==
  ASSUME NEW k \in Nat \ {0}, NEW n \in Nat \ {0},
         BusinessKey(k) <= n, n <= k
  PROVE  BusinessKey(n) = BusinessKey(k) /\ FirstDay(n) <= FirstDay(k)
<1>1. k % 6 \in 0 .. 5 /\ (k % 6 = 0 => k >= 6)
  OBVIOUS
<1>2. /\ k % 6 \in {3, 5} => (k - 1) % 6 = (k % 6) - 1
      /\ k % 6 = 0 => (k - 1) % 6 = 5 /\ (k - 2) % 6 = 4
  BY <1>1
<1>3. CASE k % 6 \in {1, 2, 4}
  BY <1>3, PeriodParts DEF BusinessKey, FirstDay
<1>4. CASE k % 6 \in {3, 5}
  <2>1. n = k \/ n = k - 1 BY <1>4 DEF BusinessKey
  <2> QED BY <1>2, <1>4, <2>1, PeriodParts DEF BusinessKey, FirstDay
<1>5. CASE k % 6 = 0
  <2>1. n = k \/ n = k - 1 \/ n = k - 2 BY <1>5 DEF BusinessKey
  <2> QED BY <1>2, <1>5, <2>1, PeriodParts DEF BusinessKey, FirstDay
<1> QED BY <1>1, <1>3, <1>4, <1>5

(* What a join comes to: a row of the id, begun by that day, and either    *)
(* still valid on it or the last of the table.                             *)
LEMMA Joined ==
  ASSUME NEW n \in Nat \ {0}, NEW id \in 1 .. IDCount(n),
         NEW day \in Nat, day >= MinimumDate
  PROVE  LET k == scd_join(id, day, n) IN
         /\ k = NoRow <=> day > MaximumDate
         /\ k # NoRow =>
              /\ k \in 1 .. n
              /\ BusinessKey(k) = FirstSK(id)
              /\ FirstDay(k) <= day
              /\ k = n \/ LastDay(k) = Open \/ day <= LastDay(k)
<1> DEFINE v == VersionKey(id, day)
           k == matchSCDSK(id, day, n)
<1>1. id \in Nat \ {0} /\ FirstSK(id) \in 1 .. n
  BY FirstRows
<1>2. /\ v \in Nat \ {0} /\ FirstSK(id) <= v /\ BusinessKey(v) = FirstSK(id)
      /\ FirstDay(v) <= day
      /\ LastDay(v) # Open => day <= LastDay(v)
  BY <1>1, VersionOfDay
<1>3. k = IF v > n THEN n ELSE v
  BY DEF matchSCDSK
<1>4. k \in 1 .. n
  BY <1>2, <1>3
<1>5. BusinessKey(k) = FirstSK(id) /\ FirstDay(k) <= day
  <2>1. CASE v > n
    <3>1. BusinessKey(n) = BusinessKey(v) /\ FirstDay(n) <= FirstDay(v)
      BY <1>1, <1>2, <2>1, RowsBetween
    <3>2. FirstDay(n) \in Nat /\ FirstDay(v) \in Nat
      BY <1>2, Versions
    <3> QED BY <1>2, <1>3, <2>1, <3>1, <3>2
  <2>2. CASE ~(v > n) BY <1>2, <1>3, <2>2
  <2> QED BY <2>1, <2>2
<1>6. k = n \/ LastDay(k) = Open \/ day <= LastDay(k)
  BY <1>2, <1>3
<1>7. scd_join(id, day, n) = IF day > MaximumDate THEN NoRow ELSE k
  BY <1>4 DEF scd_join
<1> HIDE DEF k
<1> QED BY <1>4, <1>5, <1>6, <1>7, PeriodParts DEF NoRow

-----------------------------------------------------------------------------
(* The rows are those of their keys, and the sale is a join of an id the   *)
(* table has.  The types alone say nothing of what is in a row.            *)
RowsAreKeyed == rows = [k \in 1 .. built |-> setSCDKeys(k, nTable)]

SaleIsJoin ==
  \/ sale = NoSale
  \/ \E id \in 1 .. IDCount(kRowcount), day \in Days :
       sale = [id |-> id, day |-> day, key |-> scd_join(id, day, kRowcount)]

IInv == TypeOK /\ RowsAreKeyed /\ SaleIsJoin

LEMMA RowTypes ==
  ASSUME NEW n \in Nat \ {0}, NEW k \in 1 .. n, NEW t \in Tables
  PROVE  setSCDKeys(k, t) \in [id : 1 .. n, begin : Int, end : Int]
<1>1. /\ BusinessKey(k) \in 1 .. n /\ FirstDay(k) \in Int /\ LastDay(k) \in Int
      /\ k \in Nat \ {0}
  BY Versions
<1>2. Stagger(t) \in Nat
  BY <1>1, MovedVersions
<1>3. setSCDKeys(k, t) =
        [id |-> BusinessKey(k), begin |-> FirstDay(k) - Stagger(t),
         end |-> IF LastDay(k) = Open THEN Open ELSE LastDay(k) - Stagger(t)]
  BY <1>1, MovedVersions
<1>4. (IF LastDay(k) = Open THEN Open ELSE LastDay(k) - Stagger(t)) \in Int
  BY <1>1, <1>2 DEF Open
<1> QED BY <1>1, <1>2, <1>3, <1>4

LEMMA InitInv == Init => IInv
<1> SUFFICES ASSUME Init PROVE IInv OBVIOUS
<1>1. kRowcount \in Nat \ {0} BY TablesAssumption DEF Init
<1>2. TypeOK BY <1>1 DEF Init, TypeOK, NoSale, NoRow
<1>3. RowsAreKeyed BY DEF Init, RowsAreKeyed
<1> QED BY <1>2, <1>3 DEF Init, IInv, SaleIsJoin

LEMMA NextInv == IInv /\ [Next]_vars => IInv'
<1> SUFFICES ASSUME IInv, [Next]_vars PROVE IInv' OBVIOUS
<1>0. /\ TypeOK /\ RowsAreKeyed /\ SaleIsJoin
      /\ kRowcount \in Nat \ {0} /\ nTable \in Tables /\ built \in Nat
  BY TablesAssumption DEF IInv, TypeOK
<1>1. CASE BuildRow
  <2> DEFINE k == built + 1
  <2>1. /\ built' = k /\ k \in 1 .. kRowcount
        /\ arBKey' = setSCDKeys(k, nTable).id
        /\ UNCHANGED <<nTable, kRowcount, sale>>
    BY <1>0, <1>1 DEF BuildRow, TypeOK
  <2>2. setSCDKeys(k, nTable) \in [id : 1 .. kRowcount, begin : Int, end : Int]
    BY <1>0, <2>1, RowTypes
  <2>3. [setSCDKeys(k, nTable) EXCEPT !.id = arBKey'] = setSCDKeys(k, nTable)
    BY <2>1, <2>2
  <2>4. rows' = [j \in 1 .. k |-> setSCDKeys(j, nTable)]
    BY <1>0, <1>1, <2>1, <2>3 DEF BuildRow, RowsAreKeyed
  <2>5. \A j \in 1 .. k :
          setSCDKeys(j, nTable) \in [id : 1 .. kRowcount, begin : Int, end : Int]
    BY <1>0, <2>1, RowTypes
  <2>6. rows' \in [1 .. k -> [id : 1 .. kRowcount, begin : Int, end : Int]]
    BY <2>4, <2>5
  <2>7. arBKey' \in 0 .. kRowcount
    BY <2>1, <2>2
  <2>8. TypeOK'
    BY <1>0, <2>1, <2>6, <2>7 DEF TypeOK
  <2>9. RowsAreKeyed' BY <2>1, <2>4 DEF RowsAreKeyed
  <2>10. SaleIsJoin' BY <1>0, <2>1 DEF SaleIsJoin
  <2> QED BY <2>8, <2>9, <2>10 DEF IInv
<1>2. CASE Sell
  <2>1. UNCHANGED <<nTable, kRowcount, built, arBKey, rows>>
    BY <1>2 DEF Sell
  <2>2. PICK id \in 1 .. IDCount(kRowcount), day \in Days :
          sale' = [id |-> id, day |-> day, key |-> scd_join(id, day, kRowcount)]
    BY <1>2 DEF Sell
  <2>3. day \in Nat /\ day >= MinimumDate
    BY TablesAssumption
  <2>4. scd_join(id, day, kRowcount) \in 1 .. kRowcount \cup {NoRow}
    BY <1>0, <2>3, Joined
  <2>5. id \in 0 .. kRowcount
    BY <1>0, FirstRows
  <2>6. TypeOK'
    BY <1>0, <2>1, <2>2, <2>3, <2>4, <2>5 DEF TypeOK
  <2>7. RowsAreKeyed' BY <1>0, <2>1 DEF RowsAreKeyed
  <2>8. SaleIsJoin' BY <2>1, <2>2 DEF SaleIsJoin
  <2> QED BY <2>6, <2>7, <2>8 DEF IInv
<1>3. CASE UNCHANGED vars
  BY <1>0, <1>3 DEF vars, IInv, TypeOK, RowsAreKeyed, SaleIsJoin
<1> QED BY <1>1, <1>2, <1>3 DEF Next

LEMMA Invariant == Spec => []IInv
  BY InitInv, NextInv, PTL DEF Spec

(* The variables keep their types.                                         *)
THEOREM TypeCorrect == Spec => []TypeOK
<1>1. IInv => TypeOK BY DEF IInv
<1> QED BY <1>1, Invariant, PTL

(* The versions of an id share out the time, in every table: setSCDKeys()  *)
(* leaves no day without a version and no day with two.                    *)
THEOREM Tiled == Spec => []VersionsTile
<1>1. IInv => VersionsTile
  <2> SUFFICES ASSUME IInv, NEW k \in 1 .. built - 1
               PROVE  /\ (rows[k].end # Open) <=> (rows[k + 1].id = rows[k].id)
                      /\ rows[k].end # Open =>
                           /\ rows[k].begin <= rows[k].end
                           /\ rows[k + 1].begin = rows[k].end + 1
    BY DEF VersionsTile
  <2>1. built \in Nat /\ nTable \in Tables
    BY TablesAssumption DEF IInv, TypeOK
  <2>2. k \in Nat \ {0} /\ k + 1 \in Nat \ {0}
        /\ k \in 1 .. built /\ k + 1 \in 1 .. built
    BY <2>1
  <2>3. rows[k] = setSCDKeys(k, nTable) /\ rows[k + 1] = setSCDKeys(k + 1, nTable)
    BY <2>2 DEF IInv, RowsAreKeyed
  <2>4. /\ Stagger(nTable) \in Nat
        /\ rows[k] = [id |-> BusinessKey(k), begin |-> FirstDay(k) - Stagger(nTable),
                      end |-> IF LastDay(k) = Open THEN Open
                              ELSE LastDay(k) - Stagger(nTable)]
        /\ rows[k].end = Open <=> LastDay(k) = Open
        /\ rows[k + 1].id = BusinessKey(k + 1)
        /\ rows[k + 1].begin = FirstDay(k + 1) - Stagger(nTable)
    BY <2>1, <2>2, <2>3, MovedVersions
  <2>5. /\ BusinessKey(k) \in 1 .. k
        /\ FirstDay(k) \in Nat /\ FirstDay(k + 1) \in Nat /\ LastDay(k) \in Int
        /\ LastDay(k) # Open =>
             /\ FirstDay(k) <= LastDay(k)
             /\ BusinessKey(k + 1) = BusinessKey(k)
             /\ FirstDay(k + 1) = LastDay(k) + 1
        /\ LastDay(k) = Open => BusinessKey(k + 1) # BusinessKey(k)
    BY <2>2, Versions
  <2> QED BY <2>4, <2>5
<1> QED BY <1>1, Invariant, PTL

LEMMA SaleKnown ==
  ASSUME IInv, sale # NoSale
  PROVE  /\ nTable \in Tables /\ kRowcount \in Nat \ {0} /\ built \in Nat
         /\ sale.id \in 1 .. IDCount(kRowcount)
         /\ sale.day \in Nat /\ sale.day >= MinimumDate
         /\ sale.key = scd_join(sale.id, sale.day, kRowcount)
<1>1. PICK id \in 1 .. IDCount(kRowcount), day \in Days :
        sale = [id |-> id, day |-> day, key |-> scd_join(id, day, kRowcount)]
  BY DEF IInv, SaleIsJoin
<1>2. day \in Nat /\ day >= MinimumDate
  BY TablesAssumption
<1> QED BY <1>1, <1>2, TablesAssumption DEF IInv, TypeOK

(* A sale within the period joins a row, and a row of the id it drew, also *)
(* where the table ends between the versions of an id.                     *)
THEOREM JoinsKeepId == Spec => []JoinKeepsId
<1>1. IInv => JoinKeepsId
  <2> SUFFICES ASSUME IInv PROVE JoinKeepsId OBVIOUS
  <2>1. CASE sale = NoSale
    BY <2>1 DEF JoinKeepsId, NoSale, NoRow
  <2>2. CASE sale # NoSale
    <3>1. /\ nTable \in Tables /\ kRowcount \in Nat \ {0} /\ built \in Nat
          /\ sale.id \in 1 .. IDCount(kRowcount)
          /\ sale.day \in Nat /\ sale.day >= MinimumDate
          /\ sale.key = scd_join(sale.id, sale.day, kRowcount)
      BY <2>2, SaleKnown
    <3>2. /\ sale.key = NoRow <=> sale.day > MaximumDate
          /\ sale.key # NoRow => BusinessKey(sale.key) = FirstSK(sale.id)
      BY <3>1, Joined
    <3>3. ASSUME sale.key \in 1 .. built
          PROVE  rows[sale.key].id = BusinessKey(sale.key)
      <4>1. sale.key \in Nat \ {0} BY <3>1, <3>3
      <4>2. rows[sale.key] = setSCDKeys(sale.key, nTable)
        BY <3>3 DEF IInv, RowsAreKeyed
      <4> QED BY <3>1, <4>1, <4>2, MovedVersions
    <3>4. sale.key \in 1 .. built => sale.key # NoRow
      BY <3>1 DEF NoRow
    <3>5. sale.day <= MaximumDate <=> ~(sale.day > MaximumDate)
      BY <3>1, DatesAssumption
    <3> QED BY <3>2, <3>3, <3>4, <3>5 DEF JoinKeepsId
  <2> QED BY <2>1, <2>2
<1> QED BY <1>1, Invariant, PTL

(* And the version it joins is the one that was valid as long before the   *)
(* sale as the table's dates are moved by, or the last the table has.      *)
THEOREM JoinsNearlyValid == Spec => []JoinNearlyValid
<1>1. IInv => JoinNearlyValid
  <2> SUFFICES ASSUME IInv, sale.key \in 1 .. built
               PROVE  \/ Valid(rows[sale.key], sale.day - Stagger(nTable))
                      \/ /\ sale.key = kRowcount
                         /\ rows[sale.key].begin <= sale.day - Stagger(nTable)
    BY DEF JoinNearlyValid
  <2> DEFINE k == sale.key
  <2>0. sale # NoSale
    BY DEF NoSale, NoRow, IInv, TypeOK
  <2>1. /\ nTable \in Tables /\ kRowcount \in Nat \ {0} /\ built \in Nat
        /\ sale.id \in 1 .. IDCount(kRowcount)
        /\ sale.day \in Nat /\ sale.day >= MinimumDate
        /\ k = scd_join(sale.id, sale.day, kRowcount)
    BY <2>0, SaleKnown
  <2>2. k \in Nat \ {0} /\ k # NoRow
    BY <2>1 DEF NoRow
  <2>3. FirstDay(k) <= sale.day
        /\ (k = kRowcount \/ LastDay(k) = Open \/ sale.day <= LastDay(k))
    BY <2>1, <2>2, Joined
  <2>4. rows[k] = setSCDKeys(k, nTable)
    BY DEF IInv, RowsAreKeyed
  <2>5. /\ Stagger(nTable) \in Nat
        /\ rows[k].begin = FirstDay(k) - Stagger(nTable)
        /\ rows[k].end = IF LastDay(k) = Open THEN Open
                         ELSE LastDay(k) - Stagger(nTable)
    BY <2>1, <2>2, <2>4, MovedVersions
  <2>6. FirstDay(k) \in Nat /\ LastDay(k) \in Int
    BY <2>2, Versions
  <2>7. rows[k].begin <= sale.day - Stagger(nTable)
    BY <2>1, <2>3, <2>5, <2>6
  <2>8. LastDay(k) = Open \/ sale.day <= LastDay(k)
          => rows[k].end = Open \/ sale.day - Stagger(nTable) <= rows[k].end
    BY <2>1, <2>5, <2>6
  <2> QED BY <2>3, <2>7, <2>8 DEF Valid
<1> QED BY <1>1, Invariant, PTL

(* The id of a row.                                                        *)
IdOf(k) ==
  3 * (k \div 6) + IF k % 6 \in {0, 1} THEN k % 6
                   ELSE IF k % 6 \in {2, 3} THEN 2 ELSE 3

LEMMA RowHasId ==
  ASSUME NEW n \in Nat \ {0}, NEW k \in 1 .. n
  PROVE  /\ IdOf(k) \in 1 .. IDCount(n)
         /\ BusinessKey(k) = FirstSK(IdOf(k))
         /\ k \in SKFromID(IdOf(k))
<1> DEFINE q == k \div 6
           id == IdOf(k)
<1>1. q \in Nat /\ k % 6 \in 0 .. 5 /\ k = 6 * q + (k % 6)
  BY KeyParts
<1>2. n \div 6 \in Nat /\ n % 6 \in 0 .. 5 /\ n = 6 * (n \div 6) + (n % 6)
  BY KeyParts
<1>3. q <= n \div 6 /\ (q = n \div 6 => k % 6 <= n % 6)
  BY <1>1, <1>2
<1>4. id \in 1 .. IDCount(n)
  BY <1>1, <1>2, <1>3 DEF IdOf, IDCount
<1>5. CASE k % 6 = 0
  <2>1. id = 3 * q BY <1>1, <1>5 DEF IdOf
  <2>2. id % 3 = 0 /\ id \div 3 = q /\ (id + 2) % 3 = 2 BY <1>1, <2>1
  <2> QED BY <1>1, <1>4, <1>5, <2>1, <2>2 DEF BusinessKey, FirstSK, SKFromID
<1>6. CASE k % 6 = 1
  <2>1. id = 3 * q + 1 BY <1>1, <1>6 DEF IdOf
  <2>2. id % 3 = 1 /\ id \div 3 = q /\ (id + 2) % 3 = 0 BY <1>1, <2>1
  <2> QED BY <1>1, <1>4, <1>6, <2>1, <2>2 DEF BusinessKey, FirstSK, SKFromID
<1>7. CASE k % 6 \in {2, 3}
  <2>1. id = 3 * q + 2 BY <1>1, <1>7 DEF IdOf
  <2>2. id % 3 = 2 /\ id \div 3 = q /\ (id + 2) % 3 = 1 BY <1>1, <2>1
  <2> QED BY <1>1, <1>4, <1>7, <2>1, <2>2 DEF BusinessKey, FirstSK, SKFromID
<1>8. CASE k % 6 \in {4, 5}
  <2>1. id = 3 * q + 3 BY <1>1, <1>8 DEF IdOf
  <2>2. id % 3 = 0 /\ id \div 3 = q + 1 /\ (id + 2) % 3 = 2 BY <1>1, <2>1
  <2> QED BY <1>1, <1>4, <1>8, <2>1, <2>2 DEF BusinessKey, FirstSK, SKFromID
<1> QED BY <1>1, <1>4, <1>5, <1>6, <1>7, <1>8

(* getIDCount() counts the ids that have a row: an id that is drawn has    *)
(* its first row in the table, and every row is of an id that can be drawn.*)
THEOREM IdsMatchRows == Spec => []IdsAreRows
<1>1. IInv => IdsAreRows
  <2> SUFFICES ASSUME IInv PROVE IdsAreRows OBVIOUS
  <2>1. /\ kRowcount \in Nat \ {0} /\ nTable \in Tables /\ built \in 0 .. kRowcount
        /\ built \in Nat
    BY TablesAssumption DEF IInv, TypeOK
  <2>2. \A id \in 1 .. IDCount(kRowcount) :
          FirstSK(id) <= kRowcount /\ BusinessKey(FirstSK(id)) = FirstSK(id)
    BY <2>1, FirstRows
  <2>3. ASSUME NEW k \in 1 .. built
        PROVE  \E id \in 1 .. IDCount(kRowcount) :
                 rows[k].id = FirstSK(id) /\ k \in SKFromID(id)
    <3>1. k \in 1 .. kRowcount /\ k \in Nat \ {0} BY <2>1
    <3>2. rows[k] = setSCDKeys(k, nTable) BY DEF IInv, RowsAreKeyed
    <3>3. rows[k].id = BusinessKey(k) BY <2>1, <3>1, <3>2, MovedVersions
    <3> QED BY <2>1, <3>1, <3>3, RowHasId
  <2> QED BY <2>2, <2>3 DEF IdsAreRows
<1> QED BY <1>1, Invariant, PTL

-----------------------------------------------------------------------------
(* The port writes the same rows, though it moves a date before it adds a  *)
(* day and takes an end by a place of its own.                             *)
LEMMA PortRow ==
  ASSUME NEW k \in Nat \ {0}, NEW t \in Tables
  PROVE  setSCDKeys(k, t) = computeScdKey(k, t)
<1>1. /\ t \in Nat /\ k % 6 \in 0 .. 5
      /\ MinimumDate \in Nat /\ MaximumDate \in Nat
      /\ H1DataDate \in Nat /\ T1DataDate \in Nat /\ T2DataDate \in Nat
  BY TablesAssumption, DatesAssumption, PeriodParts
<1>2. setSCDKeys(k, t).id = computeScdKey(k, t).id
  BY <1>1 DEF setSCDKeys, computeScdKey, BusinessKey
<1>3. setSCDKeys(k, t).begin = computeScdKey(k, t).begin
  BY <1>1 DEF setSCDKeys, computeScdKey, FirstDay, Stagger
<1>4. setSCDKeys(k, t).end = computeScdKey(k, t).end
  BY <1>1 DEF setSCDKeys, computeScdKey, LastDay, Stagger, Open
<1> QED BY <1>2, <1>3, <1>4 DEF setSCDKeys, computeScdKey

(* And joins the same: dsdgen looks at the period after it has drawn the   *)
(* id, and once more at the end of the table, which changes nothing.       *)
LEMMA PortJoin ==
  ASSUME NEW n \in Nat \ {0}, NEW id \in 1 .. IDCount(n),
         NEW day \in Nat, day >= MinimumDate
  PROVE  scd_join(id, day, n) = generateScdJoinKey(id, day, n)
<1>1. id \in Nat \ {0} BY FirstRows
<1>2. VersionKey(id, day) \in Nat BY <1>1, VersionOfDay
<1>3. matchSCDSK(id, day, n) = matchSurrogateKey(id, day, n)
  BY DEF matchSCDSK, matchSurrogateKey, VersionKey
<1>4. ~(matchSCDSK(id, day, n) > n)
  BY <1>2 DEF matchSCDSK
<1> QED BY <1>3, <1>4 DEF scd_join, generateScdJoinKey

(* dsdgen and its port agree on every row and every join.                  *)
THEOREM PortJoinsAlike == Spec => []PortJoinsSame
<1>1. IInv => PortJoinsSame
  <2> SUFFICES ASSUME IInv PROVE PortJoinsSame OBVIOUS
  <2>1. ASSUME NEW k \in 1 .. built PROVE rows[k] = computeScdKey(k, nTable)
    <3>1. k \in Nat \ {0} /\ nTable \in Tables
      BY TablesAssumption DEF IInv, TypeOK
    <3> QED BY <3>1, PortRow DEF IInv, RowsAreKeyed
  <2>2. ASSUME sale.id > 0
        PROVE  sale.key = generateScdJoinKey(sale.id, sale.day, kRowcount)
    <3>1. sale # NoSale BY <2>2 DEF NoSale
    <3> QED BY <3>1, SaleKnown, PortJoin
  <2> QED BY <2>1, <2>2 DEF PortJoinsSame
<1> QED BY <1>1, Invariant, PTL

-----------------------------------------------------------------------------
(***************************************************************************)
(* The date dimension.                                                     *)
(***************************************************************************)
(* The row that is built from nothing, whatever the row before.            *)
RowsFromScratch == index \in Nat /\ w_date = DateRow(index, NotCurrent)

(* The day of a row. *)
RowDay(k) == jtodt(BaseDate + k)

LEMMA FirstDayOfTable == BaseDate = 2415021
<1>1. dttoj(Date(1900, 1, 1)) = YearNumber(1900) + 1721425 + DaysBefore(1900, 1) + 1
  BY DateNumbers, SMT
<1>2. YearNumber(1900) = 693595 /\ DaysBefore(1900, 1) = 0
  BY SMT DEF YearNumber, DaysBefore, m_days
<1> QED BY <1>1, <1>2, SMT DEF BaseDate

(* A row of a year other than 2003 leaves the flags of the row before as   *)
(* they are: by then those of 2003 have cleared them.                      *)
LEMMA FlagsCleared ==
  ASSUME NEW k \in Nat, RowDay(k + 1).year # CURRENT_YEAR
  PROVE  current(NotCurrent, RowDay(k), k) = NotCurrent
<1> DEFINE s == BaseDate + k
<1>1. s \in Int /\ s = 2415021 + k /\ BaseDate + (k + 1) = s + 1
  BY FirstDayOfTable, SMT
<1>2. RowDay(k) = jtodt(s) /\ RowDay(k + 1) = jtodt(s + 1)
  BY <1>1, SMT DEF RowDay
<1> HIDE DEF s
<1>3. CASE RowDay(k).year # CURRENT_YEAR
  BY <1>3, SMT DEF current
<1>4. CASE RowDay(k).year = CURRENT_YEAR
  <2>0. s \in Int
    BY <1>1, SMT
  <2>1. PICK y, m, d : IsDayOf(s, y, m, d)
    BY <2>0, NumberOfDate, Zenon
  <2>2. /\ y \in Int /\ m \in 1 .. 12 /\ d \in Int /\ 1 <= d /\ d <= MonthDays(y, m)
        /\ RowDay(k) = Date(y, m, d) /\ dttoj(Date(y, m, d)) = s
    BY <1>2, <2>1, SMT DEF IsDayOf
  <2>3. RowDay(k).year = y /\ RowDay(k).month = m /\ RowDay(k).day = d
    BY <2>2, FieldsOfDate, SMT
  <2>4. RowDay(k + 1) = DayAfter(RowDay(k))
    BY <1>1, <1>2, NextDay, SMT
  <2>5. y = 2003
    BY <1>4, <2>3, SMT DEF CURRENT_YEAR
  <2>6. m = 12 /\ d = 31
    <3>1. ~(d < MonthDays(y, m))
      <4>1. SUFFICES ASSUME d < MonthDays(y, m) PROVE FALSE
        BY SMT
      <4>2. DayAfter(RowDay(k)) = Date(y, m, d + 1)
        BY <2>3, <4>1, SMT DEF DayAfter
      <4> QED BY <2>4, <2>5, <2>3, <4>2, FieldsOfDate, SMT DEF CURRENT_YEAR
    <3>2. ~(m < 12)
      <4>1. SUFFICES ASSUME m < 12 PROVE FALSE
        BY SMT
      <4>2. DayAfter(RowDay(k)) = Date(y, m + 1, 1)
        BY <2>3, <3>1, <4>1, SMT DEF DayAfter
      <4> QED BY <2>4, <2>5, <2>3, <4>2, FieldsOfDate, SMT DEF CURRENT_YEAR
    <3>3. m = 12
      BY <2>2, <3>2, SMT
    <3> QED BY <2>2, <3>1, <3>3, SMT DEF MonthDays
  <2>7. day_number(RowDay(k)) = 365
    <3>1. MonthStart(RowDay(k)) = 334
      BY <2>3, <2>5, <2>6, SMT DEF MonthStart, is_leap, m_days
    <3> QED BY <2>3, <2>6, <3>1, SMT DEF day_number
  <2>8. k = 37984
    <3>1. dttoj(Date(y, m, d)) = YearNumber(y) + 1721425 + DaysBefore(y, m) + d
      BY <2>2, DateNumbers, SMT
    <3>2. YearNumber(2003) = 731215 /\ DaysBefore(2003, 12) = 334
      BY SMT DEF YearNumber, DaysBefore, LeapYear, m_days
    <3>3. s = 731215 + 1721425 + 334 + 31
      BY <2>2, <2>5, <2>6, <3>1, <3>2, SMT
    <3> QED BY <1>1, <3>3, SMT
  <2>9. /\ EntryQuarter(day_number(RowDay(k))) = 4
        /\ (k + 6) \div 7 # 2
    BY <2>7, <2>8, SMT DEF EntryQuarter
  <2> QED BY <1>4, <2>3, <2>6, <2>9, SMT DEF current, Flag, NotCurrent
<1> QED BY <1>3, <1>4, Zenon

LEMMA FlagsOfRow ==
  ASSUME NEW k \in Nat
  PROVE  DateRow(k + 1, DateRow(k, NotCurrent).current) = DateRow(k + 1, NotCurrent)
<1>1. DateRow(k, NotCurrent).current = current(NotCurrent, RowDay(k), k)
  BY SMT DEF DateRow, RowDay
<1>2. current(DateRow(k, NotCurrent).current, RowDay(k + 1), k + 1)
        = current(NotCurrent, RowDay(k + 1), k + 1)
  <2>1. CASE RowDay(k + 1).year = CURRENT_YEAR
    BY <2>1, Zenon DEF current
  <2>2. CASE RowDay(k + 1).year # CURRENT_YEAR
    <3>1. DateRow(k, NotCurrent).current = NotCurrent
      BY <1>1, <2>2, FlagsCleared, SMT
    <3> QED BY <3>1, Zenon
  <2> QED BY <2>1, <2>2
<1> QED BY <1>2, SMT DEF DateRow, RowDay

LEMMA RowsFromScratchKept == DateSpec => []RowsFromScratch
<1>1. DateInit => RowsFromScratch
  BY SMT DEF DateInit, RowsFromScratch
<1>2. RowsFromScratch /\ [DateNext]_dateVars => RowsFromScratch'
  <2> SUFFICES ASSUME RowsFromScratch, [DateNext]_dateVars
               PROVE  RowsFromScratch'
    OBVIOUS
  <2>1. CASE mk_w_date
    <3>1. index \in Nat /\ index' = index + 1
      BY <2>1, Zenon DEF RowsFromScratch, mk_w_date
    <3>2. w_date' = DateRow(index + 1, w_date.current) /\ w_date = DateRow(index, NotCurrent)
      BY <2>1, Zenon DEF RowsFromScratch, mk_w_date
    <3>3. w_date' = DateRow(index + 1, NotCurrent)
      BY <3>1, <3>2, FlagsOfRow, Zenon
    <3>4. index + 1 \in Nat
      BY <3>1, SMT
    <3> QED BY <3>1, <3>3, <3>4, Zenon DEF RowsFromScratch
  <2>2. CASE UNCHANGED dateVars
    BY <2>2, Zenon DEF RowsFromScratch, dateVars
  <2> QED BY <2>1, <2>2, Zenon DEF DateNext, Finished
<1> QED BY <1>1, <1>2, PTL DEF DateSpec

(* mk_w_date() keeps its flags from row to row and clears some in some     *)
(* branches only; yet, however many rows there are, none shows the flag of *)
(* a row before it: each is the row -validate builds from cleared flags.   *)
THEOREM FlagsEnd == DateSpec => []FlagsDoNotLinger
<1>1. RowsFromScratch => FlagsDoNotLinger
  BY Zenon DEF RowsFromScratch, FlagsDoNotLinger, vld_w_date
<1> QED BY <1>1, RowsFromScratchKept, PTL

(* The columns of a row that its date is printed in or counted by.         *)
LEMMA RowOfDay ==
  ASSUME NEW k, NEW b, NEW s, s = BaseDate + k,
         NEW y, NEW m, NEW d, IsDayOf(s, y, m, d)
  PROVE  /\ DateRow(k, b).sk = s
         /\ DateRow(k, b).year = y /\ DateRow(k, b).moy = m /\ DateRow(k, b).dom = d
         /\ DateRow(k, b).dow = set_dow(Date(y, m, d))
         /\ DateRow(k, b).week_seq = (k + 6) \div 7
         /\ DateRow(k, b).month_seq = (y - 1900) * 12 + m - 1
         /\ DateRow(k, b).quarter_seq = (y - 1900) * 4 + m \div 3 + 1
<1>1. jtodt(s) = Date(y, m, d)
  BY Zenon DEF IsDayOf
<1>2. Date(y, m, d).year = y /\ Date(y, m, d).month = m /\ Date(y, m, d).day = d
  BY FieldsOfDate, SMT
<1>3. quarter_seq(Date(y, m, d)) = (y - 1900) * 4 + m \div 3 + 1
  BY <1>2, SMT DEF quarter_seq
<1> QED BY <1>1, <1>2, <1>3, SMT DEF DateRow

LEMMA SequencesOnEnd ==
  ASSUME NEW y, NEW m, NEW d, NEW y1, NEW m1, NEW d1, NEW s, NEW t,
         IsDayOf(s, y, m, d), IsDayOf(t, y1, m1, d1), OnEnd(y, m, d, y1, m1, d1)
  PROVE  /\ ((y1 - 1900) * 12 + m1 - 1) - ((y - 1900) * 12 + m - 1) = Flag(d1 = 1)
         /\ ((y1 - 1900) * 4 + m1 \div 3 + 1) - ((y - 1900) * 4 + m \div 3 + 1)
              = Flag(d1 = 1 /\ m1 % 3 = 0)
<1>1. /\ y \in Int /\ m \in Int /\ 1 <= m /\ m <= 12 /\ d \in Int /\ 1 <= d
  BY SMT DEF IsDayOf
<1>2. CASE y1 = y /\ m1 = m /\ d1 = d + 1
  BY <1>1, <1>2, SMT DEF Flag
<1>3. CASE m < 12 /\ y1 = y /\ m1 = m + 1 /\ d1 = 1
  <2>1. (m + 1) \div 3 = m \div 3 + (IF (m + 1) % 3 = 0 THEN 1 ELSE 0)
    BY <1>1, SMT
  <2> QED BY <1>1, <1>3, <2>1, SMT DEF Flag
<1>4. CASE m = 12 /\ y1 = y + 1 /\ m1 = 1 /\ d1 = 1
  BY <1>1, <1>4, SMT DEF Flag
<1> QED BY <1>2, <1>3, <1>4, SMT DEF OnEnd

LEMMA RowsOnEnd ==
  ASSUME RowsFromScratch, RowsFromScratch', index' = index + 1
  PROVE  DayFollows /\ WeekdayFollows /\ SequencesClimb
<1> DEFINE s == BaseDate + index
<1>1. index \in Nat /\ w_date = DateRow(index, NotCurrent)
      /\ w_date' = DateRow(index + 1, NotCurrent)
  BY Zenon DEF RowsFromScratch
<1>2. s = BaseDate + index /\ s + 1 = BaseDate + (index + 1) /\ s \in Int /\ s + 1 \in Int
  BY <1>1, FirstDayOfTable, SMT
<1> HIDE DEF s
<1>3. s \in Int
  BY <1>2, SMT
<1>4. PICK y, m, d, y1, m1, d1 : /\ IsDayOf(s, y, m, d)
                                 /\ IsDayOf(s + 1, y1, m1, d1)
                                 /\ OnEnd(y, m, d, y1, m1, d1)
  BY <1>3, DaysOnEnd, Zenon
<1>5. /\ jtodt(s) = Date(y, m, d) /\ jtodt(s + 1) = Date(y1, m1, d1)
      /\ dttoj(Date(y1, m1, d1)) = s + 1
      /\ m \in Int /\ m1 \in Int
  BY <1>4, Zenon DEF IsDayOf
<1>6. /\ w_date.sk = s
      /\ w_date.year = y /\ w_date.moy = m /\ w_date.dom = d
      /\ w_date.dow = set_dow(Date(y, m, d))
      /\ w_date.week_seq = (index + 6) \div 7
      /\ w_date.month_seq = (y - 1900) * 12 + m - 1
      /\ w_date.quarter_seq = (y - 1900) * 4 + m \div 3 + 1
  BY <1>1, <1>2, <1>4, RowOfDay, SMT
<1>7. /\ w_date'.sk = s + 1
      /\ w_date'.year = y1 /\ w_date'.moy = m1 /\ w_date'.dom = d1
      /\ w_date'.dow = set_dow(Date(y1, m1, d1))
      /\ w_date'.week_seq = ((index + 1) + 6) \div 7
      /\ w_date'.month_seq = (y1 - 1900) * 12 + m1 - 1
      /\ w_date'.quarter_seq = (y1 - 1900) * 4 + m1 \div 3 + 1
  BY <1>1, <1>2, <1>4, RowOfDay, SMT
<1>8. DayFollows
  <2>1. RowDate = Date(y, m, d) /\ RowDate' = Date(y1, m1, d1)
    BY <1>6, <1>7, Zenon DEF RowDate
  <2>2. Date(y1, m1, d1) = DayAfter(Date(y, m, d))
    BY <1>3, <1>5, NextDay, Zenon
  <2>3. w_date'.sk = s + 1
    BY <1>7, SMT
  <2>4. RowDate' = DayAfter(RowDate) /\ dttoj(RowDate') = w_date'.sk
    BY <1>5, <2>1, <2>2, <2>3, Zenon
  <2> QED BY <2>4, Zenon DEF DayFollows
<1>9. WeekdayFollows
  <2>1. \/ set_dow(Date(y1, m1, d1)) = (set_dow(Date(y, m, d)) + 1) % 7
        \/ d1 = 1 /\ m1 \in {1, 3} /\ is_leap(y1) # LeapYear(y1)
    BY <1>4, WeekdaysOnEnd, Zenon
  <2>2. /\ w_date.dow = set_dow(Date(y, m, d)) /\ w_date'.dow = set_dow(Date(y1, m1, d1))
        /\ w_date'.dom = d1 /\ w_date'.moy = m1 /\ w_date'.year = y1
    BY <1>6, <1>7, SMT
  <2> QED BY <2>1, <2>2, SMT DEF WeekdayFollows
<1>10. SequencesClimb
  <2>1. ((index + 1) + 6) \div 7 - (index + 6) \div 7 \in {0, 1}
    BY <1>1, SMT
  <2>2. /\ w_date'.month_seq - w_date.month_seq = Flag(d1 = 1)
        /\ w_date'.quarter_seq - w_date.quarter_seq = Flag(d1 = 1 /\ m1 % 3 = 0)
    BY <1>4, <1>6, <1>7, SequencesOnEnd, SMT
  <2> QED BY <1>6, <1>7, <2>1, <2>2, SMT DEF SequencesClimb
<1> QED BY <1>8, <1>9, <1>10, Zenon

(* jtodt() follows the Gregorian calendar from row to row, through century *)
(* years too, and dttoj() takes each date back to its key; set_dow() gives *)
(* weekdays that follow each other, but for the days where is_leap() errs; *)
(* the numbers of weeks, months and quarters go up by one when they do.    *)
THEOREM RowsGoOn == DateSpec => RowsFollow
<1>1. RowsFromScratch /\ RowsFromScratch' /\ [DateNext]_dateVars
        => [index' # index => DayFollows /\ WeekdayFollows /\ SequencesClimb]_dateVars
  <2> SUFFICES ASSUME RowsFromScratch, RowsFromScratch', [DateNext]_dateVars,
                      index' # index
               PROVE  DayFollows /\ WeekdayFollows /\ SequencesClimb
    OBVIOUS
  <2>1. index' = index + 1
    BY Zenon DEF DateNext, mk_w_date, Finished, dateVars
  <2> QED BY <2>1, RowsOnEnd, Zenon
<1> QED BY <1>1, RowsFromScratchKept, PTL DEF DateSpec, RowsFollow

(* The quarter of a month, and the first month of it.                      *)
QuarterOf(m)  == (m - 1) \div 3 + 1
QuarterMonth(m) == 3 * QuarterOf(m) - 2

LEMMA SameDayLastYear ==
  ASSUME NEW s, NEW y, NEW m, NEW d, IsDayOf(s, y, m, d)
  PROVE  jtodt(OP_SAME_LY(Date(y, m, d)))
           = Date(y - 1, m, IF m = 2 /\ d = 29 THEN 28 ELSE d)
<1> DEFINE dt == Date(y, m, d)
           e == IF m = 2 /\ d = 29 THEN 28 ELSE d
<1>1. /\ y \in Int /\ m \in 1 .. 12 /\ d \in Int /\ 1 <= d /\ d <= MonthDays(y, m)
  BY SMT DEF IsDayOf
<1>2. dt.year = y /\ dt.month = m /\ dt.day = d /\ [dt EXCEPT !.year = @ - 1] = Date(y - 1, m, d)
  BY SMT DEF Date
<1>3. m = 2 /\ d = 29 => is_leap(y)
  <2> SUFFICES ASSUME m = 2, d = 29 PROVE is_leap(y)
    BY SMT
  <2>1. LeapYear(y)
    BY <1>1, SMT DEF MonthDays
  <2> QED BY <1>1, <2>1, SMT DEF LeapYear, is_leap
<1>4. OP_SAME_LY(dt) = dttoj(Date(y - 1, m, e))
  <2> HIDE DEF dt
  <2> QED BY <1>2, <1>3, SMT DEF OP_SAME_LY
<1>5. e \in Int /\ 1 <= e /\ e <= MonthDays(y - 1, m) /\ y - 1 \in Int
  BY <1>1, SMT DEF MonthDays
<1> HIDE DEF e
<1>6. jtodt(dttoj(Date(y - 1, m, e))) = Date(y - 1, m, e)
  BY <1>1, <1>5, DateOfNumber, SMT
<1> QED BY <1>4, <1>6, Zenon DEF e

LEMMA FirstOfMonth ==
  ASSUME NEW y \in Int, NEW m \in Int, 1 <= m, m <= 12, NEW d \in Int
  PROVE  /\ OP_FIRST_DOM(Date(y, m, d)) = dttoj(Date(y, m, 1))
         /\ jtodt(OP_FIRST_DOM(Date(y, m, d))) = Date(y, m, 1)
<1>1. /\ dttoj(Date(y, m, d)) = YearNumber(y) + 1721425 + DaysBefore(y, m) + d
      /\ dttoj(Date(y, m, 1)) = YearNumber(y) + 1721425 + DaysBefore(y, m) + 1
  BY DateNumbers, SMT
<1>2. YearNumber(y) \in Int
  BY LeapDays, SMT
<1>3. DaysBefore(y, m) \in Int
  BY MonthsAddUp, SMT
<1>4. OP_FIRST_DOM(Date(y, m, d)) = dttoj(Date(y, m, 1))
  BY <1>1, <1>2, <1>3, FieldsOfDate, SMT DEF OP_FIRST_DOM
<1>5. 1 <= MonthDays(y, m) /\ m \in 1 .. 12
  BY SMT DEF MonthDays
<1>6. jtodt(dttoj(Date(y, m, 1))) = Date(y, m, 1)
  BY <1>5, DateOfNumber, SMT
<1> QED BY <1>4, <1>6, Zenon

(* The quarter before lasts from 90 to 92 days, the quarter of the day no  *)
(* more than a day longer.                                                 *)
LEMMA SameDayLastQuarter ==
  ASSUME NEW s \in Int, NEW y, NEW m, NEW d, IsDayOf(s, y, m, d)
  PROVE  LET n == OP_SAME_LQ(Date(y, m, d))
         IN n \in s - 92 .. s - 90 /\ n <= dttoj(Date(y, QuarterMonth(m), 1))
<1> DEFINE N(a, b, c) == YearNumber(a) + 1721425 + DaysBefore(a, b) + c
           q == QuarterOf(m)
           dt == Date(y, m, d)
<1>1. /\ y \in Int /\ m \in 1 .. 12 /\ m \in Int /\ 1 <= m /\ m <= 12 /\ d \in Int
      /\ 1 <= d /\ d <= MonthDays(y, m)
      /\ dttoj(dt) = s
  BY SMT DEF IsDayOf
<1>2. y - 1 \in Int /\ y - 1 + 1 = y
  BY <1>1, SMT
<1>3. /\ YearNumber(y) = YearNumber(y - 1) + IF LeapYear(y - 1) THEN 366 ELSE 365
      /\ YearNumber(y) \in Int /\ YearNumber(y - 1) \in Int
  BY <1>1, <1>2, LeapDays, SMT
<1>4. /\ s = N(y, m, d)
      /\ dttoj(Date(y, 1, 1)) = N(y, 1, 1) /\ dttoj(Date(y, 4, 1)) = N(y, 4, 1)
      /\ dttoj(Date(y, 7, 1)) = N(y, 7, 1) /\ dttoj(Date(y, 10, 1)) = N(y, 10, 1)
      /\ dttoj(Date(y - 1, 10, 1)) = N(y - 1, 10, 1)
  BY <1>1, <1>2, DateNumbers, SMT
<1>5. dt.year = y /\ dt.month = m /\ dt.day = d
  BY FieldsOfDate, SMT
<1>6. OP_SAME_LQ(dt) = s - dttoj(Date(y, QuarterMonth(m), 1))
                       + (IF q = 1 THEN dttoj(Date(y - 1, 10, 1))
                                   ELSE dttoj(Date(y, qtr_start[q - 1], 1)))
  <2>1. QuarterMonth(m) = qtr_start[q] /\ qtr_start[4] = 10
    BY <1>1, SMT DEF QuarterMonth, QuarterOf, qtr_start
  <2>2. q = (m - 1) \div 3 + 1
    BY DEF QuarterOf
  <2> HIDE DEF q, dt
  <2> QED BY <1>1, <1>5, <2>1, <2>2, SMT DEF OP_SAME_LQ
<1> HIDE DEF dt
<1>7. CASE m <= 3
  <2>1. q = 1 /\ QuarterMonth(m) = 1
    BY <1>1, <1>7, SMT DEF QuarterMonth, QuarterOf
  <2>2. s - N(y, 1, 1) <= 90
    BY <1>1, <1>3, <1>4, <1>7, SMT DEF DaysBefore, m_days, MonthDays
  <2>3. N(y, 1, 1) - N(y - 1, 10, 1) = 92
    BY <1>3, SMT DEF DaysBefore, m_days
  <2>4. N(y, 1, 1) \in Int /\ N(y - 1, 10, 1) \in Int
    BY <1>3, SMT DEF DaysBefore, m_days
  <2> QED BY <1>4, <1>6, <2>1, <2>2, <2>3, <2>4, SMT DEF dt
<1>8. CASE 4 <= m /\ m <= 6
  <2>1. q = 2 /\ QuarterMonth(m) = 4 /\ qtr_start[q - 1] = 1
    BY <1>1, <1>8, SMT DEF QuarterMonth, QuarterOf, qtr_start
  <2>2. s - N(y, 4, 1) <= 90
    BY <1>1, <1>3, <1>4, <1>8, SMT DEF DaysBefore, m_days, MonthDays
  <2>3. N(y, 4, 1) - N(y, 1, 1) \in 90 .. 91
    BY <1>3, SMT DEF DaysBefore, m_days
  <2>4. N(y, 1, 1) \in Int /\ N(y, 4, 1) \in Int
    BY <1>3, SMT DEF DaysBefore, m_days
  <2> QED BY <1>4, <1>6, <2>1, <2>2, <2>3, <2>4, SMT DEF dt
<1>9. CASE 7 <= m /\ m <= 9
  <2>1. q = 3 /\ QuarterMonth(m) = 7 /\ qtr_start[q - 1] = 4
    BY <1>1, <1>9, SMT DEF QuarterMonth, QuarterOf, qtr_start
  <2>2. s - N(y, 7, 1) <= 91
    BY <1>1, <1>3, <1>4, <1>9, SMT DEF DaysBefore, m_days, MonthDays
  <2>3. N(y, 7, 1) - N(y, 4, 1) = 91
    BY <1>3, SMT DEF DaysBefore, m_days
  <2>4. N(y, 4, 1) \in Int /\ N(y, 7, 1) \in Int
    BY <1>3, SMT DEF DaysBefore, m_days
  <2> QED BY <1>4, <1>6, <2>1, <2>2, <2>3, <2>4, SMT DEF dt
<1>10. CASE 10 <= m
  <2>1. q = 4 /\ QuarterMonth(m) = 10 /\ qtr_start[q - 1] = 7
    BY <1>1, <1>10, SMT DEF QuarterMonth, QuarterOf, qtr_start
  <2>2. s - N(y, 10, 1) <= 91
    BY <1>1, <1>3, <1>4, <1>10, SMT DEF DaysBefore, m_days, MonthDays
  <2>3. N(y, 10, 1) - N(y, 7, 1) = 92
    BY <1>3, SMT DEF DaysBefore, m_days
  <2>4. N(y, 7, 1) \in Int /\ N(y, 10, 1) \in Int
    BY <1>3, SMT DEF DaysBefore, m_days
  <2> QED BY <1>4, <1>6, <2>1, <2>2, <2>3, <2>4, SMT DEF dt
<1> QED BY <1>1, <1>7, <1>8, <1>9, <1>10, SMT

LEMMA QuarterOfDay ==
  ASSUME NEW s, NEW y, NEW m, NEW d, IsDayOf(s, y, m, d)
  PROVE  EntryQuarter(day_number(Date(y, m, d)))
           = IF ~is_leap(y) /\ d = 1 /\ m \in {4, 7, 10}
             THEN QuarterOf(m) - 1 ELSE QuarterOf(m)
<1>1. /\ y \in Int /\ m \in Int /\ 1 <= m /\ m <= 12 /\ d \in Int
      /\ 1 <= d /\ d <= MonthDays(y, m)
      /\ MonthDays(y, m) \in Int /\ MonthDays(y, m) <= 31
      /\ (m \in {6, 9} => MonthDays(y, m) = 30) /\ (m = 2 => MonthDays(y, m) <= 29)
  BY SMT DEF IsDayOf, MonthDays
<1>2. day_number(Date(y, m, d)) = m_days[IF is_leap(y) THEN 2 ELSE 1][m] + d
  BY FieldsOfDate, SMT DEF day_number, MonthStart
<1> DEFINE n == day_number(Date(y, m, d))
<1>3. CASE m = 1
  <2>1. n = (IF is_leap(y) THEN 0 ELSE 0) + d /\ QuarterOf(m) = 1
    BY <1>2, <1>3, SMT DEF m_days, QuarterOf
  <2> HIDE DEF n
  <2>2. EntryQuarter(n) = IF ~is_leap(y) /\ d = 1 /\ m \in {4, 7, 10}
                          THEN QuarterOf(m) - 1 ELSE QuarterOf(m)
    BY <1>1, <1>3, <2>1, SMT DEF EntryQuarter
  <2> QED BY <2>2 DEF n
<1>4. CASE m = 2
  <2>1. n = (IF is_leap(y) THEN 31 ELSE 31) + d /\ QuarterOf(m) = 1
    BY <1>2, <1>4, SMT DEF m_days, QuarterOf
  <2> HIDE DEF n
  <2>2. EntryQuarter(n) = IF ~is_leap(y) /\ d = 1 /\ m \in {4, 7, 10}
                          THEN QuarterOf(m) - 1 ELSE QuarterOf(m)
    BY <1>1, <1>4, <2>1, SMT DEF EntryQuarter
  <2> QED BY <2>2 DEF n
<1>5. CASE m = 3
  <2>1. n = (IF is_leap(y) THEN 60 ELSE 59) + d /\ QuarterOf(m) = 1
    BY <1>2, <1>5, SMT DEF m_days, QuarterOf
  <2> HIDE DEF n
  <2>2. EntryQuarter(n) = IF ~is_leap(y) /\ d = 1 /\ m \in {4, 7, 10}
                          THEN QuarterOf(m) - 1 ELSE QuarterOf(m)
    BY <1>1, <1>5, <2>1, SMT DEF EntryQuarter
  <2> QED BY <2>2 DEF n
<1>6. CASE m = 4
  <2>1. n = (IF is_leap(y) THEN 91 ELSE 90) + d /\ QuarterOf(m) = 2
    BY <1>2, <1>6, SMT DEF m_days, QuarterOf
  <2> HIDE DEF n
  <2>2. EntryQuarter(n) = IF ~is_leap(y) /\ d = 1 /\ m \in {4, 7, 10}
                          THEN QuarterOf(m) - 1 ELSE QuarterOf(m)
    BY <1>1, <1>6, <2>1, SMT DEF EntryQuarter
  <2> QED BY <2>2 DEF n
<1>7. CASE m = 5
  <2>1. n = (IF is_leap(y) THEN 121 ELSE 120) + d /\ QuarterOf(m) = 2
    BY <1>2, <1>7, SMT DEF m_days, QuarterOf
  <2> HIDE DEF n
  <2>2. EntryQuarter(n) = IF ~is_leap(y) /\ d = 1 /\ m \in {4, 7, 10}
                          THEN QuarterOf(m) - 1 ELSE QuarterOf(m)
    BY <1>1, <1>7, <2>1, SMT DEF EntryQuarter
  <2> QED BY <2>2 DEF n
<1>8. CASE m = 6
  <2>1. n = (IF is_leap(y) THEN 152 ELSE 151) + d /\ QuarterOf(m) = 2
    BY <1>2, <1>8, SMT DEF m_days, QuarterOf
  <2> HIDE DEF n
  <2>2. EntryQuarter(n) = IF ~is_leap(y) /\ d = 1 /\ m \in {4, 7, 10}
                          THEN QuarterOf(m) - 1 ELSE QuarterOf(m)
    BY <1>1, <1>8, <2>1, SMT DEF EntryQuarter
  <2> QED BY <2>2 DEF n
<1>9. CASE m = 7
  <2>1. n = (IF is_leap(y) THEN 182 ELSE 181) + d /\ QuarterOf(m) = 3
    BY <1>2, <1>9, SMT DEF m_days, QuarterOf
  <2> HIDE DEF n
  <2>2. EntryQuarter(n) = IF ~is_leap(y) /\ d = 1 /\ m \in {4, 7, 10}
                          THEN QuarterOf(m) - 1 ELSE QuarterOf(m)
    BY <1>1, <1>9, <2>1, SMT DEF EntryQuarter
  <2> QED BY <2>2 DEF n
<1>10. CASE m = 8
  <2>1. n = (IF is_leap(y) THEN 213 ELSE 212) + d /\ QuarterOf(m) = 3
    BY <1>2, <1>10, SMT DEF m_days, QuarterOf
  <2> HIDE DEF n
  <2>2. EntryQuarter(n) = IF ~is_leap(y) /\ d = 1 /\ m \in {4, 7, 10}
                          THEN QuarterOf(m) - 1 ELSE QuarterOf(m)
    BY <1>1, <1>10, <2>1, SMT DEF EntryQuarter
  <2> QED BY <2>2 DEF n
<1>11. CASE m = 9
  <2>1. n = (IF is_leap(y) THEN 244 ELSE 243) + d /\ QuarterOf(m) = 3
    BY <1>2, <1>11, SMT DEF m_days, QuarterOf
  <2> HIDE DEF n
  <2>2. EntryQuarter(n) = IF ~is_leap(y) /\ d = 1 /\ m \in {4, 7, 10}
                          THEN QuarterOf(m) - 1 ELSE QuarterOf(m)
    BY <1>1, <1>11, <2>1, SMT DEF EntryQuarter
  <2> QED BY <2>2 DEF n
<1>12. CASE m = 10
  <2>1. n = (IF is_leap(y) THEN 274 ELSE 273) + d /\ QuarterOf(m) = 4
    BY <1>2, <1>12, SMT DEF m_days, QuarterOf
  <2> HIDE DEF n
  <2>2. EntryQuarter(n) = IF ~is_leap(y) /\ d = 1 /\ m \in {4, 7, 10}
                          THEN QuarterOf(m) - 1 ELSE QuarterOf(m)
    BY <1>1, <1>12, <2>1, SMT DEF EntryQuarter
  <2> QED BY <2>2 DEF n
<1>13. CASE m = 11
  <2>1. n = (IF is_leap(y) THEN 305 ELSE 304) + d /\ QuarterOf(m) = 4
    BY <1>2, <1>13, SMT DEF m_days, QuarterOf
  <2> HIDE DEF n
  <2>2. EntryQuarter(n) = IF ~is_leap(y) /\ d = 1 /\ m \in {4, 7, 10}
                          THEN QuarterOf(m) - 1 ELSE QuarterOf(m)
    BY <1>1, <1>13, <2>1, SMT DEF EntryQuarter
  <2> QED BY <2>2 DEF n
<1>14. CASE m = 12
  <2>1. n = (IF is_leap(y) THEN 335 ELSE 334) + d /\ QuarterOf(m) = 4
    BY <1>2, <1>14, SMT DEF m_days, QuarterOf
  <2> HIDE DEF n
  <2>2. EntryQuarter(n) = IF ~is_leap(y) /\ d = 1 /\ m \in {4, 7, 10}
                          THEN QuarterOf(m) - 1 ELSE QuarterOf(m)
    BY <1>1, <1>14, <2>1, SMT DEF EntryQuarter
  <2> QED BY <2>2 DEF n
<1> QED BY <1>1, <1>3, <1>4, <1>5, <1>6, <1>7, <1>8, <1>9, <1>10, <1>11, <1>12, <1>13, <1>14, SMT

(* date_t_op() refers each row back to days of the calendar, the leap days *)
(* included, and day_number() finds the quarter of its month, save on the  *)
(* first days of a common year's later quarters.                           *)
THEOREM RowsReferBack == DateSpec => []EarlierDays
<1>1. RowsFromScratch => EarlierDays
  <2> SUFFICES ASSUME RowsFromScratch PROVE EarlierDays
    OBVIOUS
  <2> DEFINE s == BaseDate + index
  <2>1. s = BaseDate + index /\ s \in Int
    BY FirstDayOfTable, SMT DEF RowsFromScratch
  <2> HIDE DEF s
  <2>2. w_date = DateRow(index, NotCurrent)
    BY Zenon DEF RowsFromScratch
  <2>3. PICK y, m, d : IsDayOf(s, y, m, d)
    BY <2>1, NumberOfDate, SMT
  <2>4. jtodt(BaseDate + index) = Date(y, m, d)
    BY <2>1, <2>3, Zenon DEF IsDayOf
  <2>5. /\ w_date.same_day_ly = OP_SAME_LY(Date(y, m, d))
        /\ w_date.same_day_lq = OP_SAME_LQ(Date(y, m, d))
        /\ w_date.first_dom = OP_FIRST_DOM(Date(y, m, d))
        /\ w_date.qoy = EntryQuarter(day_number(Date(y, m, d)))
    BY <2>2, <2>4, SMT DEF DateRow
  <2>6. /\ w_date.sk = s
        /\ w_date.year = y /\ w_date.moy = m /\ w_date.dom = d
    BY <2>1, <2>2, <2>3, RowOfDay, SMT
  <2>7. /\ jtodt(w_date.same_day_ly).year = y - 1
        /\ jtodt(w_date.same_day_ly).month = m
        /\ jtodt(w_date.same_day_ly).day = IF m = 2 /\ d = 29 THEN 28 ELSE d
    BY <2>3, <2>5, SameDayLastYear, FieldsOfDate, SMT
  <2>8. jtodt(w_date.first_dom) = [RowDate EXCEPT !.day = 1]
    <3>1. jtodt(w_date.first_dom) = Date(y, m, 1)
      BY <2>3, <2>5, FirstOfMonth, SMT DEF IsDayOf
    <3>2. RowDate = Date(y, m, d)
      BY <2>6, Zenon DEF RowDate
    <3> QED BY <3>1, <3>2, SMT DEF Date
  <2>9. /\ w_date.same_day_lq \in w_date.sk - 92 .. w_date.sk - 90
        /\ w_date.same_day_lq <= dttoj(Date(y, 3 * QuarterOf(m) - 2, 1))
    BY <2>1, <2>3, <2>5, <2>6, SameDayLastQuarter, SMT DEF QuarterMonth
  <2>10. w_date.qoy = IF ~is_leap(y) /\ d = 1 /\ m \in {4, 7, 10}
                      THEN QuarterOf(m) - 1 ELSE QuarterOf(m)
    BY <2>3, <2>5, QuarterOfDay, SMT
  <2> QED BY <2>6, <2>7, <2>8, <2>9, <2>10, SMT DEF EarlierDays, QuarterOf
<1> QED BY <1>1, RowsFromScratchKept, PTL

LEMMA SameNumbers ==
  ASSUME NEW y \in Int, NEW m \in Int, NEW d \in Int
  PROVE  toJulianDays(Date(y, m, d)) = dttoj(Date(y, m, d))
<1>1. CASE m <= 2
  BY <1>1, FieldsOfDate, SMT DEF toJulianDays, dttoj
<1>2. CASE ~(m <= 2)
  BY <1>2, FieldsOfDate, SMT DEF toJulianDays, dttoj
<1> QED BY <1>1, <1>2, SMT

(* Days of the years the port has dates for, with the year before them.    *)
Reached(s) == s >= 1722000

LEMMA LateYears ==
  ASSUME NEW s \in Int, Reached(s), NEW y, NEW m, NEW d, IsDayOf(s, y, m, d)
  PROVE  y \in Int /\ y >= 2
<1>1. /\ y \in Int /\ m \in 1 .. 12 /\ d \in Int /\ d <= 31
      /\ m \in Int /\ 1 <= m /\ m <= 12 /\ dttoj(Date(y, m, d)) = s
  BY SMT DEF IsDayOf, MonthDays
<1>2. s = YearNumber(y) + 1721425 + DaysBefore(y, m) + d
  BY <1>1, DateNumbers, SMT
<1>3. DaysBefore(y, m) \in Int /\ DaysBefore(y, m) <= 335
  BY <1>1, SMT DEF DaysBefore, m_days
<1>4. y <= 1 => YearNumber(y) <= 1
  BY <1>1, SMT DEF YearNumber
<1>5. YearNumber(y) \in Int
  BY <1>1, LeapDays, SMT
<1> QED BY <1>1, <1>2, <1>3, <1>4, <1>5, SMT DEF Reached

LEMMA AcceptedDate ==
  ASSUME NEW y \in Int, y > 0, NEW m \in Int, 1 <= m, m <= 12,
         NEW d \in Int, 1 <= d, d <= MonthDays(y, m)
  PROVE  Accepted(Date(y, m, d))
<1>1. LeapYear(y) => isLeapYear(y)
  BY SameLeaps, SMT
<1>2. getDaysInMonth(m, y) \in Int /\ MonthDays(y, m) <= getDaysInMonth(m, y)
      /\ MonthDays(y, m) \in Int
  <2>1. CASE m = 2
    <3>1. getDaysInMonth(m, y) = IF isLeapYear(y) THEN 29 ELSE 28
      BY <2>1, SMT DEF getDaysInMonth
    <3> QED BY <1>1, <2>1, <3>1, SMT DEF MonthDays
  <2>2. CASE m \in {4, 6, 9, 11}
    BY <2>2, SMT DEF getDaysInMonth, MonthDays
  <2>3. CASE m \in {1, 3, 5, 7, 8, 10, 12}
    BY <2>3, SMT DEF getDaysInMonth, MonthDays
  <2> QED BY <2>1, <2>2, <2>3, SMT
<1> QED BY <1>2, FieldsOfDate, SMT DEF Accepted

LEMMA AcceptedDay ==
  ASSUME NEW s \in Int, Reached(s)
  PROVE  Accepted(fromJulianDays(s))
<1>1. PICK y, m, d : IsDayOf(s, y, m, d)
  BY NumberOfDate, SMT
<1>2. /\ y \in Int /\ m \in Int /\ 1 <= m /\ m <= 12 /\ d \in Int
      /\ 1 <= d /\ d <= MonthDays(y, m) /\ jtodt(s) = Date(y, m, d)
  BY <1>1, SMT DEF IsDayOf
<1>3. y > 0
  BY <1>1, LateYears, SMT
<1> QED BY <1>2, <1>3, AcceptedDate, SMT DEF fromJulianDays

(* The operations of the port are those of date.c.                         *)
LEMMA SamePlace ==
  ASSUME NEW y \in Int, NEW m \in Int, 1 <= m, m <= 12, NEW d \in Int
  PROVE  /\ getDaysThroughFirstOfMonth(Date(y, m, d)) = MonthStart(Date(y, m, d))
         /\ MonthStart(Date(y, m, d)) \in 0 .. 335
         /\ getDayIndex(Date(y, m, d)) = day_number(Date(y, m, d))
<1>1. is_leap(y) = isLeapYear(y)
  BY SameLeaps, SMT
<1>2. Date(y, m, d).year = y /\ Date(y, m, d).month = m /\ Date(y, m, d).day = d
  BY FieldsOfDate, SMT
<1>3. getDaysThroughFirstOfMonth(Date(y, m, d)) = MonthStart(Date(y, m, d))
  BY <1>1, <1>2, SMT DEF getDaysThroughFirstOfMonth, MonthStart
<1>4. MonthStart(Date(y, m, d)) \in 0 .. 335
  BY <1>2, SMT DEF MonthStart, m_days
<1> QED BY <1>2, <1>3, <1>4, SMT DEF getDayIndex, day_number

LEMMA SameWeekday ==
  ASSUME NEW y \in Int, NEW m \in Int, 1 <= m, m <= 12, NEW d \in Int
  PROVE  computeDayOfWeek(Date(y, m, d)) = set_dow(Date(y, m, d))
<1> DEFINE dt == Date(y, m, d)
           known == (IF isLeapYear(y)
                     THEN <<4, 1, 0, 4, 9, 6, 11, 8, 5, 10, 7, 12>>
                     ELSE <<3, 0, 0, 4, 9, 6, 11, 8, 5, 10, 7, 12>>)[m]
<1>1. is_leap(y) = isLeapYear(y)
  BY SameLeaps, SMT
<1>2. dt.year = y /\ dt.month = m /\ dt.day = d
  BY FieldsOfDate, SMT
<1> HIDE DEF dt
<1>3. known = knownDay(dt)
  BY <1>1, <1>2, SMT DEF knownDay
<1>4. computeDayOfWeek(dt) = (((d - known) % 7) + doomsday(y)) % 7
  BY <1>2, SMT DEF computeDayOfWeek, doomsday
<1>5. set_dow(dt) = (((d - knownDay(dt)) % 7) + doomsday(y)) % 7
  BY <1>2, SMT DEF set_dow
<1> HIDE DEF known
<1> QED BY <1>3, <1>4, <1>5, Zenon DEF dt

LEMMA SameEarlierDays ==
  ASSUME NEW s \in Int, Reached(s - 92), NEW y, NEW m, NEW d, IsDayOf(s, y, m, d)
  PROVE  LET dt == Date(y, m, d)
         IN /\ toJulianDays(Date(y, m, 1)) = OP_FIRST_DOM(dt)
            /\ toJulianDays(computeLastDateOfMonth(dt)) = OP_LAST_DOM(dt)
            /\ toJulianDays(computeSameDayLastYear(dt)) = OP_SAME_LY(dt)
            /\ toJulianDays(computeSameDayLastQuarter(dt)) = OP_SAME_LQ(dt)
            /\ Accepted(computeLastDateOfMonth(dt))
            /\ Accepted(computeSameDayLastYear(dt))
            /\ Accepted(computeSameDayLastQuarter(dt))
<1> DEFINE dt == Date(y, m, d)
<1>1. /\ y \in Int /\ m \in Int /\ 1 <= m /\ m <= 12 /\ m \in 1 .. 12 /\ d \in Int
      /\ 1 <= d /\ d <= MonthDays(y, m) /\ MonthDays(y, m) <= 31
      /\ MonthDays(y, m) \in Int /\ dttoj(dt) = s
  BY SMT DEF IsDayOf, MonthDays
<1>0. Reached(s)
  BY SMT DEF Reached
<1>2. y >= 2 /\ y - 1 \in Int /\ y - 1 > 0
  BY <1>0, <1>1, LateYears, SMT
<1>3. toJulianDays(dt) = s
  BY <1>1, SameNumbers, SMT
<1>4. dt.year = y /\ dt.month = m /\ dt.day = d
  BY FieldsOfDate, SMT
<1>5. toJulianDays(Date(y, m, 1)) = OP_FIRST_DOM(dt)
  <2>1. toJulianDays(Date(y, m, 1)) = dttoj(Date(y, m, 1))
    BY <1>1, SameNumbers, SMT
  <2> QED BY <1>1, <2>1, FirstOfMonth, SMT
(* A number that goes through a date and back. *)
<1>6. ASSUME NEW n \in Int, Reached(n)
      PROVE  toJulianDays(fromJulianDays(n)) = n /\ Accepted(fromJulianDays(n))
  <2>1. PICK a, b, c : IsDayOf(n, a, b, c)
    BY NumberOfDate, SMT
  <2>2. /\ a \in Int /\ b \in Int /\ c \in Int
        /\ jtodt(n) = Date(a, b, c) /\ dttoj(Date(a, b, c)) = n
    BY <2>1, SMT DEF IsDayOf
  <2>3. toJulianDays(fromJulianDays(n)) = n
    BY <2>2, SameNumbers, SMT DEF fromJulianDays
  <2> QED BY <1>6, <2>3, AcceptedDay, SMT
<1>7. /\ toJulianDays(computeLastDateOfMonth(dt)) = OP_LAST_DOM(dt)
      /\ Accepted(computeLastDateOfMonth(dt))
  <2>1. /\ getDaysThroughFirstOfMonth(dt) = MonthStart(dt)
        /\ MonthStart(dt) \in 0 .. 335
    BY <1>1, SamePlace, SMT
  <2> HIDE DEF dt
  <2>2. computeLastDateOfMonth(dt) = fromJulianDays(OP_LAST_DOM(dt))
    BY <1>1, <1>3, <1>4, <2>1, SMT DEF computeLastDateOfMonth, OP_LAST_DOM
  <2>3. OP_LAST_DOM(dt) \in Int /\ Reached(OP_LAST_DOM(dt))
    BY <1>1, <1>4, <2>1, SMT DEF OP_LAST_DOM, Reached
  <2> QED BY <1>6, <2>2, <2>3, SMT
<1>8. /\ toJulianDays(computeSameDayLastYear(dt)) = OP_SAME_LY(dt)
      /\ Accepted(computeSameDayLastYear(dt))
  <2> DEFINE e == IF m = 2 /\ d = 29 THEN 28 ELSE d
  <2>1. m = 2 /\ d = 29 => is_leap(y)
    <3> SUFFICES ASSUME m = 2, d = 29 PROVE is_leap(y)
      BY SMT
    <3>1. LeapYear(y)
      BY <1>1, SMT DEF MonthDays
    <3> QED BY <1>1, <3>1, SameLeaps, SMT
  <2>2. is_leap(y) = isLeapYear(y)
    BY <1>1, SameLeaps, SMT
  <2>3. [dt EXCEPT !.year = @ - 1] = Date(y - 1, m, d)
    BY SMT DEF Date
  <2>4. e \in Int /\ 1 <= e /\ e <= MonthDays(y - 1, m)
    BY <1>1, SMT DEF MonthDays
  <2> HIDE DEF dt
  <2>5. computeSameDayLastYear(dt) = Date(y - 1, m, e)
    BY <1>4, <2>1, <2>2, SMT DEF computeSameDayLastYear
  <2>6. OP_SAME_LY(dt) = dttoj(Date(y - 1, m, e))
    BY <1>4, <2>1, <2>3, SMT DEF OP_SAME_LY
  <2> HIDE DEF e
  <2>7. Accepted(Date(y - 1, m, e))
    BY <1>1, <1>2, <2>4, AcceptedDate, SMT
  <2>8. toJulianDays(Date(y - 1, m, e)) = dttoj(Date(y - 1, m, e))
    BY <1>1, <1>2, <2>4, SameNumbers, SMT
  <2> QED BY <2>5, <2>6, <2>7, <2>8, Zenon
<1>9. /\ toJulianDays(computeSameDayLastQuarter(dt)) = OP_SAME_LQ(dt)
      /\ Accepted(computeSameDayLastQuarter(dt))
  <2> DEFINE p == (m - 1) \div 3
  <2>1. OP_SAME_LQ(dt) \in Int /\ Reached(OP_SAME_LQ(dt))
    <3>1. OP_SAME_LQ(dt) \in s - 92 .. s - 90
      BY SameDayLastQuarter, SMT
    <3> QED BY <3>1, SMT DEF Reached
  <2>2. /\ p \in 0 .. 3 /\ p + 1 \in 1 .. 4
        /\ qtr_start[p + 1] = 3 * p + 1
        /\ p > 0 => qtr_start[p] = (p - 1) * 3 + 1
        /\ qtr_start[4] = 10
    BY <1>1, SMT DEF qtr_start
  <2>3. /\ toJulianDays(Date(y, p * 3 + 1, 1)) = dttoj(Date(y, p * 3 + 1, 1))
        /\ toJulianDays(Date(y, (p - 1) * 3 + 1, 1)) = dttoj(Date(y, (p - 1) * 3 + 1, 1))
        /\ toJulianDays(Date(y - 1, 10, 1)) = dttoj(Date(y - 1, 10, 1))
    <3>1. p * 3 + 1 \in Int /\ (p - 1) * 3 + 1 \in Int
      BY <1>1, SMT
    <3> QED BY <1>1, <1>2, <3>1, SameNumbers, SMT
  <2>4. /\ dttoj(Date(y, p * 3 + 1, 1)) \in Int
        /\ dttoj(Date(y, (p - 1) * 3 + 1, 1)) \in Int
        /\ dttoj(Date(y - 1, 10, 1)) \in Int
    <3> DEFINE a == p * 3 + 1
               b == (p - 1) * 3 + 1
    <3>1. a \in Int /\ b \in Int /\ 1 \in Int /\ 10 \in Int
      BY <1>1, SMT
    <3>2. y \in Int /\ y - 1 \in Int
      BY <1>1, <1>2
    <3> HIDE DEF a, b
    <3>3. /\ dttoj(Date(y, a, 1)) \in Int /\ dttoj(Date(y, b, 1)) \in Int
          /\ dttoj(Date(y - 1, 10, 1)) \in Int
      BY <3>1, <3>2, NumbersAreInt, Zenon
    <3> QED BY <3>3 DEF a, b
  <2>5. p = (m - 1) \div 3
    OBVIOUS
  <2> HIDE DEF dt, p
  <2>6. computeSameDayLastQuarter(dt) = fromJulianDays(OP_SAME_LQ(dt))
    <3>1. CASE p > 0
      <4>1. OP_SAME_LQ(dt) = s - dttoj(Date(y, p * 3 + 1, 1)) + dttoj(Date(y, (p - 1) * 3 + 1, 1))
        BY <1>1, <1>4, <2>2, <2>5, <3>1, SMT DEF OP_SAME_LQ
      <4>2. computeSameDayLastQuarter(dt)
              = fromJulianDays(dttoj(Date(y, (p - 1) * 3 + 1, 1))
                               + (s - dttoj(Date(y, p * 3 + 1, 1))))
        BY <1>3, <1>4, <2>3, <2>5, <3>1, SMT DEF computeSameDayLastQuarter
      <4> QED BY <2>4, <4>1, <4>2, SMT
    <3>2. CASE p = 0
      <4>1. OP_SAME_LQ(dt) = s - dttoj(Date(y, p * 3 + 1, 1)) + dttoj(Date(y - 1, 10, 1))
        BY <1>1, <1>4, <2>2, <2>5, <3>2, SMT DEF OP_SAME_LQ
      <4>2. computeSameDayLastQuarter(dt)
              = fromJulianDays(dttoj(Date(y - 1, 10, 1))
                               + (s - dttoj(Date(y, p * 3 + 1, 1))))
        BY <1>3, <1>4, <2>3, <2>5, <3>2, SMT DEF computeSameDayLastQuarter
      <4> QED BY <2>4, <4>1, <4>2, SMT
    <3> QED BY <2>2, <3>1, <3>2, SMT
  <2> QED BY <1>6, <2>1, <2>6, SMT
<1> QED BY <1>5, <1>7, <1>8, <1>9, Zenon

LEMMA SameFlags ==
  ASSUME NEW dt, NEW k
  PROVE  current(NotCurrent, dt, k)
           = [month   |-> Flag(dt.year = CURRENT_YEAR /\ dt.month = 1),
              quarter |-> Flag(dt.year = CURRENT_YEAR /\ EntryQuarter(day_number(dt)) = 1),
              week    |-> Flag(dt.year = CURRENT_YEAR /\ (k + 6) \div 7 = 2)]
  BY SMT DEF current, NotCurrent, Flag

LEMMA SameRow ==
  ASSUME NEW k \in Nat
  PROVE  /\ DateDimRow(k) = DateRow(k, NotCurrent)
         /\ LET d == fromJulianDays(DateRow(k, NotCurrent).sk)
            IN /\ Accepted(d) /\ Accepted(computeSameDayLastYear(d))
               /\ Accepted(computeLastDateOfMonth(d))
               /\ Accepted(computeSameDayLastQuarter(d))
<1> DEFINE s == BaseDate + k
<1>1. s = BaseDate + k /\ s \in Int /\ Reached(s) /\ Reached(s - 92)
  BY FirstDayOfTable, SMT DEF Reached
<1>2. toJulianDays(Date(1900, 1, 1)) = BaseDate /\ k + BaseDate = s
  BY FirstDayOfTable, SameNumbers, SMT DEF BaseDate
<1> HIDE DEF s
<1>3. PICK y, m, d : IsDayOf(s, y, m, d)
  BY <1>1, NumberOfDate, SMT
<1> DEFINE dt == Date(y, m, d)
<1>4. /\ y \in Int /\ m \in Int /\ 1 <= m /\ m <= 12 /\ d \in Int
      /\ jtodt(s) = dt
  BY <1>3, SMT DEF IsDayOf
<1>5. dt.year = y /\ dt.month = m /\ dt.day = d
  BY FieldsOfDate, SMT
<1>6. /\ computeDayOfWeek(dt) = set_dow(dt)
      /\ getDayIndex(dt) = day_number(dt)
      /\ is_leap(y - 1) = isLeapYear(y - 1)
  BY <1>4, SameWeekday, SamePlace, SameLeaps, SMT
<1>7. /\ toJulianDays(Date(y, m, 1)) = OP_FIRST_DOM(dt)
      /\ toJulianDays(computeLastDateOfMonth(dt)) = OP_LAST_DOM(dt)
      /\ toJulianDays(computeSameDayLastYear(dt)) = OP_SAME_LY(dt)
      /\ toJulianDays(computeSameDayLastQuarter(dt)) = OP_SAME_LQ(dt)
      /\ Accepted(computeLastDateOfMonth(dt))
      /\ Accepted(computeSameDayLastYear(dt))
      /\ Accepted(computeSameDayLastQuarter(dt))
  BY <1>1, <1>3, SameEarlierDays, SMT
<1>8. Accepted(dt)
  BY <1>1, <1>4, AcceptedDay, SMT DEF fromJulianDays
<1>9. DateRow(k, NotCurrent).sk = s
  BY <1>1, SMT DEF DateRow
<1>10. fromJulianDays(s) = dt
  BY <1>4, Zenon DEF fromJulianDays
<1>11. current(NotCurrent, dt, k)
         = [month   |-> Flag(dt.year = CURRENT_YEAR /\ dt.month = 1),
            quarter |-> Flag(dt.year = CURRENT_YEAR /\ EntryQuarter(day_number(dt)) = 1),
            week    |-> Flag(dt.year = CURRENT_YEAR /\ (k + 6) \div 7 = 2)]
  BY SameFlags, SMT
<1> HIDE DEF dt
<1>12. DateDimRow(k) = DateRow(k, NotCurrent)
  BY <1>1, <1>2, <1>4, <1>5, <1>6, <1>7, <1>10, <1>11, SMT
     DEF DateDimRow, DateRow, quarter_seq, following_holiday
<1> QED BY <1>7, <1>8, <1>9, <1>10, <1>12, Zenon

(* DateDimRowGenerator computes each row as mk_w_date() builds it, however *)
(* many there are: its leap years err where is_leap() does; and no date it *)
(* makes on the way is one its constructor refuses.                        *)
THEOREM PortAgrees == DateSpec => []PortBuildsSameDate
<1>1. RowsFromScratch => PortBuildsSameDate
  BY SameRow, Zenon DEF RowsFromScratch, PortBuildsSameDate
<1> QED BY <1>1, RowsFromScratchKept, PTL
================================================================================
