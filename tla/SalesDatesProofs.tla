-------------------------- MODULE SalesDatesProofs --------------------------
(***************************************************************************)
(* The dates of a chunk are those of a serial build, for every calendar,   *)
(* every number of orders and every division of them, if the chunk does    *)
(* not begin with the last order of a day; and they are those of the Java  *)
(* port, also if it does.                                                  *)
(***************************************************************************)
EXTENDS SalesDates, ArithmeticProofs, TLAPS

(* The command line and the chunk it gives the child.                      *)
Setting ==
  /\ parallel \in Parallels
  /\ child \in Kids(parallel)

LEMMA SettingBounds ==
  ASSUME Setting
  PROVE  /\ First \in Nat \ {0}
         /\ Count \in Nat
         /\ First + Count <= Total + 1
<1>1. parallel \in Nat /\ Total \in Nat
  BY SmallTableAssumption, CalendarAssumption DEF Setting, Unset
<1> QED
  BY <1>1, ChunkBounds DEF Setting, First, Count

(* In skipDays(): `index' is the last order of the days passed over, all   *)
(* of which end before the first order of the chunk.                       *)
Skipping ==
  /\ Count > 0
  /\ day \in 0 .. LastDay
  /\ index = DayEnd(day)
  /\ end = IF day = 0 THEN DayEnd(1) ELSE index
  /\ day > 0 => DayEnd(day - 1) < First
  /\ row = First
  /\ left = Count
  /\ \A r \in 1 .. Total : sold[r] = Undated

(* In gen_tbl(): the next order is not before the day of the moment, `end' *)
(* is the day's last order, and the orders so far are dated.               *)
Walking ==
  /\ day \in 0 .. LastDay - 1
  /\ end = DayEnd(day + 1)
  /\ day = 0 \/ DayEnd(day) < row
  /\ row \in Nat
  /\ First <= row
  /\ left \in Nat
  /\ row + left = First + Count
  /\ \A r \in First .. row - 1 : sold[r] # Undated

DInv ==
  /\ Setting
  /\ pc \in {"skip", "row", "done"}
  /\ ~Aligned =>
       /\ sold \in [1 .. Total -> {Undated} \cup Nat]
       /\ \A r \in 1 .. Total : sold[r] # Undated => OnDay(r, sold[r])
       /\ pc = "skip" => Skipping
       /\ pc = "row" => Walking
       /\ pc = "done" => \A r \in Chunk(Total, parallel, child) : sold[r] # Undated

(* The calendar at the days that are looked at.                            *)
LEMMA Calendar ==
  /\ Total \in Nat
  /\ LastDay \in Nat \ {0}
  /\ DayEnd(0) = 1
  /\ \A k \in 0 .. LastDay : RowsOn(k) \in Nat /\ DayEnd(k) \in Nat
  /\ \A k \in 0 .. LastDay : DayEnd(k + 1) = DayEnd(k) + RowsOn(k)
  /\ Total <= DayEnd(LastDay)
BY CalendarAssumption

LEMMA InitDated == Init => DInv
<1> SUFFICES ASSUME Init PROVE DInv
  OBVIOUS
<1>1. Setting
  BY DEF Init, Setting
<1>2. First \in Nat \ {0} /\ Count \in Nat
  BY <1>1, SettingBounds
<1>3. end = DayEnd(1)
  BY Calendar DEF Init
<1>4. pc = "skip" => Skipping
  BY <1>2, <1>3, Calendar DEF Init, Skipping
<1>5. pc = "done" => Chunk(Total, parallel, child) = {}
  BY <1>2 DEF Init, Chunk, First, Count
<1>6. sold \in [1 .. Total -> {Undated} \cup Nat]
  BY DEF Init
<1> QED
  BY <1>1, <1>4, <1>5, <1>6 DEF Init, DInv

(* One more day is passed over.                                            *)
LEMMA SkipDayDated == ASSUME DInv, SkipDay PROVE DInv'
<1>1. Setting' /\ (First' = First) /\ (Count' = Count) /\ (Aligned' <=> Aligned)
  BY DEF DInv, SkipDay, Setting, First, Count, Aligned
<1>2. First \in Nat \ {0} /\ Count \in Nat /\ First + Count <= Total + 1
  BY SettingBounds DEF DInv
<1>3. ASSUME ~Aligned PROVE Skipping'
  <2>1. Skipping
    BY <1>3 DEF DInv, SkipDay
  <2>2. DayEnd(day) < First /\ First <= DayEnd(LastDay)
    BY <1>2, <2>1, Calendar DEF Skipping, SkipDay
  <2>3. day # LastDay
    BY <1>2, <2>1, <2>2, Calendar DEF Skipping
  <2>4. day' = day + 1 /\ day' \in 0 .. LastDay /\ day' - 1 = day /\ day' # 0
    BY <2>1, <2>3, Calendar DEF Skipping, SkipDay
  <2>5. index' = DayEnd(day')
    BY <2>1, <2>4, Calendar DEF Skipping, SkipDay
  <2>6. end' = index' /\ UNCHANGED <<row, left, sold>>
    BY DEF SkipDay
  <2> QED
    BY <1>1, <2>1, <2>2, <2>4, <2>5, <2>6 DEF Skipping
<1>4. pc' = "skip" /\ sold' = sold
  BY DEF SkipDay
<1> QED
  BY <1>1, <1>3, <1>4 DEF DInv, OnDay

(* The day found is the day of the first order.                            *)
LEMMA FoundDayDated == ASSUME DInv, FoundDay PROVE DInv'
<1>1. Setting' /\ (First' = First) /\ (Count' = Count) /\ (Aligned' <=> Aligned)
  BY DEF DInv, FoundDay, Setting, First, Count, Aligned
<1>2. First \in Nat \ {0} /\ Count \in Nat /\ First + Count <= Total + 1
  BY SettingBounds DEF DInv
<1>3. ASSUME ~Aligned PROVE Walking'
  <2>1. Skipping /\ index >= First /\ day' = StartDay(index, day)
    BY <1>3 DEF DInv, FoundDay
  <2>2. UNCHANGED <<row, left, end, sold>>
    BY DEF FoundDay
  <2>3. /\ day' \in 0 .. LastDay - 1
        /\ end = DayEnd(day' + 1)
        /\ day' = 0 \/ DayEnd(day') < First
    <3>1. CASE day = 0
      <4>1. index = 1 /\ First = 1
        BY <1>2, <2>1, <3>1, Calendar DEF Skipping
      <4>2. day' = 0
        BY <2>1, <3>1, <4>1 DEF StartDay
      <4> QED
        BY <2>1, <3>1, <4>2, Calendar DEF Skipping
    <3>2. CASE day # 0
      <4>1. day \in 1 .. LastDay
        BY <2>1, <3>2 DEF Skipping
      <4>2. DayEnd(day) # First
        BY <1>3, <4>1 DEF Aligned
      <4>3. index > First
        <5>1. DayEnd(day) \in Nat /\ index = DayEnd(day) /\ index >= First
          BY <2>1, <4>1, Calendar DEF Skipping
        <5> QED
          BY <1>2, <4>2, <5>1
      <4>4. day' = day - 1
        BY <2>1, <4>3 DEF StartDay
      <4>5. day' \in 0 .. LastDay - 1 /\ day' + 1 = day
        BY <4>1, <4>4, Calendar
      <4> QED
        BY <2>1, <3>2, <4>1, <4>4, <4>5 DEF Skipping
    <3> QED
      BY <3>1, <3>2
  <2>4. \A r \in First .. First - 1 : FALSE
    BY <1>2
  <2> QED
    BY <1>1, <1>2, <2>1, <2>2, <2>3, <2>4 DEF Skipping, Walking
<1>4. pc' = "row" /\ sold' = sold
  BY DEF FoundDay
<1> QED
  BY <1>1, <1>3, <1>4 DEF DInv, OnDay

(* The walk goes on to the next day.                                       *)
LEMMA MoveDayDated == ASSUME DInv, MoveDay PROVE DInv'
<1>1. Setting' /\ (First' = First) /\ (Count' = Count) /\ (Aligned' <=> Aligned)
  BY DEF DInv, MoveDay, Setting, First, Count, Aligned
<1>2. First \in Nat \ {0} /\ Count \in Nat /\ First + Count <= Total + 1
  BY SettingBounds DEF DInv
<1>3. ASSUME ~Aligned PROVE Walking'
  <2>1. Walking
    BY <1>3 DEF DInv, MoveDay
  <2>2. left > 0 /\ row > end /\ day' = day + 1 /\ end' = end + RowsOn(day')
    BY DEF MoveDay, EndAfter
  <2>3. UNCHANGED <<row, left, sold>>
    BY DEF MoveDay
  <2>4. DayEnd(day + 1) < row /\ row <= DayEnd(LastDay)
    BY <1>2, <2>1, <2>2, Calendar DEF Walking
  <2>5. day + 1 # LastDay
    BY <2>1, <2>4, Calendar DEF Walking
  <2>6. day' \in 0 .. LastDay - 1 /\ day' \in 0 .. LastDay
    BY <2>1, <2>2, <2>5, Calendar DEF Walking
  <2>7. end' = DayEnd(day' + 1)
    BY <2>1, <2>2, <2>6, Calendar DEF Walking
  <2> QED
    BY <1>1, <2>1, <2>2, <2>3, <2>4, <2>6, <2>7 DEF Walking
<1>4. pc' = "row" /\ sold' = sold
  BY DEF MoveDay
<1> QED
  BY <1>1, <1>3, <1>4 DEF DInv, OnDay

(* An order is dated with the day of the moment, which is its day.         *)
LEMMA BuildOrderDated == ASSUME DInv, BuildOrder PROVE DInv'
<1>1. Setting' /\ (First' = First) /\ (Count' = Count) /\ (Aligned' <=> Aligned)
  BY DEF DInv, BuildOrder, Setting, First, Count, Aligned
<1>2. First \in Nat \ {0} /\ Count \in Nat /\ First + Count <= Total + 1
  BY SettingBounds DEF DInv
<1>3. pc' = "row"
  BY DEF BuildOrder
<1>4. ASSUME ~Aligned
      PROVE  /\ Walking'
             /\ sold' \in [1 .. Total -> {Undated} \cup Nat]
             /\ \A r \in 1 .. Total : sold'[r] # Undated => OnDay(r, sold'[r])
  <2>1. /\ Walking
        /\ sold \in [1 .. Total -> {Undated} \cup Nat]
        /\ \A r \in 1 .. Total : sold[r] # Undated => OnDay(r, sold[r])
    BY <1>4 DEF DInv, BuildOrder
  <2>2. /\ left > 0 /\ row <= end /\ UNCHANGED <<day, end>>
        /\ sold' = [sold EXCEPT ![row] = day]
        /\ row' = row + 1 /\ left' = left - 1
    BY DEF BuildOrder, InDay
  <2>3. row \in 1 .. Total /\ day \in Nat /\ day # Undated
    BY <1>2, <2>1, <2>2, Calendar DEF Walking, Undated
  <2>4. OnDay(row, day)
    BY <2>1, <2>2 DEF Walking, OnDay
  <2>5. \A r \in 1 .. Total : sold'[r] = IF r = row THEN day ELSE sold[r]
    BY <2>1, <2>2
  <2>6. \A r \in First .. row' - 1 : sold'[r] # Undated
    <3> SUFFICES ASSUME NEW r \in First .. row PROVE sold'[r] # Undated
      BY <2>1, <2>2 DEF Walking
    <3>1. r \in 1 .. Total /\ (r = row \/ r \in First .. row - 1)
      BY <1>2, <2>3, Calendar
    <3>2. r # row => sold[r] # Undated
      BY <2>1, <3>1 DEF Walking
    <3> QED
      BY <2>3, <2>5, <3>1, <3>2
  <2>7. day = 0 \/ DayEnd(day) < row'
    <3>1. day \in 0 .. LastDay - 1
      BY <2>1 DEF Walking
    <3>2. DayEnd(day) \in Nat
      BY <3>1, Calendar
    <3> QED
      BY <2>1, <2>2, <3>2 DEF Walking
  <2>8. Walking'
    BY <1>1, <1>2, <2>1, <2>2, <2>6, <2>7 DEF Walking
  <2> QED
    BY <2>1, <2>2, <2>3, <2>4, <2>5, <2>8
<1> QED
  BY <1>1, <1>3, <1>4 DEF DInv, OnDay

(* At the end of the rows the whole chunk is dated.                        *)
LEMMA FinishDated == ASSUME DInv, Finish PROVE DInv'
<1>1. Setting' /\ (First' = First) /\ (Count' = Count) /\ (Aligned' <=> Aligned)
  BY DEF DInv, Finish, Setting, First, Count, Aligned
<1>2. First \in Nat \ {0} /\ Count \in Nat
  BY SettingBounds DEF DInv
<1>3. ASSUME ~Aligned, NEW r \in Chunk(Total, parallel, child)
      PROVE  sold[r] # Undated
  <2>1. Walking /\ left = 0
    BY <1>3 DEF DInv, Finish
  <2>2. row = First + Count
    BY <2>1, <1>2 DEF Walking
  <2>3. r \in First .. row - 1
    <3>1. Chunk(Total, parallel, child) = First .. First + Count - 1
      BY DEF Chunk, First, Count
    <3> QED
      BY <1>2, <1>3, <2>2, <3>1
  <2> QED
    BY <2>1, <2>3 DEF Walking
<1>4. pc' = "done" /\ UNCHANGED <<parallel, child, sold>>
  BY DEF Finish
<1> QED
  BY <1>1, <1>3, <1>4 DEF DInv, OnDay

(* Unless a chunk begins with the last order of a day, its orders are      *)
(* dated as in a serial build, and all of them are dated.                  *)
THEOREM ChunkDatedAsSerial == Spec => []DatedAsSerial
<1>1. Init => DInv
  BY InitDated
<1>2. DInv /\ [Next]_vars => DInv'
  <2> SUFFICES ASSUME DInv, [Next]_vars PROVE DInv'
    OBVIOUS
  <2>1. CASE UNCHANGED vars
    BY <2>1 DEF vars, DInv, Setting, Aligned, First, Count, OnDay, Skipping, Walking
  <2> QED
    BY <2>1, SkipDayDated, FoundDayDated, MoveDayDated, BuildOrderDated, FinishDated
       DEF Next, Step, Over
<1>3. DInv => DatedAsSerial
  BY DEF DInv, DatedAsSerial
<1> QED
  BY <1>1, <1>2, <1>3, PTL DEF Spec

-----------------------------------------------------------------------------
(***************************************************************************)
(* The port's walk, for every chunk, those that are dated late included.   *)
(***************************************************************************)

(* The last order of day d in the port's walk over this chunk.             *)
PortEnd(d) ==
  skipDaysUntilFirstRowOfChunk.nextDateIndex + DayEnd(d + 1) - DayEnd(JulianDate + 1)

(* In skipDays(), as Skipping, but whether or not the chunk is aligned.    *)
SkippingAlike ==
  /\ Count > 0
  /\ day \in 0 .. LastDay
  /\ index = DayEnd(day)
  /\ end = IF day = 0 THEN RowsOn(0) + 1 ELSE index
  /\ day > 0 => DayEnd(day - 1) < First
  /\ row = First
  /\ left = Count

(* In gen_tbl(): the day is one of the port's walk, at which it would be   *)
(* for this order, or from which it would go on; it is late by the orders  *)
(* of the first day at most.                                               *)
WalkingAlike ==
  /\ Count > 0
  /\ JulianDate \in 0 .. LastDay
  /\ skipDaysUntilFirstRowOfChunk.nextDateIndex \in Nat
  /\ day \in JulianDate .. LastDay
  /\ end = PortEnd(day)
  /\ DayEnd(day + 1) - RowsOn(JulianDate) <= end
  /\ day > JulianDate => PortEnd(day - 1) < row
  /\ row \in Nat
  /\ First <= row
  /\ left \in Nat
  /\ row + left = First + Count

Alike ==
  /\ Setting
  /\ pc \in {"skip", "row", "done"}
  /\ index \in Nat
  /\ day \in 0 .. LastDay
  /\ end \in Nat
  /\ row \in Nat
  /\ left \in Nat
  /\ sold \in [1 .. Total -> {Undated} \cup 0 .. LastDay]
  /\ PortDatesSame
  /\ pc = "skip" => SkippingAlike
  /\ pc = "row" => WalkingAlike

(* What the port's walk goes by depends on the command line alone.         *)
LEMMA SameWalk ==
  ASSUME UNCHANGED <<parallel, child>>
  PROVE  /\ First' = First /\ Count' = Count /\ (Setting' <=> Setting)
         /\ JulianDate' = JulianDate
         /\ skipDaysUntilFirstRowOfChunk' = skipDaysUntilFirstRowOfChunk
         /\ \A r : DateOfOrder(r)' = DateOfOrder(r)
<1>1. First' = First /\ Count' = Count /\ (Setting' <=> Setting)
  BY DEF First, Count, Setting
<1>2. DaysSkipped' = DaysSkipped
  BY <1>1 DEF DaysSkipped
<1>3. JulianDate' = JulianDate
  BY <1>1, <1>2 DEF JulianDate
<1>4. skipDaysUntilFirstRowOfChunk' = skipDaysUntilFirstRowOfChunk
  BY <1>2, <1>3 DEF skipDaysUntilFirstRowOfChunk
<1>5. \A r : DateOfOrder(r)' = DateOfOrder(r)
  BY <1>4 DEF DateOfOrder
<1> QED
  BY <1>1, <1>3, <1>4, <1>5

(* The calendar a day beyond LastDay, and its order.                       *)
LEMMA CalendarOrder ==
  /\ \A k \in 0 .. LastDay + 1 : DayEnd(k) \in Nat
  /\ \A j, k \in 0 .. LastDay : j <= k => DayEnd(j) <= DayEnd(k)
  /\ \A k \in 0 .. LastDay : Total + RowsOn(k) <= DayEnd(LastDay)
<1>1. DayEnd(LastDay + 1) \in Nat
  <2>1. LastDay \in 0 .. LastDay
    BY Calendar
  <2> QED
    BY <2>1, Calendar
<1>2. \A k \in 0 .. LastDay + 1 : k = LastDay + 1 \/ k \in 0 .. LastDay
  BY Calendar
<1> QED
  BY <1>1, <1>2, CalendarAssumption

(* The day before the first whose end is not before the first order is the *)
(* one both loops stop at.                                                 *)
LEMMA StopsAlike ==
  ASSUME Setting, NEW d \in 0 .. LastDay, DayEnd(d) >= First,
         d > 0 => DayEnd(d - 1) < First
  PROVE  DaysSkipped = d
<1> DEFINE Stop(k) == DayEnd(k) >= First /\ \A e \in 0 .. k - 1 : DayEnd(e) < First
<1>1. First \in Nat /\ LastDay \in Nat
  BY SettingBounds, Calendar
<1>2. \A e \in 0 .. d - 1 : DayEnd(e) < First
  <2> SUFFICES ASSUME NEW e \in 0 .. d - 1 PROVE DayEnd(e) < First
    OBVIOUS
  <2>1. e \in 0 .. LastDay /\ d - 1 \in 0 .. LastDay /\ e <= d - 1 /\ d > 0
    BY <1>1
  <2>2. DayEnd(e) <= DayEnd(d - 1) /\ DayEnd(e) \in Nat /\ DayEnd(d - 1) \in Nat
    BY <2>1, CalendarOrder, Calendar
  <2> QED
    BY <1>1, <2>1, <2>2
<1>3. Stop(d)
  BY <1>2
<1>4. ASSUME NEW k \in 0 .. LastDay, Stop(k) PROVE k = d
  <2>1. ~(k < d)
    <3>1. k < d => k \in 0 .. d - 1
      BY <1>1
    <3>2. DayEnd(k) \in Nat
      BY Calendar
    <3> QED
      BY <1>1, <1>2, <1>4, <3>1, <3>2
  <2>2. ~(d < k)
    <3>1. d < k => d \in 0 .. k - 1
      BY <1>1
    <3>2. DayEnd(d) \in Nat
      BY Calendar
    <3> QED
      BY <1>1, <1>3, <1>4, <3>1, <3>2
  <2> QED
    BY <1>1, <2>1, <2>2
<1>5. DaysSkipped = CHOOSE k \in 0 .. LastDay : Stop(k)
  BY DEF DaysSkipped
<1> HIDE DEF Stop
<1> QED
  BY <1>3, <1>4, <1>5

LEMMA InitAlike == Init => Alike
<1> SUFFICES ASSUME Init PROVE Alike
  OBVIOUS
<1>1. Setting
  BY DEF Init, Setting
<1>2. First \in Nat \ {0} /\ Count \in Nat
  BY <1>1, SettingBounds
<1>3. RowsOn(0) \in Nat /\ DayEnd(0) = 1 /\ LastDay \in Nat \ {0}
  BY Calendar
<1>4. pc = "skip" => SkippingAlike
  BY <1>2, <1>3 DEF Init, SkippingAlike
<1>5. sold \in [1 .. Total -> {Undated} \cup 0 .. LastDay]
  BY DEF Init
<1>6. PortDatesSame
  BY DEF Init, PortDatesSame
<1> QED
  BY <1>1, <1>2, <1>3, <1>4, <1>5, <1>6 DEF Init, Alike

LEMMA SkipDayAlike == ASSUME Alike, SkipDay PROVE Alike'
<1>1. /\ First' = First /\ Count' = Count /\ Setting'
      /\ \A r : DateOfOrder(r)' = DateOfOrder(r)
  BY SameWalk DEF Alike, SkipDay
<1>2. First \in Nat \ {0} /\ Count \in Nat /\ First + Count <= Total + 1
  BY SettingBounds DEF Alike
<1>3. SkippingAlike
  BY DEF Alike, SkipDay
<1>4. DayEnd(day) < First /\ First <= DayEnd(LastDay)
  <2>1. First <= Total /\ DayEnd(day) = index
    BY <1>2, <1>3, Calendar DEF SkippingAlike
  <2> QED
    BY <1>2, <2>1, Calendar DEF SkipDay
<1>5. day \in 0 .. LastDay /\ day # LastDay
  BY <1>2, <1>3, <1>4, Calendar DEF SkippingAlike
<1>6. day' = day + 1 /\ day' \in 0 .. LastDay /\ day' - 1 = day /\ day' # 0
  BY <1>5, Calendar DEF SkipDay
<1>7. index' = DayEnd(day') /\ index' \in Nat
  BY <1>3, <1>5, <1>6, Calendar DEF SkippingAlike, SkipDay
<1>8. pc' = "skip" /\ end' = index' /\ UNCHANGED <<row, left, sold>>
  BY DEF SkipDay
<1>9. SkippingAlike'
  BY <1>1, <1>3, <1>4, <1>6, <1>7, <1>8 DEF SkippingAlike
<1>10. PortDatesSame'
  BY <1>1, <1>8 DEF Alike, PortDatesSame
<1> QED
  BY <1>1, <1>6, <1>7, <1>8, <1>9, <1>10 DEF Alike

LEMMA FoundDayAlike == ASSUME Alike, FoundDay PROVE Alike'
<1>1. /\ First' = First /\ Count' = Count /\ Setting' /\ JulianDate' = JulianDate
      /\ skipDaysUntilFirstRowOfChunk' = skipDaysUntilFirstRowOfChunk
      /\ \A r : DateOfOrder(r)' = DateOfOrder(r)
  BY SameWalk DEF Alike, FoundDay
<1>2. First \in Nat \ {0} /\ Count \in Nat /\ First + Count <= Total + 1
  BY SettingBounds DEF Alike
<1>3. SkippingAlike /\ index >= First /\ day' = StartDay(index, day)
  BY DEF Alike, FoundDay
<1>4. DaysSkipped = day
  BY <1>3, StopsAlike DEF SkippingAlike, Alike
<1>5. JulianDate = day'
  BY <1>3, <1>4 DEF JulianDate, StartDay, SkippingAlike
<1>6. day' \in 0 .. LastDay
  <2>1. day = 0 => day' = 0
    BY <1>2, <1>3, Calendar DEF SkippingAlike, StartDay
  <2>2. day' \in {day, day - 1} /\ day \in 0 .. LastDay
    BY <1>3 DEF SkippingAlike, StartDay
  <2> QED
    BY <2>1, <2>2, Calendar
<1>7. skipDaysUntilFirstRowOfChunk.nextDateIndex = end
  BY <1>3, <1>4, Calendar DEF skipDaysUntilFirstRowOfChunk, SkippingAlike
<1>8. end \in Nat
  BY DEF Alike
<1>9. end = PortEnd(day')
  <2>1. DayEnd(day' + 1) \in Nat
    BY <1>6, CalendarOrder, Calendar
  <2> QED
    BY <1>5, <1>7, <1>8, <2>1 DEF PortEnd
<1>10. UNCHANGED <<row, left, end, sold, index>> /\ pc' = "row"
  BY DEF FoundDay
<1>13. DayEnd(day' + 1) - RowsOn(day') <= end
  <2>1. DayEnd(day' + 1) = DayEnd(day') + RowsOn(day') /\ RowsOn(day') \in Nat
        /\ DayEnd(day') \in Nat
    BY <1>6, Calendar
  <2>2. CASE index > First /\ day # 0
    <3>1. day' = day - 1 /\ day' + 1 = day /\ end = DayEnd(day)
      BY <1>3, <2>2 DEF SkippingAlike, StartDay
    <3> QED
      BY <1>8, <2>1, <3>1
  <2>3. CASE day = 0
    <3>1. day' = 0 /\ end = RowsOn(0) + 1 /\ DayEnd(0) = 1
      BY <1>3, <1>6, <2>3, Calendar DEF SkippingAlike, StartDay
    <3> QED
      BY <2>1, <3>1
  <2>4. CASE ~(index > First) /\ day # 0
    <3>1. day' = day /\ end = DayEnd(day)
      BY <1>3, <2>4 DEF SkippingAlike, StartDay
    <3> QED
      BY <2>1, <3>1
  <2> QED
    BY <2>2, <2>3, <2>4
<1>11. WalkingAlike'
  <2>1. row \in Nat /\ left \in Nat /\ First <= row /\ row + left = First + Count /\ Count > 0
    BY <1>2, <1>3 DEF SkippingAlike
  <2>2. JulianDate' \in 0 .. LastDay /\ day' \in JulianDate' .. LastDay /\ ~(day' > JulianDate')
    BY <1>1, <1>5, <1>6
  <2>3. end' = (PortEnd(day))'
    BY <1>1, <1>9, <1>10 DEF PortEnd
  <2>4. (DayEnd(day + 1) - RowsOn(JulianDate) <= end)'
    BY <1>1, <1>5, <1>10, <1>13
  <2>5. (skipDaysUntilFirstRowOfChunk.nextDateIndex)' \in Nat
    BY <1>1, <1>7, <1>8
  <2> QED
    BY <1>1, <1>10, <2>1, <2>2, <2>3, <2>4, <2>5 DEF WalkingAlike
<1>12. PortDatesSame'
  BY <1>1, <1>10 DEF Alike, PortDatesSame
<1> QED
  BY <1>1, <1>6, <1>10, <1>11, <1>12 DEF Alike

(* The walk goes on a day; the day stays within the calendar.              *)
LEMMA MoveDayAlike == ASSUME Alike, MoveDay PROVE Alike'
<1>1. /\ First' = First /\ Count' = Count /\ Setting' /\ JulianDate' = JulianDate
      /\ skipDaysUntilFirstRowOfChunk' = skipDaysUntilFirstRowOfChunk
      /\ \A r : DateOfOrder(r)' = DateOfOrder(r)
  BY SameWalk DEF Alike, MoveDay
<1>2. First \in Nat \ {0} /\ Count \in Nat /\ First + Count <= Total + 1
  BY SettingBounds DEF Alike
<1>3. WalkingAlike
  BY DEF Alike, MoveDay
<1>4. /\ left > 0 /\ row > end /\ day' = day + 1 /\ end' = end + RowsOn(day')
      /\ pc' = "row" /\ UNCHANGED <<index, row, left, sold>>
  BY DEF MoveDay, EndAfter
<1>5. day \in 0 .. LastDay /\ JulianDate \in 0 .. LastDay /\ end \in Nat
  BY <1>3 DEF Alike, WalkingAlike
<1>6. /\ DayEnd(day + 1) \in Nat /\ DayEnd(day) \in Nat /\ RowsOn(day) \in Nat
      /\ DayEnd(day + 1) = DayEnd(day) + RowsOn(day)
      /\ RowsOn(JulianDate) \in Nat /\ Total + RowsOn(JulianDate) <= DayEnd(LastDay)
      /\ LastDay \in Nat \ {0} /\ Total \in Nat /\ DayEnd(LastDay) \in Nat
  <2>1. LastDay \in 0 .. LastDay
    BY Calendar
  <2> QED
    BY <1>5, <2>1, Calendar, CalendarOrder
<1>7. day < LastDay
  <2>1. DayEnd(day + 1) - RowsOn(JulianDate) <= end /\ row <= Total
    <3>1. row + left = First + Count /\ row \in Nat /\ left \in Nat
          /\ DayEnd(day + 1) - RowsOn(JulianDate) <= end
      BY <1>3 DEF WalkingAlike
    <3> QED
      BY <1>2, <1>4, <1>6, <3>1
  <2>2. row \in Nat
    BY DEF Alike
  <2>3. DayEnd(day + 1) < DayEnd(LastDay)
    BY <1>4, <1>5, <1>6, <2>1, <2>2
  <2> QED
    BY <1>5, <1>6, <2>3
<1>8. day' \in 0 .. LastDay /\ day' - 1 = day /\ day' \in JulianDate .. LastDay
  BY <1>3, <1>4, <1>5, <1>6, <1>7 DEF WalkingAlike
<1>9. /\ RowsOn(day') \in Nat /\ DayEnd(day') \in Nat /\ DayEnd(day' + 1) \in Nat
      /\ DayEnd(day' + 1) = DayEnd(day') + RowsOn(day')
  BY <1>6, <1>8, Calendar, CalendarOrder
<1>10. DayEnd(JulianDate + 1) \in Nat
  BY <1>5, <1>6, CalendarOrder
<1>11. end' \in Nat
  BY <1>4, <1>5, <1>9
<1>12. end' = (PortEnd(day))'
  <2> DEFINE start == skipDaysUntilFirstRowOfChunk.nextDateIndex
  <2>1. end = start + DayEnd(day') - DayEnd(JulianDate + 1)
    BY <1>3, <1>4 DEF WalkingAlike, PortEnd
  <2>2. start \in Int
    BY <1>3 DEF WalkingAlike
  <2>3. end' = start + DayEnd(day' + 1) - DayEnd(JulianDate + 1)
    BY <1>4, <1>9, <1>10, <2>1, <2>2
  <2>4. (PortEnd(day))' = start + DayEnd(day' + 1) - DayEnd(JulianDate + 1)
    BY <1>1 DEF PortEnd
  <2> QED
    BY <2>3, <2>4
<1>13. (day > JulianDate => PortEnd(day - 1) < row)'
  <2>1. PortEnd(day) < row
    BY <1>3, <1>4 DEF WalkingAlike
  <2>2. (PortEnd(day - 1))' = PortEnd(day)
    BY <1>1, <1>8 DEF PortEnd
  <2> QED
    BY <1>4, <2>1, <2>2
<1>14. (DayEnd(day + 1) - RowsOn(JulianDate) <= end)'
  <2>1. DayEnd(day + 1) - RowsOn(JulianDate) <= end
    BY <1>3 DEF WalkingAlike
  <2>2. DayEnd(day' + 1) - RowsOn(JulianDate) <= end'
    BY <1>4, <1>5, <1>6, <1>9, <2>1
  <2> QED
    BY <1>1, <2>2
<1>15. WalkingAlike'
  BY <1>1, <1>3, <1>4, <1>8, <1>12, <1>13, <1>14 DEF WalkingAlike
<1>16. PortDatesSame'
  BY <1>1, <1>4 DEF Alike, PortDatesSame
<1> QED
  BY <1>1, <1>4, <1>8, <1>11, <1>15, <1>16 DEF Alike

(* The port's loop, too, moves on until the order is by a day's end: it    *)
(* comes to the same day.                                                  *)
LEMMA OrderAlike ==
  ASSUME Alike, WalkingAlike, row <= end, row \in 1 .. Total
  PROVE  DateOfOrder(row) = day
<1> DEFINE IsBy(d) == row <= PortEnd(d)
           Chosen(d) == IsBy(d) /\ \A e \in JulianDate .. d - 1 : ~IsBy(e)
<1>1. JulianDate \in 0 .. LastDay /\ day \in JulianDate .. LastDay /\ LastDay \in Nat
  BY Calendar DEF WalkingAlike
<1>2. skipDaysUntilFirstRowOfChunk.nextDateIndex \in Nat /\ DayEnd(JulianDate + 1) \in Nat
  BY <1>1, CalendarOrder DEF WalkingAlike
<1>3. \A e \in JulianDate .. day - 1 : ~IsBy(e)
  <2> SUFFICES ASSUME NEW e \in JulianDate .. day - 1 PROVE ~IsBy(e)
    OBVIOUS
  <2>1. PortEnd(day - 1) < row /\ row \in Nat
    BY <1>1 DEF WalkingAlike
  <2>2. /\ e + 1 \in 0 .. LastDay /\ day \in 0 .. LastDay /\ e + 1 <= day
        /\ day - 1 + 1 = day
    BY <1>1
  <2>3. DayEnd(e + 1) \in Nat /\ DayEnd(day) \in Nat /\ DayEnd(e + 1) <= DayEnd(day)
    BY <2>2, CalendarOrder, Calendar
  <2>4. PortEnd(e) <= PortEnd(day - 1) /\ PortEnd(e) \in Int /\ PortEnd(day - 1) \in Int
    BY <1>2, <2>2, <2>3 DEF PortEnd
  <2> QED
    BY <2>1, <2>4
<1>4. Chosen(day)
  BY <1>3 DEF WalkingAlike
<1>5. ASSUME NEW d \in JulianDate .. LastDay, Chosen(d) PROVE d = day
  <2>1. ~(d < day)
    <3>1. d < day => d \in JulianDate .. day - 1
      BY <1>1
    <3> QED
      BY <1>3, <1>5, <3>1
  <2>2. ~(day < d)
    <3>1. day < d => day \in JulianDate .. d - 1
      BY <1>1
    <3> QED
      BY <1>4, <1>5, <3>1
  <2> QED
    BY <1>1, <2>1, <2>2
<1>6. DateOfOrder(row) = CHOOSE d \in JulianDate .. LastDay : Chosen(d)
  BY DEF DateOfOrder, PortEnd, skipDaysUntilFirstRowOfChunk
<1> HIDE DEF Chosen
<1> QED
  BY <1>1, <1>4, <1>5, <1>6

LEMMA BuildOrderAlike == ASSUME Alike, BuildOrder PROVE Alike'
<1>1. /\ First' = First /\ Count' = Count /\ Setting' /\ JulianDate' = JulianDate
      /\ skipDaysUntilFirstRowOfChunk' = skipDaysUntilFirstRowOfChunk
      /\ \A r : DateOfOrder(r)' = DateOfOrder(r)
  BY SameWalk DEF Alike, BuildOrder
<1>2. First \in Nat \ {0} /\ Count \in Nat /\ First + Count <= Total + 1
  BY SettingBounds DEF Alike
<1>3. WalkingAlike
  BY DEF Alike, BuildOrder
<1>4. /\ left > 0 /\ row <= end /\ UNCHANGED <<index, day, end>>
      /\ sold' = [sold EXCEPT ![row] = day]
      /\ row' = row + 1 /\ left' = left - 1 /\ pc' = "row"
  BY DEF BuildOrder, InDay
<1>5. row \in 1 .. Total
  BY <1>2, <1>3, <1>4, Calendar DEF WalkingAlike
<1>6. DateOfOrder(row) = day
  BY <1>3, <1>4, <1>5, OrderAlike
<1>7. /\ sold \in [1 .. Total -> {Undated} \cup 0 .. LastDay] /\ day \in 0 .. LastDay
      /\ left \in Nat /\ row \in Nat /\ PortDatesSame /\ end \in Nat /\ index \in Nat
  BY DEF Alike
<1>8. PortDatesSame'
  <2> SUFFICES ASSUME NEW r \in 1 .. Total, sold'[r] # Undated
               PROVE  sold'[r] = DateOfOrder(r)'
    BY DEF PortDatesSame
  <2>1. sold'[r] = IF r = row THEN day ELSE sold[r]
    BY <1>4, <1>7
  <2> QED
    BY <1>1, <1>6, <1>7, <2>1 DEF PortDatesSame
<1>9. row' \in Nat /\ left' \in Nat /\ First <= row' /\ row' + left' = First + Count
  BY <1>2, <1>3, <1>4, <1>7 DEF WalkingAlike
<1>10. (day > JulianDate => PortEnd(day - 1) < row)'
  <2> SUFFICES ASSUME day > JulianDate PROVE (PortEnd(day - 1))' < row'
    BY <1>1, <1>4
  <2>1. (PortEnd(day - 1))' = PortEnd(day - 1)
    BY <1>1, <1>4 DEF PortEnd
  <2>2. PortEnd(day - 1) < row
    BY <1>3 DEF WalkingAlike
  <2>3. PortEnd(day - 1) \in Int
    <3>1. day - 1 + 1 \in 0 .. LastDay + 1 /\ JulianDate + 1 \in 0 .. LastDay + 1
      BY <1>3, <1>7, Calendar DEF WalkingAlike
    <3>2. DayEnd(day - 1 + 1) \in Nat /\ DayEnd(JulianDate + 1) \in Nat
      BY <3>1, CalendarOrder
    <3> QED
      BY <1>3, <3>2 DEF PortEnd, WalkingAlike
  <2> QED
    BY <1>4, <1>7, <2>1, <2>2, <2>3
<1>11. end' = (PortEnd(day))' /\ (DayEnd(day + 1) - RowsOn(JulianDate) <= end)'
  BY <1>1, <1>3, <1>4 DEF PortEnd, WalkingAlike
<1>12. WalkingAlike'
  BY <1>1, <1>3, <1>4, <1>9, <1>10, <1>11 DEF WalkingAlike
<1>13. sold' \in [1 .. Total -> {Undated} \cup 0 .. LastDay]
  BY <1>4, <1>7
<1> QED
  BY <1>1, <1>4, <1>7, <1>8, <1>9, <1>12, <1>13 DEF Alike

LEMMA FinishAlike == ASSUME Alike, Finish PROVE Alike'
<1>1. Setting' /\ \A r : DateOfOrder(r)' = DateOfOrder(r)
  BY SameWalk DEF Alike, Finish
<1>2. pc' = "done" /\ UNCHANGED <<index, day, end, row, left, sold>>
  BY DEF Finish
<1>3. PortDatesSame'
  BY <1>1, <1>2 DEF Alike, PortDatesSame
<1> QED
  BY <1>1, <1>2, <1>3 DEF Alike

LEMMA StutterAlike == ASSUME Alike, UNCHANGED vars PROVE Alike'
<1>1. UNCHANGED <<parallel, child, pc, index, day, end, row, left, sold>>
  BY DEF vars
<1>2. /\ First' = First /\ Count' = Count /\ Setting' /\ JulianDate' = JulianDate
      /\ skipDaysUntilFirstRowOfChunk' = skipDaysUntilFirstRowOfChunk
      /\ \A r : DateOfOrder(r)' = DateOfOrder(r)
  BY <1>1, SameWalk DEF Alike
<1>3. PortDatesSame'
  BY <1>1, <1>2 DEF Alike, PortDatesSame
<1>4. (SkippingAlike' <=> SkippingAlike) /\ (WalkingAlike' <=> WalkingAlike)
  BY <1>1, <1>2 DEF SkippingAlike, WalkingAlike, PortEnd
<1> QED
  BY <1>1, <1>2, <1>3, <1>4 DEF Alike

LEMMA AlwaysAlike == Spec => []Alike
<1>1. Alike /\ [Next]_vars => Alike'
  BY SkipDayAlike, FoundDayAlike, MoveDayAlike, BuildOrderAlike, FinishAlike,
     StutterAlike DEF Next, Step, Over
<1> QED
  BY <1>1, InitAlike, PTL DEF Spec

(* The variables keep their types: no walk leaves the calendar, not even   *)
(* one that began a day late.                                              *)
THEOREM TypeCorrect == Spec => []TypeOK
<1>1. Alike => TypeOK
  <2> SUFFICES ASSUME Alike PROVE TypeOK
    OBVIOUS
  <2>1. parallel \in Parallels /\ child \in Kids(parallel)
    BY DEF Alike, Setting
  <2>2. child \in Nat \ {0}
    BY <2>1, CalendarAssumption, SmallTableAssumption DEF Kids, Unset
  <2> QED
    BY <2>1, <2>2 DEF Alike, TypeOK
<1> QED
  BY <1>1, AlwaysAlike, PTL

(* The Java port dates every order of every chunk as dsdgen does, of the   *)
(* chunks that dsdgen dates a day late too.                                *)
THEOREM PortDatesAlike == Spec => []PortDatesSame
<1>1. Alike => PortDatesSame
  BY DEF Alike
<1> QED
  BY <1>1, AlwaysAlike, PTL
=============================================================================
