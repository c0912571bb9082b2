------------------------------ MODULE UpdateSets ------------------------------
(***************************************************************************)
(* Update sets: dsdgen -update <n> writes the n-th set of data that        *)
(* refreshes the database.  It draws six days, two in each season of the   *)
(* calendar, names in delete files the days whose facts are to go, and     *)
(* builds the orders and the inventory of those days.  The children of a   *)
(* set, and those of other sets, work in one directory.                    *)
(*                                                                         *)
(* Each process works the days out for itself; the numbers drawn are those *)
(* of the set, the same in every child.                                    *)
(***************************************************************************)
EXTENDS SplitWork, Dates, FiniteSets

CONSTANTS
  Sessions,   (* the processes run in a directory: commands, days drawn,   *)
              (* kills, and whether a read beyond the calendar gives > 0   *)
  RowsOf      (* get_rowcount() of the tables of the data build            *)

VARIABLES
  session,
  sets,       (* what is worked out at the start for each set: the days,   *)
              (* the Thursdays and the rows up to the end of each day      *)
  output,     (* the file a process has come to                            *)
  step,       (* what it does next with it: check, open or fill; or how    *)
              (* the process ended                                         *)
  files       (* by name: who wrote to the file since it was emptied       *)

vars == <<session, sets, output, step, files>>

Keys == INSTANCE VersionJoins WITH
  MinimumDate <- 0, MaximumDate <- 3, Tables <- {}, RowCounts <- {}, Days <- {},
  nTable <- 0, kRowcount <- 0, built <- 0, arBKey <- 0, rows <- 0, sale <- 0

(* No two processes build the same chunk of a set.                         *)
ASSUME SessionAssumption ==
  \A s \in Sessions :
    /\ \A p \in DOMAIN s.commands : s.commands[p].update \in DOMAIN s.drawn
    /\ \A p, q \in DOMAIN s.commands :
         LET c == s.commands[p]  d == s.commands[q]
         IN p # q /\ c.update = d.update /\ c.parallel = d.parallel =>
              c.parallel # Unset /\ c.child # d.child

ASSUME RowsAssumption ==
  /\ {"ITEM", "WAREHOUSE", "CATALOG_SALES", "STORE_SALES", "WEB_SALES"}
        \subseteq DOMAIN RowsOf
  /\ \A t \in DOMAIN RowsOf : RowsOf[t] \in Nat

Entry(d) == day_number(jtodt(d))

-----------------------------------------------------------------------------
(***************************************************************************)
(* calendar.dst, by the place of a day in a leap year.  Seasons of low,    *)
(* medium and high sales; the leap day is in none.                         *)
(***************************************************************************)
LeapDay == 60
SeasonOf(i) ==
  IF i = LeapDay THEN "none"
  ELSE IF i <= 213 THEN "low" ELSE IF i <= 305 THEN "medium" ELSE "high"

(* Its weight is read past the end of the calendar on 31 December of a     *)
(* leap year: beyond says whether what is there is above 0.                *)
InSeason(i, season, beyond) == IF i > 366 THEN beyond ELSE SeasonOf(i) = season

SalesWeight(i, leap) ==
  IF i = LeapDay /\ ~leap THEN 0
  ELSE IF i <= 213 THEN 29 ELSE IF i <= 305 THEN 66 ELSE 100
SalesTotal(leap) == 29 * (IF leap THEN 213 ELSE 212) + 66 * 92 + 100 * 61

(* getIDCount()                                                            *)
ItemIDs == Keys!IDCount(RowsOf["ITEM"])

(* dateScaling(): the orders of a day, a five-year calendar's share; the   *)
(* inventory is the same each week.                                        *)
dateScaling(t, d) ==
  IF t = "INVENTORY" THEN RowsOf["WAREHOUSE"] * ItemIDs
  ELSE LET leap  == is_leap(jtodt(d).year)
           total == 5 * SalesTotal(leap)
       IN (RowsOf[t] * SalesWeight(Entry(d), leap) + total \div 2) \div total

-----------------------------------------------------------------------------
(***************************************************************************)
(* The Java port's Scaling and CalendarDistribution, for the same days.    *)
(***************************************************************************)
(* Mutant: the days are counted from 1, as the lists are not.              *)
getIndexForDateFromOne(date) == Entry(dttoj(date))

(* The place of a day in the lists of the calendar, which begin at 0.      *)
getIndexForDate(date) ==
  m_days[IF isLeapYear(date.year) THEN 2 ELSE 1][date.month] + date.day - 1

getWeightForDayNumber(index, leap) == SalesWeight(index + 1, leap)

getRowCountForDate(t, d) ==
  LET date  == jtodt(d)
      leap  == isLeapYear(date.year)
      total == 5 * SalesTotal(leap)
  IN IF t = "INVENTORY" THEN RowsOf["WAREHOUSE"] * ItemIDs
     ELSE (RowsOf[t] * getWeightForDayNumber(getIndexForDate(date), leap)
           + total \div 2) \div total

-----------------------------------------------------------------------------
(***************************************************************************)
(* setUpdateDates(): from the day drawn in a season.                       *)
(***************************************************************************)
(* Mutant: the day after is taken in any case.                             *)
SecondDayAfter(d, season, beyond) == d + 1

(* The day after, or the one before when that has no weight.               *)
SecondDay(d, season, beyond) ==
  IF InSeason(Entry(d) + 1, season, beyond) THEN d + 1 ELSE d - 1

Thursday(d) == d + 4 - set_dow(jtodt(d))

(* The Thursday of the week of the day drawn, or a week off to either side.*)
InventoryDay(d, season, beyond) ==
  LET t == Thursday(d) IN
  IF InSeason(Entry(t), season, beyond) THEN t
  ELSE IF InSeason(Entry(t - 7), season, beyond) THEN t - 7 ELSE t + 7

SecondInventoryDay(d, season, beyond) ==
  LET t    == InventoryDay(d, season, beyond)
      next == Entry(t + 7) + IF season = "low" THEN 1 ELSE 0
  IN IF InSeason(next, season, beyond) THEN t + 7 ELSE t - 7

(* getSkewedJulianDate(): an entry of the calendar and a year are drawn;   *)
(* an entry is a day of a leap year.                                       *)
getSkewedJulianDate(drawn) ==
  LET entry == jtodt(dttoj(Date(2000, 1, 1)) + drawn.entry - 1)
  IN dttoj([entry EXCEPT !.year = drawn.year])

PairOf == <<"low", "low", "medium", "medium", "high", "high">>

arUpdateDates(drawn, beyond) ==
  LET day(i)  == getSkewedJulianDate(drawn[PairOf[i]])
      date(i) == IF i % 2 = 1 THEN day(i) ELSE SecondDay(day(i), PairOf[i], beyond)
  IN <<date(1), date(2), date(3), date(4), date(5), date(6)>>

arInventoryUpdateDates(drawn, beyond) ==
  LET day(i)  == getSkewedJulianDate(drawn[PairOf[i]])
      date(i) == IF i % 2 = 1 THEN InventoryDay(day(i), PairOf[i], beyond)
                              ELSE SecondInventoryDay(day(i), PairOf[i], beyond)
  IN <<date(1), date(2), date(3), date(4), date(5), date(6)>>

FirstSnapshot == dttoj(Date(1998, 1, 1))
LastDay == dttoj(Date(2002, 12, 31))

YEAR_MINIMUM == 1998
YEAR_MAXIMUM == 2002

(* For each season an entry of it is drawn and one of five years.          *)
ASSUME DrawnAssumption ==
  \A s \in Sessions :
    /\ s.beyond \in BOOLEAN
    /\ \A u \in DOMAIN s.drawn, season \in {"low", "medium", "high"} :
         LET drawn == s.drawn[u][season]
         IN /\ drawn.entry \in 1 .. 366 /\ SeasonOf(drawn.entry) = season
            /\ drawn.year \in YEAR_MINIMUM .. YEAR_MAXIMUM

-----------------------------------------------------------------------------
(***************************************************************************)
(* The tables that go by the days, with their numbers: S_BRAND is 25.      *)
(***************************************************************************)
S_BRAND == 25
Number == [S_CATALOG_ORDER |-> 29, S_INVENTORY |-> 39, S_PURCHASE |-> 46,
           S_WEB_ORDER |-> 55]
nBaseTable == [S_CATALOG_ORDER |-> "CATALOG_SALES", S_INVENTORY |-> "INVENTORY",
               S_PURCHASE |-> "STORE_SALES", S_WEB_ORDER |-> "WEB_SALES"]

(* setUpdateScaling(): the rows up to the end of each of the six days.     *)
setUpdateScaling(t, days) ==
  LET n(i) == dateScaling(nBaseTable[t], days[i])
  IN <<n(1), n(1) + n(2), n(1) + n(2) + n(3), n(1) + n(2) + n(3) + n(4),
       n(1) + n(2) + n(3) + n(4) + n(5),
       n(1) + n(2) + n(3) + n(4) + n(5) + n(6)>>

(* What a process knows of its set before it builds a row.                 *)
UpdateSet(drawn, beyond) ==
  LET days == arUpdateDates(drawn, beyond)
  IN [arUpdateDates |-> days,
      arInventoryUpdateDates |-> arInventoryUpdateDates(drawn, beyond),
      kDayRowcount |-> [t \in DOMAIN Number |-> setUpdateScaling(t, days)]]

get_rowcount(u, t) ==
  IF t = "S_INVENTORY" THEN 6 * ItemIDs * RowsOf["WAREHOUSE"]
  ELSE sets[u].kDayRowcount[t][6]

(* Mutant: the last row of a day counts to the next.                       *)
UpdateDayBefore(u, t, k) ==
  LET upto == sets[u].kDayRowcount[t]
  IN CHOOSE i \in 1 .. 6 :
       /\ i = 6 \/ k < upto[i]
       /\ \A j \in 1 .. i - 1 : k >= upto[j]

(* getUpdateDate(): the day of a row; the last takes what is left.         *)
UpdateDay(u, t, k) ==
  LET upto == sets[u].kDayRowcount[t]
  IN CHOOSE i \in 1 .. 6 :
       /\ i = 6 \/ k <= upto[i]
       /\ \A j \in 1 .. i - 1 : k > upto[j]

getUpdateDate(u, t, k) ==
  IF t = "S_INVENTORY" THEN sets[u].arInventoryUpdateDates[UpdateDay(u, t, k)]
  ELSE sets[u].arUpdateDates[UpdateDay(u, t, k)]

(* kNextInsertValue, by the number of the table; setUpdateScaling() runs   *)
(* before the row counts are set for the first table it is called for.     *)
kNextInsertValue(u, n) ==
  IF \E t \in DOMAIN Number : Number[t] = n
  THEN LET t == CHOOSE o \in DOMAIN Number : Number[o] = n
       IN (IF t = "S_PURCHASE" THEN 0 ELSE RowsOf[t]) + sets[u].kDayRowcount[t][6] * (u - 1)
  ELSE 0

getUpdateBase(u, t) == kNextInsertValue(u, Number[t] - S_BRAND)

(* mk_s_inventory(), and the row of the inventory it is to replace.        *)
InventoryRow(u, k) ==
  [item      |-> Keys!FirstSK(((k - 1) % ItemIDs) + 1),
   warehouse |-> (((k - 1) \div ItemIDs) % RowsOf["WAREHOUSE"]) + 1,
   date      |-> getUpdateDate(u, "S_INVENTORY", k)]

(* sc_w_inventory() and mk_w_inventory(): an item stands for its versions. *)
sc_w_inventory ==
  ItemIDs * RowsOf["WAREHOUSE"] * ((LastDay - FirstSnapshot + 7) \div 7)
BaseRow(k) ==
  [item      |-> Keys!FirstSK(((k - 1) % ItemIDs) + 1),
   warehouse |-> (((k - 1) \div ItemIDs) % RowsOf["WAREHOUSE"]) + 1,
   date      |-> FirstSnapshot
                 + 7 * ((k - 1) \div (ItemIDs * RowsOf["WAREHOUSE"]))]

(* mk_s_purchase() and the like: the number and the day of an order.       *)
Order(u, t, k) ==
  [number |-> getUpdateBase(u, t) + k, date |-> getUpdateDate(u, t, k)]

-----------------------------------------------------------------------------
(***************************************************************************)
(* The processes of a directory.                                           *)
(***************************************************************************)
Process == DOMAIN session.commands
Command(p) == session.commands[p]
update(p) == Command(p).update

Rows(p, t) ==
  Chunk(get_rowcount(update(p), t), Command(p).parallel, Command(p).child)

Deletes == {"delete", "inventory_delete"}

(* What a process writes to, in its order.                                 *)
Outputs == <<"delete", "inventory_delete", "S_CATALOG_ORDER", "S_INVENTORY",
             "S_PURCHASE", "S_WEB_ORDER">>
Current(p) == Outputs[output[p]]

(* A table's file is opened with its first row.                            *)
HasRows(p, o) == o \notin Deletes => Rows(p, o) # {}

(* Mutant: a table's file is named for the table alone.                    *)
NameOfTable(p, o) ==
  IF o \in Deletes THEN <<o, update(p)>>
  ELSE IF Command(p).parallel # Unset
       THEN <<o, Command(p).child, Command(p).parallel>>
       ELSE <<o>>

(* The name of a file; of a child it leaves out the number of the set.     *)
Name(p, o) ==
  IF o \in Deletes THEN <<o, update(p)>>
  ELSE IF Command(p).parallel # Unset
       THEN <<o, Command(p).child, Command(p).parallel>>
       ELSE <<o, update(p)>>

(* What a process writes: the days of its set, or the rows of its chunk.   *)
Content(p, o) ==
  IF o \in Deletes THEN <<update(p)>> ELSE <<update(p), Command(p).child>>

Running(p) == step[p] \in {"check", "open", "fill"}
Exists(f) == f \in DOMAIN files

(* The first delete file is never closed; exit() writes what is buffered.  *)
FlushedAtExit(p) == {<<update(p)>>}

(* How a process ends that exits.                                          *)
Exit(p, how) ==
  /\ step' = [step EXCEPT ![p] = how]
  /\ files' = IF output[p] > 1 \/ step[p] = "fill"
              THEN [files EXCEPT ![Name(p, "delete")] = @ \cup FlushedAtExit(p)]
              ELSE files
  /\ UNCHANGED output

(* A table of which the process has no row to build.                       *)
PassOver(p) ==
  /\ step[p] = "check" /\ output[p] <= Len(Outputs)
  /\ ~HasRows(p, Current(p))
  /\ output' = [output EXCEPT ![p] = @ + 1]
  /\ UNCHANGED <<session, sets, step, files>>

(* print_start() with -filter: the file that was never opened is used all  *)
(* the same, which ends the process with 0.                                *)
NoOutput(p) ==
  /\ step[p] = "check" /\ output[p] <= Len(Outputs)
  /\ HasRows(p, Current(p))
  /\ Command(p).filter /\ Current(p) \notin Deletes
  /\ Exit(p, "nooutput")
  /\ UNCHANGED <<session, sets>>

(* print_start(), openDeleteFile(): is there such a file?  Another process *)
(* may make it before this one opens it.                                   *)
Check(p) ==
  /\ step[p] = "check" /\ output[p] <= Len(Outputs)
  /\ HasRows(p, Current(p))
  /\ ~Command(p).filter \/ Current(p) \in Deletes
  /\ IF Exists(Name(p, Current(p))) /\ ~Command(p).force
     THEN Exit(p, "refused")
     ELSE step' = [step EXCEPT ![p] = "open"] /\ UNCHANGED <<output, files>>
  /\ UNCHANGED <<session, sets>>

Open(p) ==
  /\ step[p] = "open"
  /\ files' = [f \in DOMAIN files \cup {Name(p, Current(p))} |->
                 IF f = Name(p, Current(p)) THEN {} ELSE files[f]]
  /\ step' = [step EXCEPT ![p] = "fill"]
  /\ UNCHANGED <<session, sets, output>>

(* print_delete(), gen_tbl(); the delete file of the orders stays in the   *)
(* buffer.                                                                 *)
Fill(p) ==
  /\ step[p] = "fill"
  /\ files' = IF Current(p) = "delete" THEN files
              ELSE [files EXCEPT ![Name(p, Current(p))] =
                      @ \cup {Content(p, Current(p))}]
  /\ output' = [output EXCEPT ![p] = @ + 1]
  /\ step' = [step EXCEPT ![p] = "check"]
  /\ UNCHANGED <<session, sets>>

Return(p) ==
  /\ step[p] = "check" /\ output[p] > Len(Outputs)
  /\ Exit(p, "done")
  /\ UNCHANGED <<session, sets>>

Kill(p) ==
  /\ Running(p)
  /\ Cardinality({q \in Process : step[q] = "killed"}) < session.kills
  /\ step' = [step EXCEPT ![p] = "killed"]
  /\ UNCHANGED <<session, sets, output, files>>

AllEnded == (\A p \in Process : ~Running(p)) /\ UNCHANGED vars

Init ==
  /\ session \in Sessions
  /\ sets = [u \in DOMAIN session.drawn |-> UpdateSet(session.drawn[u], session.beyond)]
  /\ output = [p \in Process |-> 1]
  /\ step = [p \in Process |-> "check"]
  /\ files = [f \in {} |-> {}]

Next ==
  \/ \E p \in Process :
       \/ PassOver(p) \/ NoOutput(p) \/ Check(p) \/ Open(p) \/ Fill(p)
       \/ Return(p) \/ Kill(p)
  \/ AllEnded

Spec == Init /\ [][Next]_vars

-----------------------------------------------------------------------------
(***************************************************************************)
(* Properties.                                                             *)
(***************************************************************************)

(* The months of a season, as calendar.dst has them; not the leap day.     *)
InZone(d, season) ==
  LET m == jtodt(d).month
  IN /\ season = IF m <= 7 THEN "low" ELSE IF m <= 10 THEN "medium" ELSE "high"
     /\ ~(m = 2 /\ jtodt(d).day = 29)

(* The last day of a season whose next entry of the calendar is still of   *)
(* it: in a common year the entries are a day behind; after December there *)
(* is an entry for a leap year's last day, or none at all.                 *)
EndsSeasonUnseen(d) ==
  \/ jtodt(d).month = 12 /\ jtodt(d).day = 31
  \/ /\ jtodt(d).month \in {7, 10} /\ jtodt(d).day = 31
     /\ ~is_leap(jtodt(d).year)

(* Of the days a delete file holds, two in a row are of each season, and   *)
(* two Thursdays in a row of the inventory's; at the end of a common       *)
(* year's season, and of a year, the second is the first day after it, and *)
(* so may a Thursday be.                                                   *)
UpdateDatesInZone ==
  \A u \in DOMAIN sets, i \in 1 .. 6 :
    LET days      == sets[u].arUpdateDates
        thursdays == sets[u].arInventoryUpdateDates
    IN /\ Exists(<<"delete", u>>) =>
            /\ \/ InZone(days[i], PairOf[i])
               \/ /\ i % 2 = 0 /\ days[i] = days[i - 1] + 1
                  /\ EndsSeasonUnseen(days[i - 1])
            /\ i % 2 = 0 => days[i] - days[i - 1] \in {1, -1}
       /\ Exists(<<"inventory_delete", u>>) =>
            /\ \/ InZone(thursdays[i], PairOf[i])
               \/ EndsSeasonUnseen(thursdays[i] - 1) /\ jtodt(thursdays[i]).month # 1
            /\ i % 2 = 0 => thursdays[i] - thursdays[i - 1] \in {7, -7}

BaseInventory == {BaseRow(k) : k \in 1 .. sc_w_inventory}

(* The rows of S_INVENTORY of a set stand, each once, for the rows of the  *)
(* INVENTORY of the days in its delete file: every item in every warehouse *)
(* on each of six days the stock was taken.                                *)
InventoryReplaces ==
  \A p \in Process : step[p] = "done" =>
    LET days == {sets[update(p)].arInventoryUpdateDates[i] : i \in 1 .. 6}
        n    == get_rowcount(update(p), "S_INVENTORY")
        rows == {InventoryRow(update(p), k) : k \in 1 .. n}
    IN /\ Cardinality(rows) = n
       /\ rows = {r \in BaseInventory : r.date \in days}

(* A file of the set of p may be written by a process of another set: the  *)
(* names of a child's files leave out the number of the set.               *)
HasRival(p) ==
  \E q \in Process : /\ update(q) # update(p)
                     /\ Command(q).parallel = Command(p).parallel
                     /\ Command(q).child = Command(p).child
                     /\ Command(p).parallel # Unset

(* What a process that came to its end has built is in its files, and no   *)
(* more, whatever order the processes of the directory took turns in; the  *)
(* delete files, which the children of a set all write, hold its days if   *)
(* none of them was killed.                                                *)
SetDelivered ==
  (\A p \in Process : ~Running(p)) =>
    \A p \in Process : step[p] = "done" =>
      \A i \in 1 .. Len(Outputs) :
        LET o == Outputs[i] IN
        \/ ~HasRows(p, o)
        \/ files[Name(p, o)] = {Content(p, o)}
        \/ o \notin Deletes /\ HasRival(p)
        \/ o \in Deletes /\ \E q \in Process :
                              update(q) = update(p) /\ step[q] = "killed"

(* The Java port counts for each day of a set the rows that dsdgen has     *)
(* built for it: it dates its own orders of catalog_sales by these counts. *)
PortCountsSame ==
  \A p \in Process, t \in DOMAIN Number, i \in 1 .. 6 :
    step[p] = "done" =>
      LET upto == sets[update(p)].kDayRowcount[t]
      IN upto[i] - (IF i = 1 THEN 0 ELSE upto[i - 1])
           = getRowCountForDate(nBaseTable[t], sets[update(p)].arUpdateDates[i])
===============================================================================
