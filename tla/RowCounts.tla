------------------------------ MODULE RowCounts ------------------------------
(***************************************************************************)
(* How many rows a table has at a scale factor, in dsdgen and in the Java  *)
(* port.  The distribution rowcounts gives the counts at the volumes it    *)
(* defines; between two of them each table goes by a model of its own.     *)
(* Everything that divides, skips or joins rows begins with these counts.  *)
(*                                                                         *)
(* Both programs scale with numbers of type float alike; their rounding is *)
(* left out.  The port's scale factors below 1 are, too: dsdgen has none.  *)
(***************************************************************************)
EXTENDS Integers, Sequences, Functions

CONSTANTS
  Volumes,     (* arScaleVolume, DEFINED_SCALES: in GB, growing, from 1;   *)
               (* both programs refuse a scale beyond the last             *)
  rowcounts,   (* by table: counts at the volumes, multiplier, model       *)
  KeepsHistory,(* the tables that have FL_TYPE_2, or keepsHistory()        *)
  Weeks        (* the inventories between DATE_MINIMUM and DATE_MAXIMUM    *)

Keys == INSTANCE VersionJoins WITH
  MinimumDate <- 0, MaximumDate <- 3, Tables <- {}, RowCounts <- {}, Days <- {},
  nTable <- 0, kRowcount <- 0, built <- 0, arBKey <- 0, rows <- 0, sale <- 0

(* A quotient cast to an integer loses its fraction, whatever its sign.    *)
Truncated(n, d) == IF n < 0 THEN -((-n) \div d) ELSE n \div d

Adjusted(t, base) ==
  base * (IF t \in KeepsHistory THEN 2 ELSE 1) * 10 ^ rowcounts[t].multiplier

-----------------------------------------------------------------------------
(***************************************************************************)
(* scaling.c                                                               *)
(***************************************************************************)
dist_weight(t, i) == rowcounts[t].counts[i]

(* The first volume that is not below the scale.                           *)
getScaleSlot(scale) ==
  CHOOSE i \in DOMAIN Volumes :
    scale <= Volumes[i] /\ \A j \in 1 .. i - 1 : scale > Volumes[j]

(* A share of what is between two volumes is added to the count at 1 GB.   *)
LogScale(t, scale) ==
  LET i == getScaleSlot(scale)
      nDelta == dist_weight(t, i) - dist_weight(t, i - 1)
  IN Truncated((scale - Volumes[i - 1]) * nDelta, Volumes[i] - Volumes[i - 1])
     + dist_weight(t, 1)

StaticScale(t) == dist_weight(t, 1)

(* As many of the largest volume as there are in the scale, then of the    *)
(* next in what is left.                                                   *)
LinearScale(t, scale) ==
  LET left[i \in DOMAIN Volumes] ==
        IF i = Len(Volumes) THEN scale ELSE left[i + 1] % Volumes[i + 1]
  IN FoldFunction(+, 0,
       [i \in DOMAIN Volumes |-> (left[i] \div Volumes[i]) * dist_weight(t, i)])

kBaseRowcount(t, scale) ==
  Adjusted(t,
    IF \E i \in DOMAIN Volumes : Volumes[i] = scale
    THEN dist_weight(t, CHOOSE i \in DOMAIN Volumes : Volumes[i] = scale)
    ELSE CASE rowcounts[t].model = "static" -> StaticScale(t)
           [] rowcounts[t].model = "linear" -> LinearScale(t, scale)
           [] rowcounts[t].model = "log"    -> LogScale(t, scale))

sc_w_inventory(scale) ==
  Keys!IDCount(kBaseRowcount("ITEM", scale)) * kBaseRowcount("WAREHOUSE", scale) * Weeks

get_rowcount(t, scale) ==
  IF t = "INVENTORY" THEN sc_w_inventory(scale) ELSE kBaseRowcount(t, scale)

-----------------------------------------------------------------------------
(***************************************************************************)
(* ScalingInfo and Scaling of the port.                                    *)
(***************************************************************************)
Defined == {Volumes[i] : i \in DOMAIN Volumes}
RowCountAt(t, volume) ==
  rowcounts[t].counts[CHOOSE i \in DOMAIN Volumes : Volumes[i] = volume]

Largest(S)  == CHOOSE v \in S : \A w \in S : w <= v
Smallest(S) == CHOOSE v \in S : \A w \in S : w >= v

computeCountUsingLogScale(t, scale) ==
  LET above  == Smallest({v \in Defined : v >= scale})
      below  == Largest({v \in Defined : v < above})
      count  == Truncated((RowCountAt(t, above) - RowCountAt(t, below)) * (scale - below),
                          above - below)
                + RowCountAt(t, 1)
  IN IF count = 0 THEN 1 ELSE count

(* The largest volume within the scale is taken away from it, and again.   *)
computeCountUsingLinearScale(t, scale) ==
  LET rows[gb \in 0 .. scale] ==
        IF gb = 0 THEN 0
        ELSE LET v == Largest({w \in Defined : w <= gb})
             IN RowCountAt(t, v) + rows[gb - v]
  IN rows[scale]

getRowCountForScale(t, scale) ==
  IF scale \in Defined THEN RowCountAt(t, scale)
  ELSE CASE rowcounts[t].model = "static" -> RowCountAt(t, 1)
         [] rowcounts[t].model = "linear" -> computeCountUsingLinearScale(t, scale)
         [] rowcounts[t].model = "log"    -> computeCountUsingLogScale(t, scale)

tableToRowCountMap(t, scale) == Adjusted(t, getRowCountForScale(t, scale))

(* getIdCount() of a table that keeps history.                             *)
getIdCount(n) == 3 * (n \div 6) + <<0, 1, 2, 2, 3, 3>>[1 + (n % 6)]

scaleInventory(scale) ==
  getIdCount(tableToRowCountMap("ITEM", scale))
  * tableToRowCountMap("WAREHOUSE", scale) * Weeks

getRowCount(t, scale) ==
  IF t = "INVENTORY" THEN scaleInventory(scale) ELSE tableToRowCountMap(t, scale)
===============================================================================
