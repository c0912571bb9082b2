--------------------------- MODULE MCChunkedBuild ---------------------------
(***************************************************************************)
(* A build of four tables: a divided table of plain rows, a returns table  *)
(* and its divided sales table, and a table too small to divide.  A fifth  *)
(* table is not implemented.  The streams have budgets that rows use in    *)
(* full, in part or not at all; two of them are duplicates, of a stream of *)
(* the sales table and of one of the small table.                          *)
(***************************************************************************)
EXTENDS ChunkedBuild

\* customer, store_returns, store_sales, store, dbgen_version
MCRows      == <<5, 0, 3, 2, 1>>
MCReturnsOf == <<0, 0, 2, 0, 0>>
Implemented == 1 .. 4
MCStream    == {"name", "addr", "back", "count", "isback", "price", "shop"}
MCTableOf   == [s \in MCStream |->
                 CASE s \in {"name", "addr"} -> 1
                   [] s = "back" -> 2
                   [] s \in {"count", "isback", "price"} -> 3
                   [] s = "shop" -> 4]
MCDupOf     == [s \in MCStream |->
                 CASE s = "name" -> "price" [] s = "addr" -> "shop" [] OTHER -> s]
MCBudget    == [s \in MCStream |->
                 CASE s = "name" -> 3 [] s \in {"addr", "count", "shop"} -> 1
                   [] s = "price" -> 5 [] OTHER -> 2]
MCPerRow    == [s \in MCStream |-> [p \in 0 .. 6 |->
                 CASE s = "name" -> (p * p) % 4
                   [] s = "addr" -> p % 2
                   [] s \in {"count", "price", "shop"} -> 1
                   [] OTHER -> 0]]
MCPerLine   == [s \in MCStream |->
                 CASE s = "price" -> 2 [] s \in {"back", "isback"} -> 1
                   [] OTHER -> 0]
MCCountStream  == [t \in 1 .. 5 |-> "count"]
MCReturnStream == [t \in 1 .. 5 |-> "isback"]
\* One, two and two line items; the returned ones are both of the second
\* order and the last of the third.
MCRandom    == [s \in MCStream |-> [p \in 0 .. 6 |->
                 CASE s = "isback" -> IF p \in {2, 3, 5} THEN 5 ELSE 50
                   [] s = "count"  -> IF p = 0 THEN 0 ELSE 1
                   [] OTHER -> p + 1]]
\* 2^32 in the code; here wide enough for every table.
WideInt     == 16
\* A word whose largest int is 1: the tables are too large for an int, as
\* store_sales is at SCALE 100000, where it has more than 2^32 tickets.
NarrowInt   == 4
Either      == {Unset, 2}
=============================================================================
