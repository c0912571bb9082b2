------------------------------ MODULE MCGenTable ------------------------------
(***************************************************************************)
(* GenTable for TLC: one setup, and two at a time or one after the other.  *)
(***************************************************************************)
EXTENDS GenTable

(* Of each kit a table that is divided and one that is not.                *)
SmallRows ==
  [tpcds |-> [store_sales |-> 5, reason |-> 1],
   tpch  |-> [lineitem |-> 4, nation |-> 1],
   port  |-> [store_sales |-> 5, reason |-> 1]]

Of(kit, scale) == [kit |-> kit, scale |-> scale, after |-> 0]
After(setup, s) == [setup EXCEPT !.after = s]

Apart ==
  [setups : {<<Of("tpcds", 3)>>, <<Of("port", 2)>>,
             <<Of("tpcds", 2), After(Of("tpcds", 2), 1)>>,
             <<Of("tpch", 2), After(Of("tpch", 2), 1)>>},
   crashes : 0 .. 2, early : BOOLEAN]

Together ==
  [setups : {<<Of("tpcds", 2), Of("tpch", 2)>>, <<Of("tpcds", 2), Of("tpcds", 3)>>},
   crashes : {0}, early : BOOLEAN]

AllSessions == Apart \cup Together
===============================================================================
