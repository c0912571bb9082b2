------------------------------ MODULE Delivery ------------------------------
(***************************************************************************)
(* What a parallel build promises whoever loads its files: the data set    *)
(* appears child by child, a whole chunk of every table at a time.  No     *)
(* child's chunk is ever half there, is there twice, or changes once it is *)
(* there.  The chunks are parameters: Piece(par, c, t) is what child c of  *)
(* a build in par parts owes to table t.                                   *)
(***************************************************************************)
CONSTANTS
  Table, Child,
  Piece(_, _, _),
  Settings              \* the possible numbers of parts

VARIABLES
  parallel,             \* the number of parts of this build
  delivered,            \* the children that have handed over their chunks
  data                  \* table by table, the lines handed over

Init ==
  /\ parallel \in Settings
  /\ delivered = {}
  /\ data = [t \in Table |-> {}]

Deliver(c) ==
  /\ c \notin delivered
  /\ delivered' = delivered \cup {c}
  /\ data' = [t \in Table |-> data[t] \cup Piece(parallel, c, t)]
  /\ UNCHANGED parallel

Next == \E c \in Child : Deliver(c)

Spec == Init /\ [][Next]_<<parallel, delivered, data>>
=============================================================================
