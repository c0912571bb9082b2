------------------------------ MODULE ToolProofs ------------------------------
(***************************************************************************)
(* What the tools around dsdgen promise.                                   *)
(*                                                                         *)
(* The outputs of GenTable's jobs, for any setups, however many, at any    *)
(* scale, and for any tables: JobsRight relates what is in /tmp, what the  *)
(* tasks hold and what the outputs show, and every step keeps it.          *)
(*                                                                         *)
(* The orders of dsqgen's query streams, for any templates, any number of  *)
(* streams and any numbers drawn: OrderInv relates the permutation a       *)
(* stream has to those of the streams before it, and what is printed to    *)
(* the place the program has come to.                                      *)
(***************************************************************************)
EXTENDS GenTable, StreamOrder, ArithmeticProofs, FiniteSetTheorems,
        WellFoundedInduction

(* The port is not set up next to a kit of C at the same scale.  Its job   *)
(* has one command and theirs as many as the scale, so that a job of a kit *)
(* submitted after a job of the port has taken the name of its commands,   *)
(* in the same second, would have one task.                                *)
PortAlone ==
  \A x \in Sessions : \A s, p \in DOMAIN x.setups :
    /\ x.setups[s].kit = "port"
    /\ x.setups[p].scale = x.setups[s].scale
    /\ x.setups[s].scale # 1
    => x.setups[p].kit = "port"

-----------------------------------------------------------------------------
(***************************************************************************)
(* The invariant.                                                          *)
(***************************************************************************)
(* What task i of a job writes.                                            *)
TaskRows(kit, scale, i) ==
  UNION {{[task |-> i, table |-> f.table, row |-> k] : k \in f.rows} :
         f \in Accepted(Command(kit, scale, i))}

(* The kits of the setups of a scale.                                      *)
KitsAt(scale) == {Kit(s) : s \in {p \in Setup : Scale(p) = scale}}
Submitted(s) == job[s].state # "none"
Owed(s) == UNION {TaskRows(Kit(s), Scale(s), i) : i \in DOMAIN tasks[s]}

(* A file of commands holds those of some kit at the scale in its name, so *)
(* that a task, whoever wrote the file last, runs the command of its       *)
(* number or one of another kit.                                           *)
CommandsByName ==
  \A f \in DOMAIN tmp : f # Jar => \E k \in KitsAt(f[2]) : tmp[f].lines = Commands(k, f[2])

TaskRight(s, i) ==
  LET task == tasks[s][i] IN
  /\ task.state = "running" =>
       \E k \in KitsAt(Scale(s)) : i \in DOMAIN Commands(k, Scale(s)) /\ task.command = Commands(k, Scale(s))[i]
  /\ task.state = "done" => task.rows = TaskRows(Kit(s), Scale(s), i) /\ Kit(s) # "port"

(* The shape of what the setups keep.                                      *)
Shaped ==
  /\ session \in Sessions
  /\ DOMAIN pc = Setup /\ DOMAIN in = Setup
  /\ DOMAIN job = Setup /\ DOMAIN tasks = Setup
  /\ \A s \in Setup : DOMAIN job[s] = {"state", "jar", "kept"}
  /\ \A s \in Setup : \A i \in DOMAIN tasks[s] :
       DOMAIN tasks[s][i] = {"state", "failed", "command", "rows"}

(* The commands a setup that comes to its job has named.                   *)
Named(s) ==
  pc[s] \in {"copyJar", "submit", "wait"} => in[s] # Jar /\ in[s][2] = Scale(s)

(* An output is of one job, and holds what tasks of that job have written. *)
JobRight(s) ==
  /\ DOMAIN tasks[s] = IF Submitted(s) THEN DOMAIN Commands(Kit(s), Scale(s)) ELSE {}
  /\ \A i \in DOMAIN tasks[s] : TaskRight(s, i)
  /\ Submitted(s) =>
       /\ Out(s) \in DOMAIN out
       /\ \A p \in Setup : Submitted(p) /\ Out(p) = Out(s) => p = s
       /\ out[Out(s)] \subseteq Owed(s)
  /\ job[s].state = "succeeded" => out[Out(s)] = Owed(s) /\ Kit(s) # "port"

JobsRight ==
  /\ Shaped
  /\ CommandsByName
  /\ \A s \in Setup : Named(s) /\ JobRight(s)
  /\ \A d \in DOMAIN out : \E s \in Setup : Submitted(s) /\ Out(s) = d

-----------------------------------------------------------------------------
(* The rows of a task are those of its chunk of each table, however the    *)
(* generator names its files.                                              *)
LEMMA TaskRowsIs ==
  ASSUME NEW kit \in DOMAIN RowsOf, NEW scale \in Nat \ {0}, NEW i \in 1 .. scale,
         \A t \in Tables(kit) : RowsOf[kit][t] \in Nat
  PROVE  \A r : r \in TaskRows(kit, scale, i) <=>
           \E t \in Tables(kit) : \E k \in Chunk(RowsOf[kit][t], scale, i) :
             r = [task |-> i, table |-> t, row |-> k]
<1> DEFINE cmd == Command(kit, scale, i)
<1>1. cmd.kit = kit /\ cmd.parallel = scale /\ cmd.child = i
  BY DEF Command
<1>2. \A r : r \in TaskRows(kit, scale, i) <=>
        \E f \in Accepted(cmd) : \E k \in f.rows : r = [task |-> i, table |-> f.table, row |-> k]
  BY DEF TaskRows
<1>3. ASSUME NEW t, NEW k
      PROVE  (\E f \in Accepted(cmd) : f.table = t /\ k \in f.rows) <=>
             t \in Tables(kit) /\ k \in Chunk(RowsOf[kit][t], scale, i)
  <2>1. CASE kit # "tpch"
    <3> DEFINE G(u) == [table |-> u, rows |-> Rows(cmd, u), suffix |-> <<i, scale>>]
               U == {u \in Tables(kit) : Rows(cmd, u) # {}}
    <3>1. Files(cmd) = {G(u) : u \in U}
      BY <1>1, <2>1 DEF Files
    <3>2. \A u : G(u).table = u /\ G(u).rows = Rows(cmd, u) /\ G(u).suffix = <<i, scale>>
      OBVIOUS
    <3>3. \A u : Rows(cmd, u) = Chunk(RowsOf[kit][u], scale, i)
      BY <1>1 DEF Rows
    <3> HIDE DEF G
    <3>4. \A f : f \in Accepted(cmd) <=> \E u \in U : f = G(u)
      BY <1>1, <2>1, <3>1, <3>2 DEF Accepted, acceptTpcds
    <3> HIDE DEF cmd
    <3> QED
      BY <3>2, <3>3, <3>4
  <2>2. CASE kit = "tpch"
    <3> DEFINE F(u) == [table |-> u, rows |-> IF Divided("tpch", u, scale) THEN Rows(cmd, u)
                                             ELSE 1 .. RowsOf["tpch"][u],
                        suffix |-> IF Divided("tpch", u, scale) THEN <<i>> ELSE <<>>]
    <3>1. Files(cmd) = {F(u) : u \in Tables(kit)}
      BY <1>1, <2>2 DEF Files
    <3>a. \A u : (F(u).suffix = <<i>> \/ (F(u).suffix = <<>> /\ i = 1))
                   <=> Divided("tpch", u, scale) \/ i = 1
      <4>1. <<i>> # <<>>
        OBVIOUS
      <4>2. \A u : F(u).suffix = IF Divided("tpch", u, scale) THEN <<i>> ELSE <<>>
        OBVIOUS
      <4> HIDE DEF F, cmd
      <4> QED
        BY <4>1, <4>2
    <3>b. \A f : f \in Accepted(cmd) <=>
            f \in Files(cmd) /\ (f.suffix = <<i>> \/ (f.suffix = <<>> /\ i = 1))
      BY <1>1, <2>2 DEF Accepted, acceptTpch
    <3>2. \A f : f \in Accepted(cmd) <=>
            \E u \in Tables(kit) : f = F(u) /\ (Divided("tpch", u, scale) \/ i = 1)
      <4> HIDE DEF F, cmd
      <4> QED
        BY <3>1, <3>a, <3>b
    <3>3. \A u \in Tables(kit) : Divided("tpch", u, scale) => F(u).rows = Chunk(RowsOf[kit][u], scale, i)
      BY <1>1, <2>2 DEF Rows
    <3>4. \A u \in Tables(kit) : ~Divided("tpch", u, scale) =>
            /\ F(u).rows = 1 .. RowsOf[kit][u]
            /\ RowsOf[kit][u] \in Nat /\ RowsOf[kit][u] < SmallTable
      BY <2>2 DEF Divided, Undivided, Unset
    <3>5. \A u \in Tables(kit) : ~Divided("tpch", u, scale) =>
            Chunk(RowsOf[kit][u], scale, i) = IF i = 1 THEN 1 .. RowsOf[kit][u] ELSE {}
      <4> TAKE u \in Tables(kit)
      <4> HAVE ~Divided("tpch", u, scale)
      <4> DEFINE n == RowsOf[kit][u]
      <4>1. n \in Nat /\ n < SmallTable
        BY <3>4
      <4> HIDE DEF n
      <4>2. FirstRow(n, scale, i) = 1 /\ RowCount(n, scale, i) = IF i > 1 THEN 0 ELSE n
        BY <4>1, SmallTableAssumption DEF FirstRow, RowCount, Undivided
      <4>3. Chunk(n, scale, i) = IF i = 1 THEN 1 .. n ELSE {}
        BY <4>1, <4>2 DEF Chunk
      <4> QED
        BY <4>3 DEF n
    <3>6. \A u : F(u).table = u
      OBVIOUS
    <3> HIDE DEF F, cmd
    <3> QED
      BY <3>2, <3>3, <3>4, <3>5, <3>6
  <2> QED
    BY <2>1, <2>2
<1> HIDE DEF cmd
<1> QED
  BY <1>2, <1>3

(* What the tasks of a job write has no row of a table twice, and each row *)
(* when there is a task for each chunk.                                    *)
LEMMA RowsOnce ==
  ASSUME NEW kit \in DOMAIN RowsOf, NEW scale \in Nat \ {0},
         \A t \in Tables(kit) : RowsOf[kit][t] \in Nat,
         NEW rows, rows \subseteq UNION {TaskRows(kit, scale, i) : i \in 1 .. scale},
         NEW r \in rows
  PROVE  /\ r.table \in Tables(kit) /\ r.row \in 1 .. RowsOf[kit][r.table]
         /\ {q \in rows : q.table = r.table /\ q.row = r.row} = {r}
<1>1. \A q \in rows : \E i \in 1 .. scale :
        \E t \in Tables(kit) : \E k \in Chunk(RowsOf[kit][t], scale, i) :
          q = [task |-> i, table |-> t, row |-> k]
  BY TaskRowsIs
<1>2. scale \in Nat /\ Kids(scale) = 1 .. scale
  BY DEF Kids, Unset
<1>3. \A t \in Tables(kit) : \A i \in 1 .. scale :
        Chunk(RowsOf[kit][t], scale, i) \subseteq 1 .. RowsOf[kit][t]
  BY <1>2, EveryRowOnce
<1>4. \A t \in Tables(kit) : \A i, j \in 1 .. scale :
        \A k \in Chunk(RowsOf[kit][t], scale, i) :
          k \in Chunk(RowsOf[kit][t], scale, j) => i = j
  BY <1>2, <1>3, EveryRowOnce
<1>5. PICK i \in 1 .. scale, t \in Tables(kit) : \E k \in Chunk(RowsOf[kit][t], scale, i) :
        r = [task |-> i, table |-> t, row |-> k]
  BY <1>1
<1> DEFINE k == r.row
<1>6. r.table = t /\ k \in Chunk(RowsOf[kit][t], scale, i) /\ r = [task |-> i, table |-> t, row |-> k]
  BY <1>5
<1> HIDE DEF k
<1>7. ASSUME NEW q \in rows, q.table = t, q.row = k PROVE q = r
  <2>1. PICK j \in 1 .. scale, u \in Tables(kit) : \E m \in Chunk(RowsOf[kit][u], scale, j) :
          q = [task |-> j, table |-> u, row |-> m]
    BY <1>1
  <2>2. u = t /\ k \in Chunk(RowsOf[kit][u], scale, j) /\ q = [task |-> j, table |-> u, row |-> k]
    BY <1>7, <2>1
  <2> QED
    BY <1>4, <1>6, <2>2
<1> QED
  BY <1>3, <1>6, <1>7 DEF k

(* A task for each chunk: no row is left out.                              *)
LEMMA RowsAll ==
  ASSUME NEW kit \in DOMAIN RowsOf, NEW scale \in Nat \ {0},
         \A t \in Tables(kit) : RowsOf[kit][t] \in Nat,
         NEW t \in Tables(kit), NEW k \in 1 .. RowsOf[kit][t]
  PROVE  \E r \in UNION {TaskRows(kit, scale, i) : i \in 1 .. scale} : r.table = t /\ r.row = k
<1>1. scale \in Nat /\ Kids(scale) = 1 .. scale
  BY DEF Kids, Unset
<1>2. PICK i \in 1 .. scale : k \in Chunk(RowsOf[kit][t], scale, i)
  BY <1>1, EveryRowOnce
<1>3. [task |-> i, table |-> t, row |-> k] \in TaskRows(kit, scale, i)
  BY <1>2, TaskRowsIs
<1> QED
  BY <1>3

-----------------------------------------------------------------------------
(* What a setup is does not change.                                        *)
LEMMA SameSession ==
  ASSUME session' = session
  PROVE  /\ Setup' = Setup /\ \A c : KitsAt(c)' = KitsAt(c)
         /\ \A s : Kit(s)' = Kit(s) /\ Scale(s)' = Scale(s) /\ Out(s)' = Out(s)
BY DEF Setup, KitsAt, Kit, Scale, Out

(* A setup names a kit and has a child to make.                            *)
LEMMA SetupTyped ==
  ASSUME session \in Sessions, NEW s \in Setup
  PROVE  /\ Kit(s) \in DOMAIN RowsOf /\ Scale(s) \in Nat \ {0}
         /\ \A t \in Tables(Kit(s)) : RowsOf[Kit(s)][t] \in Nat
BY SetupAssumption DEF Setup, Kit, Scale, Tables

(* A step of a setup that leaves jobs and outputs alone.                   *)
LEMMA QuietStep ==
  ASSUME JobsRight, session' = session, UNCHANGED <<job, tasks, out>>,
         CommandsByName', DOMAIN pc' = Setup, DOMAIN in' = Setup,
         \A s \in Setup : Named(s)'
  PROVE  JobsRight'
<1>1. /\ Setup' = Setup /\ \A c : KitsAt(c)' = KitsAt(c)
      /\ \A s : Kit(s)' = Kit(s) /\ Scale(s)' = Scale(s) /\ Out(s)' = Out(s)
  BY SameSession
<1>2. \A s : Submitted(s)' = Submitted(s)
  BY DEF Submitted
<1>3. \A s : Owed(s)' = Owed(s)
  BY <1>1 DEF Owed
<1>4. \A s, i : TaskRight(s, i)' = TaskRight(s, i)
  BY <1>1 DEF TaskRight
<1>5. \A s : JobRight(s)' = JobRight(s)
  BY <1>1, <1>2, <1>3, <1>4 DEF JobRight
<1>6. Shaped'
  BY <1>1 DEF JobsRight, Shaped
<1> QED
  BY <1>1, <1>2, <1>5, <1>6 DEF JobsRight

(* Looking for data changes no file.                                       *)
LEMMA StartStep ==
  ASSUME JobsRight, NEW s \in Setup, Start(s) \/ Verify(s)
  PROVE  JobsRight'
<1>1. /\ Setup' = Setup /\ \A c : KitsAt(c)' = KitsAt(c)
      /\ \A p : Scale(p)' = Scale(p)
  BY SameSession DEF Start, Verify
<1>2. UNCHANGED <<session, job, tasks, out, tmp, in>>
  BY DEF Start, Verify
<1>3. DOMAIN pc' = Setup /\ DOMAIN in' = Setup
  BY <1>2 DEF Start, Verify, Goto, JobsRight, Shaped
<1>4. CommandsByName'
  BY <1>1, <1>2 DEF JobsRight, CommandsByName
<1>5. \A p \in Setup : Named(p)'
  <2> TAKE p \in Setup
  <2>1. pc'[p] \in {"copyJar", "submit", "wait"} => pc'[p] = pc[p]
    BY DEF Start, Verify, Goto, JobsRight, Shaped
  <2> QED
    BY <1>1, <1>2, <2>1 DEF Named, JobsRight
<1> QED
  BY <1>2, <1>3, <1>4, <1>5, QuietStep

(* A file of commands is written under the scale of its commands.          *)
LEMMA NameStep ==
  ASSUME JobsRight, NEW s \in Setup, genInput(s)
  PROVE  JobsRight'
<1>1. /\ Setup' = Setup /\ \A c : KitsAt(c)' = KitsAt(c)
      /\ \A p : Scale(p)' = Scale(p)
  BY SameSession DEF genInput
<1>2. UNCHANGED <<session, job, tasks, out>>
  BY DEF genInput
<1>3. /\ DOMAIN pc' = Setup /\ DOMAIN in' = Setup
      /\ \A p \in Setup \ {s} : pc'[p] = pc[p] /\ in'[p] = in[p]
  BY DEF genInput, Goto, JobsRight, Shaped
<1>4. PICK now : /\ in'[s] = <<"all", Scale(s), now>>
                 /\ tmp' = [f \in DOMAIN tmp \cup {<<"all", Scale(s), now>>} |->
                              IF f = <<"all", Scale(s), now>>
                              THEN [by |-> s, lines |-> Commands(Kit(s), Scale(s))]
                              ELSE tmp[f]]
  BY DEF genInput, JobsRight, Shaped
<1> DEFINE name == <<"all", Scale(s), now>>
<1>5. name # Jar /\ name[2] = Scale(s)
  BY DEF Jar
<1>6. CommandsByName'
  <2> SUFFICES ASSUME NEW f \in DOMAIN tmp', f # Jar
               PROVE  \E k \in KitsAt(f[2]) : tmp'[f].lines = Commands(k, f[2])
    BY <1>1 DEF CommandsByName, Jar
  <2>1. Kit(s) \in KitsAt(Scale(s))
    BY DEF KitsAt
  <2>2. CASE f = name
    BY <1>4, <1>5, <2>1, <2>2
  <2>3. CASE f # name
    BY <1>4, <2>3 DEF JobsRight, CommandsByName
  <2> QED
    BY <2>2, <2>3
<1>7. \A p \in Setup : Named(p)'
  <2> TAKE p \in Setup
  <2>1. CASE p = s
    BY <1>1, <1>4, <1>5, <2>1 DEF Named, Jar
  <2>2. CASE p # s
    BY <1>1, <1>3, <2>2 DEF Named, JobsRight, Jar
  <2> QED
    BY <2>1, <2>2
<1> QED
  BY <1>2, <1>3, <1>6, <1>7, QuietStep

(* The jar comes and goes; files of commands go.                           *)
LEMMA JarStep ==
  ASSUME JobsRight, NEW s \in Setup, copyJar(s) \/ cleanup(s)
  PROVE  JobsRight'
<1>1. /\ Setup' = Setup /\ \A c : KitsAt(c)' = KitsAt(c)
      /\ \A p : Scale(p)' = Scale(p)
  BY SameSession DEF copyJar, cleanup
<1>2. UNCHANGED <<session, job, tasks, out, in>>
  BY DEF copyJar, cleanup
<1>3. DOMAIN pc' = Setup /\ DOMAIN in' = Setup
  BY <1>2 DEF copyJar, cleanup, Goto, JobsRight, Shaped
<1>4. \A f \in DOMAIN tmp' : f # Jar => f \in DOMAIN tmp /\ tmp'[f] = tmp[f]
  BY DEF copyJar, cleanup
<1>5. CommandsByName'
  BY <1>1, <1>4 DEF JobsRight, CommandsByName, Jar
<1>6. \A p \in Setup : Named(p)'
  <2> TAKE p \in Setup
  <2>1. pc'[p] \in {"copyJar", "submit", "wait"} => pc[p] \in {"copyJar", "submit", "wait"}
    BY DEF copyJar, cleanup, Goto, JobsRight, Shaped
  <2> QED
    BY <1>1, <1>2, <2>1 DEF Named, JobsRight, Jar
<1> QED
  BY <1>2, <1>3, <1>5, <1>6, QuietStep

(* Commands of kits set up together are as many.                           *)
LEMMA AsMany ==
  ASSUME PortAlone, session \in Sessions, NEW s \in Setup, NEW k \in KitsAt(Scale(s))
  PROVE  DOMAIN Commands(k, Scale(s)) = DOMAIN Commands(Kit(s), Scale(s))
<1>1. Scale(s) = 1 \/ (k = "port" <=> Kit(s) = "port")
  BY DEF PortAlone, KitsAt, Kit, Scale, Setup
<1>2. \A kit, scale : DOMAIN Commands(kit, scale) = IF kit = "port" THEN 1 .. 1 ELSE 1 .. scale
  BY DEF Commands
<1> QED
  BY <1>1, <1>2

(* A job is submitted when no other has its output, with its own number   *)
(* of tasks.                                                               *)
LEMMA SubmitStep ==
  ASSUME PortAlone, JobsRight, NEW s \in Setup, submit(s)
  PROVE  JobsRight'
<1>1. /\ Setup' = Setup /\ \A c : KitsAt(c)' = KitsAt(c)
      /\ \A p : Kit(p)' = Kit(p) /\ Scale(p)' = Scale(p) /\ Out(p)' = Out(p)
  BY SameSession DEF submit
<1>2. UNCHANGED <<session, in, tmp>>
  BY DEF submit
<1>3. DOMAIN pc' = Setup /\ DOMAIN in' = Setup
  BY <1>2 DEF submit, Goto, JobsRight, Shaped
<1>4. CommandsByName'
  BY <1>1, <1>2 DEF JobsRight, CommandsByName, Jar
<1>5. \A p \in Setup : Named(p)'
  <2> TAKE p \in Setup
  <2>1. pc'[p] \in {"copyJar", "submit", "wait"} => pc[p] \in {"copyJar", "submit", "wait"}
    BY DEF submit, Goto, JobsRight, Shaped
  <2> QED
    BY <1>1, <1>2, <2>1 DEF Named, JobsRight, Jar
<1>6. CASE ~({in[s], Jar} \subseteq DOMAIN tmp /\ Out(s) \notin DOMAIN out)
  <2>1. UNCHANGED <<job, tasks, out>>
    BY <1>6 DEF submit
  <2> QED
    BY <1>2, <1>3, <1>4, <1>5, <2>1, QuietStep
<1>7. CASE {in[s], Jar} \subseteq DOMAIN tmp /\ Out(s) \notin DOMAIN out
  <2> DEFINE n == DOMAIN tmp[in[s]].lines
  <2>1. n = DOMAIN Commands(Kit(s), Scale(s))
    <3>1. in[s] # Jar /\ in[s][2] = Scale(s)
      BY DEF submit, JobsRight, Named
    <3>2. PICK k \in KitsAt(Scale(s)) : tmp[in[s]].lines = Commands(k, Scale(s))
      BY <1>7, <3>1 DEF JobsRight, CommandsByName
    <3> QED
      BY <3>2, AsMany DEF JobsRight, Shaped
  <2>2. /\ tasks' = [tasks EXCEPT ![s] =
                        [i \in n |-> [state |-> "waiting", failed |-> 0, command |-> None, rows |-> {}]]]
        /\ job' = [job EXCEPT ![s].jar = tmp[Jar].by, ![s].state = "running"]
        /\ out' = [d \in DOMAIN out \cup {Out(s)} |-> IF d = Out(s) THEN {} ELSE out[d]]
    BY <1>7 DEF submit
  <2> HIDE DEF n
  <2>3. /\ DOMAIN job' = Setup /\ DOMAIN tasks' = Setup
        /\ DOMAIN job'[s] = {"state", "jar", "kept"} /\ job'[s].state = "running"
        /\ \A p \in Setup \ {s} : job'[p] = job[p] /\ tasks'[p] = tasks[p]
        /\ DOMAIN tasks'[s] = n
    BY <2>2 DEF JobsRight, Shaped
  <2>4. \A i \in n : tasks'[s][i].state = "waiting" /\
                     DOMAIN tasks'[s][i] = {"state", "failed", "command", "rows"}
    BY <2>2 DEF JobsRight, Shaped
  <2>5. Shaped'
    BY <1>1, <1>2, <1>3, <2>3, <2>4 DEF JobsRight, Shaped
  <2>6. /\ Submitted(s)'
        /\ \A p \in Setup \ {s} : Submitted(p)' = Submitted(p) /\ Owed(p)' = Owed(p)
    BY <1>1, <2>3 DEF Submitted, Owed
  <2>7. \A p \in Setup : Submitted(p) => Out(p) \in DOMAIN out /\ Out(p) # Out(s)
    BY <1>7 DEF JobsRight, JobRight
  <2>8. JobRight(s)'
    <3>1. /\ DOMAIN tasks'[s] = DOMAIN Commands(Kit(s), Scale(s))
          /\ \A i \in DOMAIN tasks'[s] : TaskRight(s, i)'
      BY <2>1, <2>3, <2>4 DEF TaskRight
    <3>2. Out(s) \in DOMAIN out' /\ out'[Out(s)] = {}
      BY <2>2
    <3>3. \A p \in Setup : Submitted(p)' /\ Out(p) = Out(s) => p = s
      BY <2>6, <2>7
    <3> QED
      BY <1>1, <2>3, <2>6, <3>1, <3>2, <3>3 DEF JobRight
  <2>9. ASSUME NEW p \in Setup, p # s PROVE JobRight(p)'
    <3>1. \A i \in DOMAIN tasks[p] : TaskRight(p, i)' = TaskRight(p, i)
      BY <1>1, <2>3, <2>9 DEF TaskRight
    <3>2. Submitted(p) => Out(p) \in DOMAIN out' /\ out'[Out(p)] = out[Out(p)]
      BY <2>2, <2>7
    <3>3. Submitted(p) => \A q \in Setup : Submitted(q)' /\ Out(q) = Out(p) => q = p
      BY <2>6, <2>7, <2>9 DEF JobsRight, JobRight
    <3>4. job[p].state = "succeeded" => Submitted(p)
      BY DEF Submitted
    <3>5. JobRight(p) /\ tasks'[p] = tasks[p] /\ job'[p] = job[p]
      BY <2>3, <2>9 DEF JobsRight
    <3> QED
      BY <1>1, <2>6, <2>9, <3>1, <3>2, <3>3, <3>4, <3>5 DEF JobRight
  <2>10. \A d \in DOMAIN out' : \E p \in Setup : Submitted(p)' /\ Out(p) = d
    BY <2>2, <2>6, <2>7 DEF JobsRight
  <2> QED
    BY <1>1, <1>4, <1>5, <2>5, <2>8, <2>9, <2>10 DEF JobsRight
<1> QED
  BY <1>6, <1>7

(* A task that goes on changes itself and may add to the output.           *)
LEMMA TaskStep ==
  ASSUME JobsRight, NEW s \in Setup, NEW i \in DOMAIN tasks[s],
         Running(s), UNCHANGED <<session, pc, in, tmp>>,
         DOMAIN tasks' = Setup, DOMAIN tasks'[s] = DOMAIN tasks[s],
         \A p \in Setup \ {s} : tasks'[p] = tasks[p],
         \A j \in DOMAIN tasks[s] \ {i} : tasks'[s][j] = tasks[s][j],
         DOMAIN tasks'[s][i] = {"state", "failed", "command", "rows"},
         TaskRight(s, i)',
         DOMAIN job' = Setup,
         \A p \in Setup : DOMAIN job'[p] = DOMAIN job[p] /\ job'[p].state = job[p].state,
         DOMAIN out' = DOMAIN out, \A d \in DOMAIN out \ {Out(s)} : out'[d] = out[d],
         out'[Out(s)] \subseteq Owed(s)
  PROVE  JobsRight'
<1>1. /\ Setup' = Setup /\ \A c : KitsAt(c)' = KitsAt(c)
      /\ \A p : Kit(p)' = Kit(p) /\ Scale(p)' = Scale(p) /\ Out(p)' = Out(p)
  BY SameSession
<1>2. Shaped'
  <2>1. \A p \in Setup : \A j \in DOMAIN tasks'[p] :
          DOMAIN tasks'[p][j] = {"state", "failed", "command", "rows"}
    BY DEF JobsRight, Shaped
  <2> QED
    BY <1>1, <2>1 DEF JobsRight, Shaped
<1>3. CommandsByName' /\ \A p \in Setup : Named(p)'
  BY <1>1 DEF JobsRight, CommandsByName, Named, Jar
<1>4. \A p \in Setup : Submitted(p)' = Submitted(p) /\ Owed(p)' = Owed(p)
  BY <1>1 DEF Submitted, Owed
<1>5. \A p \in Setup : \A j \in DOMAIN tasks'[p] : TaskRight(p, j)'
  <2>1. \A p \in Setup : \A j \in DOMAIN tasks[p] :
          tasks'[p][j] = tasks[p][j] => TaskRight(p, j)' = TaskRight(p, j)
    BY <1>1 DEF TaskRight
  <2>2. \A p \in Setup : \A j \in DOMAIN tasks[p] : TaskRight(p, j)
    BY DEF JobsRight, JobRight
  <2> QED
    BY <2>1, <2>2
<1>6. ASSUME NEW p \in Setup PROVE JobRight(p)'
  <2>1. JobRight(p)
    BY DEF JobsRight
  <2>2. DOMAIN tasks'[p] = DOMAIN tasks[p]
    OBVIOUS
  <2>3. Submitted(s) /\ job[s].state # "succeeded"
    BY DEF Running, Submitted
  <2>4. Submitted(p) /\ p # s => out'[Out(p)] = out[Out(p)]
    BY <2>1, <2>3 DEF JobRight
  <2>5. job[p].state = "succeeded" => Submitted(p) /\ p # s
    BY <2>3 DEF Submitted
  <2>6. Submitted(p)' => /\ Out(p) \in DOMAIN out'
                         /\ \A q \in Setup : Submitted(q)' /\ Out(q) = Out(p) => q = p
                         /\ out'[Out(p)] \subseteq Owed(p)
    BY <1>4, <2>1, <2>4 DEF JobRight
  <2> HIDE DEF JobsRight
  <2> QED
    BY <1>1, <1>4, <1>5, <2>1, <2>2, <2>4, <2>5, <2>6 DEF JobRight
<1>7. \A d \in DOMAIN out' : \E p \in Setup : Submitted(p)' /\ Out(p) = d
  BY <1>4 DEF JobsRight
<1> QED
  BY <1>1, <1>2, <1>3, <1>6, <1>7 DEF JobsRight

(* An attempt that fails leaves the output as it is.                       *)
LEMMA FailedStep ==
  ASSUME JobsRight, NEW s \in Setup, NEW i \in DOMAIN tasks[s],
         Running(s), FailAttempt(s, i), UNCHANGED <<session, setups, tmp, out>>
  PROVE  JobsRight'
<1>1. /\ DOMAIN tasks' = Setup /\ DOMAIN tasks'[s] = DOMAIN tasks[s]
      /\ \A p \in Setup \ {s} : tasks'[p] = tasks[p]
      /\ \A j \in DOMAIN tasks[s] \ {i} : tasks'[s][j] = tasks[s][j]
      /\ DOMAIN tasks'[s][i] = {"state", "failed", "command", "rows"}
      /\ tasks'[s][i].state \in {"waiting", "failed"}
  BY DEF FailAttempt, JobsRight, Shaped
<1>2. TaskRight(s, i)'
  BY <1>1 DEF TaskRight
<1>3. UNCHANGED <<session, pc, in, job, tmp, out>>
  BY DEF setups
<1>4. out[Out(s)] \subseteq Owed(s)
  BY DEF JobsRight, JobRight, Running, Submitted
<1>5. DOMAIN job = Setup
  BY DEF JobsRight, Shaped
<1> QED
  BY <1>1, <1>2, <1>3, <1>4, <1>5, TaskStep

(* A task takes its line of a file that has the name of its job's.         *)
LEMMA LaunchStep ==
  ASSUME JobsRight, NEW s \in Setup, NEW i \in DOMAIN tasks[s], Launch(s, i)
  PROVE  JobsRight'
<1>1. Running(s) /\ UNCHANGED <<session, pc, in, tmp, out>>
  BY DEF Launch, HasState
<1>2. CASE FailAttempt(s, i) /\ UNCHANGED job
  BY <1>1, <1>2, FailedStep DEF setups
<1>3. CASE /\ HasLine(s, i)
           /\ tasks' = [tasks EXCEPT ![s][i].state = "running",
                                    ![s][i].command = tmp[in[s]].lines[i]]
           /\ job' = [job EXCEPT ![s].kept = TRUE]
  <2>1. /\ DOMAIN tasks' = Setup /\ DOMAIN tasks'[s] = DOMAIN tasks[s]
        /\ \A p \in Setup \ {s} : tasks'[p] = tasks[p]
        /\ \A j \in DOMAIN tasks[s] \ {i} : tasks'[s][j] = tasks[s][j]
        /\ DOMAIN tasks'[s][i] = {"state", "failed", "command", "rows"}
        /\ tasks'[s][i].state = "running" /\ tasks'[s][i].command = tmp[in[s]].lines[i]
    BY <1>3 DEF JobsRight, Shaped
  <2>2. /\ DOMAIN job' = Setup
        /\ \A p \in Setup : DOMAIN job'[p] = DOMAIN job[p] /\ job'[p].state = job[p].state
    BY <1>3 DEF JobsRight, Shaped
  <2>3. TaskRight(s, i)'
    <3>1. in[s] # Jar /\ in[s][2] = Scale(s)
      BY <1>1 DEF Running, JobsRight, Named
    <3>2. \E k \in KitsAt(Scale(s)) : /\ i \in DOMAIN Commands(k, Scale(s))
                          /\ tmp[in[s]].lines[i] = Commands(k, Scale(s))[i]
      BY <1>3, <3>1 DEF HasLine, JobsRight, CommandsByName
    <3>3. (\A c : KitsAt(c)' = KitsAt(c)) /\ Scale(s)' = Scale(s)
      BY <1>1, SameSession
    <3> QED
      BY <2>1, <3>2, <3>3 DEF TaskRight
  <2>4. out[Out(s)] \subseteq Owed(s)
    BY <1>1 DEF JobsRight, JobRight, Running, Submitted
  <2> QED
    BY <1>1, <2>1, <2>2, <2>3, <2>4, TaskStep
<1> QED
  BY <1>2, <1>3 DEF Launch

(* A task whose command is of its own kit has its own command.             *)
LEMMA MapStep ==
  ASSUME JobsRight, NEW s \in Setup, NEW i \in DOMAIN tasks[s], map(s, i)
  PROVE  JobsRight'
<1>1. Running(s) /\ UNCHANGED <<session, pc, in, job, tmp>> /\ tasks[s][i].state = "running"
  BY DEF map, HasState, setups
<1> DEFINE cmd == tasks[s][i].command
           rows == UNION {{[task |-> i, table |-> f.table, row |-> k] : k \in f.rows} :
                          f \in Accepted(cmd)}
<1>2. CASE ~Runs(Kit(s), cmd.kit, Kit(job[s].jar))
  BY <1>1, <1>2, FailedStep DEF map, setups
<1>3. CASE Runs(Kit(s), cmd.kit, Kit(job[s].jar))
  <2>1. /\ tasks' = [tasks EXCEPT ![s][i].state = "done", ![s][i].command = None, ![s][i].rows = rows]
        /\ out' = IF session.early THEN [out EXCEPT ![Out(s)] = @ \cup rows] ELSE out
    BY <1>3 DEF map
  <2>2. cmd.kit = Kit(s) /\ Kit(s) # "port"
    BY <1>3 DEF Runs
  <2>3. Submitted(s) /\ JobRight(s)
    BY <1>1 DEF Running, Submitted, JobsRight
  <2>4. i \in 1 .. Scale(s)
    BY <2>2, <2>3 DEF JobRight, Commands
  <2>5. cmd = Command(Kit(s), Scale(s), i)
    <3>1. PICK k \in KitsAt(Scale(s)) : i \in DOMAIN Commands(k, Scale(s)) /\ cmd = Commands(k, Scale(s))[i]
      BY <1>1, <2>3 DEF JobRight, TaskRight
    <3>2. k # "port"
      <4> SUFFICES ASSUME k = "port" PROVE FALSE
        OBVIOUS
      <4>1. i = 1
        BY <3>1 DEF Commands
      <4> QED
        BY <2>2, <3>1, <4>1 DEF Commands, Command
    <3>3. cmd = Command(k, Scale(s), i)
      BY <2>4, <3>1, <3>2 DEF Commands
    <3> QED
      BY <2>2, <3>3 DEF Command
  <2>6. rows = TaskRows(Kit(s), Scale(s), i)
    BY <2>5 DEF TaskRows
  <2> HIDE DEF rows, cmd
  <2>7. /\ DOMAIN tasks' = Setup /\ DOMAIN tasks'[s] = DOMAIN tasks[s]
        /\ \A p \in Setup \ {s} : tasks'[p] = tasks[p]
        /\ \A j \in DOMAIN tasks[s] \ {i} : tasks'[s][j] = tasks[s][j]
        /\ DOMAIN tasks'[s][i] = {"state", "failed", "command", "rows"}
        /\ tasks'[s][i].state = "done" /\ tasks'[s][i].rows = rows
    BY <2>1 DEF JobsRight, Shaped
  <2>8. TaskRight(s, i)'
    <3>1. Kit(s)' = Kit(s) /\ Scale(s)' = Scale(s)
      BY <1>1, SameSession
    <3> QED
      BY <2>2, <2>6, <2>7, <3>1 DEF TaskRight
  <2>9. /\ DOMAIN out' = DOMAIN out /\ \A d \in DOMAIN out \ {Out(s)} : out'[d] = out[d]
        /\ out'[Out(s)] \subseteq Owed(s)
    <3>1. Out(s) \in DOMAIN out /\ out[Out(s)] \subseteq Owed(s)
      BY <2>3 DEF JobRight
    <3>2. rows \subseteq Owed(s)
      BY <2>6 DEF Owed
    <3> QED
      BY <2>1, <3>1, <3>2
  <2>10. DOMAIN job = Setup
    BY DEF JobsRight, Shaped
  <2> QED
    BY <1>1, <2>7, <2>8, <2>9, <2>10, TaskStep
<1> QED
  BY <1>2, <1>3

(* All tasks are done, so all they owe is in the output.                   *)
LEMMA SucceedStep ==
  ASSUME JobsRight, NEW s \in Setup, Succeed(s)
  PROVE  JobsRight'
<1>1. /\ Running(s) /\ UNCHANGED <<session, pc, in, tasks, tmp>>
      /\ job' = [job EXCEPT ![s].state = "succeeded"]
      /\ \A i \in DOMAIN tasks[s] : tasks[s][i].state = "done"
      /\ out' = [out EXCEPT ![Out(s)] = @ \cup UNION {tasks[s][i].rows : i \in DOMAIN tasks[s]}]
  BY DEF Succeed
<1>2. Submitted(s) /\ JobRight(s)
  BY <1>1 DEF Running, Submitted, JobsRight
<1>3. \A i \in DOMAIN tasks[s] : tasks[s][i].rows = TaskRows(Kit(s), Scale(s), i) /\ Kit(s) # "port"
  BY <1>1, <1>2 DEF JobRight, TaskRight
<1>4. UNION {tasks[s][i].rows : i \in DOMAIN tasks[s]} = Owed(s)
  BY <1>3 DEF Owed
<1>5. Kit(s) # "port"
  <2> SUFFICES ASSUME Kit(s) = "port" PROVE FALSE
    OBVIOUS
  <2>1. 1 \in DOMAIN tasks[s]
    BY <1>2 DEF JobRight, Commands
  <2> QED
    BY <1>3, <2>1
<1>6. /\ Setup' = Setup /\ \A c : KitsAt(c)' = KitsAt(c)
      /\ \A p : Kit(p)' = Kit(p) /\ Scale(p)' = Scale(p) /\ Out(p)' = Out(p)
  BY <1>1, SameSession
<1>7. /\ DOMAIN job' = Setup /\ DOMAIN job'[s] = DOMAIN job[s] /\ job'[s].state = "succeeded"
      /\ \A p \in Setup \ {s} : job'[p] = job[p]
  BY <1>1 DEF JobsRight, Shaped
<1>8. /\ Out(s) \in DOMAIN out /\ DOMAIN out' = DOMAIN out
      /\ \A d \in DOMAIN out \ {Out(s)} : out'[d] = out[d]
      /\ out'[Out(s)] = Owed(s)
  BY <1>1, <1>2, <1>4 DEF JobRight
<1>9. Shaped' /\ CommandsByName' /\ \A p \in Setup : Named(p)'
  BY <1>1, <1>6, <1>7 DEF JobsRight, Shaped, CommandsByName, Named, Jar
<1>10. \A p \in Setup : Submitted(p)' = Submitted(p) /\ Owed(p)' = Owed(p)
  BY <1>1, <1>2, <1>6, <1>7 DEF Submitted, Owed
<1>11. \A p, i : TaskRight(p, i)' = TaskRight(p, i)
  BY <1>1, <1>6 DEF TaskRight
<1>12. ASSUME NEW p \in Setup PROVE JobRight(p)'
  <2>1. JobRight(p) /\ tasks'[p] = tasks[p]
    BY <1>1 DEF JobsRight
  <2>2. Submitted(p) /\ p # s => out'[Out(p)] = out[Out(p)]
    BY <1>2, <1>8, <2>1 DEF JobRight
  <2>3. job[p].state = "succeeded" => Submitted(p)
    BY DEF Submitted
  <2>4. CASE p = s
    BY <1>2, <1>5, <1>6, <1>8, <1>10, <1>11, <2>1, <2>4 DEF JobRight
  <2>5. CASE p # s
    BY <1>6, <1>7, <1>8, <1>10, <1>11, <2>1, <2>2, <2>3, <2>5 DEF JobRight
  <2> QED
    BY <2>4, <2>5
<1> QED
  BY <1>6, <1>8, <1>9, <1>10, <1>12 DEF JobsRight

(* A job that fails adds nothing.                                          *)
LEMMA FailStep ==
  ASSUME JobsRight, NEW s \in Setup, Fail(s)
  PROVE  JobsRight'
<1>1. /\ Running(s) /\ UNCHANGED <<session, pc, in, tasks, tmp, out>>
      /\ job' = [job EXCEPT ![s].state = "failed"]
  BY DEF Fail
<1>2. /\ Setup' = Setup /\ \A c : KitsAt(c)' = KitsAt(c)
      /\ \A p : Kit(p)' = Kit(p) /\ Scale(p)' = Scale(p) /\ Out(p)' = Out(p)
  BY <1>1, SameSession
<1>3. /\ DOMAIN job' = Setup /\ DOMAIN job'[s] = DOMAIN job[s] /\ job'[s].state = "failed"
      /\ \A p \in Setup \ {s} : job'[p] = job[p]
  BY <1>1 DEF JobsRight, Shaped
<1>4. Shaped' /\ CommandsByName' /\ \A p \in Setup : Named(p)'
  BY <1>1, <1>2, <1>3 DEF JobsRight, Shaped, CommandsByName, Named, Jar
<1>5. \A p \in Setup : Submitted(p)' = Submitted(p) /\ Owed(p)' = Owed(p)
  BY <1>1, <1>2, <1>3 DEF Submitted, Owed, Running
<1>6. \A p, i : TaskRight(p, i)' = TaskRight(p, i)
  BY <1>1, <1>2 DEF TaskRight
<1>7. ASSUME NEW p \in Setup PROVE JobRight(p)'
  <2>1. JobRight(p) /\ (job'[p].state = "succeeded" => job[p].state = "succeeded")
    BY <1>3 DEF JobsRight
  <2> QED
    BY <1>1, <1>2, <1>5, <1>6, <2>1 DEF JobRight
<1> QED
  BY <1>1, <1>2, <1>4, <1>5, <1>7 DEF JobsRight

(* The jobs keep right, whatever step is taken.                            *)
LEMMA JobsStayRight ==
  ASSUME PortAlone, JobsRight, [Next]_vars
  PROVE  JobsRight'
<1>1. CASE UNCHANGED vars
  <2>1. UNCHANGED <<session, pc, in, job, tasks, tmp, out>>
    BY <1>1 DEF vars, setups
  <2>2. CommandsByName' /\ DOMAIN pc' = Setup /\ DOMAIN in' = Setup /\ \A s \in Setup : Named(s)'
    BY <2>1, SameSession DEF JobsRight, Shaped, CommandsByName, Named, Jar
  <2> QED
    BY <2>1, <2>2, QuietStep
<1>2. ASSUME NEW s \in Setup, submit(s) PROVE JobsRight'
  BY <1>2, SubmitStep
<1>3. ASSUME NEW s \in Setup, NEW i \in DOMAIN tasks[s],
             Launch(s, i) \/ map(s, i) \/ Crash(s, i)
      PROVE  JobsRight'
  <2>1. CASE Launch(s, i)
    BY <2>1, LaunchStep
  <2>2. CASE map(s, i)
    BY <2>2, MapStep
  <2>3. CASE Crash(s, i)
    BY <2>3, FailedStep DEF Crash, HasState
  <2> QED
    BY <1>3, <2>1, <2>2, <2>3
<1>4. ASSUME NEW s \in Setup,
             \/ Start(s) \/ genInput(s) \/ copyJar(s) \/ cleanup(s) \/ Verify(s)
             \/ Succeed(s) \/ Fail(s)
      PROVE  JobsRight'
  BY <1>4, StartStep, NameStep, JarStep, SucceedStep, FailStep
<1> QED
  BY <1>1, <1>2, <1>3, <1>4 DEF Next

(* Nothing is submitted yet.                                               *)
LEMMA JobsStartRight ==
  ASSUME Init
  PROVE  JobsRight
<1>1. /\ session \in Sessions /\ DOMAIN pc = Setup /\ DOMAIN in = Setup
      /\ DOMAIN job = Setup /\ DOMAIN tasks = Setup /\ DOMAIN tmp = {} /\ DOMAIN out = {}
      /\ \A s \in Setup : /\ pc[s] = "start" /\ tasks[s] = <<>>
                         /\ job[s] = [state |-> "none", jar |-> s, kept |-> FALSE]
  BY DEF Init
<1>2. \A s \in Setup : /\ DOMAIN tasks[s] = {} /\ job[s].state = "none"
                       /\ DOMAIN job[s] = {"state", "jar", "kept"}
  BY <1>1
<1>3. Shaped /\ CommandsByName /\ \A s \in Setup : Named(s)
  BY <1>1, <1>2 DEF Shaped, CommandsByName, Named
<1>4. \A s \in Setup : JobRight(s)
  BY <1>2 DEF JobRight, Submitted
<1> QED
  BY <1>1, <1>3, <1>4 DEF JobsRight

(* The output is whole when the jobs are right.                            *)
LEMMA RightIsWhole ==
  ASSUME JobsRight
  PROVE  WholeOutput
<1>1. ASSUME NEW s \in Setup, Submitted(s)
      PROVE  /\ Kit(s) \in DOMAIN RowsOf /\ Scale(s) \in Nat \ {0}
             /\ \A t \in Tables(Kit(s)) : RowsOf[Kit(s)][t] \in Nat
             /\ Out(s) \in DOMAIN out /\ Out(s) = <<Kit(s), Scale(s)>>
             /\ out[Out(s)] \subseteq UNION {TaskRows(Kit(s), Scale(s), i) : i \in 1 .. Scale(s)}
  <2>1. /\ Kit(s) \in DOMAIN RowsOf /\ Scale(s) \in Nat \ {0}
        /\ \A t \in Tables(Kit(s)) : RowsOf[Kit(s)][t] \in Nat
    BY SetupTyped DEF JobsRight, Shaped
  <2>2. JobRight(s)
    BY DEF JobsRight
  <2>3. DOMAIN tasks[s] \subseteq 1 .. Scale(s)
    BY <1>1, <2>1, <2>2 DEF JobRight, Commands
  <2> QED
    BY <1>1, <2>1, <2>2, <2>3 DEF JobRight, Owed, Out
<1>2. ASSUME NEW s \in Setup, Submitted(s), NEW r \in out[Out(s)]
      PROVE  /\ r.table \in Tables(Kit(s)) /\ r.row \in 1 .. RowsOf[Kit(s)][r.table]
             /\ Cardinality(Written(Kit(s), Scale(s), r.table, r.row)) = 1
  <2>1. /\ r.table \in Tables(Kit(s)) /\ r.row \in 1 .. RowsOf[Kit(s)][r.table]
        /\ {q \in out[Out(s)] : q.table = r.table /\ q.row = r.row} = {r}
    BY <1>1, <1>2, RowsOnce
  <2>2. Written(Kit(s), Scale(s), r.table, r.row) = {r}
    BY <2>1 DEF Written, Out
  <2> QED
    BY <2>1, <2>2, FS_Singleton
<1>3. ASSUME NEW s \in Setup, job[s].state = "succeeded"
      PROVE  Whole(Kit(s), Scale(s))
  <2> SUFFICES ASSUME NEW t \in Tables(Kit(s)), NEW k \in 1 .. RowsOf[Kit(s)][t]
               PROVE  Cardinality(Written(Kit(s), Scale(s), t, k)) = 1
    BY DEF Whole
  <2>1. Submitted(s) /\ JobRight(s)
    BY <1>3 DEF Submitted, JobsRight
  <2>2. out[Out(s)] = UNION {TaskRows(Kit(s), Scale(s), i) : i \in 1 .. Scale(s)}
    <3>1. DOMAIN tasks[s] = 1 .. Scale(s)
      BY <1>3, <2>1 DEF JobRight, Commands
    <3> QED
      BY <1>3, <2>1, <3>1 DEF JobRight, Owed
  <2>3. PICK r \in out[Out(s)] : r.table = t /\ r.row = k
    <3> DEFINE kit == Kit(s)
               scale == Scale(s)
    <3>1. kit \in DOMAIN RowsOf /\ scale \in Nat \ {0} /\ t \in Tables(kit)
          /\ k \in 1 .. RowsOf[kit][t] /\ \A u \in Tables(kit) : RowsOf[kit][u] \in Nat
      BY <1>1, <2>1
    <3>2. out[Out(s)] = UNION {TaskRows(kit, scale, i) : i \in 1 .. scale}
      BY <2>2
    <3> HIDE DEF kit, scale
    <3>3. \E r \in UNION {TaskRows(kit, scale, i) : i \in 1 .. scale} : r.table = t /\ r.row = k
      BY <3>1, RowsAll
    <3> QED
      BY <3>2, <3>3
  <2> QED
    BY <1>2, <2>1, <2>3
<1>4. ASSUME NEW d \in DOMAIN out, NEW r \in out[d]
      PROVE  /\ r.table \in Tables(d[1]) /\ r.row \in 1 .. RowsOf[d[1]][r.table]
             /\ Cardinality(Written(d[1], d[2], r.table, r.row)) = 1
  <2>1. PICK s \in Setup : Submitted(s) /\ Out(s) = d
    BY DEF JobsRight
  <2>2. d[1] = Kit(s) /\ d[2] = Scale(s)
    BY <2>1 DEF Out
  <2> QED
    BY <1>2, <2>1, <2>2
<1> QED
  BY <1>3, <1>4 DEF WholeOutput

(* The output of a job that succeeded has each row of each table of its    *)
(* kit once, and no output has a row twice or of another kit: for any      *)
(* setups, at the same time or one after the other, whatever they do to    *)
(* each other's files in /tmp and however often tasks fail, unless the     *)
(* port is set up next to a kit of C at its scale.                         *)
THEOREM OutputIsWhole == PortAlone => (Spec => []WholeOutput)
<1>1. Init => JobsRight
  BY JobsStartRight
<1>2. PortAlone => (JobsRight /\ [Next]_vars => JobsRight')
  BY JobsStayRight
<1>3. JobsRight => WholeOutput
  BY RightIsWhole
<1> SUFFICES ASSUME PortAlone PROVE Spec => []WholeOutput
  OBVIOUS
<1>4. JobsRight /\ [Next]_vars => JobsRight'
  BY <1>2
<1> QED
  BY <1>1, <1>3, <1>4, PTL DEF Spec

-----------------------------------------------------------------------------
(***************************************************************************)
(* The orders of the query streams.                                        *)
(***************************************************************************)
Smaller == {p \in Nat \X Nat : p[1] < p[2]}

(* Numbers without gaps from 0 on: all that pass from each to the next.    *)
Gapless(D) == D \subseteq Nat /\ 0 \in D /\ \A n \in D \ {0} : n - 1 \in D

LEMMA Induction ==
  ASSUME NEW D, Gapless(D), NEW T, 0 \in T,
         \A n \in D \ {0} : n - 1 \in T => n \in T
  PROVE  D \subseteq T
<1> SUFFICES ASSUME D \ T # {} PROVE FALSE
  OBVIOUS
<1> DEFINE missing == D \ T
<1>1. IsWellFoundedOn(Smaller, Nat)
  BY NatLessThanWellFounded, Zenon DEF OpToRel, Smaller
<1>2. missing \subseteq Nat /\ missing # {}
  BY DEF Gapless
<1>3. PICK n \in missing : \A m \in missing : <<m, n>> \notin Smaller
  <2> HIDE DEF missing
  <2> QED BY <1>1, <1>2, WFMin
<1>4. n \in Nat /\ n # 0 /\ n - 1 \in D
  BY <1>3 DEF Gapless
<1>5. n - 1 \notin missing
  <2>1. <<n - 1, n>> \in Smaller
    BY <1>4 DEF Smaller
  <2> HIDE DEF missing
  <2> QED BY <1>3, <2>1
<1> QED BY <1>3, <1>4, <1>5

(* What is counted up from a value, step by step, exists and is of a set   *)
(* the steps do not leave.                                                 *)
Counts(f, D, base, step) ==
  f = [n \in D |-> IF n = 0 THEN base ELSE step[n][f[n - 1]]]

LEMMA CountedUp ==
  ASSUME NEW D, Gapless(D), NEW X, NEW base \in X, NEW step \in [D -> [X -> X]]
  PROVE  \E f \in [D -> X] : Counts(f, D, base, step)
<1> DEFINE Upto(n) == 0 .. n
           Partial(n, g) == /\ g \in [Upto(n) -> X]
                            /\ g[0] = base
                            /\ \A i \in 1 .. n : g[i] = step[i][g[i - 1]]
           T == {n \in D : \E g : Partial(n, g)}
<1>0. D \subseteq Nat /\ 0 \in D /\ \A n \in D \ {0} : n - 1 \in D
  BY DEF Gapless
<1>1. D \subseteq T
  <2>1. 0 \in T
    <3>1. Partial(0, [i \in Upto(0) |-> base])
      OBVIOUS
    <3> QED BY <1>0, <3>1
  <2>2. ASSUME NEW n \in D \ {0}, n - 1 \in T PROVE n \in T
    <3>1. PICK g : Partial(n - 1, g)
      BY <2>2
    <3> DEFINE h == [i \in Upto(n) |-> IF i = n THEN step[n][g[n - 1]] ELSE g[i]]
    <3>2. n \in Nat \ {0} /\ n - 1 \in Nat
      BY <1>0
    <3>3. g[n - 1] \in X
      BY <3>1, <3>2
    <3>4. step[n][g[n - 1]] \in X
      BY <3>3
    <3>5. h \in [Upto(n) -> X]
      BY <3>1, <3>2, <3>4
    <3>6. h[0] = base
      BY <3>1, <3>2
    <3>7. \A i \in 1 .. n : h[i] = step[i][h[i - 1]]
      BY <3>1, <3>2
    <3> QED BY <3>5, <3>6, <3>7
  <2> HIDE DEF T
  <2> QED BY <2>1, <2>2, Induction
<1> DEFINE g(n) == CHOOSE q : Partial(n, q)
<1>2. \A n \in D : Partial(n, g(n))
  BY <1>1
<1> HIDE DEF g
<1>3. \A n \in D \ {0} : g(n)[n - 1] = g(n - 1)[n - 1]
  <2> SUFFICES ASSUME NEW n \in D \ {0} PROVE g(n)[n - 1] = g(n - 1)[n - 1]
    OBVIOUS
  <2> DEFINE E == {i \in Upto(n - 1) : g(n)[i] = g(n - 1)[i]}
  <2>1. n - 1 \in D /\ n \in Nat \ {0} /\ n - 1 \in Nat
    BY <1>0
  <2>2. Gapless(Upto(n - 1))
    BY <2>1 DEF Gapless
  <2>3. 0 \in E
    BY <1>2, <2>1
  <2>4. \A i \in Upto(n - 1) \ {0} : i - 1 \in E => i \in E
    BY <1>2, <2>1
  <2>5. Upto(n - 1) \subseteq E
    <3> HIDE DEF E
    <3> QED BY <2>2, <2>3, <2>4, Induction
  <2> QED BY <2>1, <2>5
<1> DEFINE f == [n \in D |-> g(n)[n]]
<1>4. \A n \in D : g(n)[n] \in X
  BY <1>0, <1>2
<1>5. g(0)[0] = base
  BY <1>0, <1>2
<1>6. \A n \in D \ {0} : g(n)[n] = step[n][g(n - 1)[n - 1]]
  <2> SUFFICES ASSUME NEW n \in D \ {0} PROVE g(n)[n] = step[n][g(n - 1)[n - 1]]
    OBVIOUS
  <2>1. n \in 1 .. n
    BY <1>0
  <2> QED BY <1>2, <1>3, <2>1
<1>7. f = [n \in D |-> IF n = 0 THEN base ELSE step[n][f[n - 1]]]
  BY <1>0, <1>5, <1>6
<1> QED BY <1>4, <1>7 DEF Counts

(***************************************************************************)
(* The shuffles.                                                           *)
(***************************************************************************)
Numbers(n) == 0 .. n - 1
Orders(n) == [1 .. n -> Numbers(n)]

(* Each number once.                                                       *)
Permutes(p, n) ==
  /\ p \in Orders(n)
  /\ \A i, j \in 1 .. n : p[i] = p[j] => i = j
  /\ \A v \in Numbers(n) : \E i \in 1 .. n : p[i] = v

Through(p, q, n) == [i \in 1 .. n |-> p[q[i] + 1]]

LEMMA SwapPermutes ==
  ASSUME NEW n \in Nat, n <= Len(StreamOne), NEW i \in 1 .. n, NEW p, Permutes(p, n)
  PROVE  Permutes(Swapped(p, i, n), n)
<1> DEFINE j == (StreamOne[i] % n) + 1
           q == [p EXCEPT ![i] = p[j], ![j] = p[i]]
<1>1. j \in 1 .. n
  <2>1. StreamOne[i] \in Nat /\ n \in Nat \ {0}
    BY StreamOneAssumption
  <2> QED BY <2>1
<1> HIDE DEF j
<1>2. p \in Orders(n)
  BY DEF Permutes
<1>3. q \in Orders(n) /\ q[i] = p[j] /\ q[j] = p[i] /\ \A k \in 1 .. n : k # i /\ k # j => q[k] = p[k]
  BY <1>1, <1>2 DEF Orders
<1> HIDE DEF q
<1>4. \A k, l \in 1 .. n : q[k] = q[l] => k = l
  BY <1>1, <1>3 DEF Permutes
<1>5. \A v \in Numbers(n) : \E k \in 1 .. n : q[k] = v
  <2> SUFFICES ASSUME NEW v \in Numbers(n) PROVE \E k \in 1 .. n : q[k] = v
    OBVIOUS
  <2>1. PICK k \in 1 .. n : p[k] = v
    BY DEF Permutes
  <2> QED BY <1>1, <1>3, <2>1
<1>6. Swapped(p, i, n) = q
  BY DEF Swapped, q, j
<1> QED BY <1>3, <1>4, <1>5, <1>6 DEF Permutes

LEMMA SwapThrough ==
  ASSUME NEW n \in Nat, n <= Len(StreamOne), NEW i \in 1 .. n,
         NEW p \in Orders(n), NEW q \in Orders(n)
  PROVE  Swapped(Through(p, q, n), i, n) = Through(p, Swapped(q, i, n), n)
<1> DEFINE j == (StreamOne[i] % n) + 1
<1>1. j \in 1 .. n
  <2>1. StreamOne[i] \in Nat /\ n \in Nat \ {0}
    BY StreamOneAssumption
  <2> QED BY <2>1
<1>2. Swapped(q, i, n) = [q EXCEPT ![i] = q[j], ![j] = q[i]]
  BY DEF Swapped
<1>3. Swapped(Through(p, q, n), i, n) =
        [Through(p, q, n) EXCEPT ![i] = Through(p, q, n)[j], ![j] = Through(p, q, n)[i]]
  BY DEF Swapped
<1> HIDE DEF j
<1> QED BY <1>1, <1>2, <1>3 DEF Through, Orders

(* What Shuffled() counts up, and what that is.                            *)
Steps(n) == [i \in 0 .. n |-> [p \in Orders(n) |-> IF i = 0 THEN p ELSE Swapped(p, i, n)]]

ShuffledUpto(p, n, after) ==
  /\ after \in [0 .. n -> Orders(n)]
  /\ after[0] = p
  /\ \A i \in 1 .. n : after[i] = Swapped(after[i - 1], i, n)
  /\ Shuffled(p, n) = after[n]

LEMMA SwapKeeps ==
  ASSUME NEW n \in Nat, n <= Len(StreamOne), NEW i \in 1 .. n, NEW p \in Orders(n)
  PROVE  Swapped(p, i, n) \in Orders(n)
<1> DEFINE j == (StreamOne[i] % n) + 1
<1>1. j \in 1 .. n
  <2>1. StreamOne[i] \in Nat /\ n \in Nat \ {0}
    BY StreamOneAssumption
  <2> QED BY <2>1
<1>2. Swapped(p, i, n) = [p EXCEPT ![i] = p[j], ![j] = p[i]]
  BY DEF Swapped
<1> HIDE DEF j
<1> QED BY <1>1, <1>2 DEF Orders

LEMMA ShuffleCounts ==
  ASSUME NEW n \in Nat, n <= Len(StreamOne), NEW p \in Orders(n)
  PROVE  \E after : ShuffledUpto(p, n, after)
<1> DEFINE D == 0 .. n
           Is(f) == f = [i \in D |-> IF i = 0 THEN p ELSE Swapped(f[i - 1], i, n)]
           after == CHOOSE f : Is(f)
<1>1. Gapless(D)
  BY DEF Gapless
<1>2. \E f : Is(f)
  <2>1. Steps(n) \in [D -> [Orders(n) -> Orders(n)]]
    BY SwapKeeps DEF Steps
  <2>2. PICK f \in [D -> Orders(n)] : Counts(f, D, p, Steps(n))
    <3> HIDE DEF D
    <3> QED BY <1>1, <2>1, CountedUp
  <2>3. \A i \in D \ {0} : Steps(n)[i][f[i - 1]] = Swapped(f[i - 1], i, n)
    BY <2>2 DEF Steps
  <2>4. Is(f)
    BY <2>2, <2>3 DEF Counts
  <2> QED BY <2>4
<1>3. Is(after)
  BY <1>2
<1>4. Shuffled(p, n) = after[n]
  BY DEF Shuffled
<1> HIDE DEF after
<1>5. after[0] = p /\ \A i \in 1 .. n : after[i] = Swapped(after[i - 1], i, n)
  BY <1>3
<1>6. \A i \in D : after[i] \in Orders(n)
  <2> DEFINE T == {i \in D : after[i] \in Orders(n)}
  <2>1. 0 \in T
    BY <1>5
  <2>2. \A i \in D \ {0} : i - 1 \in T => i \in T
    BY <1>5, SwapKeeps
  <2>3. D \subseteq T
    <3> HIDE DEF T, D
    <3> QED BY <1>1, <2>1, <2>2, Induction
  <2> QED BY <2>3
<1>7. after \in [D -> Orders(n)]
  BY <1>3, <1>6
<1> QED BY <1>4, <1>5, <1>7 DEF ShuffledUpto

LEMMA IdentityPermutes ==
  ASSUME NEW n \in Nat
  PROVE  Permutes(Identity(n), n)
<1>1. Identity(n) \in Orders(n)
  BY DEF Identity, Orders, Numbers
<1>2. \A v \in Numbers(n) : v + 1 \in 1 .. n /\ Identity(n)[v + 1] = v
  BY DEF Identity, Numbers
<1>3. \A i, j \in 1 .. n : Identity(n)[i] = Identity(n)[j] => i = j
  BY DEF Identity
<1> QED BY <1>1, <1>2, <1>3 DEF Permutes

LEMMA ShufflePermutes ==
  ASSUME NEW n \in Nat, n <= Len(StreamOne), NEW p, Permutes(p, n)
  PROVE  Permutes(Shuffled(p, n), n)
<1>1. PICK after : ShuffledUpto(p, n, after)
  BY ShuffleCounts DEF Permutes
<1> DEFINE D == 0 .. n
           T == {i \in D : Permutes(after[i], n)}
<1>2. Gapless(D) /\ n \in D
  BY DEF Gapless
<1>3. 0 \in T
  BY <1>1 DEF ShuffledUpto
<1>4. \A i \in D \ {0} : i - 1 \in T => i \in T
  BY <1>1, SwapPermutes DEF ShuffledUpto
<1>5. D \subseteq T
  <2> HIDE DEF T, D
  <2> QED BY <1>2, <1>3, <1>4, Induction
<1> QED BY <1>1, <1>2, <1>5 DEF ShuffledUpto

(* To shuffle an order is to shuffle its places.                           *)
LEMMA ShuffleThrough ==
  ASSUME NEW n \in Nat, n <= Len(StreamOne), NEW p \in Orders(n)
  PROVE  Shuffled(p, n) = Through(p, Shuffled(Identity(n), n), n)
<1>1. PICK after : ShuffledUpto(p, n, after)
  BY ShuffleCounts
<1>2. PICK place : ShuffledUpto(Identity(n), n, place)
  BY ShuffleCounts, IdentityPermutes DEF Permutes
<1> DEFINE D == 0 .. n
           T == {i \in D : after[i] = Through(p, place[i], n)}
<1>3. Gapless(D) /\ n \in D
  BY DEF Gapless
<1>4. 0 \in T
  <2>1. p = Through(p, Identity(n), n)
    BY DEF Through, Identity, Orders
  <2> QED BY <1>1, <1>2, <2>1 DEF ShuffledUpto
<1>5. \A i \in D \ {0} : i - 1 \in T => i \in T
  <2> SUFFICES ASSUME NEW i \in D \ {0}, i - 1 \in T PROVE i \in T
    OBVIOUS
  <2>1. i \in 1 .. n /\ i - 1 \in 0 .. n
    OBVIOUS
  <2>2. place[i - 1] \in Orders(n)
    BY <1>2, <2>1 DEF ShuffledUpto
  <2>3. after[i] = Swapped(Through(p, place[i - 1], n), i, n)
    BY <1>1, <2>1 DEF ShuffledUpto
  <2>4. place[i] = Swapped(place[i - 1], i, n)
    BY <1>2, <2>1 DEF ShuffledUpto
  <2>5. after[i] = Through(p, place[i], n)
    BY <2>1, <2>2, <2>3, <2>4, SwapThrough
  <2> QED BY <2>5
<1>6. D \subseteq T
  <2> HIDE DEF T, D
  <2> QED BY <1>3, <1>4, <1>5, Induction
<1> QED BY <1>1, <1>2, <1>3, <1>6 DEF ShuffledUpto

(***************************************************************************)
(* The orders of the streams.                                              *)
(***************************************************************************)
First(n) == makePermutation(<<>>, n)

LEMMA FirstIs ==
  ASSUME NEW n \in Nat, n <= Len(StreamOne)
  PROVE  First(n) = Shuffled(Identity(n), n) /\ Permutes(First(n), n)
  BY IdentityPermutes, ShufflePermutes DEF First, makePermutation

LEMMA NextOrder ==
  ASSUME NEW n \in Nat, n <= Len(StreamOne), NEW p \in Orders(n)
  PROVE  makePermutation(p, n) = Through(p, First(n), n)
<1>1. CASE p = <<>>
  <2>1. n = 0
    BY <1>1 DEF Orders
  <2>2. First(n) \in Orders(n)
    BY FirstIs DEF Permutes
  <2>3. First(n) = <<>> /\ Through(p, First(n), n) = <<>>
    BY <2>1, <2>2 DEF Orders, Through
  <2> QED BY <1>1, <2>3 DEF First
<1>2. CASE p # <<>>
  BY <1>2, FirstIs, ShuffleThrough DEF makePermutation
<1> QED BY <1>1, <1>2

LEMMA ThroughPermutes ==
  ASSUME NEW n \in Nat, NEW p, Permutes(p, n), NEW q, Permutes(q, n)
  PROVE  Permutes(Through(p, q, n), n)
<1> DEFINE r == Through(p, q, n)
<1>1. \A i \in 1 .. n : q[i] + 1 \in 1 .. n /\ r[i] = p[q[i] + 1]
  <2>1. q \in Orders(n)
    BY DEF Permutes
  <2>2. \A i \in 1 .. n : q[i] \in 0 .. n - 1
    BY <2>1 DEF Orders, Numbers
  <2> QED BY <2>2 DEF Through
<1>2. r \in Orders(n)
  BY <1>1 DEF Permutes, Orders, Through
<1>3. \A i, k \in 1 .. n : r[i] = r[k] => i = k
  <2> SUFFICES ASSUME NEW i \in 1 .. n, NEW k \in 1 .. n, r[i] = r[k] PROVE i = k
    OBVIOUS
  <2>1. q[i] + 1 = q[k] + 1
    BY <1>1 DEF Permutes
  <2>2. q[i] = q[k]
    BY <2>1 DEF Permutes, Orders, Numbers
  <2> QED BY <2>2 DEF Permutes
<1>4. \A v \in Numbers(n) : \E i \in 1 .. n : r[i] = v
  <2> SUFFICES ASSUME NEW v \in Numbers(n) PROVE \E i \in 1 .. n : r[i] = v
    OBVIOUS
  <2>1. PICK k \in 1 .. n : p[k] = v
    BY DEF Permutes
  <2>2. k - 1 \in Numbers(n)
    BY DEF Numbers
  <2>3. PICK i \in 1 .. n : q[i] = k - 1
    BY <2>2 DEF Permutes
  <2> QED BY <1>1, <2>1, <2>3
<1> QED BY <1>2, <1>3, <1>4 DEF Permutes

LEMMA OrderFrom ==
  ASSUME NEW n \in Nat, n <= Len(StreamOne)
  PROVE  /\ OrderOf(n)[0] = First(n)
         /\ \A s \in Nat \ {0} : OrderOf(n)[s] = Through(OrderOf(n)[s - 1], First(n), n)
<1> DEFINE Is(f) == f = [s \in Nat |-> IF s = 0 THEN First(n)
                                     ELSE [i \in 1 .. n |-> f[s - 1][First(n)[i] + 1]]]
           step == [s \in Nat |-> [p \in Orders(n) |-> Through(p, First(n), n)]]
<1>1. Gapless(Nat)
  BY DEF Gapless
<1>2. First(n) \in Orders(n)
  BY FirstIs DEF Permutes
<1>3. \A p \in Orders(n) : Through(p, First(n), n) \in Orders(n)
  BY <1>2 DEF Through, Orders, Numbers
<1>4. step \in [Nat -> [Orders(n) -> Orders(n)]]
  BY <1>3
<1>5. PICK f \in [Nat -> Orders(n)] : Counts(f, Nat, First(n), step)
  <2> HIDE DEF step
  <2> QED BY <1>1, <1>2, <1>4, CountedUp
<1>6. \A s \in Nat \ {0} : step[s][f[s - 1]] = Through(f[s - 1], First(n), n)
  BY <1>5
<1>7. Is(f)
  BY <1>5, <1>6 DEF Counts, Through
<1> DEFINE order == CHOOSE g : Is(g)
<1>8. Is(order)
  BY <1>7
<1>9. OrderOf(n) = order
  BY DEF OrderOf, First
<1> HIDE DEF order
<1> QED BY <1>8, <1>9 DEF Through

LEMMA OrdersPermute ==
  ASSUME NEW n \in Nat, n <= Len(StreamOne), NEW s \in Nat
  PROVE  Permutes(OrderOf(n)[s], n)
<1> DEFINE T == {t \in Nat : Permutes(OrderOf(n)[t], n)}
<1>1. Gapless(Nat)
  BY DEF Gapless
<1>2. 0 \in T
  BY FirstIs, OrderFrom
<1>3. \A t \in Nat \ {0} : t - 1 \in T => t \in T
  BY FirstIs, OrderFrom, ThroughPermutes
<1>4. Nat \subseteq T
  <2> HIDE DEF T
  <2> QED BY <1>1, <1>2, <1>3, Induction
<1> QED BY <1>4

LEMMA OrderThen ==
  ASSUME NEW n \in Nat, n <= Len(StreamOne), NEW s \in Nat
  PROVE  makePermutation(OrderOf(n)[s], n) = OrderOf(n)[s + 1]
<1>1. OrderOf(n)[s] \in Orders(n)
  BY OrdersPermute DEF Permutes
<1>2. s + 1 \in Nat \ {0} /\ (s + 1) - 1 = s
  OBVIOUS
<1> QED BY <1>1, <1>2, NextOrder, OrderFrom

(***************************************************************************)
(* What is printed.                                                        *)
(***************************************************************************)
(* The name printed as the k-th of stream s, and the first m of them.      *)
At(s, k) ==
  LET place == (k - 1) \div nVersionCount + 1
      t == IF Qualified THEN place ELSE OrderOf(nQueryCount)[s][place] + 1
  IN  TemplateList[t].name
FirstNames(s, m) == [k \in 1 .. m |-> At(s, k)]

(* How many have been printed of the stream at hand.                       *)
Done == (nQuery - 1) * nVersionCount + nCount - 1

CountsRight ==
  /\ nVersionCount \in Int
  /\ nQueryCount \in 0 .. Len(StreamOne)
  /\ nStream \in Nat
  /\ nQuery \in 1 .. nQueryCount + 1
  /\ nCount \in Nat /\ nCount >= 1 /\ (nCount = 1 \/ nCount <= nVersionCount + 1)
  /\ nQuery > nQueryCount => nCount = 1
  /\ stage = "select" => nQuery <= nQueryCount /\ nCount <= nVersionCount

(* Where the process is with the orders it has had.                        *)
OrderInv ==
  /\ CountsRight
  /\ \A s \in 1 .. nStream : printed[s] = FirstNames(s - 1, nQueryCount * nVersionCount)
  /\ program = "dsqgen" =>
       /\ stage \in {"stream", "query", "select"}
       /\ printed = [s \in DOMAIN printed |-> printed[s]]
       /\ stage = "stream" =>
            /\ DOMAIN printed = 1 .. nStream
            /\ pPermutation = IF nStream = 0 THEN <<>> ELSE OrderOf(nQueryCount)[nStream - 1]
       /\ stage # "stream" =>
            /\ DOMAIN printed = 1 .. nStream + 1
            /\ pPermutation = OrderOf(nQueryCount)[nStream]
            /\ printed[nStream + 1] = FirstNames(nStream, Done)

LEMMA Appended ==
  ASSUME NEW m \in Nat, NEW f, f = [k \in 1 .. m |-> f[k]], NEW x
  PROVE  Append(f, x) = [k \in 1 .. m + 1 |-> IF k = m + 1 THEN x ELSE f[k]]
<1> DEFINE S == {f[k] : k \in 1 .. m} \cup {x}
           h == Append(f, x)
<1>1. f \in Seq(S) /\ Len(f) = m /\ x \in S
  OBVIOUS
<1> HIDE DEF S
<1>2. /\ h \in Seq(S) /\ Len(h) = m + 1
      /\ \A k \in 1 .. m + 1 : h[k] = IF k = m + 1 THEN x ELSE f[k]
  BY <1>1
<1> HIDE DEF h
<1>3. h \in [1 .. m + 1 -> S]
  BY <1>2
<1>4. h = [k \in 1 .. m + 1 |-> h[k]]
  BY <1>3
<1> QED BY <1>2, <1>4 DEF h

LEMMA NextName ==
  ASSUME CountsRight, nQuery <= nQueryCount, nCount <= nVersionCount,
         pPermutation = OrderOf(nQueryCount)[nStream]
  PROVE  /\ Done \in Nat /\ At(nStream, Done + 1) = Template.name
         /\ Append(FirstNames(nStream, Done), Template.name) = FirstNames(nStream, Done + 1)
<1>1. /\ nVersionCount \in Nat \ {0} /\ nQuery - 1 \in Nat /\ nCount - 1 \in 0 .. nVersionCount - 1
      /\ nQuery \in Nat
  BY DEF CountsRight
<1>2. Done \in Nat /\ Done \div nVersionCount = nQuery - 1
  <2> DEFINE q == nQuery - 1
             v == nVersionCount
             r == nCount - 1
  <2>1. q \in Nat /\ v \in Nat \ {0} /\ r \in 0 .. v - 1
    BY <1>1
  <2>2. Done = q * v + r
    BY <1>1 DEF Done
  <2> HIDE DEF q, v, r
  <2>3. q * v \in Nat /\ q * v + r \in Nat
    BY <2>1
  <2>4. (q * v + r) \div v = q
    BY <2>1, <2>3
  <2> QED BY <2>2, <2>3, <2>4 DEF q, v
<1>3. (Done + 1) - 1 = Done /\ nQuery - 1 + 1 = nQuery
  BY <1>1, <1>2
<1>4. At(nStream, Done + 1) = Template.name
  BY <1>2, <1>3 DEF At, Template, nQID
<1>5. Append(FirstNames(nStream, Done), At(nStream, Done + 1)) = FirstNames(nStream, Done + 1)
  <2>1. Append(FirstNames(nStream, Done), At(nStream, Done + 1)) =
          [k \in 1 .. Done + 1 |-> IF k = Done + 1 THEN At(nStream, Done + 1)
                                 ELSE FirstNames(nStream, Done)[k]]
    BY <1>2, Appended DEF FirstNames
  <2> QED BY <1>2, <2>1 DEF FirstNames
<1> QED BY <1>2, <1>4, <1>5

LEMMA OrderFirst == OrderInit => OrderInv
<1> SUFFICES ASSUME OrderInit PROVE OrderInv
  OBVIOUS
<1>1. CountsRight
  BY DEF OrderInit, CountsRight, dsqgenAt
<1>2. printed = <<>> /\ nStream = 0 /\ pPermutation = <<>> /\ stage = "stream"
  BY DEF OrderInit, dsqgenAt
<1>3. DOMAIN printed = 1 .. nStream /\ printed = [s \in DOMAIN printed |-> printed[s]]
  BY <1>2
<1> QED BY <1>1, <1>2, <1>3 DEF OrderInv

LEMMA CountsKept == CountsRight /\ [OrderNext]_orderVars => CountsRight'
<1> SUFFICES ASSUME CountsRight, [OrderNext]_orderVars PROVE CountsRight'
  OBVIOUS
<1> USE DEF CountsRight, nQueryCount, nVersionCount
<1>1. ASSUME NEW opened \in BOOLEAN, OpenStream(opened) PROVE CountsRight'
  BY <1>1 DEF OpenStream, dsqgenAt
<1>2. CASE CloseStreams
  BY <1>2 DEF CloseStreams
<1>3. CASE StartQuery
  BY <1>3 DEF StartQuery
<1>4. CASE AdvanceTemplate
  BY <1>4 DEF AdvanceTemplate, dsqgenAt
<1>5. CASE CloseStream
  BY <1>5 DEF CloseStream
<1>6. CASE WriteQuery
  BY <1>6 DEF WriteQuery, dsqgenAt
<1>7. CASE FailQuery
  BY <1>7 DEF FailQuery
<1>8. CASE UNCHANGED orderVars
  BY <1>8 DEF orderVars
<1> QED BY <1>1, <1>2, <1>3, <1>4, <1>5, <1>6, <1>7, <1>8 DEF OrderNext

(* The options, the templates and so the orders stay.                      *)
LEMMA NamesStay ==
  [OrderNext]_orderVars =>
    /\ UNCHANGED <<nQueryCount, nVersionCount, Qualified>>
    /\ \A s, k : UNCHANGED At(s, k)
    /\ \A s, m : UNCHANGED FirstNames(s, m)
<1> SUFFICES ASSUME [OrderNext]_orderVars
             PROVE  /\ UNCHANGED <<nQueryCount, nVersionCount, Qualified>>
                    /\ \A s, k : UNCHANGED At(s, k)
                    /\ \A s, m : UNCHANGED FirstNames(s, m)
  OBVIOUS
<1>1. UNCHANGED <<settings, TemplateList>>
  BY DEF OrderNext, orderVars, OpenStream, CloseStreams, StartQuery, AdvanceTemplate,
     CloseStream, WriteQuery, FailQuery
<1>2. UNCHANGED <<nQueryCount, nVersionCount, Qualified>>
  BY <1>1 DEF nQueryCount, nVersionCount, Qualified
<1>3. \A s, k : UNCHANGED At(s, k)
  BY <1>1, <1>2 DEF At
<1>4. \A s, m : UNCHANGED FirstNames(s, m)
  BY <1>3 DEF FirstNames
<1> QED BY <1>2, <1>3, <1>4

LEMMA OrderKept == OrderInv /\ [OrderNext]_orderVars => OrderInv'
<1> SUFFICES ASSUME OrderInv, [OrderNext]_orderVars PROVE OrderInv'
  OBVIOUS
<1>1. CountsRight /\ CountsRight'
  BY CountsKept DEF OrderInv
<1>2. /\ nQueryCount' = nQueryCount /\ nVersionCount' = nVersionCount
      /\ \A s, m : FirstNames(s, m)' = FirstNames(s, m)
  BY NamesStay
<1>3. nQueryCount \in Nat /\ nQueryCount <= Len(StreamOne) /\ nStream \in Nat
  BY <1>1, StreamOneAssumption DEF CountsRight
<1>4. ASSUME program' # "dsqgen", nStream' = nStream, printed' = printed PROVE OrderInv'
  BY <1>1, <1>2, <1>4 DEF OrderInv
<1>5. ASSUME NEW opened \in BOOLEAN, OpenStream(opened) PROVE OrderInv'
  <2>1. /\ program = "dsqgen" /\ stage = "stream" /\ DOMAIN printed = 1 .. nStream
        /\ printed = [s \in 1 .. nStream |-> printed[s]]
        /\ pPermutation = IF nStream = 0 THEN <<>> ELSE OrderOf(nQueryCount)[nStream - 1]
    BY <1>5 DEF OrderInv, OpenStream, dsqgenAt
  <2>2. CASE ~opened
    BY <1>4, <1>5, <2>2 DEF OpenStream, Exit
  <2>3. CASE opened
    <3>1. /\ program' = "dsqgen" /\ stage' = "query" /\ nStream' = nStream
          /\ nQuery' = 1 /\ nCount' = 1 /\ printed' = Append(printed, <<>>)
          /\ pPermutation' = makePermutation(pPermutation, nQueryCount)
      BY <1>5, <2>1, <2>3 DEF OpenStream
    <3>2. printed' = [s \in 1 .. nStream + 1 |-> IF s = nStream + 1 THEN <<>> ELSE printed[s]]
      BY <1>3, <2>1, <3>1, Appended
    <3>3. makePermutation(pPermutation, nQueryCount) = OrderOf(nQueryCount)[nStream]
      <4>1. CASE nStream = 0
        BY <1>3, <2>1, <4>1, OrderFrom DEF First
      <4>2. CASE nStream # 0
        <5>1. nStream - 1 \in Nat /\ (nStream - 1) + 1 = nStream
          BY <1>3, <4>2
        <5> QED BY <1>3, <2>1, <4>2, <5>1, OrderThen
      <4> QED BY <4>1, <4>2
    <3>4. FirstNames(nStream, Done)' = <<>>
      <4>1. Done' = 0
        BY <1>1, <1>2, <3>1 DEF Done, CountsRight
      <4> QED BY <4>1 DEF FirstNames
    <3>5. \A s \in 1 .. nStream' :
            printed'[s] = FirstNames(s - 1, nQueryCount * nVersionCount)'
      BY <1>2, <1>3, <3>1, <3>2 DEF OrderInv
    <3>6. /\ DOMAIN printed' = 1 .. nStream + 1 /\ printed'[nStream + 1] = <<>>
          /\ printed' = [s \in DOMAIN printed' |-> printed'[s]]
      BY <1>3, <3>2
    <3>7. nQueryCount' = nQueryCount /\ pPermutation' = OrderOf(nQueryCount)[nStream]
      BY <1>2, <3>1, <3>3
    <3> QED BY <1>1, <3>1, <3>4, <3>5, <3>6, <3>7 DEF OrderInv
  <2> QED BY <2>2, <2>3
<1>6. CASE CloseStreams
  BY <1>4, <1>6 DEF CloseStreams, Exit
<1>7. CASE StartQuery
  <2>1. Done' = Done
    BY <1>2, <1>7 DEF StartQuery, Done
  <2> QED BY <1>1, <1>2, <1>7, <2>1 DEF StartQuery, OrderInv, dsqgenAt
<1>8. CASE AdvanceTemplate
  <2>1. FirstNames(nStream, Done)' = FirstNames(nStream, Done)
    <3>1. Done' = nQuery * nVersionCount
      BY <1>1, <1>2, <1>8 DEF AdvanceTemplate, Done, CountsRight
    <3>2. CASE nCount = nVersionCount + 1
      <4>1. Done = nQuery * nVersionCount
        BY <1>1, <3>2 DEF Done, CountsRight
      <4> QED BY <1>2, <1>8, <3>1, <4>1 DEF AdvanceTemplate
    <3>3. CASE nCount # nVersionCount + 1
      <4>1. nCount = 1 /\ nVersionCount \in Int /\ nVersionCount <= 0 /\ nQuery \in Nat /\ nQuery >= 1
        BY <1>1, <1>8, <3>3 DEF AdvanceTemplate, CountsRight
      <4>2. \A q \in Nat : q * nVersionCount <= 0
        BY <4>1
      <4>3. Done <= 0 /\ Done' <= 0 /\ Done \in Int /\ Done' \in Int
        BY <3>1, <4>1, <4>2 DEF Done
      <4>4. \A s, m : m \in Int /\ m <= 0 => FirstNames(s, m) = <<>>
        BY DEF FirstNames
      <4> QED BY <1>2, <4>3, <4>4
    <3> QED BY <3>2, <3>3
  <2> QED BY <1>1, <1>2, <1>8, <2>1 DEF AdvanceTemplate, OrderInv, dsqgenAt
<1>9. CASE CloseStream
  <2>1. /\ program = "dsqgen" /\ stage = "query" /\ DOMAIN printed = 1 .. nStream + 1
        /\ pPermutation = OrderOf(nQueryCount)[nStream]
        /\ printed[nStream + 1] = FirstNames(nStream, Done)
        /\ program' = program /\ stage' = "stream" /\ nStream' = nStream + 1
        /\ printed' = printed /\ pPermutation' = pPermutation
    BY <1>9 DEF CloseStream, OrderInv, dsqgenAt
  <2>2. FirstNames(nStream, Done) = FirstNames(nStream, nQueryCount * nVersionCount)
    <3>1. nQuery = nQueryCount + 1 /\ nCount = 1 /\ nVersionCount \in Int
      BY <1>1, <1>3, <1>9 DEF CloseStream, CountsRight
    <3>2. Done = nQueryCount * nVersionCount
      BY <1>3, <3>1 DEF Done
    <3> QED BY <3>2
  <2>3. \A s \in 1 .. nStream' :
          printed'[s] = FirstNames(s - 1, nQueryCount * nVersionCount)'
    <3>1. \A s \in 1 .. nStream :
            printed[s] = FirstNames(s - 1, nQueryCount * nVersionCount)
      BY DEF OrderInv
    <3>2. (nStream + 1) - 1 = nStream
      BY <1>3
    <3> QED BY <1>2, <1>3, <2>1, <2>2, <3>1, <3>2
  <2>4. /\ nQueryCount' = nQueryCount /\ nStream' # 0 /\ nStream' - 1 = nStream
        /\ printed = [s \in DOMAIN printed |-> printed[s]]
    BY <1>2, <1>3, <2>1 DEF OrderInv
  <2> QED BY <1>1, <2>1, <2>3, <2>4 DEF OrderInv
<1>10. CASE WriteQuery
  <2>1. /\ program = "dsqgen" /\ stage = "select" /\ DOMAIN printed = 1 .. nStream + 1
        /\ pPermutation = OrderOf(nQueryCount)[nStream]
        /\ printed[nStream + 1] = FirstNames(nStream, Done)
        /\ printed = [s \in DOMAIN printed |-> printed[s]]
        /\ program' = program /\ stage' = "query" /\ nStream' = nStream
        /\ nQuery' = nQuery /\ nCount' = nCount + 1 /\ pPermutation' = pPermutation
        /\ printed' = [printed EXCEPT ![nStream + 1] =
                         Append(printed[nStream + 1], Template.name)]
    BY <1>10 DEF WriteQuery, OrderInv, dsqgenAt
  <2>2. /\ Append(FirstNames(nStream, Done), Template.name) = FirstNames(nStream, Done + 1)
        /\ Done \in Nat
    BY <1>1, <2>1, NextName DEF CountsRight
  <2>3. Done' = Done + 1
    <3>1. (nQuery - 1) * nVersionCount \in Int /\ nCount \in Nat
      BY <1>1 DEF CountsRight
    <3> QED BY <1>2, <2>1, <3>1 DEF Done
  <2>4. FirstNames(nStream, Done)' = FirstNames(nStream, Done + 1)
    BY <1>2, <2>1, <2>3
  <2>5. /\ DOMAIN printed' = 1 .. nStream + 1 /\ printed'[nStream + 1] = FirstNames(nStream, Done + 1)
        /\ \A s \in 1 .. nStream : printed'[s] = printed[s]
        /\ printed' = [s \in DOMAIN printed' |-> printed'[s]]
    <3> DEFINE names == FirstNames(nStream, Done + 1)
    <3>1. printed' = [printed EXCEPT ![nStream + 1] = names]
      BY <2>1, <2>2
    <3> HIDE DEF names
    <3>2. printed' = [s \in 1 .. nStream + 1 |-> IF s = nStream + 1 THEN names ELSE printed[s]]
      BY <1>3, <2>1, <3>1
    <3>3. nStream + 1 \in 1 .. nStream + 1 /\ \A s \in 1 .. nStream : s # nStream + 1
      BY <1>3
    <3> QED BY <1>3, <3>2, <3>3 DEF names
  <2>6. \A s \in 1 .. nStream' :
          printed'[s] = FirstNames(s - 1, nQueryCount * nVersionCount)'
    BY <1>2, <2>1, <2>5 DEF OrderInv
  <2> QED BY <1>1, <1>2, <2>1, <2>4, <2>5, <2>6 DEF OrderInv
<1>11. CASE FailQuery
  BY <1>4, <1>11 DEF FailQuery, Exit
<1>12. CASE UNCHANGED orderVars
  <2>1. Done' = Done
    BY <1>2, <1>12 DEF orderVars, Done
  <2> QED BY <1>1, <1>2, <1>12, <2>1 DEF orderVars, OrderInv
<1> QED BY <1>5, <1>6, <1>7, <1>8, <1>9, <1>10, <1>11, <1>12 DEF OrderNext

(* However many templates and streams there are, and whatever numbers the  *)
(* seed gives, every finished stream is in its own order.                  *)
THEOREM QueriesInOrder == OrderSpec => []StreamsInOrder
<1>1. OrderInv => StreamsInOrder
  <2> SUFFICES ASSUME OrderInv, NEW s \in 1 .. nStream
               PROVE  printed[s] = FirstNames(s - 1, nQueryCount * nVersionCount)
    BY DEF StreamsInOrder, FirstNames, At
  <2> QED BY DEF OrderInv
<1> QED BY <1>1, OrderFirst, OrderKept, PTL DEF OrderSpec

(* The order of a stream has each template once.                           *)
THEOREM EachTemplateOnce ==
  ASSUME NEW n \in 0 .. Len(StreamOne), NEW s \in Nat
  PROVE  \A template \in 1 .. n :
           \E i \in 1 .. n : /\ OrderOf(n)[s][i] + 1 = template
                            /\ \A j \in 1 .. n : OrderOf(n)[s][j] + 1 = template => j = i
<1>1. n \in Nat /\ n <= Len(StreamOne)
  BY StreamOneAssumption
<1> DEFINE p == OrderOf(n)[s]
<1>2. Permutes(p, n)
  BY <1>1, OrdersPermute
<1> HIDE DEF p
<1>3. \A i \in 1 .. n : p[i] \in 0 .. n - 1
  BY <1>2 DEF Permutes, Orders, Numbers
<1> SUFFICES ASSUME NEW template \in 1 .. n
             PROVE  \E i \in 1 .. n : /\ p[i] + 1 = template
                                     /\ \A j \in 1 .. n : p[j] + 1 = template => j = i
  BY DEF p
<1>4. PICK i \in 1 .. n : p[i] = template - 1
  BY <1>1, <1>2 DEF Permutes, Numbers
<1> QED BY <1>1, <1>2, <1>3, <1>4 DEF Permutes

===============================================================================
