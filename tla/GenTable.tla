------------------------------- MODULE GenTable -------------------------------
(***************************************************************************)
(* Generating a data set on a Hadoop cluster: the setup scripts of the     *)
(* test bench run GenTable, which hands a MapReduce job the commands of    *)
(* the children of a build, one for each task.  A task runs the generator  *)
(* in a directory of its own and copies what it wrote into the output of   *)
(* the job.  There is a kit for TPC-DS and one for TPC-H, and a third that *)
(* runs the Java port.                                                     *)
(*                                                                         *)
(* Jobs meet in /tmp, where the commands and the generator are put for the *)
(* tasks, and in the output of an earlier job.                             *)
(***************************************************************************)
EXTENDS SplitWork, Sequences, FiniteSets

CONSTANTS
  Sessions,     (* setups, attempts that crash, and when output shows      *)
  MaxAttempts,  (* of a task before its job fails                          *)
  MaxSecond,    (* the last second a job can begin in                      *)
  PipeSize,     (* the lines a pipe takes before the writer has to wait    *)
  RowsOf        (* the rows of the tables                                  *)

(* A setup names a kit and a scale; there are so many children as scales.  *)
ASSUME SetupAssumption ==
  /\ \A x \in Sessions : \A s \in DOMAIN x.setups :
       x.setups[s].kit \in DOMAIN RowsOf /\ x.setups[s].scale \in Nat \ {0}
  /\ \A k \in DOMAIN RowsOf : \A t \in DOMAIN RowsOf[k] : RowsOf[k][t] \in Nat

VARIABLES
  session,
  pc,       (* what a setup comes to next                                  *)
  in,       (* the name of the file of its job's commands                  *)
  job,      (* the generator its job was submitted with, and how it ended  *)
  tasks,    (* of a job: attempts made, and what the tasks wrote           *)
  tmp,      (* files in /tmp                                               *)
  out,      (* by directory: rows with the task that wrote them            *)
  clock, crashed

setups == <<pc, in, job>>
vars == <<session, setups, tasks, tmp, out, clock, crashed>>

Setup == DOMAIN session.setups
Kit(s) == session.setups[s].kit
Scale(s) == session.setups[s].scale
Out(s) == <<Kit(s), Scale(s)>>

-----------------------------------------------------------------------------
(***************************************************************************)
(* The generators.                                                         *)
(***************************************************************************)
None == [kit |-> "none", parallel |-> 0, child |-> 0]
Command(kit, parallel, child) == [kit |-> kit, parallel |-> parallel, child |-> child]

(* genInput(): the commands, as many as there are to be chunks; the port   *)
(* is to make its chunks itself.                                           *)
Commands(kit, parallel) ==
  IF kit = "port" THEN <<Command(kit, parallel, 1)>>
  ELSE [i \in 1 .. parallel |-> Command(kit, parallel, i)]

(* A task's command runs when it and the jar are of the task's own kit;    *)
(* the port's jar has no directory for the command to run in.              *)
Runs(kit, command, jar) == {command, jar} = {kit} /\ kit # "port"

(* Mutant: an option of the command makes it verbose.                      *)
ChatterVerbose(kit) == PipeSize + 1

(* The lines a generator writes to its pipes: its command does not quiet   *)
(* it.                                                                     *)
Chatter(kit) == 2

(* The files of a command: of each table a chunk, if it has rows; dbgen    *)
(* names those of a table that is not divided without the child.           *)
Tables(kit) == DOMAIN RowsOf[kit]
Rows(cmd, t) ==
  Chunk(RowsOf[cmd.kit][t], cmd.parallel, cmd.child)
Divided(kit, t, parallel) == ~Undivided(RowsOf[kit][t], parallel)
Files(cmd) ==
  IF cmd.kit = "tpch"
  THEN {[table |-> t, rows |-> IF Divided("tpch", t, cmd.parallel) THEN Rows(cmd, t)
                               ELSE 1 .. RowsOf["tpch"][t],
         suffix |-> IF Divided("tpch", t, cmd.parallel) THEN <<cmd.child>> ELSE <<>>] :
        t \in Tables("tpch")}
  ELSE {[table |-> t, rows |-> Rows(cmd, t), suffix |-> <<cmd.child, cmd.parallel>>] :
        t \in {u \in Tables(cmd.kit) : Rows(cmd, u) # {}}}

(* Mutant: every child's copy of a table that is not divided is taken.     *)
acceptTpchAll(file, cmd) == file.suffix \in {<<cmd.child>>, <<>>}

(* accept() of the file name filters.                                      *)
acceptTpch(file, cmd) ==
  \/ file.suffix = <<cmd.child>>
  \/ file.suffix = <<>> /\ cmd.child = 1
acceptTpcds(file, cmd) == file.suffix = <<cmd.child, cmd.parallel>>

Accepted(cmd) ==
  {f \in Files(cmd) : IF cmd.kit = "tpch" THEN acceptTpch(f, cmd) ELSE acceptTpcds(f, cmd)}

-----------------------------------------------------------------------------
(***************************************************************************)
(* A setup: tpcds-setup.sh, tpch-setup.sh, or hadoop jar alone.            *)
(***************************************************************************)
(* copyJar() takes the digest of no byte: the jar of each kit has the same *)
(* name.                                                                   *)
Jar == <<"jar">>

Ended(s) == pc[s] \in {"loading", "stopped"}
Goto(s, where) == pc' = [pc EXCEPT ![s] = where]

(* Data that is there already is not generated again.                      *)
There(s) ==
  /\ Out(s) \in DOMAIN out
  /\ Kit(s) = "tpch" => \E r \in out[Out(s)] : r.table = "lineitem"

Start(s) ==
  /\ pc[s] = "start"
  /\ \A p \in Setup : session.setups[s].after = p => Ended(p)
  /\ Goto(s, IF There(s) /\ Kit(s) # "port" THEN "verify" ELSE "genInput")
  /\ UNCHANGED <<session, in, job, tasks, tmp, out, clock, crashed>>

(* The name has the scale and the second; a file of this name is replaced. *)
genInput(s) ==
  /\ pc[s] = "genInput"
  /\ \E now \in clock .. MaxSecond :
       /\ clock' = now
       /\ in' = [in EXCEPT ![s] = <<"all", Scale(s), now>>]
       /\ tmp' = [f \in DOMAIN tmp \cup {<<"all", Scale(s), now>>} |->
                    IF f = <<"all", Scale(s), now>>
                    THEN [by |-> s, lines |-> Commands(Kit(s), Scale(s))]
                    ELSE tmp[f]]
  /\ Goto(s, "copyJar")
  /\ UNCHANGED <<session, job, tasks, out, crashed>>

copyJar(s) ==
  /\ pc[s] = "copyJar"
  /\ tmp' = [f \in DOMAIN tmp \cup {Jar} |->
               IF f = Jar THEN [by |-> s, lines |-> <<>>] ELSE tmp[f]]
  /\ Goto(s, "submit")
  /\ UNCHANGED <<session, in, job, tasks, out, clock, crashed>>

(* waitForCompletion() throws when a file is not there, or the output is.  *)
submit(s) ==
  /\ pc[s] = "submit"
  /\ IF {in[s], Jar} \subseteq DOMAIN tmp /\ Out(s) \notin DOMAIN out
     THEN /\ Goto(s, "wait")
          /\ job' = [job EXCEPT ![s].jar = tmp[Jar].by, ![s].state = "running"]
          /\ tasks' = [tasks EXCEPT ![s] =
                         [i \in DOMAIN tmp[in[s]].lines |->
                            [state |-> "waiting", failed |-> 0, command |-> None, rows |-> {}]]]
          /\ out' = [d \in DOMAIN out \cup {Out(s)} |->
                       IF d = Out(s) THEN {} ELSE out[d]]
     ELSE /\ Goto(s, IF Kit(s) = "port" THEN "stopped" ELSE "verify")
          /\ UNCHANGED <<job, tasks, out>>
  /\ UNCHANGED <<session, in, tmp, clock, crashed>>

(* run() deletes its two files and returns 0, whether or not the job has   *)
(* succeeded.                                                              *)
cleanup(s) ==
  /\ pc[s] = "wait" /\ job[s].state \in {"succeeded", "failed"}
  /\ tmp' = [f \in DOMAIN tmp \ {in[s], Jar} |-> tmp[f]]
  /\ Goto(s, IF Kit(s) = "port" THEN "loading" ELSE "verify")
  /\ UNCHANGED <<session, in, job, tasks, out, clock, crashed>>

(* Is the data there now?                                                  *)
Verify(s) ==
  /\ pc[s] = "verify"
  /\ Goto(s, IF There(s) THEN "loading" ELSE "stopped")
  /\ UNCHANGED <<session, in, job, tasks, tmp, out, clock, crashed>>

-----------------------------------------------------------------------------
(***************************************************************************)
(* The job.  A node that has the jar keeps it; a jar that changed since    *)
(* the job was submitted is not taken.  The output of a task shows when    *)
(* the task ends or when the job does, by the version of Hadoop.           *)
(***************************************************************************)
Running(s) == pc[s] = "wait" /\ job[s].state = "running"
HasState(s, i, state) == Running(s) /\ i \in DOMAIN tasks[s] /\ tasks[s][i].state = state

JarAtHand(s) == Jar \in DOMAIN tmp /\ tmp[Jar].by = job[s].jar
HasLine(s, i) == in[s] \in DOMAIN tmp /\ i \in DOMAIN tmp[in[s]].lines

FailAttempt(s, i) ==
  tasks' = [tasks EXCEPT ![s][i].failed = @ + 1,
              ![s][i].state = IF tasks[s][i].failed + 1 = MaxAttempts
                              THEN "failed" ELSE "waiting",
              ![s][i].command = None]

(* A task gets the jar and its line of the commands as they are now.       *)
Launch(s, i) ==
  /\ HasState(s, i, "waiting")
  /\ \/ /\ JarAtHand(s) \/ job[s].kept
        /\ HasLine(s, i)
        /\ tasks' = [tasks EXCEPT ![s][i].state = "running",
                                 ![s][i].command = tmp[in[s]].lines[i]]
        /\ job' = [job EXCEPT ![s].kept = TRUE]
     \/ /\ ~JarAtHand(s) \/ ~HasLine(s, i)
        /\ FailAttempt(s, i)
        /\ UNCHANGED job
  /\ UNCHANGED <<session, pc, in, tmp, out, clock, crashed>>

(* map(): the generator runs to its end before a line of what it says is   *)
(* read; then the files of its chunk are copied.  No time is set for it.   *)
map(s, i) ==
  /\ HasState(s, i, "running")
  /\ IF Runs(Kit(s), tasks[s][i].command.kit, Kit(job[s].jar))
     THEN LET cmd  == tasks[s][i].command
              rows == UNION {{[task |-> i, table |-> f.table, row |-> k] : k \in f.rows} :
                             f \in Accepted(cmd)}
          IN /\ Chatter(cmd.kit) <= PipeSize
             /\ tasks' = [tasks EXCEPT ![s][i].state = "done",
                        ![s][i].command = None, ![s][i].rows = rows]
             /\ out' = IF session.early
                       THEN [out EXCEPT ![Out(s)] = @ \cup rows] ELSE out
     ELSE FailAttempt(s, i) /\ UNCHANGED out
  /\ UNCHANGED <<session, setups, tmp, clock, crashed>>

(* The node is lost, or the generator ends with another status than 0.     *)
Crash(s, i) ==
  /\ HasState(s, i, "running")
  /\ crashed < session.crashes
  /\ crashed' = crashed + 1
  /\ FailAttempt(s, i)
  /\ UNCHANGED <<session, setups, tmp, out, clock>>

Succeed(s) ==
  /\ Running(s)
  /\ \A i \in DOMAIN tasks[s] : tasks[s][i].state = "done"
  /\ job' = [job EXCEPT ![s].state = "succeeded"]
  /\ out' = [out EXCEPT ![Out(s)] =
               @ \cup UNION {tasks[s][i].rows : i \in DOMAIN tasks[s]}]
  /\ UNCHANGED <<session, pc, in, tasks, tmp, clock, crashed>>

(* The directory of the output stays.                                      *)
Fail(s) ==
  /\ Running(s)
  /\ \E i \in DOMAIN tasks[s] : tasks[s][i].state = "failed"
  /\ job' = [job EXCEPT ![s].state = "failed"]
  /\ UNCHANGED <<session, pc, in, tasks, tmp, out, clock, crashed>>

Init ==
  /\ session \in Sessions
  /\ pc = [s \in Setup |-> "start"]
  /\ in = [s \in Setup |-> <<>>]
  /\ job = [s \in Setup |-> [state |-> "none", jar |-> s, kept |-> FALSE]]
  /\ tasks = [s \in Setup |-> <<>>]
  /\ tmp = [f \in {} |-> <<>>]
  /\ out = [d \in {} |-> {}]
  /\ clock = 1
  /\ crashed = 0

Next ==
  \E s \in Setup :
    \/ Start(s) \/ genInput(s) \/ copyJar(s) \/ submit(s) \/ cleanup(s) \/ Verify(s)
    \/ Succeed(s) \/ Fail(s)
    \/ \E i \in DOMAIN tasks[s] : Launch(s, i) \/ map(s, i) \/ Crash(s, i)

(* The shells, the cluster and the generators go on.                       *)
Spec == Init /\ [][Next]_vars /\ WF_vars(Next)

-----------------------------------------------------------------------------
(***************************************************************************)
(* Properties.                                                             *)
(***************************************************************************)
Written(kit, scale, t, k) ==
  {r \in out[<<kit, scale>>] : r.table = t /\ r.row = k}

Whole(kit, scale) ==
  \A t \in Tables(kit) : \A k \in 1 .. RowsOf[kit][t] :
    Cardinality(Written(kit, scale, t, k)) = 1

(* The output of a job that succeeded has each row of each table once,     *)
(* however often its tasks were tried and whatever other jobs did to the   *)
(* files in /tmp; and no output ever has a row twice, or of another kit.   *)
WholeOutput ==
  /\ \A s \in Setup : job[s].state = "succeeded" => Whole(Kit(s), Scale(s))
  /\ \A d \in DOMAIN out : \A r \in out[d] :
       /\ r.table \in Tables(d[1]) /\ r.row \in 1 .. RowsOf[d[1]][r.table]
       /\ Cardinality(Written(d[1], d[2], r.table, r.row)) = 1

(* Every setup comes to an end, with data to load or without.              *)
SetupsEnd == <>(\A s \in Setup : Ended(s))
===============================================================================
