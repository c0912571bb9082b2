-------------------------- MODULE UpdateSetsProofs --------------------------
(***************************************************************************)
(* What holds of every directory of update sets: any number of processes,  *)
(* any sets, days, row counts, kills and turns.  The processes' files rest *)
(* on an invariant of who may write to a file and when it may be empty;    *)
(* the rows of a set, on the arithmetic of its days and of the stock: a    *)
(* day by its place in the year, a weekday by that of the year's first.    *)
(***************************************************************************)
EXTENDS UpdateSets, ArithmeticProofs, FiniteSetTheorems, TLAPS

(* The files of a process, by what they hold.                              *)
Written == {Outputs[i] : i \in 1 .. 6}

(* What a set and a process are does not change.                           *)
LEMMA Fixed ==
  ASSUME UNCHANGED <<session, sets>>
  PROVE  /\ Process' = Process
         /\ \A p : /\ update(p)' = update(p)
                   /\ Command(p)' = Command(p)
                   /\ HasRival(p)' = HasRival(p)
         /\ \A p, o : /\ HasRows(p, o)' = HasRows(p, o)
                      /\ Name(p, o)' = Name(p, o)
                      /\ Content(p, o)' = Content(p, o)
<1>1. Process' = Process  BY DEF Process
<1>2. ASSUME NEW p
      PROVE  /\ update(p)' = update(p) /\ Command(p)' = Command(p)
             /\ HasRival(p)' = HasRival(p)
  BY <1>1 DEF update, Command, HasRival, Process
<1>3. ASSUME NEW p, NEW o
      PROVE  /\ HasRows(p, o)' = HasRows(p, o)
             /\ Name(p, o)' = Name(p, o)
             /\ Content(p, o)' = Content(p, o)
  BY DEF HasRows, Rows, get_rowcount, Name, Content, update, Command
<1> QED BY <1>1, <1>2, <1>3

(* The first two outputs are the delete files.                             *)
LEMMA SixOutputs ==
  /\ Len(Outputs) = 6
  /\ \A i, j \in 1 .. 6 : Outputs[i] = Outputs[j] => i = j
  /\ \A i \in 1 .. 6 : Outputs[i] \in Deletes <=> i < 3
  /\ Outputs[1] = "delete" /\ Outputs[2] = "inventory_delete"
  BY DEF Outputs, Deletes

(* A file has one name, and but for the delete files and a rival's, one    *)
(* process that writes to it.                                              *)
LEMMA Owners ==
  ASSUME session \in Sessions,
         NEW p \in Process, NEW q \in Process,
         NEW o \in Written, NEW r \in Written, Name(p, o) = Name(q, r)
  PROVE  /\ o = r
         /\ o \in Deletes => update(p) = update(q)
         /\ o \notin Deletes /\ p # q => HasRival(p)
<1>1. Name(p, o)[1] = o /\ Name(q, r)[1] = r
  BY DEF Name
<1>2. o = r
  BY <1>1
<1>3. o \in Deletes => update(p) = update(q)
  BY <1>2 DEF Name
<1>4. ASSUME o \notin Deletes, p # q PROVE HasRival(p)
  <2>1. CASE Command(p).parallel = Unset
    <3>1. Command(q).parallel = Unset /\ update(p) = update(q)
      BY <1>2, <1>4, <2>1 DEF Name
    <3> QED BY <3>1, <2>1, <1>4, SessionAssumption DEF Process, update, Command
  <2>2. CASE Command(p).parallel # Unset
    <3>1. /\ Command(q).parallel = Command(p).parallel
          /\ Command(q).child = Command(p).child
      BY <1>2, <1>4, <2>2 DEF Name
    <3>2. update(p) # update(q)
      BY <3>1, <1>4, SessionAssumption DEF Process, update, Command
    <3> QED BY <3>1, <3>2, <2>2 DEF HasRival
  <2> QED BY <2>1, <2>2
<1> QED BY <1>2, <1>3, <1>4
-----------------------------------------------------------------------------
(***************************************************************************)
(* The files of a directory.                                               *)
(***************************************************************************)
Typed ==
  /\ session \in Sessions
  /\ output \in [Process -> 1 .. 7]
  /\ step \in [Process -> {"check", "open", "fill", "nooutput", "refused",
                          "done", "killed"}]
  /\ files = [f \in DOMAIN files |-> files[f]]

(* A process has come to a file that it has rows for, or to the end.       *)
Place ==
  \A p \in Process :
    /\ step[p] \in {"open", "fill"} => output[p] <= 6 /\ HasRows(p, Current(p))
    /\ step[p] = "done" => output[p] = 7

(* The file number i of p has been opened, and rows of it may be written.  *)
Opened(p, i) ==
  /\ HasRows(p, Outputs[i])
  /\ i < output[p] \/ (i = output[p] /\ step[p] = "fill")

OpenedExist ==
  \A p \in Process, i \in 1 .. 6 :
    Opened(p, i) => Name(p, Outputs[i]) \in DOMAIN files

(* Without a rival only p itself opens its files of tables.                *)
OwnRows ==
  \A p \in Process, i \in 3 .. 6 :
    Opened(p, i) /\ ~HasRival(p) =>
      files[Name(p, Outputs[i])] =
        IF i < output[p] THEN {Content(p, Outputs[i])} ELSE {}

(* A delete file holds no days but those of its set.                       *)
OwnDays ==
  \A p \in Process : \A o \in Deletes :
    Name(p, o) \in DOMAIN files => files[Name(p, o)] \subseteq {Content(p, o)}

(* While the file of the orders' days is empty, a process of the set has   *)
(* the days in its buffer, or was killed with them.                        *)
Buffering(q) ==
  step[q] = "killed" \/ (Running(q) /\ (output[q] > 1 \/ step[q] = "fill"))

DaysBuffered ==
  \A p \in Process :
    Name(p, "delete") \in DOMAIN files /\ files[Name(p, "delete")] = {} =>
      \E q \in Process : update(q) = update(p) /\ Buffering(q)

(* While that of the inventory's is, a process is about to write them.     *)
Writing(q) == step[q] = "killed" \/ (step[q] = "fill" /\ output[q] = 2)

ThursdaysPending ==
  \A p \in Process :
    Name(p, "inventory_delete") \in DOMAIN files
      /\ files[Name(p, "inventory_delete")] = {} =>
      \E q \in Process : update(q) = update(p) /\ Writing(q)

Delivering ==
  /\ Typed /\ Place /\ OpenedExist /\ OwnRows /\ OwnDays /\ DaysBuffered
  /\ ThursdaysPending

LEMMA InitDelivering == Init => Delivering
<1> SUFFICES ASSUME Init PROVE Delivering
  OBVIOUS
<1>1. Typed /\ Place
  BY DEF Init, Typed, Place
<1>2. DOMAIN files = {}
  BY DEF Init
<1>3. \A p \in Process, i \in 1 .. 6 : ~Opened(p, i)
  BY DEF Init, Opened
<1> QED
  BY <1>1, <1>2, <1>3 DEF Delivering, OpenedExist, OwnRows, OwnDays, DaysBuffered, ThursdaysPending

LEMMA DeliveringGivesSetDelivered == Delivering => SetDelivered
<1> SUFFICES ASSUME Delivering, \A p \in Process : ~Running(p),
                    NEW p \in Process, step[p] = "done",
                    NEW i \in 1 .. 6, HasRows(p, Outputs[i]),
                    Outputs[i] \notin Deletes => ~HasRival(p),
                    Outputs[i] \in Deletes =>
                      ~\E q \in Process : update(q) = update(p) /\ step[q] = "killed"
             PROVE  files[Name(p, Outputs[i])] = {Content(p, Outputs[i])}
  <2>1. Len(Outputs) = 6
    BY SixOutputs
  <2> QED BY <2>1 DEF SetDelivered
<1>1. output[p] = 7 /\ Opened(p, i)
  BY DEF Delivering, Place, Opened
<1>2. Name(p, Outputs[i]) \in DOMAIN files
  BY <1>1 DEF Delivering, OpenedExist
<1>3. CASE i >= 3
  <2>1. Outputs[i] \notin Deletes /\ i \in 3 .. 6
    BY <1>3, SixOutputs
  <2>2. ~HasRival(p)
    BY <2>1
  <2>3. i < output[p]
    BY <1>1
  <2>4. OwnRows
    BY DEF Delivering
  <2> QED BY <1>1, <2>1, <2>2, <2>3, <2>4 DEF OwnRows
<1>4. CASE i < 3
  <2>1. Outputs[i] \in Deletes
    BY <1>4, SixOutputs
  <2>2. files[Name(p, Outputs[i])] \subseteq {Content(p, Outputs[i])}
    BY <2>1, <1>2 DEF Delivering, OwnDays
  <2>3. \A q \in Process : update(q) = update(p) => ~Buffering(q) /\ ~Writing(q)
    BY <2>1 DEF Buffering, Writing, Running
  <2>4. files[Name(p, Outputs[i])] # {}
    BY <2>1, <2>3, <1>2 DEF Delivering, DaysBuffered, ThursdaysPending, Deletes
  <2> QED BY <2>2, <2>4
<1> QED BY <1>3, <1>4

(* A step that writes to no file, and after which every process has as     *)
(* much opened and in its buffer as before.                                *)
LEMMA NoFileTouched ==
  ASSUME Delivering, UNCHANGED <<session, sets, files>>, Typed', Place',
         \A p \in Process, i \in 1 .. 6 :
           Opened(p, i)' => Opened(p, i) /\ ((i < output[p])' <=> i < output[p]),
         \A q \in Process : (Buffering(q) => Buffering(q)') /\ (Writing(q) => Writing(q)')
  PROVE  Delivering'
<1>1. OpenedExist'
  BY Fixed DEF Delivering, OpenedExist
<1>2. OwnRows'
  <2> SUFFICES ASSUME NEW p \in Process, NEW i \in 3 .. 6,
                      (Opened(p, i) /\ ~HasRival(p))'
               PROVE  (files[Name(p, Outputs[i])] =
                         IF i < output[p] THEN {Content(p, Outputs[i])} ELSE {})'
    <3>1. Process' = Process
      BY Fixed
    <3> QED BY <3>1 DEF OwnRows
  <2>1. Opened(p, i) /\ ((i < output[p])' <=> i < output[p]) /\ ~HasRival(p)
    BY Fixed
  <2>2. OwnRows
    BY DEF Delivering
  <2>3. (Name(p, Outputs[i]))' = Name(p, Outputs[i]) /\ (Content(p, Outputs[i]))' = Content(p, Outputs[i])
    BY Fixed DEF Outputs
  <2> QED BY <2>1, <2>2, <2>3 DEF OwnRows
<1>3. OwnDays'
  BY Fixed DEF Delivering, OwnDays
<1>4. DaysBuffered'
  BY Fixed DEF Delivering, DaysBuffered
<1>5. ThursdaysPending'
  BY Fixed DEF Delivering, ThursdaysPending
<1> QED BY <1>1, <1>2, <1>3, <1>4, <1>5 DEF Delivering

LEMMA DeleteNames ==
  ASSUME NEW p, NEW q, NEW o \in Deletes
  PROVE  /\ Name(p, o) = Name(q, o) <=> update(p) = update(q)
         /\ Name(p, o) = Name(q, o) => Content(p, o) = Content(q, o)
         /\ Name(p, "delete") # Name(q, "inventory_delete")
<1>1. Name(p, o) = <<o, update(p)>> /\ Name(q, o) = <<o, update(q)>>
  BY DEF Name
<1>2. Name(p, "delete")[1] = "delete" /\ Name(q, "inventory_delete")[1] = "inventory_delete"
  BY DEF Name
<1> QED BY <1>1, <1>2 DEF Content

(* One file is written to, or none.                                        *)
Touches(n, v) ==
  /\ DOMAIN files' = DOMAIN files
  /\ files' = [f \in DOMAIN files' |-> files'[f]]
  /\ \A f \in DOMAIN files : files'[f] = IF f = n THEN v ELSE files[f]

LEMMA Rewritten ==
  ASSUME Typed, NEW n, NEW v, files' = [files EXCEPT ![n] = v]
  PROVE  Touches(n, v)
<1>1. files' = [f \in DOMAIN files |-> IF f = n THEN v ELSE files[f]]
  BY DEF Typed
<1> QED BY <1>1 DEF Touches

LEMMA FileOfExit ==
  ASSUME Typed, NEW p, NEW how, Exit(p, how)
  PROVE  /\ ~(output[p] > 1 \/ step[p] = "fill") => UNCHANGED files
         /\ output[p] > 1 \/ step[p] = "fill" =>
              Touches(Name(p, "delete"),
                      files[Name(p, "delete")] \cup {Content(p, "delete")})
<1>1. CASE output[p] > 1 \/ step[p] = "fill"
  <2>1. FlushedAtExit(p) = {Content(p, "delete")}
    BY DEF FlushedAtExit, Content, Deletes
  <2>2. files' = [files EXCEPT ![Name(p, "delete")] =
                    files[Name(p, "delete")] \cup {Content(p, "delete")}]
    BY <1>1, <2>1 DEF Exit
  <2> QED BY <1>1, <2>2, Rewritten
<1> QED BY <1>1 DEF Exit

LEMMA FileOfFill ==
  ASSUME Typed, NEW p, Fill(p)
  PROVE  /\ Current(p) = "delete" => UNCHANGED files
         /\ Current(p) # "delete" =>
              Touches(Name(p, Current(p)),
                      files[Name(p, Current(p))] \cup {Content(p, Current(p))})
<1>1. CASE Current(p) # "delete"
  <2>1. files' = [files EXCEPT ![Name(p, Current(p))] =
                    files[Name(p, Current(p))] \cup {Content(p, Current(p))}]
    BY <1>1 DEF Fill
  <2> QED BY <1>1, <2>1, Rewritten
<1> QED BY <1>1 DEF Fill

LEMMA FilesAFunction ==
  ASSUME Typed, Next
  PROVE  files' = [f \in DOMAIN files' |-> files'[f]]
<1>1. ASSUME NEW p, NEW how, Exit(p, how) PROVE files' = [f \in DOMAIN files' |-> files'[f]]
  <2>1. UNCHANGED files \/ Touches(Name(p, "delete"),
                                files[Name(p, "delete")] \cup {Content(p, "delete")})
    BY <1>1, FileOfExit
  <2> QED BY <2>1 DEF Touches, Typed
<1>2. ASSUME NEW p, Fill(p) PROVE files' = [f \in DOMAIN files' |-> files'[f]]
  <2>1. UNCHANGED files \/ Touches(Name(p, Current(p)),
                                files[Name(p, Current(p))] \cup {Content(p, Current(p))})
    BY <1>2, FileOfFill
  <2> QED BY <2>1 DEF Touches, Typed
<1>3. ASSUME NEW p, Open(p) PROVE files' = [f \in DOMAIN files' |-> files'[f]]
  BY <1>3 DEF Open
<1>4. UNCHANGED files => files' = [f \in DOMAIN files' |-> files'[f]]
  BY DEF Typed
<1> QED
  BY <1>1, <1>2, <1>3, <1>4
     DEF Next, PassOver, NoOutput, Check, Return, Kill, AllEnded, vars

LEMMA PlaceKept ==
  ASSUME Delivering, Next
  PROVE  Typed' /\ Place' /\ UNCHANGED <<session, sets>>
<1> USE SixOutputs, Fixed DEF Delivering, Typed, Place
<1> DEFINE Kept == /\ UNCHANGED <<session, sets>>
                   /\ (output \in [Process -> 1 .. 7])'
                   /\ (step \in [Process -> {"check", "open", "fill", "nooutput",
                                            "refused", "done", "killed"}])'
                   /\ Place'
<1>1. ASSUME NEW p \in Process, PassOver(p) PROVE Kept
  BY <1>1 DEF PassOver, Current
<1>2. ASSUME NEW p \in Process, NoOutput(p) PROVE Kept
  BY <1>2 DEF NoOutput, Current, Exit
<1>3. ASSUME NEW p \in Process, Check(p) PROVE Kept
  BY <1>3 DEF Check, Current, Exit
<1>4. ASSUME NEW p \in Process, Open(p) PROVE Kept
  BY <1>4 DEF Open, Current
<1>5. ASSUME NEW p \in Process, Fill(p) PROVE Kept
  BY <1>5 DEF Fill, Current
<1>6. ASSUME NEW p \in Process, Return(p) PROVE Kept
  BY <1>6 DEF Return, Exit, Current
<1>7. ASSUME NEW p \in Process, Kill(p) PROVE Kept
  BY <1>7 DEF Kill, Current
<1>8. ASSUME AllEnded PROVE Kept
  BY <1>8 DEF AllEnded, vars, Current
<1> QED BY <1>1, <1>2, <1>3, <1>4, <1>5, <1>6, <1>7, <1>8, FilesAFunction DEF Next

(* A process exits, and what it has of the days in its buffer is written.  *)
LEMMA ExitDelivers ==
  ASSUME Delivering, Typed', Place', UNCHANGED <<session, sets>>,
         NEW p \in Process, step[p] = "check",
         NEW how \in {"nooutput", "refused", "done"}, Exit(p, how)
  PROVE  Delivering'
<1>1. /\ output' = output /\ step' = [step EXCEPT ![p] = how]
      /\ Typed
  BY DEF Exit, Delivering
<1>2. \A q \in Process, i \in 1 .. 6 :
        Opened(q, i)' => Opened(q, i) /\ ((i < output[q])' <=> i < output[q])
  BY <1>1, Fixed DEF Opened, Outputs, Typed
<1>3. \A q \in Process : Writing(q) => Writing(q)'
  BY <1>1 DEF Writing, Typed
<1>4. \A q \in Process : q # p => (Buffering(q) => Buffering(q)')
  BY <1>1 DEF Buffering, Running, Typed
<1>5. CASE output[p] = 1
  <2>1. UNCHANGED files
    <3>1. ~(output[p] > 1 \/ step[p] = "fill")
      BY <1>5
    <3> QED BY <1>1, <3>1, FileOfExit
  <2>2. ~Buffering(p)
    BY <1>5 DEF Buffering, Running
  <2> QED BY <1>1, <1>2, <1>3, <1>4, <2>1, <2>2, NoFileTouched
<1>6. CASE output[p] > 1
  <2> DEFINE n == Name(p, "delete")
             v == files[n] \cup {Content(p, "delete")}
  <2>1. Touches(n, v)
    BY <1>1, <1>6, FileOfExit
  <2>2. "delete" \in Deletes /\ "delete" \in Written /\ Deletes \subseteq Written
    BY DEF Deletes, Written, Outputs
  <2>3. OpenedExist'
    BY <1>2, <2>1, Fixed DEF Touches, Delivering, OpenedExist
  <2>4. OwnRows'
    <3> SUFFICES ASSUME NEW q \in Process, NEW i \in 3 .. 6,
                        (Opened(q, i) /\ ~HasRival(q))'
                 PROVE  (files[Name(q, Outputs[i])] =
                           IF i < output[q] THEN {Content(q, Outputs[i])} ELSE {})'
      <4>1. Process' = Process
        BY Fixed
      <4> QED BY <4>1 DEF OwnRows
    <3>1. Opened(q, i) /\ ((i < output[q])' <=> i < output[q]) /\ ~HasRival(q)
      BY <1>2, Fixed
    <3>2. Outputs[i] \in Written /\ Outputs[i] # "delete"
      BY DEF Written, Outputs
    <3>3. Name(q, Outputs[i]) # n
      BY <3>2, <2>2, Owners DEF Delivering, Typed
    <3>4. Name(q, Outputs[i]) \in DOMAIN files
      BY <3>1 DEF Delivering, OpenedExist
    <3>5. files'[Name(q, Outputs[i])] = files[Name(q, Outputs[i])]
      BY <3>3, <3>4, <2>1 DEF Touches
    <3>6. /\ (Name(q, Outputs[i]))' = Name(q, Outputs[i])
          /\ (Content(q, Outputs[i]))' = Content(q, Outputs[i])
      BY Fixed DEF Outputs
    <3> QED BY <3>1, <3>5, <3>6 DEF Delivering, OwnRows
  <2>5. OwnDays'
    <3> SUFFICES ASSUME NEW q \in Process, NEW o \in Deletes, Name(q, o) \in DOMAIN files
                 PROVE  files'[Name(q, o)] \subseteq {Content(q, o)}
      BY Fixed, <2>1 DEF OwnDays, Touches
    <3>1. files[Name(q, o)] \subseteq {Content(q, o)}
      BY DEF Delivering, OwnDays
    <3>2. Name(q, o) = n => Content(q, o) = Content(p, "delete")
      BY <2>2, Owners, DeleteNames DEF Delivering, Typed
    <3> QED BY <3>1, <3>2, <2>1 DEF Touches
  <2>6. DaysBuffered'
    <3> SUFFICES ASSUME NEW q \in Process, Name(q, "delete") \in DOMAIN files,
                        files'[Name(q, "delete")] = {}
                 PROVE  \E r \in Process : update(r) = update(q) /\ Buffering(r)'
      BY Fixed, <2>1 DEF DaysBuffered, Touches
    <3>1. Name(q, "delete") # n
      BY <2>1 DEF Touches
    <3>2. update(q) # update(p)
      BY <3>1, <2>2, DeleteNames
    <3>3. files[Name(q, "delete")] = {}
      BY <3>1, <2>1 DEF Touches
    <3> QED BY <3>2, <3>3, <1>4 DEF Delivering, DaysBuffered
  <2>7. ThursdaysPending'
    <3> SUFFICES ASSUME NEW q \in Process, Name(q, "inventory_delete") \in DOMAIN files,
                        files'[Name(q, "inventory_delete")] = {}
                 PROVE  \E r \in Process : update(r) = update(q) /\ Writing(r)'
      BY Fixed, <2>1 DEF ThursdaysPending, Touches
    <3>1. Name(q, "inventory_delete") # n
      BY <2>2, DeleteNames
    <3>2. files[Name(q, "inventory_delete")] = {}
      BY <3>1, <2>1 DEF Touches
    <3> QED BY <3>2, <1>3 DEF Delivering, ThursdaysPending
  <2> QED BY <2>3, <2>4, <2>5, <2>6, <2>7 DEF Delivering
<1> QED BY <1>1, <1>5, <1>6 DEF Typed

(* A process opens a file, which empties it.                               *)
LEMMA OpenDelivers ==
  ASSUME Delivering, Typed', Place', NEW p \in Process, Open(p)
  PROVE  Delivering'
<1> DEFINE n == Name(p, Current(p))
<1>1. /\ Typed /\ output' = output /\ step' = [step EXCEPT ![p] = "fill"]
      /\ step[p] = "open" /\ UNCHANGED <<session, sets>>
      /\ DOMAIN files' = DOMAIN files \cup {n}
      /\ \A f \in DOMAIN files \cup {n} : files'[f] = IF f = n THEN {} ELSE files[f]
  BY DEF Open, Delivering
<1>2. output[p] \in 1 .. 6 /\ Current(p) \in Written
  BY <1>1 DEF Delivering, Typed, Place, Current, Written
<1>3. \A q \in Process, i \in 1 .. 6 :
        Opened(q, i)' => /\ (i < output[q])' <=> i < output[q]
                         /\ Opened(q, i) \/ (q = p /\ i = output[p])
  BY <1>1, Fixed DEF Opened, Outputs, Typed
<1>4. \A q \in Process : /\ Writing(q) => Writing(q)'
                         /\ Buffering(q) => Buffering(q)'
  BY <1>1 DEF Writing, Buffering, Running, Typed
<1>5. "delete" \in Deletes /\ "inventory_delete" \in Deletes /\ Deletes \subseteq Written
  BY DEF Deletes, Written, Outputs
<1>6. OpenedExist'
  BY <1>1, <1>3, Fixed DEF Delivering, OpenedExist, Current, Outputs
<1>7. OwnRows'
  <2> SUFFICES ASSUME NEW q \in Process, NEW i \in 3 .. 6,
                      (Opened(q, i) /\ ~HasRival(q))'
               PROVE  (files[Name(q, Outputs[i])] =
                         IF i < output[q] THEN {Content(q, Outputs[i])} ELSE {})'
    <3>1. Process' = Process
      BY <1>1, Fixed
    <3> QED BY <3>1 DEF OwnRows
  <2>1. ~HasRival(q) /\ ((i < output[q])' <=> i < output[q])
    BY <1>1, <1>3, Fixed
  <2>2. /\ (Name(q, Outputs[i]))' = Name(q, Outputs[i])
        /\ (Content(q, Outputs[i]))' = Content(q, Outputs[i])
    BY <1>1, Fixed DEF Outputs
  <2>3. CASE q = p /\ i = output[p]
    BY <2>1, <2>2, <2>3, <1>1, <1>2 DEF Current
  <2>4. CASE ~(q = p /\ i = output[p])
    <3>1. Opened(q, i)
      BY <2>4, <1>3
    <3>2. Name(q, Outputs[i]) # n
      <4>1. Outputs[i] \in Written /\ Outputs[i] \notin Deletes
        BY DEF Written, Outputs, Deletes
      <4>2. Outputs[i] = Current(p) => i = output[p]
        BY SixOutputs, <1>2 DEF Current
      <4> QED BY <4>1, <4>2, <1>2, <2>1, <2>4, Owners DEF Delivering, Typed
    <3>3. Name(q, Outputs[i]) \in DOMAIN files
      BY <3>1 DEF Delivering, OpenedExist
    <3> QED BY <3>1, <3>2, <3>3, <2>1, <2>2, <1>1 DEF Delivering, OwnRows
  <2> QED BY <2>3, <2>4
<1>8. OwnDays'
  BY <1>1, Fixed DEF Delivering, OwnDays
<1>9. DaysBuffered'
  <2> SUFFICES ASSUME NEW q \in Process, (Name(q, "delete") \in DOMAIN files)',
                      (files[Name(q, "delete")] = {})'
               PROVE  \E r \in Process : update(r) = update(q) /\ Buffering(r)'
    BY <1>1, Fixed DEF DaysBuffered
  <2>1. (Name(q, "delete"))' = Name(q, "delete")
    BY <1>1, Fixed
  <2>2. CASE Name(q, "delete") = n
    <3>1. update(q) = update(p)
      BY <2>2, <1>2, <1>5, Owners DEF Delivering, Typed
    <3>2. Buffering(p)'
      BY <1>1 DEF Buffering, Running, Typed
    <3> QED BY <3>1, <3>2
  <2>3. CASE Name(q, "delete") # n
    BY <2>1, <2>3, <1>1, <1>4 DEF Delivering, DaysBuffered
  <2> QED BY <2>2, <2>3
<1>10. ThursdaysPending'
  <2> SUFFICES ASSUME NEW q \in Process, (Name(q, "inventory_delete") \in DOMAIN files)',
                      (files[Name(q, "inventory_delete")] = {})'
               PROVE  \E r \in Process : update(r) = update(q) /\ Writing(r)'
    BY <1>1, Fixed DEF ThursdaysPending
  <2>1. (Name(q, "inventory_delete"))' = Name(q, "inventory_delete")
    BY <1>1, Fixed
  <2>2. CASE Name(q, "inventory_delete") = n
    <3>1. update(q) = update(p) /\ Current(p) = "inventory_delete"
      BY <2>2, <1>2, <1>5, Owners DEF Delivering, Typed
    <3>2. output[p] = 2
      BY <3>1, <1>2, SixOutputs DEF Current
    <3>3. Writing(p)'
      BY <1>1, <3>2 DEF Writing, Typed
    <3> QED BY <3>1, <3>3
  <2>3. CASE Name(q, "inventory_delete") # n
    BY <2>1, <2>3, <1>1, <1>4 DEF Delivering, ThursdaysPending
  <2> QED BY <2>2, <2>3
<1> QED BY <1>6, <1>7, <1>8, <1>9, <1>10 DEF Delivering

(* A process writes to the file it has open, the days of the orders only   *)
(* into its buffer.                                                        *)
LEMMA FillDelivers ==
  ASSUME Delivering, Typed', Place', NEW p \in Process, Fill(p)
  PROVE  Delivering'
<1> DEFINE n == Name(p, Current(p))
           v == files[n] \cup {Content(p, Current(p))}
<1>1. /\ Typed /\ output' = [output EXCEPT ![p] = output[p] + 1]
      /\ step' = [step EXCEPT ![p] = "check"]
      /\ step[p] = "fill" /\ UNCHANGED <<session, sets>>
  BY DEF Fill, Delivering
<1>2. /\ output[p] \in 1 .. 6 /\ Current(p) \in Written
      /\ Opened(p, output[p])
  BY <1>1 DEF Delivering, Typed, Place, Current, Written, Opened
<1>3. \A q \in Process, i \in 1 .. 6 :
        Opened(q, i)' => Opened(q, i)
                         /\ ((i < output[q])' <=> i < output[q] \/ (q = p /\ i = output[p]))
  BY <1>1, <1>2, Fixed DEF Opened, Outputs, Typed
<1>4. \A q \in Process : Buffering(q) => Buffering(q)'
  BY <1>1 DEF Buffering, Running, Typed
<1>5. "delete" \in Deletes /\ "inventory_delete" \in Deletes /\ Deletes \subseteq Written
  BY DEF Deletes, Written, Outputs
<1>6. /\ Current(p) = "delete" => UNCHANGED files
      /\ Current(p) # "delete" => Touches(n, v)
  BY <1>1, FileOfFill
<1>7. /\ DOMAIN files' = DOMAIN files
      /\ \A f \in DOMAIN files : f # n \/ Current(p) = "delete" => files'[f] = files[f]
      /\ n \in DOMAIN files /\ Current(p) # "delete" => files'[n] = v
  BY <1>6 DEF Touches
<1>8. OpenedExist'
  BY <1>1, <1>3, <1>7, Fixed DEF Delivering, OpenedExist
<1>9. OwnRows'
  <2> SUFFICES ASSUME NEW q \in Process, NEW i \in 3 .. 6,
                      (Opened(q, i) /\ ~HasRival(q))'
               PROVE  (files[Name(q, Outputs[i])] =
                         IF i < output[q] THEN {Content(q, Outputs[i])} ELSE {})'
    <3>1. Process' = Process
      BY <1>1, Fixed
    <3> QED BY <3>1 DEF OwnRows
  <2>1. /\ ~HasRival(q) /\ Opened(q, i)
        /\ (i < output[q])' <=> i < output[q] \/ (q = p /\ i = output[p])
    BY <1>1, <1>3, Fixed
  <2>2. /\ (Name(q, Outputs[i]))' = Name(q, Outputs[i])
        /\ (Content(q, Outputs[i]))' = Content(q, Outputs[i])
    BY <1>1, Fixed DEF Outputs
  <2>3. /\ Name(q, Outputs[i]) \in DOMAIN files
        /\ files[Name(q, Outputs[i])] =
              IF i < output[q] THEN {Content(q, Outputs[i])} ELSE {}
    <3>1. OpenedExist /\ OwnRows
      BY DEF Delivering
    <3>2. Name(q, Outputs[i]) \in DOMAIN files
      BY <2>1, <3>1 DEF OpenedExist
    <3> QED BY <2>1, <3>1, <3>2 DEF OwnRows
  <2>4. CASE q = p /\ i = output[p]
    <3>1. Current(p) # "delete" /\ n = Name(q, Outputs[i]) /\ files[n] = {}
      BY <2>3, <2>4, SixOutputs DEF Current
    <3> QED BY <3>1, <2>1, <2>2, <2>3, <2>4, <1>7 DEF Current
  <2>5. CASE ~(q = p /\ i = output[p])
    <3>1. Name(q, Outputs[i]) # n
      <4>1. Outputs[i] \in Written /\ Outputs[i] \notin Deletes
        BY DEF Written, Outputs, Deletes
      <4>2. Outputs[i] = Current(p) => i = output[p]
        BY SixOutputs, <1>2 DEF Current
      <4> QED BY <4>1, <4>2, <1>2, <2>1, <2>5, Owners DEF Delivering, Typed
    <3> QED BY <3>1, <2>1, <2>2, <2>3, <2>5, <1>7
  <2> QED BY <2>4, <2>5
<1>10. OwnDays'
  <2> SUFFICES ASSUME NEW q \in Process, NEW o \in Deletes, Name(q, o) \in DOMAIN files
               PROVE  files'[Name(q, o)] \subseteq {Content(q, o)}
    BY Fixed, <1>1, <1>7 DEF OwnDays
  <2>1. files[Name(q, o)] \subseteq {Content(q, o)}
    BY DEF Delivering, OwnDays
  <2>2. Name(q, o) = n => Content(q, o) = Content(p, Current(p))
    BY <1>2, <1>5, Owners, DeleteNames DEF Delivering, Typed
  <2> QED BY <2>1, <2>2, <1>7
<1>11. DaysBuffered'
  <2> SUFFICES ASSUME NEW q \in Process, Name(q, "delete") \in DOMAIN files,
                      files'[Name(q, "delete")] = {}
               PROVE  \E r \in Process : update(r) = update(q) /\ Buffering(r)'
    BY Fixed, <1>1, <1>7 DEF DaysBuffered
  <2>1. Name(q, "delete") # n \/ Current(p) = "delete"
    BY <1>2, <1>5, Owners DEF Delivering, Typed
  <2>2. files[Name(q, "delete")] = {}
    BY <2>1, <1>7
  <2> QED BY <2>2, <1>4 DEF Delivering, DaysBuffered
<1>12. ThursdaysPending'
  <2> SUFFICES ASSUME NEW q \in Process, Name(q, "inventory_delete") \in DOMAIN files,
                      files'[Name(q, "inventory_delete")] = {}
               PROVE  \E r \in Process : update(r) = update(q) /\ Writing(r)'
    BY Fixed, <1>1, <1>7 DEF ThursdaysPending
  <2>1. Name(q, "inventory_delete") # n
    <3>1. SUFFICES ASSUME Name(q, "inventory_delete") = n PROVE FALSE
      OBVIOUS
    <3>2. Current(p) = "inventory_delete"
      BY <3>1, <1>2, <1>5, Owners DEF Delivering, Typed
    <3> QED BY <3>1, <3>2, <1>7
  <2>2. files[Name(q, "inventory_delete")] = {}
    BY <2>1, <1>7
  <2>3. PICK r \in Process : update(r) = update(q) /\ Writing(r)
    BY <2>2 DEF Delivering, ThursdaysPending
  <2>4. r # p
    <3>1. SUFFICES ASSUME r = p PROVE FALSE
      OBVIOUS
    <3>2. Current(p) = "inventory_delete"
      BY <1>1, <2>3, <3>1, SixOutputs DEF Writing, Current
    <3>3. n = Name(q, "inventory_delete")
      BY <3>2, <3>1, <2>3, <1>5, DeleteNames
    <3> QED BY <3>3, <2>1
  <2>5. Writing(r)'
    BY <2>3, <2>4, <1>1 DEF Writing, Typed
  <2> QED BY <2>3, <2>5
<1> QED BY <1>8, <1>9, <1>10, <1>11, <1>12 DEF Delivering

LEMMA DeliveringKept == Delivering /\ [Next]_vars => Delivering'
<1>1. ASSUME Delivering, UNCHANGED vars PROVE Delivering'
  <2>1. Typed' /\ Place'
    BY <1>1, Fixed DEF Delivering, Typed, Place, Current, vars
  <2>2. \A p \in Process, i \in 1 .. 6 :
          Opened(p, i)' => Opened(p, i) /\ ((i < output[p])' <=> i < output[p])
    BY <1>1, Fixed DEF Opened, Outputs, vars
  <2>3. \A q \in Process : (Buffering(q) => Buffering(q)') /\ (Writing(q) => Writing(q)')
    BY <1>1 DEF Buffering, Writing, Running, vars
  <2> QED BY <1>1, <2>1, <2>2, <2>3, NoFileTouched DEF vars
<1>2. ASSUME Delivering, Next PROVE Delivering'
  <2>1. Typed' /\ Place' /\ UNCHANGED <<session, sets>> /\ Typed
    BY <1>2, PlaceKept DEF Delivering
  <2>2. ASSUME NEW p \in Process, PassOver(p) PROVE Delivering'
    <3>1. \A q \in Process, i \in 1 .. 6 :
            Opened(q, i)' => Opened(q, i) /\ ((i < output[q])' <=> i < output[q])
      BY <2>1, <2>2, Fixed DEF PassOver, Opened, Outputs, Typed, Current
    <3>2. \A q \in Process : (Buffering(q) => Buffering(q)') /\ (Writing(q) => Writing(q)')
      BY <2>1, <2>2 DEF PassOver, Buffering, Writing, Running, Typed
    <3> QED BY <1>2, <2>1, <2>2, <3>1, <3>2, NoFileTouched DEF PassOver
  <2>3. ASSUME NEW p \in Process, NoOutput(p) PROVE Delivering'
    BY <1>2, <2>1, <2>3, ExitDelivers DEF NoOutput
  <2>4. ASSUME NEW p \in Process, Check(p) PROVE Delivering'
    <3>1. CASE Exists(Name(p, Current(p))) /\ ~Command(p).force
      BY <1>2, <2>1, <2>4, <3>1, ExitDelivers DEF Check
    <3>2. CASE ~(Exists(Name(p, Current(p))) /\ ~Command(p).force)
      <4>1. /\ step[p] = "check" /\ step' = [step EXCEPT ![p] = "open"]
            /\ UNCHANGED <<session, sets, output, files>>
        BY <2>4, <3>2 DEF Check
      <4>2. \A q \in Process, i \in 1 .. 6 :
              Opened(q, i)' => Opened(q, i) /\ ((i < output[q])' <=> i < output[q])
        BY <2>1, <4>1, Fixed DEF Opened, Outputs, Typed
      <4>3. \A q \in Process : (Buffering(q) => Buffering(q)') /\ (Writing(q) => Writing(q)')
        BY <2>1, <4>1 DEF Buffering, Writing, Running, Typed
      <4> QED BY <1>2, <2>1, <4>1, <4>2, <4>3, NoFileTouched
    <3> QED BY <3>1, <3>2
  <2>5. ASSUME NEW p \in Process, Open(p) PROVE Delivering'
    BY <1>2, <2>1, <2>5, OpenDelivers
  <2>6. ASSUME NEW p \in Process, Fill(p) PROVE Delivering'
    BY <1>2, <2>1, <2>6, FillDelivers
  <2>7. ASSUME NEW p \in Process, Return(p) PROVE Delivering'
    BY <1>2, <2>1, <2>7, ExitDelivers DEF Return
  <2>8. ASSUME NEW p \in Process, Kill(p) PROVE Delivering'
    <3>1. \A q \in Process, i \in 1 .. 6 :
            Opened(q, i)' => Opened(q, i) /\ ((i < output[q])' <=> i < output[q])
      BY <2>1, <2>8, Fixed DEF Kill, Opened, Outputs, Typed
    <3>2. \A q \in Process : (Buffering(q) => Buffering(q)') /\ (Writing(q) => Writing(q)')
      BY <2>1, <2>8 DEF Kill, Buffering, Writing, Running, Typed
    <3> QED BY <1>2, <2>1, <2>8, <3>1, <3>2, NoFileTouched DEF Kill
  <2>9. ASSUME AllEnded PROVE Delivering'
    BY <1>1, <1>2, <2>9 DEF AllEnded
  <2> QED BY <1>2, <2>2, <2>3, <2>4, <2>5, <2>6, <2>7, <2>8, <2>9 DEF Next
<1> QED BY <1>1, <1>2

(* What a process that came to its end has built is in its files, and no   *)
(* more, in every order of every number of processes, of any sets, on a    *)
(* directory: but for a table's file that a child of another set writes,   *)
(* and a delete file with which a process of the set was killed.           *)
THEOREM Delivered == Spec => []SetDelivered
<1>1. Spec => []Delivering
  BY InitDelivering, DeliveringKept, PTL DEF Spec
<1> QED BY <1>1, DeliveringGivesSetDelivered, PTL

-----------------------------------------------------------------------------
(***************************************************************************)
(* Days and the entries of the calendar.                                   *)
(***************************************************************************)
DateRecords == [year : Int, month : 1 .. 12, day : Int]

(* Every number of a day is that of a month of twelve.                     *)
LEMMA DateOfDay == ASSUME NEW d \in Int PROVE jtodt(d) \in DateRecords
<1>1. PICK y, m, n : IsDayOf(d, y, m, n)
  BY NumberOfDate, Zenon
<1> QED BY <1>1, SMT DEF IsDayOf, DateRecords, Date

LEMMA DayOfDate == ASSUME NEW dt \in [year : Int, month : Int, day : Int]
                   PROVE  dttoj(dt) \in Int
  BY DEF dttoj

LEMMA MonthsTyped ==
  \A y \in {1, 2}, m \in 1 .. 12 : m_days[y][m] \in Int
  BY DEF m_days

LEMMA EntryTyped == ASSUME NEW d \in Int PROVE Entry(d) \in Int
<1>1. jtodt(d).month \in 1 .. 12 /\ jtodt(d).day \in Int
  BY DateOfDay DEF DateRecords
<1> QED BY <1>1, MonthsTyped DEF Entry, day_number, MonthStart

-----------------------------------------------------------------------------
(***************************************************************************)
(* Days by their place in a year.                                          *)
(***************************************************************************)
(* The years about those that are drawn.                                   *)
NearYear(y) == y \in Int /\ 1997 <= y /\ y <= 2003
DrawnYear(y) == y \in Int /\ 1998 <= y /\ y <= 2002

(* The day before a year begins, and the year's days.                      *)
YearEve(y) == YearNumber(y) + 1721425
YearLength(y) == 365 + OneIfLeap(y)

(* Day s is the p-th of the year.                                          *)
AtPlace(s, y, p) ==
  /\ NearYear(y) /\ p \in Int /\ 1 <= p /\ p <= YearLength(y) /\ s = YearEve(y) + p

LEMMA LeapsAreBoolean ==
  ASSUME NEW y
  PROVE  is_leap(y) \in BOOLEAN /\ LeapYear(y) \in BOOLEAN
  BY Zenon DEF is_leap, LeapYear

LEMMA NearYears ==
  ASSUME NEW y, NearYear(y)
  PROVE  /\ y \in Int /\ OneIfLeap(y) \in 0 .. 1 /\ OneIfLeap(y) \in Int
         /\ YearLength(y) \in 365 .. 366 /\ YearLength(y) = 365 + OneIfLeap(y)
         /\ is_leap(y) = LeapYear(y) /\ (OneIfLeap(y) = 1 <=> is_leap(y))
         /\ YearEve(y) \in Int
<1>1. y \in Int
  BY SMT DEF NearYear
<1>2. is_leap(y) <=> LeapYear(y)
  BY SMT DEF NearYear, is_leap, LeapYear
<1>3. is_leap(y) \in BOOLEAN /\ LeapYear(y) \in BOOLEAN
  BY LeapsAreBoolean, Zenon
<1>4. is_leap(y) = LeapYear(y)
  BY <1>2, <1>3, SMT
<1>5. OneIfLeap(y) \in 0 .. 1 /\ OneIfLeap(y) \in Int /\ (OneIfLeap(y) = 1 <=> LeapYear(y))
  BY SMT DEF OneIfLeap
<1>6. YearLength(y) \in 365 .. 366 /\ YearLength(y) = 365 + OneIfLeap(y)
  BY <1>5, SMT DEF YearLength
<1>7. YearEve(y) \in Int
  BY <1>1, LeapDays, SMT DEF YearEve
<1> QED BY <1>1, <1>2, <1>4, <1>5, <1>6, <1>7, SMT

LEMMA YearsOnEnd ==
  ASSUME NEW y \in Int
  PROVE  YearEve(y + 1) = YearEve(y) + YearLength(y)
<1>1. YearNumber(y) \in Int /\ YearNumber(y + 1) = YearNumber(y) + IF LeapYear(y) THEN 366 ELSE 365
  BY LeapDays, SMT
<1> QED BY <1>1, SMT DEF YearEve, YearLength, OneIfLeap

LEMMA YearsInOrder ==
  ASSUME NEW y \in Int, NEW z \in Int, y <= z
  PROVE  YearEve(y) <= YearEve(z)
<1> DEFINE a == y - 1
           b == z - 1
<1>1. a \in Int /\ b \in Int /\ a <= b
  BY SMT
<1>2. /\ YearEve(y) = 365 * a + a \div 4 - a \div 100 + a \div 400 + 1721425
      /\ YearEve(z) = 365 * b + b \div 4 - b \div 100 + b \div 400 + 1721425
  BY SMT DEF YearEve, YearNumber
<1> HIDE DEF a, b
<1>3. a \div 4 <= b \div 4 /\ a \div 400 <= b \div 400
  BY <1>1, SMT
<1>4. b \div 100 - a \div 100 <= b - a
  BY <1>1, SMT
<1> QED BY <1>1, <1>2, <1>3, <1>4, SMT

(* The entry of the calendar for the days of a month.                      *)
LEMMA EntryOfDate ==
  ASSUME NEW y, NearYear(y), NEW m \in Int, 1 <= m, m <= 12, NEW d \in Int
  PROVE  day_number(Date(y, m, d)) = DaysBefore(y, m) + d
<1>1. is_leap(y) = LeapYear(y)
  BY NearYears, SMT
<1>2. MonthStart(Date(y, m, d)) = m_days[IF LeapYear(y) THEN 2 ELSE 1][m]
  BY <1>1, FieldsOfDate, SMT DEF MonthStart
<1>3. m_days[IF LeapYear(y) THEN 2 ELSE 1][m] = DaysBefore(y, m)
  BY SMT DEF DaysBefore, m_days
<1> QED BY <1>2, <1>3, FieldsOfDate, SMT DEF day_number

LEMMA DateOfPlace ==
  ASSUME NEW s \in Int, NEW y, NEW p, AtPlace(s, y, p)
  PROVE  \E m, d : IsDayOf(s, y, m, d) /\ p = DaysBefore(y, m) + d
<1>1. PICK z, m, d : IsDayOf(s, z, m, d)
  BY NumberOfDate, Zenon
<1>2. /\ z \in Int /\ m \in Int /\ 1 <= m /\ m <= 12 /\ m \in 1 .. 12
      /\ d \in Int /\ 1 <= d /\ d <= MonthDays(z, m)
      /\ dttoj(Date(z, m, d)) = s
  BY <1>1, SMT DEF IsDayOf
<1>3. /\ y \in Int /\ p \in Int /\ 1 <= p /\ p <= YearLength(y) /\ s = YearEve(y) + p
      /\ YearEve(y) \in Int
  BY NearYears, SMT DEF AtPlace
<1>4. s = YearEve(z) + DaysBefore(z, m) + d
  BY <1>2, DateNumbers, SMT DEF YearEve
<1>5. /\ DaysBefore(z, m) \in Int /\ 0 <= DaysBefore(z, m)
      /\ DaysBefore(z, m) + d <= YearLength(z)
  <2>1. /\ DaysBefore(z, m) + MonthDays(z, m) <= 365 + OneIfLeap(z)
        /\ 0 <= DaysBefore(z, m) /\ DaysBefore(z, m) \in Int
        /\ MonthDays(z, m) \in Int
    <3>0. OneIfLeap(z) \in 0 .. 1
      BY SMT DEF OneIfLeap
    <3>1. CASE m <= 2
      BY <1>2, <3>0, <3>1, SMT DEF DaysBefore, m_days, MonthDays, OneIfLeap
    <3>2. CASE 2 < m /\ m <= 7
      BY <1>2, <3>0, <3>2, SMT DEF DaysBefore, m_days, MonthDays, OneIfLeap
    <3>3. CASE 7 < m
      BY <1>2, <3>0, <3>3, SMT DEF DaysBefore, m_days, MonthDays, OneIfLeap
    <3> QED BY <1>2, <3>1, <3>2, <3>3, SMT
  <2> QED BY <1>2, <2>1, SMT DEF YearLength, OneIfLeap
<1>6. YearEve(z) \in Int /\ YearLength(z) \in Int
  <2>1. YearNumber(z) \in Int
    BY <1>2, LeapDays, SMT
  <2> QED BY <2>1, SMT DEF YearEve, YearLength, OneIfLeap
<1>7. ~(z < y)
  <2> SUFFICES ASSUME z < y PROVE FALSE
    OBVIOUS
  <2>1. z + 1 \in Int /\ z + 1 <= y
    BY <1>2, <1>3, SMT
  <2>2. YearEve(z + 1) <= YearEve(y)
    BY <1>3, <2>1, YearsInOrder, SMT
  <2>3. YearEve(z + 1) = YearEve(z) + YearLength(z)
    BY <1>2, YearsOnEnd, SMT
  <2> QED BY <1>2, <1>3, <1>4, <1>5, <1>6, <2>2, <2>3, SMT
<1>8. ~(y < z)
  <2> SUFFICES ASSUME y < z PROVE FALSE
    OBVIOUS
  <2>1. y + 1 \in Int /\ y + 1 <= z
    BY <1>2, <1>3, SMT
  <2>2. YearEve(y + 1) <= YearEve(z)
    BY <1>2, <2>1, YearsInOrder, SMT
  <2>3. YearEve(y + 1) = YearEve(y) + YearLength(y)
    BY <1>3, YearsOnEnd, SMT
  <2>4. YearLength(y) \in Int
    BY SMT DEF YearLength, OneIfLeap
  <2> QED BY <1>2, <1>3, <1>4, <1>5, <1>6, <2>2, <2>3, <2>4, SMT
<1>9. z = y
  BY <1>2, <1>3, <1>7, <1>8, SMT
<1>10. p = DaysBefore(y, m) + d
  BY <1>2, <1>3, <1>4, <1>5, <1>9, SMT
<1> QED BY <1>1, <1>9, <1>10, Zenon

LEMMA FirstDays ==
  /\ m_days[1][1] = 0 /\ m_days[1][2] = 31 /\ m_days[1][3] = 59 /\ m_days[1][4] = 90
  /\ m_days[1][5] = 120 /\ m_days[1][6] = 151 /\ m_days[1][7] = 181
  /\ m_days[1][8] = 212 /\ m_days[1][9] = 243 /\ m_days[1][10] = 273
  /\ m_days[1][11] = 304 /\ m_days[1][12] = 334
  BY SMT DEF m_days

(* What the properties ask of a day, by its place.                         *)
LEMMA MonthsByPlace ==
  ASSUME NEW y \in Int, NEW m \in Int, 1 <= m, m <= 12,
         NEW d \in Int, 1 <= d, d <= MonthDays(y, m), NEW p, p = DaysBefore(y, m) + d
  PROVE  LET l == OneIfLeap(y)
         IN /\ m <= 7 <=> p <= 212 + l
            /\ m <= 10 <=> p <= 304 + l
            /\ m = 2 /\ d = 29 <=> l = 1 /\ p = 60
            /\ m = 7 /\ d = 31 <=> p = 212 + l
            /\ m = 10 /\ d = 31 <=> p = 304 + l
            /\ m = 12 /\ d = 31 <=> p = 365 + l
            /\ m = 1 <=> p <= 31
<1> DEFINE l == OneIfLeap(y)
<1>0. m \in Int /\ d \in Int /\ 1 <= d /\ d <= MonthDays(y, m) /\ p = DaysBefore(y, m) + d
  OBVIOUS
<1>1. l \in 0 .. 1 /\ (l = 1 <=> LeapYear(y))
  BY SMT DEF OneIfLeap
<1>2. DaysBefore(y, m) = m_days[1][m] + (IF m > 2 THEN l ELSE 0)
  BY <1>1, SMT DEF DaysBefore, m_days
<1>3. MonthDays(y, m) = IF m = 2 THEN 28 + l ELSE IF m \in {4, 6, 9, 11} THEN 30 ELSE 31
  BY <1>1, SMT DEF MonthDays
<1>4. CASE m = 1
  BY <1>0, <1>1, <1>2, <1>3, <1>4, FirstDays, SMT
<1>5. CASE m = 2
  BY <1>0, <1>1, <1>2, <1>3, <1>5, FirstDays, SMT
<1>6. CASE m = 3
  BY <1>0, <1>1, <1>2, <1>3, <1>6, FirstDays, SMT
<1>7. CASE m = 4
  BY <1>0, <1>1, <1>2, <1>3, <1>7, FirstDays, SMT
<1>8. CASE m = 5
  BY <1>0, <1>1, <1>2, <1>3, <1>8, FirstDays, SMT
<1>9. CASE m = 6
  BY <1>0, <1>1, <1>2, <1>3, <1>9, FirstDays, SMT
<1>10. CASE m = 7
  BY <1>0, <1>1, <1>2, <1>3, <1>10, FirstDays, SMT
<1>11. CASE m = 8
  BY <1>0, <1>1, <1>2, <1>3, <1>11, FirstDays, SMT
<1>12. CASE m = 9
  BY <1>0, <1>1, <1>2, <1>3, <1>12, FirstDays, SMT
<1>13. CASE m = 10
  BY <1>0, <1>1, <1>2, <1>3, <1>13, FirstDays, SMT
<1>14. CASE m = 11
  BY <1>0, <1>1, <1>2, <1>3, <1>14, FirstDays, SMT
<1>15. CASE m = 12
  BY <1>0, <1>1, <1>2, <1>3, <1>15, FirstDays, SMT
<1>16. m \in 1 .. 12
  BY SMT
<1> QED
  BY <1>16, <1>4, <1>5, <1>6, <1>7, <1>8, <1>9, <1>10, <1>11, <1>12, <1>13, <1>14, <1>15, SMT

LEMMA DayByPlace ==
  ASSUME NEW s \in Int, NEW y, NEW p, AtPlace(s, y, p)
  PROVE  LET l == OneIfLeap(y)
         IN /\ Entry(s) = p
            /\ InZone(s, "low") <=> p <= 212 + l /\ ~(l = 1 /\ p = 60)
            /\ InZone(s, "medium") <=> 212 + l < p /\ p <= 304 + l
            /\ InZone(s, "high") <=> 304 + l < p
            /\ EndsSeasonUnseen(s) <=> p = 365 + l \/ (l = 0 /\ p \in {212, 304})
            /\ jtodt(s).month = 1 <=> p <= 31
<1> DEFINE l == OneIfLeap(y)
<1>0. \E m, d : IsDayOf(s, y, m, d) /\ p = DaysBefore(y, m) + d
  BY DateOfPlace
<1>1. PICK m, d : IsDayOf(s, y, m, d) /\ p = DaysBefore(y, m) + d
  BY <1>0, Zenon
<1>2. NearYear(y) /\ p \in Int
  BY Zenon DEF AtPlace
<1>3. /\ y \in Int /\ m \in Int /\ 1 <= m /\ m <= 12
      /\ d \in Int /\ 1 <= d /\ d <= MonthDays(y, m)
      /\ p = DaysBefore(y, m) + d /\ jtodt(s) = Date(y, m, d)
  BY <1>1, SMT DEF IsDayOf
<1>4. /\ m <= 7 <=> p <= 212 + l
      /\ m <= 10 <=> p <= 304 + l
      /\ m = 2 /\ d = 29 <=> l = 1 /\ p = 60
      /\ m = 7 /\ d = 31 <=> p = 212 + l
      /\ m = 10 /\ d = 31 <=> p = 304 + l
      /\ m = 12 /\ d = 31 <=> p = 365 + l
      /\ m = 1 <=> p <= 31
  BY <1>3, MonthsByPlace, SMT
<1>5. l \in 0 .. 1 /\ (l = 1 <=> is_leap(y))
  BY <1>2, NearYears, SMT
<1>6. Entry(s) = p
  BY <1>2, <1>3, EntryOfDate, SMT DEF Entry
<1>7. jtodt(s).year = y /\ jtodt(s).month = m /\ jtodt(s).day = d
  BY <1>3, FieldsOfDate, SMT
<1> HIDE DEF l
<1>8. /\ InZone(s, "low") <=> p <= 212 + l /\ ~(l = 1 /\ p = 60)
      /\ InZone(s, "medium") <=> 212 + l < p /\ p <= 304 + l
      /\ InZone(s, "high") <=> 304 + l < p
  <2>1. InZone(s, "low") <=> m <= 7 /\ ~(m = 2 /\ d = 29)
    BY <1>3, <1>7, SMT DEF InZone
  <2>2. InZone(s, "medium") <=> 7 < m /\ m <= 10 /\ ~(m = 2 /\ d = 29)
    BY <1>3, <1>7, SMT DEF InZone
  <2>3. InZone(s, "high") <=> 10 < m /\ ~(m = 2 /\ d = 29)
    BY <1>3, <1>7, SMT DEF InZone
  <2> QED BY <1>2, <1>3, <1>4, <1>5, <2>1, <2>2, <2>3, SMT
<1>9. EndsSeasonUnseen(s) <=> p = 365 + l \/ (l = 0 /\ p \in {212, 304})
  BY <1>2, <1>3, <1>4, <1>5, <1>7, SMT DEF EndsSeasonUnseen
<1> QED BY <1>4, <1>6, <1>7, <1>8, <1>9, SMT DEF l

(* The years that are drawn: their days, and their leap year.              *)
LEMMA DrawnYears ==
  ASSUME NEW y, DrawnYear(y)
  PROVE  /\ y \in Int /\ NearYear(y) /\ NearYear(y + 1) /\ NearYear(y - 1)
         /\ (OneIfLeap(y) = 1 <=> y = 2000)
         /\ FirstSnapshot \in Int /\ LastDay \in Int
         /\ YearEve(y) \in Int
         /\ FirstSnapshot <= YearEve(y) + 1
         /\ YearEve(y) + YearLength(y) <= LastDay
<1>1. y \in {1998, 1999, 2000, 2001, 2002}
  BY SMT DEF DrawnYear
<1>2. y \in Int /\ NearYear(y) /\ NearYear(y + 1) /\ NearYear(y - 1)
  BY SMT DEF DrawnYear, NearYear
<1>3. OneIfLeap(y) = 1 <=> y = 2000
  BY <1>1, SMT DEF OneIfLeap, LeapYear
<1>4. /\ YearEve(1998) = 2450814 /\ YearEve(1999) = 2451179 /\ YearEve(2000) = 2451544
      /\ YearEve(2001) = 2451910 /\ YearEve(2002) = 2452275
  BY SMT DEF YearEve, YearNumber
<1>5. FirstSnapshot = 2450815
  BY FieldsOfDate, SMT DEF FirstSnapshot, dttoj
<1>6. LastDay = 2452640
  BY FieldsOfDate, SMT DEF LastDay, dttoj
<1>7. YearLength(y) = 365 + OneIfLeap(y) /\ OneIfLeap(y) \in 0 .. 1
  BY SMT DEF YearLength, OneIfLeap
<1> QED BY <1>1, <1>2, <1>3, <1>4, <1>5, <1>6, <1>7, SMT

(* A day some days off one of a drawn year.                                *)
LEMMA PlacesNear ==
  ASSUME NEW s \in Int, NEW y, NEW p, DrawnYear(y), AtPlace(s, y, p),
         NEW k \in Int, -18 <= k, k <= 18
  PROVE  LET q == p + k
             l == OneIfLeap(y)
         IN /\ 1 <= q /\ q <= 365 + l => AtPlace(s + k, y, q)
            /\ q > 365 + l => AtPlace(s + k, y + 1, q - 365 - l)
            /\ q < 1 => AtPlace(s + k, y - 1, q + 365 + OneIfLeap(y - 1))
<1> DEFINE l == OneIfLeap(y)
           h == OneIfLeap(y - 1)
<1>1. /\ NearYear(y) /\ NearYear(y + 1) /\ NearYear(y - 1) /\ y \in Int
  BY DrawnYears, SMT
<1>2. /\ p \in Int /\ 1 <= p /\ p <= YearLength(y) /\ s = YearEve(y) + p
  BY SMT DEF AtPlace
<1>3. /\ l \in 0 .. 1 /\ YearLength(y) = 365 + l /\ YearEve(y) \in Int
  BY <1>1, NearYears, SMT
<1>4. h \in 0 .. 1 /\ YearLength(y - 1) = 365 + h /\ YearEve(y - 1) \in Int
  BY <1>1, NearYears, SMT
<1>5. YearLength(y + 1) \in 365 .. 366 /\ YearEve(y + 1) \in Int
  BY <1>1, NearYears, SMT
<1>6. YearEve(y + 1) = YearEve(y) + YearLength(y)
  BY <1>1, YearsOnEnd, SMT
<1>7. YearEve(y) = YearEve(y - 1) + YearLength(y - 1)
  <2>1. y - 1 \in Int /\ (y - 1) + 1 = y
    BY <1>1, SMT
  <2>2. YearEve((y - 1) + 1) = YearEve(y - 1) + YearLength(y - 1)
    BY <2>1, YearsOnEnd, SMT
  <2> QED BY <2>1, <2>2, SMT
<1> HIDE DEF l, h
<1>8. 1 <= p + k /\ p + k <= 365 + l => AtPlace(s + k, y, p + k)
  BY <1>1, <1>2, <1>3, SMT DEF AtPlace
<1>9. p + k > 365 + l => AtPlace(s + k, y + 1, p + k - 365 - l)
  BY <1>1, <1>2, <1>3, <1>5, <1>6, SMT DEF AtPlace
<1>10. p + k < 1 => AtPlace(s + k, y - 1, p + k + 365 + h)
  BY <1>1, <1>2, <1>3, <1>4, <1>7, SMT DEF AtPlace
<1> QED BY <1>2, <1>3, <1>4, <1>8, <1>9, <1>10, SMT DEF l, h

(* What the calendar has of such a day.                                    *)

LEMMA DaysNear ==
  ASSUME NEW s \in Int, NEW y, NEW p, DrawnYear(y), AtPlace(s, y, p),
         NEW k \in Int, -18 <= k, k <= 18
  PROVE  LET q == p + k
             l == OneIfLeap(y)
         IN /\ 1 <= q /\ q <= 365 + l => Entry(s + k) = q
            /\ q > 365 + l => Entry(s + k) = q - 365 - l
            /\ q < 1 => Entry(s + k) \in q + 365 .. q + 366
            /\ 1 <= q /\ q <= 212 + l /\ ~(l = 1 /\ q = 60) => InZone(s + k, "low")
            /\ 212 + l < q /\ q <= 304 + l => InZone(s + k, "medium")
            /\ 304 + l < q /\ q <= 365 + l => InZone(s + k, "high")
            /\ q = 365 + l => EndsSeasonUnseen(s + k)
            /\ l = 0 /\ q \in {212, 304} => EndsSeasonUnseen(s + k)
            /\ 31 < q /\ q <= 365 + l => jtodt(s + k).month # 1
<1> DEFINE q == p + k
           l == OneIfLeap(y)
           t == s + k
<1>0. t \in Int /\ q \in Int /\ l \in 0 .. 1
  <2>1. p \in Int
    BY SMT DEF AtPlace
  <2>2. l \in 0 .. 1
    BY SMT DEF OneIfLeap
  <2> QED BY <2>1, <2>2, SMT
<1>1. CASE 1 <= q /\ q <= 365 + l
  <2>1. AtPlace(t, y, q)
    BY <1>1, PlacesNear, SMT
  <2> HIDE DEF t, q
  <2>2. /\ Entry(t) = q
        /\ InZone(t, "low") <=> q <= 212 + l /\ ~(l = 1 /\ q = 60)
        /\ InZone(t, "medium") <=> 212 + l < q /\ q <= 304 + l
        /\ InZone(t, "high") <=> 304 + l < q
        /\ EndsSeasonUnseen(t) <=> q = 365 + l \/ (l = 0 /\ q \in {212, 304})
        /\ jtodt(t).month = 1 <=> q <= 31
    BY <1>0, <2>1, DayByPlace, SMT
  <2> HIDE DEF l
  <2> QED BY <1>0, <1>1, <2>2, SMT DEF t, q, l
<1>2. CASE q > 365 + l
  <2>1. AtPlace(t, y + 1, q - 365 - l)
    BY <1>2, PlacesNear, SMT
  <2>2. Entry(t) = q - 365 - l
    BY <1>0, <2>1, DayByPlace, SMT
  <2> QED BY <1>0, <1>2, <2>2, SMT
<1>3. CASE q < 1
  <2>1. AtPlace(t, y - 1, q + 365 + OneIfLeap(y - 1))
    BY <1>3, PlacesNear, SMT
  <2>2. Entry(t) = q + 365 + OneIfLeap(y - 1)
    BY <1>0, <2>1, DayByPlace, SMT
  <2>3. OneIfLeap(y - 1) \in 0 .. 1
    BY SMT DEF OneIfLeap
  <2> QED BY <1>0, <1>3, <2>2, <2>3, SMT
<1> QED BY <1>0, <1>1, <1>2, <1>3, SMT

-----------------------------------------------------------------------------
(***************************************************************************)
(* Thursdays.                                                              *)
(***************************************************************************)
(* The weekday of a date goes by its place in the year.                    *)
LEMMA WeekdayByPlace ==
  ASSUME NEW y \in Int, NEW m \in Int, 1 <= m, m <= 12, NEW d \in Int,
         is_leap(y) = LeapYear(y)
  PROVE  set_dow(Date(y, m, d)) = (DaysBefore(y, m) + d - 3 - OneIfLeap(y) + doomsday(y)) % 7
<1> DEFINE k == knownDay(Date(y, m, d))
           l == OneIfLeap(y)
           b == DaysBefore(y, m)
           w == doomsday(y)
<1>1. /\ k \in 0 .. 12 /\ set_dow(Date(y, m, d)) = (d - k + w) % 7 /\ w \in 0 .. 6
  BY WeekdayOfDay, WeekdayOfYear, SMT
<1>2. l \in 0 .. 1 /\ (l = 1 <=> LeapYear(y))
  BY SMT DEF OneIfLeap
<1>3. b = m_days[1][m] + (IF m > 2 THEN l ELSE 0)
  BY <1>2, SMT DEF DaysBefore, m_days
<1>4. k = <<3, 0, 0, 4, 9, 6, 11, 8, 5, 10, 7, 12>>[m] + (IF m <= 2 THEN l ELSE 0)
  BY <1>2, FieldsOfDate, SMT DEF knownDay
<1> HIDE DEF k, l, b, w
<1>5. b \in Int /\ (b + k) % 7 = (3 + l) % 7
  <2>1. CASE m = 1 BY <1>2, <1>3, <1>4, <2>1, FirstDays, SMT
  <2>2. CASE m = 2 BY <1>2, <1>3, <1>4, <2>2, FirstDays, SMT
  <2>3. CASE m = 3 BY <1>2, <1>3, <1>4, <2>3, FirstDays, SMT
  <2>4. CASE m = 4 BY <1>2, <1>3, <1>4, <2>4, FirstDays, SMT
  <2>5. CASE m = 5 BY <1>2, <1>3, <1>4, <2>5, FirstDays, SMT
  <2>6. CASE m = 6 BY <1>2, <1>3, <1>4, <2>6, FirstDays, SMT
  <2>7. CASE m = 7 BY <1>2, <1>3, <1>4, <2>7, FirstDays, SMT
  <2>8. CASE m = 8 BY <1>2, <1>3, <1>4, <2>8, FirstDays, SMT
  <2>9. CASE m = 9 BY <1>2, <1>3, <1>4, <2>9, FirstDays, SMT
  <2>10. CASE m = 10 BY <1>2, <1>3, <1>4, <2>10, FirstDays, SMT
  <2>11. CASE m = 11 BY <1>2, <1>3, <1>4, <2>11, FirstDays, SMT
  <2>12. CASE m = 12 BY <1>2, <1>3, <1>4, <2>12, FirstDays, SMT
  <2>13. m \in 1 .. 12
    BY SMT
  <2> QED BY <2>13, <2>1, <2>2, <2>3, <2>4, <2>5, <2>6, <2>7, <2>8, <2>9, <2>10, <2>11, <2>12, SMT
<1>6. (d - k + w) % 7 = (b + d - 3 - l + w) % 7
  BY <1>1, <1>2, <1>5, SMT
<1> QED BY <1>1, <1>6 DEF k, l, b, w

(* Each drawn year begins on the weekday its days since the first Thursday *)
(* the stock was taken give it.                                            *)
LEMMA YearBegins ==
  ASSUME NEW y, DrawnYear(y)
  PROVE  /\ doomsday(y) \in Int /\ OneIfLeap(y) \in 0 .. 1
         /\ (doomsday(y) - 3 - OneIfLeap(y)) % 7 = (YearEve(y) - FirstSnapshot + 4) % 7
<1>1. y \in {1998, 1999, 2000, 2001, 2002}
  BY SMT DEF DrawnYear
<1>2. FirstSnapshot = 2450815
  BY FieldsOfDate, SMT DEF FirstSnapshot, dttoj
<1>3. OneIfLeap(y) = IF y = 2000 THEN 1 ELSE 0
  BY <1>1, SMT DEF OneIfLeap, LeapYear
<1>4. /\ YearEve(1998) = 2450814 /\ YearEve(1999) = 2451179 /\ YearEve(2000) = 2451544
      /\ YearEve(2001) = 2451910 /\ YearEve(2002) = 2452275
  BY SMT DEF YearEve, YearNumber
<1>5. /\ doomsday(1998) = 6 /\ doomsday(1999) = 0 /\ doomsday(2000) = 2
      /\ doomsday(2001) = 3 /\ doomsday(2002) = 4
  BY SMT DEF doomsday
<1> QED BY <1>1, <1>2, <1>3, <1>4, <1>5, SMT

LEMMA WeekdayOfDrawn ==
  ASSUME NEW s \in Int, NEW y, NEW p, DrawnYear(y), AtPlace(s, y, p)
  PROVE  set_dow(jtodt(s)) = (s - FirstSnapshot + 4) % 7
<1>0. \E m, d : IsDayOf(s, y, m, d) /\ p = DaysBefore(y, m) + d
  BY DateOfPlace
<1>1. PICK m, d : IsDayOf(s, y, m, d) /\ p = DaysBefore(y, m) + d
  BY <1>0, Zenon
<1>2. /\ y \in Int /\ m \in Int /\ 1 <= m /\ m <= 12 /\ d \in Int /\ jtodt(s) = Date(y, m, d)
  BY <1>1, Zenon DEF IsDayOf
<1>3. p \in Int /\ s = YearEve(y) + p /\ NearYear(y)
  BY SMT DEF AtPlace
<1>4. is_leap(y) = LeapYear(y)
  BY <1>3, NearYears, SMT
<1> DEFINE l == OneIfLeap(y)
           w == doomsday(y)
           b == DaysBefore(y, m)
           e == YearEve(y)
           f == FirstSnapshot
<1>5. set_dow(jtodt(s)) = (b + d - 3 - l + w) % 7
  BY <1>2, <1>4, WeekdayByPlace, Zenon
<1>6. w \in Int /\ l \in 0 .. 1 /\ (w - 3 - l) % 7 = (e - f + 4) % 7
  BY YearBegins, Zenon
<1>7. e \in Int /\ f \in Int
  BY DrawnYears, SMT
<1>8. b \in Int
  BY <1>2, SMT DEF DaysBefore, m_days
<1> HIDE DEF l, w, b, e, f
<1>9. (b + d - 3 - l + w) % 7 = (s - f + 4) % 7
  <2>1. b + d - 3 - l + w = (w - 3 - l) + p /\ s - f + 4 = (e - f + 4) + p
    BY <1>1, <1>2, <1>3, <1>6, <1>7, <1>8, SMT DEF b, e
  <2> DEFINE g == w - 3 - l
             h == e - f + 4
  <2>2. g \in Int /\ h \in Int /\ g % 7 = h % 7
    <3>1. w - 3 - l \in Int /\ e - f + 4 \in Int
      BY <1>6, <1>7, SMT
    <3> QED BY <1>6, <3>1, SMT
  <2> HIDE DEF g, h
  <2>3. (g + p) % 7 = (h + p) % 7
    BY <1>3, <2>2, SMT
  <2> QED BY <2>1, <2>3, SMT DEF g, h
<1> QED BY <1>5, <1>9, Zenon DEF f

(* Weeks that begin a Thursday.                                            *)
OnThursday(t) == t \in Int /\ (t - FirstSnapshot) % 7 = 0

LEMMA ThursdayOfDrawn ==
  ASSUME NEW s \in Int, NEW y, NEW p, DrawnYear(y), AtPlace(s, y, p)
  PROVE  \E j \in Int : -2 <= j /\ j <= 4 /\ Thursday(s) = s + j /\ OnThursday(s + j)
<1> DEFINE f == FirstSnapshot
           w == set_dow(jtodt(s))
           j == 4 - w
<1>1. w = (s - f + 4) % 7 /\ f \in Int
  BY WeekdayOfDrawn, DrawnYears, SMT
<1> HIDE DEF f, w
<1>2. w \in 0 .. 6 /\ (s + (4 - w) - f) % 7 = 0
  BY <1>1, SMT
<1>3. Thursday(s) = s + 4 - w
  BY DEF Thursday, w
<1>4. /\ j \in Int /\ -2 <= j /\ j <= 4 /\ Thursday(s) = s + j
  BY <1>2, <1>3, SMT
<1>5. OnThursday(s + j)
  BY <1>1, <1>2, SMT DEF OnThursday, f
<1> QED BY <1>4, <1>5

LEMMA ThursdaysOnEnd ==
  ASSUME NEW t, OnThursday(t)
  PROVE  OnThursday(t + 7) /\ OnThursday(t - 7)
<1>1. FirstSnapshot \in Int
  BY FieldsOfDate, NumbersAreInt, SMT DEF FirstSnapshot
<1> QED BY <1>1, SMT DEF OnThursday

(* The leap day is no Thursday.                                            *)
LEMMA NoLeapThursday ==
  ASSUME NEW t, NEW y, DrawnYear(y), AtPlace(t, y, 60), OnThursday(t)
  PROVE  OneIfLeap(y) # 1
<1>1. FirstSnapshot = 2450815 /\ YearEve(2000) = 2451544
  BY FieldsOfDate, SMT DEF FirstSnapshot, dttoj, YearEve, YearNumber
<1>2. OneIfLeap(y) = 1 <=> y = 2000
  BY DrawnYears, SMT
<1> QED BY <1>1, <1>2, SMT DEF AtPlace, OnThursday

-----------------------------------------------------------------------------
(***************************************************************************)
(* The days of a season.                                                   *)
(***************************************************************************)
LEMMA SeasonByEntry ==
  ASSUME NEW i \in Int, i <= 366, NEW beyond
  PROVE  /\ InSeason(i, "low", beyond) <=> i <= 213 /\ i # 60
         /\ InSeason(i, "medium", beyond) <=> 213 < i /\ i <= 305
         /\ InSeason(i, "high", beyond) <=> 305 < i
  BY SMT DEF InSeason, SeasonOf, LeapDay

(* The day drawn is an entry of the calendar, a day of a leap year; in a   *)
(* common year it comes a day earlier, if it is after February.            *)
LEMMA DrawnPlace ==
  ASSUME NEW drawn, drawn.entry \in 1 .. 366, drawn.entry # 60, DrawnYear(drawn.year)
  PROVE  /\ getSkewedJulianDate(drawn) \in Int
         /\ AtPlace(getSkewedJulianDate(drawn), drawn.year,
                    IF drawn.entry < 60 THEN drawn.entry
                    ELSE drawn.entry - 1 + OneIfLeap(drawn.year))
<1> DEFINE e == drawn.entry
           y == drawn.year
           l == OneIfLeap(y)
           s == dttoj(Date(2000, 1, 1)) + e - 1
<1>1. e \in Int /\ 1 <= e /\ e <= 366 /\ e # 60 /\ y \in Int
  BY DrawnYears, SMT
<1>2. s \in Int /\ AtPlace(s, 2000, e)
  <2>1. dttoj(Date(2000, 1, 1)) = YearEve(2000) + 1
    BY FieldsOfDate, SMT DEF dttoj, YearEve, YearNumber
  <2>2. YearEve(2000) = 2451544 /\ YearLength(2000) = 366 /\ NearYear(2000)
    BY SMT DEF YearEve, YearNumber, YearLength, OneIfLeap, LeapYear, NearYear
  <2> HIDE DEF e
  <2> QED BY <1>1, <2>1, <2>2, SMT DEF AtPlace
<1>3. \E m, d : IsDayOf(s, 2000, m, d) /\ e = DaysBefore(2000, m) + d
  BY <1>2, DateOfPlace, SMT
<1>4. PICK m, d : IsDayOf(s, 2000, m, d) /\ e = DaysBefore(2000, m) + d
  BY <1>3, SMT
<1>5. /\ m \in Int /\ 1 <= m /\ m <= 12 /\ d \in Int /\ 1 <= d /\ d <= MonthDays(2000, m)
      /\ jtodt(s) = Date(2000, m, d)
  BY <1>4, SMT DEF IsDayOf
<1>6. getSkewedJulianDate(drawn) = dttoj(Date(y, m, d))
  <2>1. [jtodt(s) EXCEPT !.year = y] = Date(y, m, d)
    BY <1>5, SMT DEF Date
  <2>2. getSkewedJulianDate(drawn) = dttoj([jtodt(s) EXCEPT !.year = y])
    BY DEF getSkewedJulianDate
  <2> QED BY <2>1, <2>2, SMT
<1>7. dttoj(Date(y, m, d)) = YearEve(y) + DaysBefore(y, m) + d
  <2>1. m \in 1 .. 12
    BY <1>5, SMT
  <2> QED BY <1>1, <1>5, <2>1, DateNumbers, SMT DEF YearEve
<1>8. l \in 0 .. 1 /\ NearYear(y) /\ YearLength(y) = 365 + l /\ YearEve(y) \in Int
  BY NearYears, DrawnYears, SMT
<1>9. DaysBefore(2000, m) = m_days[1][m] + (IF m > 2 THEN 1 ELSE 0)
  BY SMT DEF DaysBefore, LeapYear
<1>10. DaysBefore(y, m) = m_days[1][m] + (IF m > 2 THEN l ELSE 0)
  BY SMT DEF DaysBefore, OneIfLeap
<1>11. m > 2 <=> e > 60
  <2>1. LeapYear(2000) /\ OneIfLeap(2000) = 1 /\ 2000 \in Int
    BY SMT DEF LeapYear, OneIfLeap
  <2> HIDE DEF e
  <2>2. CASE m = 1
    BY <1>1, <1>4, <1>5, <1>9, <2>1, <2>2, FirstDays, SMT DEF MonthDays
  <2>3. CASE m = 2
    BY <1>1, <1>4, <1>5, <1>9, <2>1, <2>3, FirstDays, SMT DEF MonthDays
  <2>4. CASE m > 2
    <3>1. m_days[1][m] \in Int /\ 59 <= m_days[1][m]
      BY <1>5, <2>4, SMT DEF m_days
    <3> QED BY <1>1, <1>4, <1>5, <1>9, <2>4, <3>1, SMT
  <2> QED BY <1>1, <1>5, <2>2, <2>3, <2>4, SMT
<1>12. m_days[1][m] \in Int
  BY <1>5, SMT DEF m_days
<1> DEFINE p == IF e < 60 THEN e ELSE e - 1 + l
<1>13. DaysBefore(y, m) + d = p /\ p \in Int /\ 1 <= p /\ p <= 365 + l
  <2> HIDE DEF e, l
  <2> QED BY <1>1, <1>4, <1>5, <1>8, <1>9, <1>10, <1>11, <1>12, SMT
<1>14. dttoj(Date(y, m, d)) = YearEve(y) + p /\ YearEve(y) + p \in Int
  <2> HIDE DEF p
  <2> QED BY <1>5, <1>7, <1>8, <1>10, <1>12, <1>13, SMT
<1> HIDE DEF p
<1>15. AtPlace(getSkewedJulianDate(drawn), y, p) /\ getSkewedJulianDate(drawn) \in Int
  BY <1>6, <1>8, <1>13, <1>14, SMT DEF AtPlace
<1> QED BY <1>15 DEF p

(* The place in its year of a day drawn in a season.                       *)
InBand(season, l, p) ==
  CASE season = "low"    -> 1 <= p /\ p <= 212 + l /\ ~(l = 1 /\ p = 60)
    [] season = "medium" -> 212 + l < p /\ p <= 304 + l
    [] season = "high"   -> 304 + l < p /\ p <= 365 + l

LEMMA DrawnBand ==
  ASSUME NEW drawn, NEW season \in {"low", "medium", "high"},
         drawn.entry \in 1 .. 366, SeasonOf(drawn.entry) = season, DrawnYear(drawn.year)
  PROVE  \E p \in Int : /\ getSkewedJulianDate(drawn) \in Int
                        /\ AtPlace(getSkewedJulianDate(drawn), drawn.year, p)
                        /\ InBand(season, OneIfLeap(drawn.year), p)
<1> DEFINE e == drawn.entry
           y == drawn.year
           l == OneIfLeap(y)
           p == IF e < 60 THEN e ELSE e - 1 + l
<1>1. e \in Int /\ 1 <= e /\ e <= 366 /\ e # 60
  BY SMT DEF SeasonOf, LeapDay
<1>2. getSkewedJulianDate(drawn) \in Int /\ AtPlace(getSkewedJulianDate(drawn), y, p)
  BY <1>1, DrawnPlace, SMT
<1>3. l \in 0 .. 1
  BY SMT DEF OneIfLeap
<1>4. SeasonOf(e) = season
  OBVIOUS
<1> HIDE DEF e, l
<1>5. p \in Int /\ InBand(season, l, p)
  <2>1. CASE season = "low"
    BY <1>1, <1>3, <1>4, <2>1, SMT DEF SeasonOf, LeapDay, InBand
  <2>2. CASE season = "medium"
    BY <1>1, <1>3, <1>4, <2>2, SMT DEF SeasonOf, LeapDay, InBand
  <2>3. CASE season = "high"
    BY <1>1, <1>3, <1>4, <2>3, SMT DEF SeasonOf, LeapDay, InBand
  <2> QED BY <2>1, <2>2, <2>3, SMT
<1> HIDE DEF p
<1> QED BY <1>2, <1>5 DEF l

(* Two days of a season: the second next to the first, in the season, or   *)
(* the day after its last.                                                 *)
PairInZone(s, t, season) ==
  /\ InZone(s, season)
  /\ t - s \in {1, -1}
  /\ InZone(t, season) \/ (t = s + 1 /\ EndsSeasonUnseen(s))

LEMMA PairDrawn ==
  ASSUME NEW s \in Int, NEW y, NEW p, DrawnYear(y), AtPlace(s, y, p),
         NEW season \in {"low", "medium", "high"}, InBand(season, OneIfLeap(y), p),
         NEW beyond \in BOOLEAN
  PROVE  PairInZone(s, SecondDay(s, season, beyond), season)
<1> DEFINE l == OneIfLeap(y)
           t == SecondDay(s, season, beyond)
<1>1. p \in Int /\ l \in 0 .. 1 /\ 1 <= p /\ p <= 365 + l
  <2>1. NearYear(y) /\ p \in Int /\ 1 <= p /\ p <= YearLength(y)
    BY SMT DEF AtPlace
  <2> QED BY <2>1, NearYears, SMT
<1>2. /\ Entry(s) = p
      /\ 1 <= p /\ p <= 212 + l /\ ~(l = 1 /\ p = 60) => InZone(s, "low")
      /\ 212 + l < p /\ p <= 304 + l => InZone(s, "medium")
      /\ 304 + l < p /\ p <= 365 + l => InZone(s, "high")
      /\ p = 365 + l => EndsSeasonUnseen(s)
      /\ l = 0 /\ p \in {212, 304} => EndsSeasonUnseen(s)
  BY DayByPlace, SMT
<1>3. /\ 1 <= p + 1 /\ p + 1 <= 212 + l /\ ~(l = 1 /\ p + 1 = 60) => InZone(s + 1, "low")
      /\ 212 + l < p + 1 /\ p + 1 <= 304 + l => InZone(s + 1, "medium")
      /\ 304 + l < p + 1 /\ p + 1 <= 365 + l => InZone(s + 1, "high")
  <2>1. 1 \in Int /\ -18 <= 1 /\ 1 <= 18
    BY SMT
  <2> QED BY <1>1, <2>1, DaysNear, SMT
<1>4. /\ 1 <= p - 1 /\ p - 1 <= 212 + l /\ ~(l = 1 /\ p - 1 = 60) => InZone(s - 1, "low")
      /\ 212 + l < p - 1 /\ p - 1 <= 304 + l => InZone(s - 1, "medium")
      /\ 304 + l < p - 1 /\ p - 1 <= 365 + l => InZone(s - 1, "high")
  <2> DEFINE k == -1
  <2>1. k \in Int /\ -18 <= k /\ k <= 18 /\ s + k = s - 1 /\ p + k = p - 1
    BY <1>1, SMT
  <2> HIDE DEF k
  <2> QED BY <1>1, <2>1, DaysNear, SMT
<1>5. t = IF InSeason(p + 1, season, beyond) THEN s + 1 ELSE s - 1
  BY <1>2, SMT DEF SecondDay
<1>6. p + 1 > 366 => InSeason(p + 1, season, beyond) = beyond
  BY SMT DEF InSeason
<1>7. p + 1 <= 366 =>
        /\ InSeason(p + 1, "low", beyond) <=> p + 1 <= 213 /\ p + 1 # 60
        /\ InSeason(p + 1, "medium", beyond) <=> 213 < p + 1 /\ p + 1 <= 305
        /\ InSeason(p + 1, "high", beyond) <=> 305 < p + 1
  <2>1. p + 1 \in Int
    BY <1>1, SMT
  <2> QED BY <2>1, SeasonByEntry, SMT
<1>8. InBand(season, l, p)
  OBVIOUS
<1> HIDE DEF l, t
<1>9. CASE season = "low"
  <2>1. 1 <= p /\ p <= 212 + l /\ ~(l = 1 /\ p = 60)
    BY <1>8, <1>9, SMT DEF InBand
  <2> QED BY <1>1, <1>2, <1>3, <1>4, <1>5, <1>7, <1>9, <2>1, SMT DEF PairInZone, t
<1>10. CASE season = "medium"
  <2>1. 212 + l < p /\ p <= 304 + l
    BY <1>8, <1>10, SMT DEF InBand
  <2> QED BY <1>1, <1>2, <1>3, <1>4, <1>5, <1>7, <1>10, <2>1, SMT DEF PairInZone, t
<1>11. CASE season = "high"
  <2>1. 304 + l < p /\ p <= 365 + l
    BY <1>8, <1>11, SMT DEF InBand
  <2> QED BY <1>1, <1>2, <1>3, <1>4, <1>5, <1>6, <1>7, <1>11, <2>1, SMT DEF PairInZone, t
<1> QED BY <1>9, <1>10, <1>11, Zenon

(* A Thursday of a season's part of the calendar: the stock was taken on   *)
(* it, and it is of the season or the day after its last.                  *)
Band(season, q) ==
  CASE season = "low"    -> 1 <= q /\ q <= 213
    [] season = "medium" -> 213 < q /\ q <= 305
    [] season = "high"   -> 305 < q

LEMMA BandsApart ==
  ASSUME NEW q \in Int, NEW a \in {"low", "medium", "high"},
         NEW b \in {"low", "medium", "high"}, a # b, Band(a, q)
  PROVE  ~Band(b, q)
<1>1. Band("low", q) <=> (1 <= q /\ q <= 213)
  BY DEF Band
<1>2. Band("medium", q) <=> (213 < q /\ q <= 305)
  BY DEF Band
<1>3. Band("high", q) <=> (305 < q)
  BY DEF Band
<1>4. (a = "low" \/ a = "medium" \/ a = "high") /\ (b = "low" \/ b = "medium" \/ b = "high")
  OBVIOUS
<1>5. CASE a = "low"
  <2>1. q <= 213
    BY <1>1, <1>5, Zenon
  <2>2. ~Band("medium", q) /\ ~Band("high", q)
    BY <1>2, <1>3, <2>1, SMT
  <2> QED BY <1>4, <1>5, <2>2, Zenon
<1>6. CASE a = "medium"
  <2>1. 213 < q /\ q <= 305
    BY <1>2, <1>6, Zenon
  <2>2. ~Band("low", q) /\ ~Band("high", q)
    BY <1>1, <1>3, <2>1, SMT
  <2> QED BY <1>4, <1>6, <2>2, Zenon
<1>7. CASE a = "high"
  <2>1. 305 < q
    BY <1>3, <1>7, Zenon
  <2>2. ~Band("low", q) /\ ~Band("medium", q)
    BY <1>1, <1>2, <2>1, SMT
  <2> QED BY <1>4, <1>7, <2>2, Zenon
<1> QED BY <1>4, <1>5, <1>6, <1>7, Zenon

GoodThursday(t, season) ==
  /\ OnThursday(t) /\ FirstSnapshot <= t /\ t <= LastDay
  /\ Entry(t) \in Int /\ Band(season, Entry(t))
  /\ InZone(t, season) \/ (EndsSeasonUnseen(t - 1) /\ jtodt(t).month # 1)

LEMMA ThursdayInYear ==
  ASSUME NEW s \in Int, NEW y, NEW p, DrawnYear(y), AtPlace(s, y, p),
         NEW k \in Int, -17 <= k, k <= 18, OnThursday(s + k),
         1 <= p + k, p + k <= 365 + OneIfLeap(y),
         NEW season \in {"low", "medium", "high"}, Band(season, p + k)
  PROVE  GoodThursday(s + k, season)
<1> DEFINE l == OneIfLeap(y)
           q == p + k
           t == s + k
           j == k - 1
<1>1. p \in Int /\ l \in 0 .. 1 /\ s = YearEve(y) + p
  <2>1. NearYear(y) /\ p \in Int /\ s = YearEve(y) + p
    BY SMT DEF AtPlace
  <2> QED BY <2>1, NearYears, SMT
<1>2. /\ q \in Int /\ t \in Int /\ j \in Int /\ -18 <= j /\ j <= 18 /\ -18 <= k
      /\ s + j = t - 1 /\ p + j = q - 1 /\ 1 <= q /\ q <= 365 + l
  BY <1>1, SMT
<1>3. AtPlace(t, y, q)
  BY <1>2, PlacesNear, SMT
<1>4. /\ Entry(t) = q
      /\ 1 <= q /\ q <= 212 + l /\ ~(l = 1 /\ q = 60) => InZone(t, "low")
      /\ 212 + l < q /\ q <= 304 + l => InZone(t, "medium")
      /\ 304 + l < q /\ q <= 365 + l => InZone(t, "high")
      /\ 31 < q /\ q <= 365 + l => jtodt(t).month # 1
  BY <1>2, DaysNear, SMT
<1>5. l = 0 /\ q - 1 \in {212, 304} => EndsSeasonUnseen(t - 1)
  <2> HIDE DEF q, t
  <2>1. l = 0 /\ p + j \in {212, 304} => EndsSeasonUnseen(s + j)
    <3> HIDE DEF j
    <3> QED BY <1>2, DaysNear, SMT
  <2> QED BY <1>2, <2>1, SMT
<1>6. ~(l = 1 /\ q = 60)
  <2> SUFFICES ASSUME l = 1, q = 60 PROVE FALSE
    OBVIOUS
  <2>1. OnThursday(t) /\ AtPlace(t, y, 60)
    BY <1>3, SMT
  <2> QED BY <2>1, NoLeapThursday, SMT
<1>7. FirstSnapshot <= t /\ t <= LastDay
  <2>1. /\ FirstSnapshot \in Int /\ LastDay \in Int /\ YearEve(y) \in Int
        /\ FirstSnapshot <= YearEve(y) + 1 /\ YearEve(y) + YearLength(y) <= LastDay
    BY DrawnYears, SMT
  <2>2. YearLength(y) = 365 + l
    BY SMT DEF YearLength
  <2>3. t = YearEve(y) + q
    BY <1>1, <2>1, SMT
  <2> HIDE DEF t, q, l
  <2> QED BY <1>1, <1>2, <2>1, <2>2, <2>3, SMT
<1>8. OnThursday(t) /\ Band(season, q)
  OBVIOUS
<1> HIDE DEF t, q, l
<1>9. Entry(t) \in Int /\ Band(season, Entry(t))
  BY <1>2, <1>4, <1>8, SMT
<1>10. InZone(t, season) \/ (EndsSeasonUnseen(t - 1) /\ jtodt(t).month # 1)
  <2>1. CASE season = "low"
    <3>1. 1 <= q /\ q <= 213
      BY <1>8, <2>1, SMT DEF Band
    <3> QED BY <1>1, <1>2, <1>4, <1>5, <1>6, <2>1, <3>1, SMT
  <2>2. CASE season = "medium"
    <3>1. 213 < q /\ q <= 305
      BY <1>8, <2>2, SMT DEF Band
    <3> QED BY <1>1, <1>2, <1>4, <1>5, <2>2, <3>1, SMT
  <2>3. CASE season = "high"
    <3>1. 305 < q
      BY <1>8, <2>3, SMT DEF Band
    <3> QED BY <1>1, <1>2, <1>4, <1>5, <2>3, <3>1, SMT
  <2> QED BY <2>1, <2>2, <2>3, Zenon
<1>11. GoodThursday(t, season)
  BY <1>7, <1>8, <1>9, <1>10, Zenon DEF GoodThursday
<1> QED BY <1>11 DEF t

(* Which entries of the calendar near a day are of a season.               *)
LEMMA SeasonsNear ==
  ASSUME NEW s \in Int, NEW y, NEW p, DrawnYear(y), AtPlace(s, y, p),
         NEW k \in Int, -18 <= k, k <= 18, NEW beyond
  PROVE  LET q == p + k
             l == OneIfLeap(y)
             i == Entry(s + k)
         IN /\ 1 <= q /\ q <= 365 + l =>
                 /\ InSeason(i, "low", beyond) <=> q <= 213 /\ q # 60
                 /\ InSeason(i, "medium", beyond) <=> 213 < q /\ q <= 305
                 /\ InSeason(i, "high", beyond) <=> 305 < q
            /\ q > 365 + l =>
                 /\ ~InSeason(i, "medium", beyond) /\ ~InSeason(i, "high", beyond)
            /\ q < 1 =>
                 /\ ~InSeason(i, "low", beyond) /\ ~InSeason(i, "medium", beyond)
<1> DEFINE q == p + k
           l == OneIfLeap(y)
           i == Entry(s + k)
<1>1. q \in Int /\ p \in Int /\ 1 <= p /\ p <= 365 + l /\ l \in 0 .. 1
  <2>1. NearYear(y) /\ p \in Int /\ 1 <= p /\ p <= YearLength(y)
    BY SMT DEF AtPlace
  <2> QED BY <2>1, NearYears, SMT
<1>2. /\ 1 <= q /\ q <= 365 + l => i = q
      /\ q > 365 + l => i = q - 365 - l
      /\ q < 1 => i \in q + 365 .. q + 366
  BY DaysNear, SMT
<1>3. q = p + k
  OBVIOUS
<1> HIDE DEF q, l, i
<1>4. i \in Int /\ i <= 366
  BY <1>1, <1>2, <1>3, SMT
<1>5. /\ InSeason(i, "low", beyond) <=> i <= 213 /\ i # 60
      /\ InSeason(i, "medium", beyond) <=> 213 < i /\ i <= 305
      /\ InSeason(i, "high", beyond) <=> 305 < i
  BY <1>4, SeasonByEntry, SMT
<1> QED BY <1>1, <1>2, <1>3, <1>4, <1>5, SMT DEF q, l, i

(* The place of the first Thursday of a set, whatever the weekday of the   *)
(* day drawn; and of the second.                                           *)
LEMMA FirstThursday ==
  ASSUME NEW s \in Int, NEW y, NEW p, DrawnYear(y), AtPlace(s, y, p),
         NEW season \in {"low", "medium", "high"}, InBand(season, OneIfLeap(y), p),
         NEW beyond
  PROVE  \E k \in Int : /\ -9 <= k /\ k <= 11
                        /\ InventoryDay(s, season, beyond) = s + k /\ OnThursday(s + k)
                        /\ 1 <= p + k /\ p + k <= 365 + OneIfLeap(y)
                        /\ Band(season, p + k)
<1> DEFINE l == OneIfLeap(y)
           In(k) == InSeason(Entry(s + k), season, beyond)
<1>1. PICK j \in Int : -2 <= j /\ j <= 4 /\ Thursday(s) = s + j /\ OnThursday(s + j)
  BY ThursdayOfDrawn, SMT
<1>2. p \in Int /\ 1 <= p /\ p <= 365 + l /\ l \in 0 .. 1
  <2>1. NearYear(y) /\ p \in Int /\ 1 <= p /\ p <= YearLength(y)
    BY SMT DEF AtPlace
  <2> QED BY <2>1, NearYears, SMT
<1> DEFINE a == j - 7
           b == j + 7
           k == IF In(j) THEN j ELSE IF In(a) THEN a ELSE b
<1>3. /\ a \in Int /\ b \in Int /\ a = j - 7 /\ b = j + 7
      /\ s + a = s + j - 7 /\ s + b = s + j + 7
  BY <1>1, SMT
<1>4. InventoryDay(s, season, beyond) = s + k
  <2> HIDE DEF a, b
  <2>1. InventoryDay(s, season, beyond) =
          IF InSeason(Entry(s + j), season, beyond) THEN s + j
          ELSE IF InSeason(Entry(s + j - 7), season, beyond) THEN s + j - 7 ELSE s + j + 7
    BY <1>1, SMT DEF InventoryDay
  <2> QED BY <1>3, <2>1, SMT
<1>5. OnThursday(s + k)
  <2>1. OnThursday(s + j + 7) /\ OnThursday(s + j - 7)
    BY <1>1, ThursdaysOnEnd, SMT
  <2> HIDE DEF a, b
  <2> QED BY <1>1, <1>3, <2>1, SMT
<1>6. InBand(season, l, p)
  OBVIOUS
<1> HIDE DEF a, b
<1>7. ASSUME NEW h \in {j, a}
      PROVE  /\ 1 <= p + h /\ p + h <= 365 + l =>
                  /\ InSeason(Entry(s + h), "low", beyond) <=> p + h <= 213 /\ p + h # 60
                  /\ InSeason(Entry(s + h), "medium", beyond) <=> 213 < p + h /\ p + h <= 305
                  /\ InSeason(Entry(s + h), "high", beyond) <=> 305 < p + h
             /\ p + h > 365 + l => ~InSeason(Entry(s + h), "high", beyond)
             /\ p + h < 1 => ~InSeason(Entry(s + h), "low", beyond)
  <2>1. h \in Int /\ -18 <= h /\ h <= 18
    BY <1>1, <1>3, SMT
  <2> QED BY <2>1, SeasonsNear, SMT
<1> HIDE DEF l
<1>8. k \in Int /\ -9 <= k /\ k <= 11 /\ 1 <= p + k /\ p + k <= 365 + l /\ Band(season, p + k)
  <2>1. CASE season = "low"
    <3>1. 1 <= p /\ p <= 212 + l /\ ~(l = 1 /\ p = 60)
      BY <1>6, <2>1, SMT DEF InBand
    <3> QED BY <1>1, <1>2, <1>3, <1>7, <2>1, <3>1, SMT DEF Band
  <2>2. CASE season = "medium"
    <3>1. 212 + l < p /\ p <= 304 + l
      BY <1>6, <2>2, SMT DEF InBand
    <3> QED BY <1>1, <1>2, <1>3, <1>7, <2>2, <3>1, SMT DEF Band
  <2>3. CASE season = "high"
    <3>1. 304 + l < p /\ p <= 365 + l
      BY <1>6, <2>3, SMT DEF InBand
    <3> QED BY <1>1, <1>2, <1>3, <1>7, <2>3, <3>1, SMT DEF Band
  <2> QED BY <2>1, <2>2, <2>3, Zenon
<1> HIDE DEF k
<1> QED BY <1>4, <1>5, <1>8 DEF l

LEMMA SecondThursday ==
  ASSUME NEW s \in Int, NEW y, NEW p, DrawnYear(y), AtPlace(s, y, p),
         NEW season \in {"low", "medium", "high"}, NEW beyond,
         NEW k \in Int, -9 <= k, k <= 11,
         InventoryDay(s, season, beyond) = s + k, OnThursday(s + k),
         1 <= p + k, p + k <= 365 + OneIfLeap(y), Band(season, p + k)
  PROVE  \E h \in Int : /\ -17 <= h /\ h <= 18 /\ h - k \in {7, -7}
                        /\ SecondInventoryDay(s, season, beyond) = s + h /\ OnThursday(s + h)
                        /\ 1 <= p + h /\ p + h <= 365 + OneIfLeap(y)
                        /\ Band(season, p + h)
<1> DEFINE l == OneIfLeap(y)
           b == k + 7
           next == Entry(s + b) + IF season = "low" THEN 1 ELSE 0
           h == IF InSeason(next, season, beyond) THEN b ELSE k - 7
<1>1. p \in Int /\ 1 <= p /\ p <= 365 + l /\ l \in 0 .. 1
  <2>1. NearYear(y) /\ p \in Int /\ 1 <= p /\ p <= YearLength(y)
    BY SMT DEF AtPlace
  <2> QED BY <2>1, NearYears, SMT
<1>2. b \in Int /\ b = k + 7 /\ s + b = s + k + 7 /\ -18 <= b /\ b <= 18
  BY SMT
<1>3. SecondInventoryDay(s, season, beyond) = s + h
  <2>1. SecondInventoryDay(s, season, beyond) =
          IF InSeason(Entry(s + k + 7) + IF season = "low" THEN 1 ELSE 0, season, beyond)
          THEN s + k + 7 ELSE s + k - 7
    BY SMT DEF SecondInventoryDay
  <2> HIDE DEF b
  <2> QED BY <1>2, <2>1, SMT
<1>4. OnThursday(s + h)
  <2>1. OnThursday(s + k + 7) /\ OnThursday(s + k - 7)
    BY ThursdaysOnEnd, SMT
  <2>2. s + k - 7 = s + (k - 7)
    BY SMT
  <2> HIDE DEF b, next
  <2> QED BY <1>2, <2>1, <2>2, SMT
<1>5. Band(season, p + k)
  OBVIOUS
<1> HIDE DEF b
<1>6. /\ 1 <= p + b /\ p + b <= 365 + l =>
           /\ Entry(s + b) = p + b
           /\ InSeason(Entry(s + b), "medium", beyond) <=> 213 < p + b /\ p + b <= 305
           /\ InSeason(Entry(s + b), "high", beyond) <=> 305 < p + b
      /\ p + b > 365 + l => ~InSeason(Entry(s + b), "high", beyond)
  BY <1>2, DaysNear, SeasonsNear, SMT
<1> HIDE DEF l
<1>7. h \in Int /\ -17 <= h /\ h <= 18 /\ h - k \in {7, -7}
  <2> HIDE DEF next
  <2> QED BY <1>2, SMT
<1>8. 1 <= p + h /\ p + h <= 365 + l /\ Band(season, p + h)
  <2>1. CASE season = "low"
    <3>1. 1 <= p + k /\ p + k <= 213
      BY <1>5, <2>1, SMT DEF Band
    <3>2. next = p + b + 1 /\ p + b + 1 \in Int /\ p + b + 1 <= 366
      BY <1>1, <1>2, <1>6, <2>1, <3>1, SMT
    <3> HIDE DEF next
    <3>3. InSeason(next, "low", beyond) <=> p + b + 1 <= 213 /\ p + b + 1 # 60
      BY <3>2, SeasonByEntry, SMT
    <3> QED BY <1>1, <1>2, <2>1, <3>1, <3>3, SMT DEF Band
  <2>2. CASE season = "medium"
    <3>1. 213 < p + k /\ p + k <= 305
      BY <1>5, <2>2, SMT DEF Band
    <3>2. InSeason(next, season, beyond) <=> InSeason(Entry(s + b), "medium", beyond)
      <4>1. Entry(s + b) = p + b
        BY <1>1, <1>2, <1>6, <3>1, SMT
      <4> QED BY <1>1, <1>2, <2>2, <4>1, SMT
    <3> HIDE DEF next
    <3> QED BY <1>1, <1>2, <1>6, <2>2, <3>1, <3>2, SMT DEF Band
  <2>3. CASE season = "high"
    <3>1. 305 < p + k /\ p + k <= 365 + l
      BY <1>5, <2>3, SMT DEF Band, l
    <3>2. InSeason(next, season, beyond) <=> InSeason(Entry(s + b), "high", beyond)
      <4>1. Entry(s + b) \in Int
        BY <1>2, EntryTyped, SMT
      <4> QED BY <2>3, <4>1, SMT
    <3> HIDE DEF next
    <3> QED BY <1>1, <1>2, <1>6, <2>3, <3>1, <3>2, SMT DEF Band
  <2> QED BY <2>1, <2>2, <2>3, Zenon
<1> HIDE DEF h
<1> QED BY <1>3, <1>4, <1>7, <1>8 DEF l

-----------------------------------------------------------------------------
(***************************************************************************)
(* The days of a set.                                                      *)
(***************************************************************************)
LEMMA DaysDrawn ==
  ASSUME NEW s \in Sessions, NEW u \in DOMAIN s.drawn,
         NEW season \in {"low", "medium", "high"}
  PROVE  LET drawn == s.drawn[u][season]
         IN /\ drawn.entry \in 1 .. 366 /\ SeasonOf(drawn.entry) = season
            /\ drawn.year \in YEAR_MINIMUM .. YEAR_MAXIMUM
<1>1. \A v \in DOMAIN s.drawn, w \in {"low", "medium", "high"} :
        LET drawn == s.drawn[v][w]
        IN /\ drawn.entry \in 1 .. 366 /\ SeasonOf(drawn.entry) = w
           /\ drawn.year \in YEAR_MINIMUM .. YEAR_MAXIMUM
  BY DrawnAssumption, Zenon
<1> QED BY <1>1, Zenon

LEMMA DaysOfSeason ==
  ASSUME NEW s \in Sessions, NEW u \in DOMAIN s.drawn,
         NEW season \in {"low", "medium", "high"}
  PROVE  LET d == getSkewedJulianDate(s.drawn[u][season])
             t == InventoryDay(d, season, s.beyond)
             v == SecondInventoryDay(d, season, s.beyond)
         IN /\ d \in Int
            /\ PairInZone(d, SecondDay(d, season, s.beyond), season)
            /\ GoodThursday(t, season) /\ GoodThursday(v, season) /\ v - t \in {7, -7}
<1> DEFINE drawn == s.drawn[u][season]
           y == drawn.year
           d == getSkewedJulianDate(drawn)
<1>1. /\ drawn.entry \in 1 .. 366 /\ SeasonOf(drawn.entry) = season
      /\ y \in YEAR_MINIMUM .. YEAR_MAXIMUM
  BY DaysDrawn, Zenon
<1>0. s.beyond \in BOOLEAN
  BY DrawnAssumption
<1>2. DrawnYear(y)
  BY <1>1, SMT DEF DrawnYear, YEAR_MINIMUM, YEAR_MAXIMUM
<1> HIDE DEF drawn
<1>3. PICK p \in Int : /\ d \in Int /\ AtPlace(d, y, p)
                       /\ InBand(season, OneIfLeap(y), p)
  BY <1>1, <1>2, DrawnBand, SMT
<1> HIDE DEF d, y
<1>4. PairInZone(d, SecondDay(d, season, s.beyond), season)
  BY <1>0, <1>2, <1>3, PairDrawn, SMT
<1>5. PICK k \in Int : /\ -9 <= k /\ k <= 11
                       /\ InventoryDay(d, season, s.beyond) = d + k /\ OnThursday(d + k)
                       /\ 1 <= p + k /\ p + k <= 365 + OneIfLeap(y)
                       /\ Band(season, p + k)
  BY <1>2, <1>3, FirstThursday, SMT
<1>6. PICK h \in Int : /\ -17 <= h /\ h <= 18 /\ h - k \in {7, -7}
                       /\ SecondInventoryDay(d, season, s.beyond) = d + h /\ OnThursday(d + h)
                       /\ 1 <= p + h /\ p + h <= 365 + OneIfLeap(y)
                       /\ Band(season, p + h)
  BY <1>2, <1>3, <1>5, SecondThursday, SMTT(60)
<1>7. GoodThursday(d + k, season)
  BY <1>2, <1>3, <1>5, ThursdayInYear, SMT
<1>8. GoodThursday(d + h, season)
  BY <1>2, <1>3, <1>6, ThursdayInYear, SMT
<1>9. (d + h) - (d + k) \in {7, -7}
  BY <1>3, <1>6, SMT
<1> QED BY <1>3, <1>4, <1>5, <1>6, <1>7, <1>8, <1>9 DEF d, drawn

LEMMA DaysOfSet ==
  ASSUME NEW s \in Sessions, NEW u \in DOMAIN s.drawn, NEW c \in {1, 3, 5}
  PROVE  LET days      == arUpdateDates(s.drawn[u], s.beyond)
             thursdays == arInventoryUpdateDates(s.drawn[u], s.beyond)
         IN /\ days[c] \in Int
            /\ PairInZone(days[c], days[c + 1], PairOf[c])
            /\ GoodThursday(thursdays[c], PairOf[c])
            /\ GoodThursday(thursdays[c + 1], PairOf[c])
            /\ thursdays[c + 1] - thursdays[c] \in {7, -7}
            /\ PairOf[c + 1] = PairOf[c]
<1> DEFINE days      == arUpdateDates(s.drawn[u], s.beyond)
           thursdays == arInventoryUpdateDates(s.drawn[u], s.beyond)
           season == PairOf[c]
           d == getSkewedJulianDate(s.drawn[u][season])
<1>1. season \in {"low", "medium", "high"} /\ PairOf[c + 1] = season
  BY DEF PairOf
<1>2. days[c] = d /\ days[c + 1] = SecondDay(d, season, s.beyond)
  BY DEF arUpdateDates, PairOf
<1>3. /\ thursdays[c] = InventoryDay(d, season, s.beyond)
      /\ thursdays[c + 1] = SecondInventoryDay(d, season, s.beyond)
  BY DEF arInventoryUpdateDates, PairOf
<1> HIDE DEF days, thursdays, season
<1>4. /\ d \in Int
      /\ PairInZone(d, SecondDay(d, season, s.beyond), season)
      /\ GoodThursday(InventoryDay(d, season, s.beyond), season)
      /\ GoodThursday(SecondInventoryDay(d, season, s.beyond), season)
      /\ SecondInventoryDay(d, season, s.beyond) - InventoryDay(d, season, s.beyond) \in {7, -7}
  BY <1>1, DaysOfSeason
<1> HIDE DEF d
<1> QED BY <1>1, <1>2, <1>3, <1>4 DEF days, thursdays, season

LEMMA ThursdaysOfSet ==
  ASSUME NEW s \in Sessions, NEW u \in DOMAIN s.drawn
  PROVE  LET thursdays == arInventoryUpdateDates(s.drawn[u], s.beyond)
         IN /\ \A i \in 1 .. 6 : GoodThursday(thursdays[i], PairOf[i])
            /\ \A c \in {1, 3, 5} : thursdays[c + 1] - thursdays[c] \in {7, -7}
<1> DEFINE thursdays == arInventoryUpdateDates(s.drawn[u], s.beyond)
<1>1. \A c \in {1, 3, 5} : /\ GoodThursday(thursdays[c], PairOf[c])
                          /\ GoodThursday(thursdays[c + 1], PairOf[c])
                          /\ thursdays[c + 1] - thursdays[c] \in {7, -7}
                          /\ PairOf[c + 1] = PairOf[c]
  BY DaysOfSet, Zenon
<1> HIDE DEF thursdays
<1>2. ASSUME NEW i \in 1 .. 6 PROVE GoodThursday(thursdays[i], PairOf[i])
  <2>1. \E c \in {1, 3, 5} : i = c \/ i = c + 1
    BY SMT
  <2> QED BY <1>1, <2>1, Zenon
<1> QED BY <1>1, <1>2, Zenon DEF thursdays

-----------------------------------------------------------------------------
(***************************************************************************)
(* The rows of a day.                                                      *)
(***************************************************************************)
Drawn(dr) ==
  \A i \in 1 .. 6 : /\ dr[PairOf[i]].entry \in 1 .. 366
                    /\ dr[PairOf[i]].year \in Nat

LEMMA DaysTyped ==
  ASSUME NEW dr, Drawn(dr), NEW beyond, NEW i \in 1 .. 6
  PROVE  arUpdateDates(dr, beyond)[i] \in Int
<1> DEFINE day(k) == getSkewedJulianDate(dr[PairOf[k]])
           date(k) == IF k % 2 = 1 THEN day(k) ELSE SecondDay(day(k), PairOf[k], beyond)
<1>1. ASSUME NEW k \in 1 .. 6 PROVE date(k) \in Int
  <2>1. dttoj(Date(2000, 1, 1)) \in Int
    BY DayOfDate DEF Date
  <2>2. dr[PairOf[k]].entry \in Int /\ dr[PairOf[k]].year \in Int
    <3>1. dr[PairOf[k]].entry \in 1 .. 366 /\ dr[PairOf[k]].year \in Nat
      BY DEF Drawn
    <3> QED BY <3>1
  <2> DEFINE entry == jtodt(dttoj(Date(2000, 1, 1)) + dr[PairOf[k]].entry - 1)
             dt    == [entry EXCEPT !.year = dr[PairOf[k]].year]
  <2>3. day(k) \in Int
    <3>1. dttoj(Date(2000, 1, 1)) + dr[PairOf[k]].entry - 1 \in Int
      BY <2>1, <2>2
    <3>2. entry \in DateRecords
      BY <3>1, DateOfDay
    <3>3. dt \in [year : Int, month : Int, day : Int]
      BY <3>2, <2>2 DEF DateRecords
    <3>4. day(k) = dttoj(dt)
      BY DEF getSkewedJulianDate
    <3> QED BY <3>3, <3>4, DayOfDate
  <2>4. SecondDay(day(k), PairOf[k], beyond) \in Int
    BY <2>3 DEF SecondDay
  <2> QED BY <2>3, <2>4
<1>2. arUpdateDates(dr, beyond) = <<date(1), date(2), date(3), date(4), date(5), date(6)>>
  BY DEF arUpdateDates
<1> HIDE DEF date
<1> QED BY <1>1, <1>2

BaseTables == {"CATALOG_SALES", "INVENTORY", "STORE_SALES", "WEB_SALES"}

LEMMA ItemIDsTyped == ItemIDs \in Nat
<1>1. RowsOf["ITEM"] \in Nat
  BY RowsAssumption
<1> QED BY <1>1 DEF ItemIDs, Keys!IDCount

LEMMA RowsOfDay ==
  ASSUME NEW t \in BaseTables, NEW d \in Int
  PROVE  /\ dateScaling(t, d) \in Int
         /\ dateScaling(t, d) = getRowCountForDate(t, d)
<1>1. CASE t = "INVENTORY"
  <2>1. RowsOf["WAREHOUSE"] * ItemIDs \in Int
    BY RowsAssumption, ItemIDsTyped
  <2> QED BY <1>1, <2>1 DEF dateScaling, getRowCountForDate
<1>2. CASE t # "INVENTORY"
  <2> DEFINE date  == jtodt(d)
             leap  == isLeapYear(date.year)
             total == 5 * SalesTotal(leap)
  <2>1. date \in DateRecords
    BY DateOfDay
  <2>2. is_leap(date.year) = leap
    BY <2>1, SameLeaps, SMT DEF DateRecords
  <2>3. getIndexForDate(date) + 1 = Entry(d)
    <3>1. MonthStart(date) \in Int
      BY <2>1, MonthsTyped DEF DateRecords, MonthStart
    <3>2. getIndexForDate(date) = MonthStart(date) + date.day - 1
      BY <2>2 DEF getIndexForDate, MonthStart
    <3>3. Entry(d) = MonthStart(date) + date.day
      BY DEF Entry, day_number
    <3> QED BY <3>1, <3>2, <3>3, <2>1 DEF DateRecords
  <2>4. getWeightForDayNumber(getIndexForDate(date), leap) = SalesWeight(Entry(d), leap)
    BY <2>3 DEF getWeightForDayNumber
  <2>5. (RowsOf[t] * SalesWeight(Entry(d), leap) + total \div 2) \div total \in Int
    <3>1. RowsOf[t] \in Nat
      BY <1>2, RowsAssumption DEF BaseTables
    <3>2. SalesWeight(Entry(d), leap) \in Nat
      BY DEF SalesWeight
    <3>3. total \in Nat \ {0}
      BY DEF SalesTotal
    <3>4. RowsOf[t] * SalesWeight(Entry(d), leap) \in Nat
      BY <3>1, <3>2
    <3> HIDE DEF total
    <3>5. total \div 2 \in Nat
      BY <3>3
    <3> QED BY <3>3, <3>4, <3>5
  <2>6. dateScaling(t, d) = (RowsOf[t] * SalesWeight(Entry(d), leap) + total \div 2) \div total
    BY <1>2, <2>2 DEF dateScaling
  <2>7. getRowCountForDate(t, d) = (RowsOf[t] * SalesWeight(Entry(d), leap) + total \div 2) \div total
    BY <1>2, <2>4 DEF getRowCountForDate
  <2> QED BY <2>5, <2>6, <2>7
<1> QED BY <1>1, <1>2

(* What a process has worked out stays what the days drawn make it.        *)
WorkedOut ==
  /\ session \in Sessions
  /\ sets = [u \in DOMAIN session.drawn |-> UpdateSet(session.drawn[u], session.beyond)]

LEMMA WorkedOutKept == Spec => []WorkedOut
<1>1. Init => WorkedOut
  BY DEF Init, WorkedOut
<1>2. WorkedOut /\ [Next]_vars => WorkedOut'
  <2> SUFFICES ASSUME WorkedOut, [Next]_vars PROVE UNCHANGED <<session, sets>>
    BY DEF WorkedOut, UpdateSet
  <2> QED
    BY DEF Next, PassOver, NoOutput, Check, Open, Fill, Return, Kill, AllEnded, vars
<1> QED BY <1>1, <1>2, PTL DEF Spec

LEMMA DrawnInTime ==
  ASSUME NEW s \in Sessions, NEW u \in DOMAIN s.drawn PROVE Drawn(s.drawn[u])
<1>1. ASSUME NEW season \in {"low", "medium", "high"}
      PROVE  s.drawn[u][season].entry \in 1 .. 366 /\ s.drawn[u][season].year \in Nat
  <2> DEFINE drawn == s.drawn[u][season]
  <2>1. /\ drawn.entry \in 1 .. 366 /\ SeasonOf(drawn.entry) = season
        /\ drawn.year \in YEAR_MINIMUM .. YEAR_MAXIMUM
    BY DaysDrawn, Zenon
  <2> QED BY <2>1, SMT DEF YEAR_MINIMUM, YEAR_MAXIMUM
<1>2. \A i \in 1 .. 6 : PairOf[i] \in {"low", "medium", "high"}
  BY DEF PairOf
<1> QED BY <1>1, <1>2, Zenon DEF Drawn

LEMMA SetsWorkedOut ==
  ASSUME WorkedOut, NEW p \in Process
  PROVE  /\ update(p) \in DOMAIN session.drawn
         /\ sets[update(p)] = UpdateSet(session.drawn[update(p)], session.beyond)
         /\ Drawn(session.drawn[update(p)])
<1>1. update(p) \in DOMAIN session.drawn
  BY SessionAssumption DEF WorkedOut, Process, update, Command
<1>2. Drawn(session.drawn[update(p)])
  BY <1>1, DrawnInTime DEF WorkedOut
<1> QED BY <1>1, <1>2 DEF WorkedOut

LEMMA SetOfDays ==
  ASSUME NEW dr, NEW beyond
  PROVE  LET set  == UpdateSet(dr, beyond)
             days == arUpdateDates(dr, beyond)
         IN /\ set.arUpdateDates = days
            /\ set.arInventoryUpdateDates = arInventoryUpdateDates(dr, beyond)
            /\ \A t \in DOMAIN Number :
                 set.kDayRowcount[t] = setUpdateScaling(t, days)
  BY DEF UpdateSet

LEMMA DayCounts ==
  ASSUME NEW t \in DOMAIN Number, NEW days, \A i \in 1 .. 6 : days[i] \in Int,
         NEW i \in 1 .. 6
  PROVE  LET upto == setUpdateScaling(t, days)
         IN /\ upto[i] \in Int
            /\ upto[i] - (IF i = 1 THEN 0 ELSE upto[i - 1])
                 = dateScaling(nBaseTable[t], days[i])
<1> DEFINE n(k) == dateScaling(nBaseTable[t], days[k])
<1>1. nBaseTable[t] \in BaseTables
  BY DEF Number, nBaseTable, BaseTables
<1>2. \A k \in 1 .. 6 : n(k) \in Int
  BY <1>1, RowsOfDay
<1>3. setUpdateScaling(t, days) =
        <<n(1), n(1) + n(2), n(1) + n(2) + n(3), n(1) + n(2) + n(3) + n(4),
          n(1) + n(2) + n(3) + n(4) + n(5),
          n(1) + n(2) + n(3) + n(4) + n(5) + n(6)>>
  BY DEF setUpdateScaling
<1> HIDE DEF n
<1>4. /\ setUpdateScaling(t, days)[i] \in Int
      /\ setUpdateScaling(t, days)[i]
           - (IF i = 1 THEN 0 ELSE setUpdateScaling(t, days)[i - 1]) = n(i)
  BY <1>2, <1>3
<1> QED BY <1>4 DEF n

(* Of the days in a set's delete files two in a row are of each season, or *)
(* the second is the first day after one, where setUpdateDates() looks a   *)
(* day too far; and so are the Thursdays of the inventory, which stay in   *)
(* the years of the data: whatever day and year are drawn.                 *)
THEOREM DatesInZone == Spec => []UpdateDatesInZone
<1>1. WorkedOut => UpdateDatesInZone
  <2> SUFFICES ASSUME WorkedOut, NEW u \in DOMAIN sets, NEW i \in 1 .. 6
               PROVE  LET days      == sets[u].arUpdateDates
                          thursdays == sets[u].arInventoryUpdateDates
                      IN /\ \/ InZone(days[i], PairOf[i])
                            \/ /\ i % 2 = 0 /\ days[i] = days[i - 1] + 1
                               /\ EndsSeasonUnseen(days[i - 1])
                         /\ i % 2 = 0 => days[i] - days[i - 1] \in {1, -1}
                         /\ \/ InZone(thursdays[i], PairOf[i])
                            \/ EndsSeasonUnseen(thursdays[i] - 1) /\ jtodt(thursdays[i]).month # 1
                         /\ i % 2 = 0 => thursdays[i] - thursdays[i - 1] \in {7, -7}
    BY Zenon DEF UpdateDatesInZone
  <2> DEFINE days      == arUpdateDates(session.drawn[u], session.beyond)
             thursdays == arInventoryUpdateDates(session.drawn[u], session.beyond)
  <2>1. u \in DOMAIN session.drawn /\ session \in Sessions
    BY DEF WorkedOut
  <2>2. sets[u].arUpdateDates = days /\ sets[u].arInventoryUpdateDates = thursdays
    BY <2>1 DEF WorkedOut, UpdateSet
  <2>3. GoodThursday(thursdays[i], PairOf[i])
    BY <2>1, ThursdaysOfSet, Zenon
  <2>4. \A c \in {1, 3, 5} : /\ PairInZone(days[c], days[c + 1], PairOf[c])
                            /\ thursdays[c + 1] - thursdays[c] \in {7, -7}
                            /\ PairOf[c + 1] = PairOf[c]
    BY <2>1, DaysOfSet, Zenon
  <2> HIDE DEF days, thursdays
  <2>5. CASE i \in {1, 3, 5}
    <3>1. i % 2 # 0
      BY <2>5, SMT
    <3> QED BY <2>2, <2>3, <2>4, <2>5, <3>1, Zenon DEF GoodThursday, PairInZone
  <2>6. CASE i \in {2, 4, 6}
    <3>1. PICK c \in {1, 3, 5} : i = c + 1 /\ i - 1 = c
      BY <2>6, SMT
    <3>2. /\ PairInZone(days[c], days[c + 1], PairOf[c])
          /\ thursdays[c + 1] - thursdays[c] \in {7, -7}
          /\ PairOf[c + 1] = PairOf[c]
      BY <2>4, Zenon
    <3>3. PairInZone(days[i - 1], days[i], PairOf[i])
      BY <3>1, <3>2, SMT
    <3>4. thursdays[i] - thursdays[i - 1] \in {7, -7}
      BY <3>1, <3>2, SMT
    <3>5. i % 2 = 0
      BY <2>6, SMT
    <3> QED BY <2>2, <2>3, <3>3, <3>4, <3>5, Zenon DEF GoodThursday, PairInZone
  <2>7. i \in {1, 3, 5} \/ i \in {2, 4, 6}
    BY SMT
  <2> QED BY <2>5, <2>6, <2>7, Zenon
<1> QED BY <1>1, WorkedOutKept, PTL

(* The Java port counts for each day of a set the rows that dsdgen builds  *)
(* for it, for all numbers of rows of the tables and all days drawn.       *)
THEOREM PortCounts == Spec => []PortCountsSame
<1>1. WorkedOut => PortCountsSame
  <2> SUFFICES ASSUME WorkedOut, NEW p \in Process, NEW t \in DOMAIN Number,
                      NEW i \in 1 .. 6
               PROVE  LET upto == sets[update(p)].kDayRowcount[t]
                      IN upto[i] - (IF i = 1 THEN 0 ELSE upto[i - 1])
                           = getRowCountForDate(nBaseTable[t], sets[update(p)].arUpdateDates[i])
    BY DEF PortCountsSame
  <2> DEFINE days == arUpdateDates(session.drawn[update(p)], session.beyond)
  <2>1. /\ sets[update(p)].arUpdateDates = days
        /\ sets[update(p)].kDayRowcount[t] = setUpdateScaling(t, days)
    BY SetsWorkedOut, SetOfDays
  <2>2. \A k \in 1 .. 6 : days[k] \in Int
    BY SetsWorkedOut, DaysTyped
  <2>3. nBaseTable[t] \in BaseTables
    BY DEF Number, nBaseTable, BaseTables
  <2> HIDE DEF days
  <2>4. dateScaling(nBaseTable[t], days[i]) = getRowCountForDate(nBaseTable[t], days[i])
    BY <2>2, <2>3, RowsOfDay
  <2> QED BY <2>1, <2>2, <2>4, DayCounts
<1> QED BY <1>1, WorkedOutKept, PTL

-----------------------------------------------------------------------------
(***************************************************************************)
(* The inventory of a set.                                                 *)
(***************************************************************************)
LEMMA DivMod ==
  ASSUME NEW b \in Nat \ {0}, NEW q \in Int, NEW r \in 0 .. b - 1
  PROVE  /\ (q * b + r) \div b = q
         /\ (q * b + r) % b = r
<1> DEFINE a == q * b + r
           d == a \div b
           m == a % b
<1>1. a \in Int /\ d \in Int /\ m \in 0 .. b - 1 /\ a = b * d + m
  OBVIOUS
<1> HIDE DEF d, m
<1>2. (q - d) * b = m - r
  BY <1>1
<1>3. q = d
  <2>1. CASE q > d
    <3>1. (q - d) * b >= b
      BY <2>1, <1>1
    <3> QED BY <3>1, <1>1, <1>2
  <2>2. CASE q < d
    <3>1. (d - q) * b >= b
      BY <2>2, <1>1
    <3>2. (d - q) * b = r - m
      BY <1>1, <1>2
    <3> QED BY <3>1, <3>2, <1>1
  <2> QED BY <2>1, <2>2, <1>1
<1>4. m = r
  BY <1>1, <1>2, <1>3
<1> QED BY <1>3, <1>4 DEF d, m

LEMMA Divided ==
  ASSUME NEW a \in Nat, NEW b \in Nat \ {0}
  PROVE  /\ a \div b \in Nat /\ a % b \in 0 .. b - 1
         /\ a = (a \div b) * b + (a % b)
<1> DEFINE d == a \div b
           m == a % b
<1>1. d \in Nat /\ m \in 0 .. b - 1
  OBVIOUS
<1>2. a = b * d + m
  OBVIOUS
<1> HIDE DEF d, m
<1>3. b * d = d * b
  BY <1>1
<1>4. a = d * b + m
  BY <1>1, <1>2, <1>3
<1> QED BY <1>1, <1>4, Zenon DEF d, m

Stock == ItemIDs * RowsOf["WAREHOUSE"]

HasStock == ItemIDs \in Nat \ {0} /\ RowsOf["WAREHOUSE"] \in Nat \ {0}

LEMMA StockTyped == HasStock => Stock \in Nat \ {0}
  BY DEF HasStock, Stock

(* A row of the stock by its place in it, on a day.                        *)
StockRow(r, date) ==
  [item |-> Keys!FirstSK((r % ItemIDs) + 1), warehouse |-> (r \div ItemIDs) + 1,
   date |-> date]

(* The item and the warehouse by the number of a row, of the set or of the *)
(* table, and its day.                                                     *)
NumberedRow(k, date) ==
  [item |-> Keys!FirstSK((k % ItemIDs) + 1),
   warehouse |-> ((k \div ItemIDs) % RowsOf["WAREHOUSE"]) + 1, date |-> date]
DayOfRow(k) == k \div Stock

(* They go by the place of the row among those of its day alone.           *)
LEMMA PlaceInStock ==
  ASSUME HasStock, NEW day \in Nat, NEW r \in 0 .. Stock - 1, NEW date
  PROVE  /\ NumberedRow(day * Stock + r, date) = StockRow(r, date)
         /\ DayOfRow(day * Stock + r) = day
         /\ day * Stock + r \in Nat
<1> DEFINE I == ItemIDs
           W == RowsOf["WAREHOUSE"]
           q == r \div I
           m == r % I
           k == day * Stock + r
<1>1. I \in Nat \ {0} /\ W \in Nat \ {0} /\ Stock = I * W /\ Stock \in Nat \ {0}
  BY StockTyped DEF HasStock, Stock
<1> HIDE DEF I, W
<1>2. r \in Nat /\ r < I * W
  BY <1>1
<1>3. q \in Nat /\ m \in 0 .. I - 1 /\ r = q * I + m
  BY <1>1, <1>2, Divided
<1> HIDE DEF q, m
<1>4. q \in 0 .. W - 1
  <2>1. SUFFICES ASSUME q >= W PROVE FALSE
    BY <1>1, <1>3
  <2>2. q * I >= W * I
    BY <1>1, <1>3, <2>1
  <2>3. W * I = I * W
    BY <1>1
  <2> QED BY <2>2, <2>3, <1>1, <1>2, <1>3
<1>5. k = (day * W + q) * I + m
  <2>1. day * (I * W) = (day * W) * I
    BY <1>1
  <2>2. (day * W + q) * I = (day * W) * I + q * I
    BY <1>1, <1>3
  <2> QED BY <2>1, <2>2, <1>1, <1>3
<1>6. k \div I = day * W + q /\ k % I = m
  <2>1. day * W + q \in Int
    BY <1>1, <1>3
  <2> QED BY <2>1, <1>1, <1>3, <1>5, DivMod
<1>7. (day * W + q) % W = q
  BY <1>1, <1>4, DivMod
<1>8. k \div Stock = day /\ k \in Nat
  BY <1>1, DivMod
<1> HIDE DEF k
<1>9. NumberedRow(k, date) = [item |-> Keys!FirstSK(m + 1), warehouse |-> q + 1, date |-> date]
  <2>1. NumberedRow(k, date) =
          [item |-> Keys!FirstSK((k % I) + 1), warehouse |-> ((k \div I) % W) + 1,
           date |-> date]
    BY DEF NumberedRow, I, W
  <2> QED BY <2>1, <1>6, <1>7
<1>10. StockRow(r, date) = [item |-> Keys!FirstSK(m + 1), warehouse |-> q + 1, date |-> date]
  BY DEF StockRow, m, q, I
<1> QED BY <1>8, <1>9, <1>10 DEF k, DayOfRow

(* Different ids have different first rows.                                *)
LEMMA FirstSKs ==
  ASSUME NEW a \in Nat, NEW b \in Nat, Keys!FirstSK(a) = Keys!FirstSK(b)
  PROVE  a = b
  BY DEF Keys!FirstSK

LEMMA StockRowsDiffer ==
  ASSUME HasStock, NEW r \in 0 .. Stock - 1, NEW s \in 0 .. Stock - 1,
         NEW c, NEW d, StockRow(r, c) = StockRow(s, d)
  PROVE  r = s /\ c = d
<1> DEFINE qr == r \div ItemIDs  mr == r % ItemIDs
           qs == s \div ItemIDs  ms == s % ItemIDs
<1>1. /\ Keys!FirstSK(mr + 1) = Keys!FirstSK(ms + 1)
      /\ qr + 1 = qs + 1
      /\ c = d
  BY DEF StockRow
<1>2. r \in Nat /\ s \in Nat /\ ItemIDs \in Nat \ {0}
  BY StockTyped DEF HasStock
<1>3. /\ qr \in Nat /\ mr \in 0 .. ItemIDs - 1 /\ r = qr * ItemIDs + mr
      /\ qs \in Nat /\ ms \in 0 .. ItemIDs - 1 /\ s = qs * ItemIDs + ms
  BY <1>2, Divided
<1> HIDE DEF qr, mr, qs, ms
<1>4. mr + 1 \in Nat /\ ms + 1 \in Nat
  BY <1>2, <1>3
<1>5. mr + 1 = ms + 1
  BY <1>1, <1>4, FirstSKs
<1>6. mr = ms /\ qr = qs
  BY <1>1, <1>2, <1>3, <1>5
<1> QED BY <1>1, <1>3, <1>6

LEMMA PlaceOfRow ==
  ASSUME HasStock, NEW m \in Nat, NEW k \in 1 .. m * Stock
  PROVE  \E day \in 0 .. m - 1, r \in 0 .. Stock - 1 : k = day * Stock + r + 1
<1> DEFINE day == (k - 1) \div Stock
           r   == (k - 1) % Stock
<1>1. Stock \in Nat \ {0} /\ k - 1 \in Nat /\ k - 1 < m * Stock
  BY StockTyped
<1>2. day \in Int /\ r \in 0 .. Stock - 1 /\ k - 1 = day * Stock + r
  BY <1>1, Divided
<1> HIDE DEF day, r
<1>3. day >= 0
  <2>1. SUFFICES ASSUME day <= -1 PROVE FALSE
    BY <1>2
  <2>2. day * Stock <= -Stock
    BY <1>1, <1>2, <2>1
  <2> QED BY <2>2, <1>1, <1>2
<1>4. day < m
  <2>1. SUFFICES ASSUME day >= m PROVE FALSE
    BY <1>2
  <2>2. day * Stock >= m * Stock
    BY <1>1, <1>2, <2>1
  <2> QED BY <2>2, <1>1, <1>2
<1>5. k = day * Stock + r + 1
  BY <1>1, <1>2
<1> QED BY <1>2, <1>3, <1>4, <1>5

LEMMA PlaceOfSetRow ==
  ASSUME HasStock, NEW k \in 1 .. 6 * Stock
  PROVE  \E day \in 0 .. 5, r \in 0 .. Stock - 1 : k = day * Stock + r + 1
<1>1. \E day \in 0 .. 6 - 1, r \in 0 .. Stock - 1 : k = day * Stock + r + 1
  BY PlaceOfRow
<1>2. 6 - 1 = 5
  OBVIOUS
<1> QED BY <1>1, <1>2

LEMMA RowOfPlace ==
  ASSUME HasStock, NEW m \in Nat, NEW day \in 0 .. m - 1, NEW r \in 0 .. Stock - 1
  PROVE  day * Stock + r + 1 \in 1 .. m * Stock
<1>1. Stock \in Nat \ {0} /\ day \in Nat
  BY StockTyped
<1>2. (day + 1) * Stock <= m * Stock
  BY <1>1
<1>3. (day + 1) * Stock = day * Stock + Stock /\ day * Stock \in Nat
  BY <1>1
<1> QED BY <1>1, <1>2, <1>3

LEMMA BaseRowNumbered ==
  ASSUME NEW k \in Nat
  PROVE  BaseRow(k + 1) = NumberedRow(k, FirstSnapshot + 7 * DayOfRow(k))
<1>1. \A j : BaseRow(j) = NumberedRow(j - 1, FirstSnapshot + 7 * DayOfRow(j - 1))
  BY Zenon DEF BaseRow, NumberedRow, DayOfRow, Stock
<1>2. k + 1 - 1 = k
  OBVIOUS
<1> QED BY <1>1, <1>2

LEMMA InventoryRowNumbered ==
  ASSUME NEW u, NEW k \in Nat
  PROVE  InventoryRow(u, k + 1) = NumberedRow(k, getUpdateDate(u, "S_INVENTORY", k + 1))
<1>1. \A j : InventoryRow(u, j) = NumberedRow(j - 1, getUpdateDate(u, "S_INVENTORY", j))
  BY Zenon DEF InventoryRow, NumberedRow
<1>2. k + 1 - 1 = k
  OBVIOUS
<1> QED BY <1>1, <1>2

LEMMA BaseRowOf ==
  ASSUME HasStock, NEW w \in Nat, NEW r \in 0 .. Stock - 1
  PROVE  BaseRow(w * Stock + r + 1) = StockRow(r, FirstSnapshot + 7 * w)
<1> DEFINE k == w * Stock + r
<1>1. /\ \A date : NumberedRow(k, date) = StockRow(r, date)
      /\ DayOfRow(k) = w /\ k \in Nat
  BY PlaceInStock
<1> HIDE DEF k
<1>2. BaseRow(k + 1) = NumberedRow(k, FirstSnapshot + 7 * DayOfRow(k))
  BY <1>1, BaseRowNumbered
<1> QED BY <1>1, <1>2 DEF k

(* The days of a set: its stock is the same on each of the six.            *)
StockOnEachDay(u) ==
  \A i \in 1 .. 6 : sets[u].kDayRowcount["S_INVENTORY"][i] = i * Stock

LEMMA DayOfInventory ==
  ASSUME HasStock, NEW u, StockOnEachDay(u), NEW i \in 1 .. 6, NEW r \in 0 .. Stock - 1
  PROVE  UpdateDay(u, "S_INVENTORY", (i - 1) * Stock + r + 1) = i
<1> DEFINE k == (i - 1) * Stock + r + 1
           upto == sets[u].kDayRowcount["S_INVENTORY"]
           Fits(j) == /\ j = 6 \/ k <= upto[j]
                      /\ \A h \in 1 .. j - 1 : k > upto[h]
<1>1. Stock \in Nat \ {0} /\ \A j \in 1 .. 6 : upto[j] = j * Stock
  BY StockTyped DEF StockOnEachDay
<1>2. /\ (i - 1) * Stock \in Nat /\ i * Stock = (i - 1) * Stock + Stock
      /\ r \in Nat /\ r < Stock
  BY <1>1
<1>3. k \in Nat /\ (i - 1) * Stock < k /\ k <= i * Stock
  BY <1>1, <1>2
<1> HIDE DEF k
<1>4. \A j \in 1 .. 6 : /\ j < i => upto[j] <= (i - 1) * Stock
                        /\ j >= i => upto[j] >= i * Stock
                        /\ upto[j] \in Nat
  BY <1>1
<1> DEFINE low == (i - 1) * Stock
           high == i * Stock
<1> HIDE DEF upto, low, high
<1>5. /\ low \in Nat /\ high \in Nat /\ low < k /\ k <= high
      /\ \A j \in 1 .. 6 : /\ j < i => upto[j] <= low
                           /\ j >= i => upto[j] >= high
                           /\ upto[j] \in Nat
  BY <1>1, <1>2, <1>3, <1>4 DEF low, high
<1>6. Fits(i)
  BY <1>3, <1>5
<1>7. \A j \in 1 .. 6 : Fits(j) => j = i
  BY <1>3, <1>5
<1>8. UpdateDay(u, "S_INVENTORY", k) = CHOOSE j \in 1 .. 6 : Fits(j)
  BY DEF UpdateDay, upto
<1> HIDE DEF Fits
<1> QED BY <1>6, <1>7, <1>8 DEF k

LEMMA InventoryRowOf ==
  ASSUME HasStock, NEW u, StockOnEachDay(u), NEW i \in 1 .. 6, NEW r \in 0 .. Stock - 1
  PROVE  InventoryRow(u, (i - 1) * Stock + r + 1)
           = StockRow(r, sets[u].arInventoryUpdateDates[i])
<1> DEFINE k == (i - 1) * Stock + r
<1>1. /\ \A date : NumberedRow(k, date) = StockRow(r, date)
      /\ k \in Nat
  BY PlaceInStock
<1>2. getUpdateDate(u, "S_INVENTORY", k + 1) = sets[u].arInventoryUpdateDates[i]
  BY DayOfInventory DEF getUpdateDate
<1> HIDE DEF k
<1>3. InventoryRow(u, k + 1) = NumberedRow(k, getUpdateDate(u, "S_INVENTORY", k + 1))
  BY <1>1, InventoryRowNumbered
<1> QED BY <1>1, <1>2, <1>3 DEF k

Weeks == (LastDay - FirstSnapshot + 7) \div 7

LEMMA Snapshots ==
  ASSUME WorkedOut, NEW p \in Process
  PROVE  LET thursdays == sets[update(p)].arInventoryUpdateDates
         IN /\ \A i \in 1 .. 6 : \E w \in 0 .. Weeks - 1 : thursdays[i] = FirstSnapshot + 7 * w
            /\ \A i, j \in 1 .. 6 : thursdays[i] = thursdays[j] => i = j
<1> DEFINE thursdays == arInventoryUpdateDates(session.drawn[update(p)], session.beyond)
<1>1. sets[update(p)].arInventoryUpdateDates = thursdays
  BY SetsWorkedOut, SetOfDays
<1>2. update(p) \in DOMAIN session.drawn /\ session \in Sessions
  BY SetsWorkedOut DEF WorkedOut
<1>4. FirstSnapshot \in Int /\ LastDay \in Int
  BY DayOfDate, SMT DEF FirstSnapshot, LastDay, Date
<1>3. /\ \A i \in 1 .. 6 : /\ thursdays[i] \in FirstSnapshot .. LastDay
                          /\ (thursdays[i] - FirstSnapshot) % 7 = 0
      /\ \A i, j \in 1 .. 6 : thursdays[i] = thursdays[j] => i = j
  <2>1. /\ \A i \in 1 .. 6 : GoodThursday(thursdays[i], PairOf[i])
        /\ \A c \in {1, 3, 5} : thursdays[c + 1] - thursdays[c] \in {7, -7}
    BY <1>2, ThursdaysOfSet, Zenon
  <2>2. ASSUME NEW i \in 1 .. 6
        PROVE  /\ thursdays[i] \in Int /\ FirstSnapshot <= thursdays[i]
               /\ thursdays[i] <= LastDay /\ (thursdays[i] - FirstSnapshot) % 7 = 0
               /\ Entry(thursdays[i]) \in Int /\ Band(PairOf[i], Entry(thursdays[i]))
    BY <2>1, Zenon DEF GoodThursday, OnThursday
  <2> HIDE DEF thursdays
  <2>3. ASSUME NEW i \in 1 .. 6, NEW j \in 1 .. 6, PairOf[i] # PairOf[j]
        PROVE  thursdays[i] # thursdays[j]
    <3>1. PairOf[i] \in {"low", "medium", "high"} /\ PairOf[j] \in {"low", "medium", "high"}
      BY DEF PairOf
    <3>2. /\ Entry(thursdays[i]) \in Int /\ Band(PairOf[i], Entry(thursdays[i]))
          /\ Entry(thursdays[j]) \in Int /\ Band(PairOf[j], Entry(thursdays[j]))
      BY <2>2, Zenon
    <3> QED BY <2>3, <3>1, <3>2, BandsApart, Zenon
  <2>4. ASSUME NEW i \in 1 .. 6, NEW j \in 1 .. 6, PairOf[i] = PairOf[j], i # j
        PROVE  thursdays[i] # thursdays[j]
    <3>1. \E c \in {1, 3, 5} : (i = c /\ j = c + 1) \/ (j = c /\ i = c + 1)
      BY <2>4, SMT DEF PairOf
    <3>2. PICK c \in {1, 3, 5} : (i = c /\ j = c + 1) \/ (j = c /\ i = c + 1)
      BY <3>1, Zenon
    <3>3. thursdays[c + 1] - thursdays[c] \in {7, -7}
      BY <2>1, Zenon
    <3>4. thursdays[c] \in Int /\ thursdays[c + 1] \in Int
      BY <2>2, <3>2, Zenon
    <3> QED BY <3>2, <3>3, <3>4, SMT
  <2> QED BY <1>4, <2>2, <2>3, <2>4, SMT
<1> HIDE DEF thursdays
<1>5. ASSUME NEW i \in 1 .. 6
      PROVE  \E w \in 0 .. Weeks - 1 : thursdays[i] = FirstSnapshot + 7 * w
  <2> DEFINE t == thursdays[i]
             w == (t - FirstSnapshot) \div 7
  <2>1. t \in Int /\ FirstSnapshot <= t /\ t <= LastDay /\ (t - FirstSnapshot) % 7 = 0
    BY <1>3, <1>4
  <2> HIDE DEF t
  <2>2. t = FirstSnapshot + 7 * w
    BY <1>4, <2>1
  <2>3. w \in 0 .. Weeks - 1
    BY <1>4, <2>1 DEF Weeks
  <2> QED BY <2>2, <2>3 DEF t
<1> QED BY <1>1, <1>3, <1>5

LEMMA StockKept ==
  ASSUME WorkedOut, NEW p \in Process
  PROVE  StockOnEachDay(update(p))
<1> DEFINE days == arUpdateDates(session.drawn[update(p)], session.beyond)
           n(k) == dateScaling("INVENTORY", days[k])
<1>1. sets[update(p)].kDayRowcount["S_INVENTORY"] = setUpdateScaling("S_INVENTORY", days)
  BY SetsWorkedOut, SetOfDays DEF Number
<1>2. RowsOf["WAREHOUSE"] \in Nat /\ ItemIDs \in Nat
  BY RowsAssumption, ItemIDsTyped
<1>3. Stock \in Nat /\ \A k \in 1 .. 6 : n(k) = Stock
  BY <1>2 DEF dateScaling, Stock
<1>4. setUpdateScaling("S_INVENTORY", days) =
        <<n(1), n(1) + n(2), n(1) + n(2) + n(3), n(1) + n(2) + n(3) + n(4),
          n(1) + n(2) + n(3) + n(4) + n(5),
          n(1) + n(2) + n(3) + n(4) + n(5) + n(6)>>
  BY DEF setUpdateScaling, nBaseTable
<1> HIDE DEF n
<1>5. setUpdateScaling("S_INVENTORY", days) =
        <<Stock, 2 * Stock, 3 * Stock, 4 * Stock, 5 * Stock, 6 * Stock>>
  BY <1>3, <1>4
<1> QED BY <1>1, <1>3, <1>5 DEF StockOnEachDay

LEMMA InventoryCounts ==
  /\ \A u : get_rowcount(u, "S_INVENTORY") = 6 * Stock
  /\ sc_w_inventory = Weeks * Stock
  /\ Weeks \in Int
<1>1. RowsOf["WAREHOUSE"] \in Nat /\ ItemIDs \in Nat
  BY RowsAssumption, ItemIDsTyped
<1>2. FirstSnapshot \in Int /\ LastDay \in Int
  BY DayOfDate DEF FirstSnapshot, LastDay, Date
<1>3. Weeks \in Int /\ Stock \in Nat
  BY <1>1, <1>2 DEF Weeks, Stock
<1>4. \A u : get_rowcount(u, "S_INVENTORY") = 6 * Stock
  BY <1>1 DEF get_rowcount, Stock
<1>5. sc_w_inventory = Stock * Weeks
  BY DEF sc_w_inventory, Stock, Weeks
<1>6. Stock * Weeks = Weeks * Stock
  BY <1>3
<1> QED BY <1>3, <1>4, <1>5, <1>6

(* The rows of a set are those of the table that are of its days.          *)
LEMMA RowsReplaced ==
  ASSUME WorkedOut, HasStock, NEW p \in Process
  PROVE  LET u    == update(p)
             days == {sets[u].arInventoryUpdateDates[i] : i \in 1 .. 6}
             rows == {InventoryRow(u, k) : k \in 1 .. get_rowcount(u, "S_INVENTORY")}
         IN rows = {r \in BaseInventory : r.date \in days}
<1> DEFINE u         == update(p)
           thursdays == sets[u].arInventoryUpdateDates
           days      == {thursdays[i] : i \in 1 .. 6}
           rows      == {InventoryRow(u, k) : k \in 1 .. 6 * Stock}
<1>1. StockOnEachDay(u) /\ Weeks \in Int /\ sc_w_inventory = Weeks * Stock
  BY StockKept, InventoryCounts
<1>2. \A i \in 1 .. 6 : \E w \in 0 .. Weeks - 1 : thursdays[i] = FirstSnapshot + 7 * w
  BY Snapshots
<1>3. Weeks \in Nat
  BY <1>1, <1>2
<1>4. \A i \in 1 .. 6, r \in 0 .. Stock - 1 :
        InventoryRow(u, (i - 1) * Stock + r + 1) = StockRow(r, thursdays[i])
  BY <1>1, InventoryRowOf
<1>5. \A w \in Nat, r \in 0 .. Stock - 1 :
        BaseRow(w * Stock + r + 1) = StockRow(r, FirstSnapshot + 7 * w)
  BY BaseRowOf
<1> HIDE DEF u, thursdays
<1>6. ASSUME NEW k \in 1 .. 6 * Stock
      PROVE  InventoryRow(u, k) \in BaseInventory /\ InventoryRow(u, k).date \in days
  <2>1. PICK day \in 0 .. 5, r \in 0 .. Stock - 1 : k = day * Stock + r + 1
    BY PlaceOfSetRow
  <2> DEFINE i == day + 1
  <2>2. i \in 1 .. 6 /\ i - 1 = day
    OBVIOUS
  <2> HIDE DEF i
  <2>3. InventoryRow(u, k) = StockRow(r, thursdays[i])
    BY <1>4, <2>1, <2>2
  <2>4. PICK w \in 0 .. Weeks - 1 : thursdays[i] = FirstSnapshot + 7 * w
    BY <1>2, <2>2
  <2>5. w \in Nat /\ w * Stock + r + 1 \in 1 .. Weeks * Stock
    BY <1>3, RowOfPlace
  <2>6. BaseRow(w * Stock + r + 1) = InventoryRow(u, k)
    BY <1>5, <2>3, <2>4, <2>5
  <2>7. InventoryRow(u, k) \in BaseInventory
    BY <1>1, <2>5, <2>6 DEF BaseInventory
  <2> QED BY <2>2, <2>3, <2>7 DEF StockRow
<1>7. ASSUME NEW b \in BaseInventory, b.date \in days
      PROVE  b \in rows
  <2>1. PICK k \in 1 .. Weeks * Stock : b = BaseRow(k)
    BY <1>1 DEF BaseInventory
  <2>2. PICK w \in 0 .. Weeks - 1, r \in 0 .. Stock - 1 : k = w * Stock + r + 1
    BY <1>3, PlaceOfRow
  <2>3. b = StockRow(r, FirstSnapshot + 7 * w)
    BY <1>5, <2>1, <2>2
  <2>4. PICK i \in 1 .. 6 : b.date = thursdays[i]
    BY <1>7
  <2>5. b = StockRow(r, thursdays[i])
    BY <2>3, <2>4 DEF StockRow
  <2>6. (i - 1) * Stock + r + 1 \in 1 .. 6 * Stock
    <3>1. i - 1 \in 0 .. 6 - 1
      OBVIOUS
    <3> QED BY <3>1, RowOfPlace
  <2> QED BY <1>4, <2>5, <2>6
<1>8. rows = {r \in BaseInventory : r.date \in days}
  BY <1>6, <1>7
<1>9. get_rowcount(u, "S_INVENTORY") = 6 * Stock
  BY InventoryCounts
<1> QED BY <1>8, <1>9 DEF u, thursdays

(* No row is built twice.                                                  *)
LEMMA RowsDiffer ==
  ASSUME WorkedOut, HasStock, NEW p \in Process,
         NEW j \in 1 .. 6 * Stock, NEW k \in 1 .. 6 * Stock,
         InventoryRow(update(p), j) = InventoryRow(update(p), k)
  PROVE  j = k
<1> DEFINE u         == update(p)
           thursdays == sets[u].arInventoryUpdateDates
<1>1. /\ StockOnEachDay(u)
      /\ \A i, h \in 1 .. 6 : thursdays[i] = thursdays[h] => i = h
  BY StockKept, Snapshots
<1>2. PICK c \in 0 .. 5, r \in 0 .. Stock - 1 : j = c * Stock + r + 1
  BY PlaceOfSetRow
<1>3. PICK d \in 0 .. 5, s \in 0 .. Stock - 1 : k = d * Stock + s + 1
  BY PlaceOfSetRow
<1>4. /\ c + 1 \in 1 .. 6 /\ c + 1 - 1 = c
      /\ d + 1 \in 1 .. 6 /\ d + 1 - 1 = d
  OBVIOUS
<1>5. InventoryRow(u, j) = StockRow(r, thursdays[c + 1])
  <2>1. InventoryRow(u, (c + 1 - 1) * Stock + r + 1) = StockRow(r, thursdays[c + 1])
    BY <1>1, <1>4, InventoryRowOf
  <2> QED BY <2>1, <1>2, <1>4
<1>6. InventoryRow(u, k) = StockRow(s, thursdays[d + 1])
  <2>1. InventoryRow(u, (d + 1 - 1) * Stock + s + 1) = StockRow(s, thursdays[d + 1])
    BY <1>1, <1>4, InventoryRowOf
  <2> QED BY <2>1, <1>3, <1>4
<1> HIDE DEF u, thursdays
<1>7. r = s /\ thursdays[c + 1] = thursdays[d + 1]
  <2>1. StockRow(r, thursdays[c + 1]) = StockRow(s, thursdays[d + 1])
    BY <1>5, <1>6 DEF u
  <2> QED BY <2>1, StockRowsDiffer
<1>8. c = d
  BY <1>1, <1>4, <1>7
<1> QED BY <1>2, <1>3, <1>7, <1>8

(* The rows of S_INVENTORY of a set stand, each once, for the rows of the  *)
(* INVENTORY of the days in its delete file: for every number of items and *)
(* of warehouses, and all days that can be drawn.                          *)
THEOREM InventoryReplaced == Spec => []InventoryReplaces
<1>1. WorkedOut => InventoryReplaces
  <2> SUFFICES ASSUME WorkedOut, NEW p \in Process
               PROVE  LET days == {sets[update(p)].arInventoryUpdateDates[i] : i \in 1 .. 6}
                          n    == get_rowcount(update(p), "S_INVENTORY")
                          rows == {InventoryRow(update(p), k) : k \in 1 .. n}
                      IN /\ Cardinality(rows) = n
                         /\ rows = {r \in BaseInventory : r.date \in days}
    BY DEF InventoryReplaces
  <2> DEFINE n    == get_rowcount(update(p), "S_INVENTORY")
             rows == {InventoryRow(update(p), k) : k \in 1 .. n}
  <2>1. n = 6 * Stock /\ sc_w_inventory = Weeks * Stock /\ Weeks \in Int
    BY InventoryCounts
  <2>2. RowsOf["WAREHOUSE"] \in Nat /\ ItemIDs \in Nat
    BY RowsAssumption, ItemIDsTyped
  <2>3. CASE HasStock
    <3>1. n \in Nat
      BY <2>1, <2>3, StockTyped
    <3> DEFINE f == [k \in 1 .. n |-> InventoryRow(update(p), k)]
    <3>2. f \in Bijection(1 .. n, rows)
      <4>1. f \in Injection(1 .. n, rows)
        BY <2>1, <2>3, RowsDiffer DEF Injection, IsInjective
      <4>2. f \in Surjection(1 .. n, rows)
        BY DEF Surjection
      <4> QED BY <4>1, <4>2 DEF Bijection
    <3>3. Cardinality(rows) = n
      BY <3>1, <3>2, FS_CountingElements DEF ExistsBijection
    <3> QED BY <2>3, <3>3, RowsReplaced
  <2>4. CASE ~HasStock
    <3>1. Stock = 0
      BY <2>2, <2>4 DEF HasStock, Stock
    <3>2. n = 0 /\ sc_w_inventory = 0
      BY <2>1, <3>1
    <3>3. rows = {} /\ BaseInventory = {}
      BY <3>2 DEF BaseInventory
    <3> QED BY <3>2, <3>3, FS_EmptySet
  <2> QED BY <2>3, <2>4
<1> QED BY <1>1, WorkedOutKept, PTL
===============================================================================
