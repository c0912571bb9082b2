------------------------------ MODULE Options ------------------------------
(***************************************************************************)
(* The parameters of the kit's C programs (r_params.c): one table of       *)
(* options, set from the words of the command line one after the other     *)
(* (process_options, set_option), or from the lines of a parameter file    *)
(* (read_file) that an option with that action names.  A word is a record  *)
(* that keeps what the code tells apart: whether it begins with a dash,    *)
(* which options of the table begin with the text after the dash, its text *)
(* and the text cut at the first blank or at the closing quote, and        *)
(* whether it reads as a yes ("Y..." or a dash).                           *)
(***************************************************************************)
EXTENDS Integers, Sequences, FiniteSets, SequencesExt

CONSTANTS
  OptionTable,  \* option |-> [type, action, dflt, set]
  ParamFiles,   \* name of a parameter file |-> its lines, [begins, arg]
  NoOption, NoWord

VARIABLES
  words,        \* the command line after the program's name
  settings,     \* [params, set, exit]: values, OPT_SET flags, exit status
  option_num,   \* the word process_options looks at
  res           \* what the last option took, kept from word to word

optionVars == <<words, settings, option_num, res>>

Options == DOMAIN OptionTable

----------------------------------------------------------------------------
(* The table, and a value looked up in it                                  *)

\* Every option at its default; PROG is marked as set in the table itself.
init_params ==
  [params |-> [o \in Options |-> OptionTable[o].dflt],
   set    |-> {o \in Options : OptionTable[o].set},
   exit   |-> "running"]

\* The option a name stands for: the only one that begins with it.
fnd_param(begins) ==
  IF Cardinality(begins) = 1 THEN CHOOSE o \in begins : TRUE ELSE NoOption

get_str(o) == settings.params[o]

\* A flag is set when it is Y, another option when it was given or has a
\* default that is not empty.
is_set(o) ==
  IF OptionTable[o].type = "FLG" THEN settings.params[o] = "Y"
  ELSE o \in settings.set \/ OptionTable[o].dflt # ""

Exit(st, status) == [st EXCEPT !.exit = IF @ = "running" THEN status ELSE @]

set_str(st, o, text) ==
  [st EXCEPT !.params[o] = text, !.set = @ \cup {o}]

----------------------------------------------------------------------------
(* set_option and read_file call each other: an option whose action is     *)
(* read_file takes the lines of that file, each line one option            *)

RECURSIVE set_option(_, _, _)

\* A bug CommandLineWins must find: a file's line overrides what is set.
TakeAnyLine(st, line) ==
  LET o == fnd_param(line.begins)
  IN  IF st.exit # "running" \/ o = NoOption \/ line.arg = NoWord THEN st
      ELSE set_option(st, line.begins, line.arg).st

\* One line of a parameter file: unknown names are passed over in silence,
\* and so is an option that is already set.
TakeLine(st, line) ==
  LET o == fnd_param(line.begins)
  IN  IF \/ st.exit # "running" \/ o = NoOption \/ line.arg = NoWord
         \/ o \in st.set
      THEN st
      ELSE set_option(st, line.begins, line.arg).st

\* A file that cannot be opened ends in usage() with an error.
read_file(st, file) ==
  IF file \in DOMAIN ParamFiles
  THEN FoldLeft(TakeLine, st, ParamFiles[file])
  ELSE Exit(st, "1")

\* What an option does besides taking a value: usage() without a message and
\* printReleaseInfo() end the program with status 0.
Act(st, o, text) ==
  IF OptionTable[o].action = "none" THEN st
  ELSE IF OptionTable[o].action = "read_file" THEN
         IF text = "" THEN st ELSE read_file(st, text)
  ELSE Exit(st, "0")

set_flag(st, o, arg) ==
  IF arg = NoWord \/ arg.yes
  THEN [Act(st, o, "") EXCEPT !.params[o] = "Y", !.set = @ \cup {o}]
  ELSE [st EXCEPT !.params[o] = "N", !.set = @ \cup {o}]

\* An option with an argument reads the word behind it, there or not.
set_argument(st, o, arg) ==
  IF arg = NoWord THEN Exit(st, "crash")
  ELSE IF OptionTable[o].type = "INT" THEN set_str(st, o, arg.text)
  ELSE IF arg.open THEN Exit(st, "1")
  ELSE set_str(Act(st, o, arg.cut), o, arg.cut)

\* The number of words an option took, or -1 when the name is none or not
\* the beginning of one option alone.
set_option(st, begins, arg) ==
  LET o == fnd_param(begins)
  IN  IF o = NoOption THEN [st |-> st, res |-> -1]
      ELSE IF OptionTable[o].type = "FLG"
      THEN [st |-> set_flag(st, o, arg), res |-> 1]
      ELSE [st |-> set_argument(st, o, arg), res |-> 2]

----------------------------------------------------------------------------
(* The command line                                                        *)

OptionsInit ==
  /\ settings = init_params
  /\ option_num = 1
  /\ res = 1

Argument ==
  IF option_num = Len(words) THEN NoWord ELSE words[option_num + 1]

\* A bug SessionEnds must find: an option that is not known does not end the
\* program, and -1 is taken for the number of its words.
ProcessOptionAgain ==
  /\ settings.exit = "running" /\ option_num <= Len(words)
  /\ LET word == words[option_num]
         done == IF word.dash THEN set_option(settings, word.begins, Argument)
                 ELSE [st |-> settings, res |-> res]
     IN  /\ res' = done.res
         /\ settings' = done.st
         /\ option_num' = option_num + done.res
  /\ UNCHANGED words

\* One turn of process_options.  A word without a dash leaves res as the last
\* option left it, so it is followed by one word or by two.  An unknown
\* option prints the usage text, which ends the program with status 0.
ProcessOption ==
  /\ settings.exit = "running" /\ option_num <= Len(words)
  /\ LET word == words[option_num]
         done == IF word.dash THEN set_option(settings, word.begins, Argument)
                 ELSE [st |-> settings, res |-> res]
     IN  /\ res' = done.res
         /\ IF done.res < 0
            THEN /\ settings' = Exit(done.st, "0")
                 /\ UNCHANGED option_num
            ELSE /\ settings' = done.st
                 /\ option_num' = option_num + done.res
  /\ UNCHANGED words

OptionsRead == settings.exit = "running" /\ option_num > Len(words)

----------------------------------------------------------------------------
(* What a reader of the usage text expects of a command line               *)

\* Whether a word is the argument of the option before it.
IsArgument[i \in Nat] ==
  /\ i > 1 /\ i <= Len(words)
  /\ ~IsArgument[i - 1]
  /\ words[i - 1].dash
  /\ LET o == fnd_param(words[i - 1].begins)
     IN  o # NoOption /\ OptionTable[o].type # "FLG"

IsOption(i) == words[i].dash /\ ~IsArgument[i]

\* A command line of options and their arguments; the word behind a flag may
\* be its Y or N, any other word alone is a stray one.
NoStrayWord ==
  \A i \in 1..Len(words) :
    \/ IsOption(i) \/ IsArgument[i]
    \/ i > 1 /\ IsOption(i - 1)

\* The value an option has with the word behind it.
ValueOf(o, arg) ==
  CASE OptionTable[o].type = "FLG" ->
         IF arg = NoWord \/ arg.yes THEN "Y" ELSE "N"
    [] OptionTable[o].type = "INT" -> arg.text
    [] OTHER -> arg.cut

\* The places of the command line that give an option, and the lines of the
\* files the command line names, in order.
Places(o) ==
  {i \in 1..Len(words) : IsOption(i) /\ fnd_param(words[i].begins) = o}

WordBehind(i) == IF i = Len(words) THEN NoWord ELSE words[i + 1]

LinesRead ==
  FlattenSeq([i \in 1..Len(words) |->
    LET o == IF IsOption(i) THEN fnd_param(words[i].begins) ELSE NoOption
    IN  IF o = NoOption \/ WordBehind(i) = NoWord THEN <<>>
        ELSE IF OptionTable[o].action = "read_file"
        THEN ParamFiles[words[i + 1].cut] ELSE <<>>])

LinesOf(o) ==
  {k \in 1..Len(LinesRead) :
    LinesRead[k].arg # NoWord /\ fnd_param(LinesRead[k].begins) = o}

AsGiven(o) ==
  IF Places(o) # {} THEN
    ValueOf(o, WordBehind(CHOOSE i \in Places(o) : \A j \in Places(o) : j <= i))
  ELSE IF LinesOf(o) # {} THEN
    ValueOf(o, LinesRead[CHOOSE k \in LinesOf(o) :
                           \A j \in LinesOf(o) : k <= j].arg)
  ELSE OptionTable[o].dflt

\* "command line options over-ride those in a file" (r_params.c, read_file):
\* wherever the file is named among the words, an option has the last value
\* the command line gives it, else the first one a file gives, else its
\* default - on a command line without stray words.
CommandLineWins ==
  OptionsRead /\ NoStrayWord =>
    \A o \in Options : settings.params[o] = AsGiven(o)

=============================================================================
