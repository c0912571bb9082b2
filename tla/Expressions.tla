---------------------------- MODULE Expressions ----------------------------
(***************************************************************************)
(* The expressions of a query template (expr.c): what the grammar makes of *)
(* the right side of a "define".  The functions are the constructors the   *)
(* grammar calls; the nodes of their trees are records.  A text is a       *)
(* sequence of the pieces it is put together from, words and numbers.      *)
(***************************************************************************)
EXTENDS Integers, Sequences, FiniteSets, SequencesExt

\* The flags of the data types, in the order makeArithmeticExpr compares.
TypeFlag == [int |-> 8, char |-> 16, keyword |-> 64, date |-> 128,
             typeshift |-> 256]

TypeValue(types) == FoldSet(LAMBDA t, total : TypeFlag[t] + total, 0, types)

makeExpr ==
  [kind |-> "const", types |-> {}, n |-> 0, text |-> <<>>, name |-> "",
   args |-> <<>>, modifiers |-> {}, nValueCount |-> 1, nSubElement |-> 0]

MakeIntConstant(n) == [makeExpr EXCEPT !.types = {"int"}, !.n = n]

MakeStringConstant(text) == [makeExpr EXCEPT !.types = {"char"}, !.text = text]

\* A keyword stands where its number does; text is there for _LIMIT's value.
MakeKeyword(name) == [makeExpr EXCEPT !.types = {"int", "keyword"}, !.name = name]

MakeReplacement(text, weight) ==
  [makeExpr EXCEPT !.kind = "repl", !.types = {"char"}, !.text = text, !.n = weight]

MakeVariableReference(name, suffix) ==
  [makeExpr EXCEPT !.kind = "subst", !.types = {"char"}, !.name = name,
                   !.nSubElement = IF suffix >= 1 THEN suffix ELSE 1]

\* list, ulist and range: the number wanted becomes one more argument.
MakeListExpr(modifier, expr, count) ==
  [expr EXCEPT !.modifiers = @ \cup {modifier},
               !.nValueCount = IF modifier = "range" THEN 2 ELSE count,
               !.args = Append(@, MakeIntConstant(count))]

makeArithmeticExpr(op, arg1, arg2) ==
  [makeExpr EXCEPT !.kind = "func", !.name = op, !.args = <<arg1, arg2>>,
     !.types = IF TypeValue(arg1.types) >= TypeValue(arg2.types)
               THEN arg1.types ELSE arg2.types]

----------------------------------------------------------------------------
(* Function calls                                                          *)

AnyType == {"typeshift"}

\* arFuncInfo and arFuncArgs: the type of the result and of each argument.
FuncInfo ==
  [date       |-> [types |-> {"date"}, args |-> <<{"char"}, {"char"}, {"int"}>>],
   dist       |-> [types |-> {"char"}, args |-> <<{"char"}, AnyType, AnyType>>],
   random     |-> [types |-> {"int"},  args |-> <<{"int"}, {"int"}, {"int"}>>],
   text       |-> [types |-> {"char"}, args |-> <<{"char"}, {"int"}>>],
   distmember |-> [types |-> {"char"}, args |-> <<{"char"}, AnyType, AnyType>>],
   distweight |-> [types |-> {"int"},  args |-> <<{"char"}, AnyType, AnyType>>]]

canCast(from, to) ==
  \/ to = {"int"}  /\ from \cap {"keyword", "int", "char"} # {}
  \/ to = {"char"} /\ from \cap {"char", "int"} # {}
  \/ to = {"date"} /\ from \cap {"date", "char"} # {}
  \/ to = AnyType

\* A list of replacements may have any length and is not looked at.
ValidateParams(func, args) ==
  \/ args # <<>> /\ args[1].kind = "repl"
  \/ /\ Len(args) = Len(FuncInfo[func].args)
     /\ \A i \in 1..Len(args) : canCast(args[i].types, FuncInfo[func].args[i])

\* A call whose arguments do not fit ends the program where it is parsed.
MakeFunctionCall(func, args) ==
  [makeExpr EXCEPT !.kind = IF ValidateParams(func, args) THEN "func" ELSE "invalid",
                   !.name = func, !.args = args, !.types = FuncInfo[func].types]

----------------------------------------------------------------------------
(* What parsing an expression looks up                                     *)

RECURSIVE References(_), IsValid(_)

\* The substitutions every template has: the keywords that have a value.
GlobalNames ==
  <<"_QUERY", "_STREAM", "_TEMPLATE", "_SEED", "_LIMIT", "_LIMITA", "_LIMITB", "_LIMITC">>

\* The substitutions an expression names, in the order they are parsed.
References(expr) ==
  IF expr.kind = "subst" \/ expr.name \in Range(GlobalNames) THEN <<expr.name>>
  ELSE FlattenSeq([i \in 1..Len(expr.args) |-> References(expr.args[i])])

IsValid(expr) ==
  expr.kind # "invalid" /\ \A i \in 1..Len(expr.args) : IsValid(expr.args[i])
=============================================================================
