-------------------------------- MODULE Texts --------------------------------
(***************************************************************************)
(* How many random numbers gen_text() draws for a text.                    *)
(*                                                                         *)
(* It draws a length, and then whole sentences until they fill it; only    *)
(* the characters of the last one are cut off, its numbers are drawn.  A   *)
(* sentence draws its form and a word for every letter of the form, so     *)
(* that the numbers depend on the words: short ones leave room for more    *)
(* sentences.  Of the words only their lengths are kept.                   *)
(***************************************************************************)
EXTENDS Naturals, Sequences

LOCAL INSTANCE SequencesExt

(* The shortest and the longest word of each part of speech: noun, verb,   *)
(* adjective (with the comma of the form, if it has one), adverb,          *)
(* auxiliary, preposition, article and terminator.                         *)
Parts == {"N", "V", "J", "J,", "D", "X", "P", "A", "T"}
Shortest ==
  [part \in Parts |->
     CASE part \in {"A", "T"}           -> 1
       [] part \in {"V", "J", "D", "P"} -> 2
       [] part \in {"N", "X", "J,"}     -> 3]
Longest ==
  [part \in Parts |->
     CASE part = "N"  -> 18 [] part = "V" -> 13 [] part = "J" -> 15
       [] part = "J," -> 16 [] part = "D" -> 19 [] part = "X" -> 10
       [] part = "P"  -> 20 [] part = "A" -> 5  [] part = "T" -> 3]

(* The sentence forms: any subject with any predicate and complement.      *)
Subjects    == {<<"N">>, <<"J", "N">>, <<"J,", "J", "N">>, <<"D", "J", "N">>}
Predicates  == {<<"V">>, <<"X", "V">>}
Complements ==
  {<<>>, <<"D">>, <<"N">>, <<"D", "N">>, <<"J", "N">>, <<"D", "J", "N">>,
   <<"J,", "J", "N">>, <<"D", "J,", "J", "N">>, <<"D", "D", "J", "N">>,
   <<"P", "A", "N">>, <<"D", "P", "A", "N">>}
sentences ==
  {s \o p \o c \o <<"T">> : s \in Subjects, p \in Predicates, c \in Complements}
  \cup {<<"D", "J", "N", "X", "V", "D", "J", "J", "N", "T">>}

(* The words, and blanks between all but the last, the terminator.         *)
Length(form, word) ==
  FoldLeft(LAMBDA n, part : n + word[part], Len(form) - 2, form)

(* mk_sentence(): the numbers a sentence draws, and how short and how long *)
(* it can be.                                                              *)
mk_sentence ==
  {[drawn |-> 1 + Len(form), shortest |-> Length(form, Shortest),
    longest |-> Length(form, Longest)] : form \in sentences}

(* What a sentence of n characters and the blank after it leave of a length*)
(* that is to be filled.                                                   *)
Left(target_len, n) == IF target_len > n + 1 THEN target_len - n - 1 ELSE 0

(* The loop of gen_text(): the numbers drawn, by the length to be filled.  *)
(* A sentence draws, and the text goes on as one of the length it leaves,  *)
(* which is shorter.  Short sentences draw the most, long ones the fewest. *)
Drawn(filled, n) == IF n = 0 THEN 0 ELSE filled[n]
Lengths == [n \in 1 .. 200 |-> n]
MostFilling ==
  FoldLeft(LAMBDA filled, n :
             Append(filled, Max({s.drawn + Drawn(filled, Left(n, s.shortest)) : s \in mk_sentence})),
           <<>>, Lengths)
LeastFilling ==
  FoldLeft(LAMBDA filled, n :
             Append(filled, Min({s.drawn + Drawn(filled, Left(n, s.longest)) : s \in mk_sentence})),
           <<>>, Lengths)

(* The longest lengths of the texts of a row, and the shortest that any    *)
(* builder asks for with it.                                               *)
LeastLength ==
  [len \in {20, 50, 60, 99, 100, 200} |->
     CASE len = 20 -> 10 [] len \in {50, 60} -> 20 [] len = 99 -> 50 [] OTHER -> 1]

(* gen_text(): the length is drawn first.                                  *)
MostDrawn ==
  [len \in DOMAIN LeastLength |->
     1 + Max({MostFilling[n] : n \in LeastLength[len] .. len})]
LeastDrawn ==
  [len \in DOMAIN LeastLength |->
     1 + Min({LeastFilling[n] : n \in LeastLength[len] .. len})]
=============================================================================
