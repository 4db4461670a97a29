---------------------------- MODULE ProgramFilter ----------------------------
(***************************************************************************)
(* The program filter of simple_search: filter_program_list sorts the list *)
(* of names and drops every name that begins with the name kept last;      *)
(* is_program_selected then looks up a title by one binary search.         *)
(*                                                                         *)
(* A name is a sequence of characters, a character its code.               *)
(***************************************************************************)
EXTENDS Integers, SequencesExt

CONSTANTS
  Lists,    (* The lists of names, as entered.  *)
  Titles    (* The titles of programs.          *)

VARIABLES
  entered,                (* The list handed over.            *)
  program_list,           (* The same, sorted.                *)
  i,                      (* The name at hand.                *)
  filtered_program_list,
  pc                      (* "start", "loop" or "done".       *)

vars == <<entered, program_list, i, filtered_program_list, pc>>

\* The order of std::string.
Less(s, t) ==
  \/ IsStrictPrefix(s, t)
  \/ \E k \in DOMAIN s \cap DOMAIN t :
       s[k] < t[k] /\ \A j \in 1..(k - 1) : s[j] = t[j]

\* The same elements in any order.
Arrangements(s) == {[k \in DOMAIN s |-> s[f[k]]] : f \in Bijection(DOMAIN s, DOMAIN s)}

\* What std::sort leaves.
Sorted(s) == {t \in Arrangements(s) : \A j, k \in DOMAIN t : j < k => ~Less(t[k], t[j])}

Init ==
  /\ entered \in Lists
  /\ program_list = entered
  /\ i = 1
  /\ filtered_program_list = <<>>
  /\ pc = "start"

EmptyList ==
  /\ pc = "start"
  /\ program_list = <<>>
  /\ pc' = "done"
  /\ UNCHANGED <<entered, program_list, i, filtered_program_list>>

KeepFront ==
  /\ pc = "start"
  /\ program_list # <<>>
  /\ program_list' \in Sorted(program_list)
  /\ filtered_program_list' = <<Head(program_list')>>
  /\ i' = 2
  /\ pc' = "loop"
  /\ UNCHANGED entered

\* Mutant: the name kept first stands for all.
BeginsWithFirstKept == IsPrefix(Head(filtered_program_list), program_list[i])

\* program_list[i].find(filtered_program_list.back()) is 0.
BeginsWithLastKept == IsPrefix(Last(filtered_program_list), program_list[i])

NextName ==
  /\ pc = "loop"
  /\ i <= Len(program_list)
  /\ i' = i + 1
  /\ UNCHANGED <<entered, program_list, pc>>

Keep ==
  /\ NextName
  /\ ~BeginsWithLastKept
  /\ filtered_program_list' = Append(filtered_program_list, program_list[i])

Drop ==
  /\ NextName
  /\ BeginsWithLastKept
  /\ UNCHANGED filtered_program_list

Return ==
  /\ pc = "loop"
  /\ i > Len(program_list)
  /\ pc' = "done"
  /\ UNCHANGED <<entered, program_list, i, filtered_program_list>>

Next == EmptyList \/ KeepFront \/ Keep \/ Drop \/ Return

Spec == Init /\ [][Next]_vars

\* The last name not greater than the title is the only one that is compared.
is_program_selected(title) ==
  LET notGreater == {k \in DOMAIN filtered_program_list : ~Less(title, filtered_program_list[k])}
  IN  \E k \in notGreater :
        /\ \A j \in notGreater : j <= k
        /\ IsPrefix(filtered_program_list[k], title)
------------------------------------------------------------------------------
\* Matches are made "by prefixes": a title is selected if and only if it
\* begins with some name of the list that was entered, although only one name
\* of the filtered list is looked at.
SelectsByPrefix ==
  pc = "done" =>
    \A title \in Titles :
      is_program_selected(title) <=> \E n \in ToSet(entered) : IsPrefix(n, title)
=============================================================================
