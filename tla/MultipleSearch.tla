--------------------------- MODULE MultipleSearch ---------------------------
(***************************************************************************)
(* multiple_search: one run of the CGI program, for several search strings *)
(* at once.  Every string has tables of its own for the day and for the    *)
(* whole range.  The strings are sorted but not made different: a string   *)
(* that was entered twice is counted twice, through one set of tables.     *)
(*                                                                         *)
(* A program is what find and evaluate_expressions make of it: the windows *)
(* left and right of the matches of every string, in order.  The three     *)
(* matrices search_results, search_results_programs and                    *)
(* search_results_total_matches grow together and are kept as one; the     *)
(* last has no total of the selected programs, the first has.              *)
(***************************************************************************)
EXTENDS Integers, FiniteSets, SequencesExt, Contexts, Sums

CONSTANTS
  Strings,      (* The search strings, in the order of their spelling.    *)
  SearchLists,  (* The lists of search strings that may be entered.       *)
  NumFiles,     (* The number of dates of the range.                      *)
  Windows,      (* The texts beside a match.                              *)
  Files         (* The lists of programs that a file may hold.            *)

Matches == [left : Windows, right : Windows]
ProgramsOf == [Strings -> Seq(Matches)]

\* The strings entered are sorted, and there is one at least.
ASSUME SearchListsAssumption ==
  /\ Strings \subseteq Int
  /\ SearchLists \subseteq Seq(Strings) \ {<<>>}
  /\ \A list \in SearchLists : \A j, k \in DOMAIN list : j < k => list[j] <= list[k]
ASSUME NumFilesAssumption == NumFiles \in Nat
ASSUME FilesAssumption == Files \subseteq Seq(ProgramsOf)

VARIABLES
  search_strings,
  it,                (* The file at hand: its date.                       *)
  missing_files, corrupt_files,
  programs, p,       (* The programs of the file and the one at hand.     *)
  ss, m,             (* The string and the match at hand.                 *)
  day, total,        (* The tables of the day and of the range.           *)
  context_added, total_context_added,
  daily_match_counts, match_counts,
  total_programs_cnt,
  search_results,    (* One row per day, then the grand total.            *)
  excerpts,          (* The matches kept, of every string.                *)
  read,              (* History: the programs read so far, in the range   *)
                     (* and in the file read last.                        *)
  pc                 (* "files", "programs", "matches" or "done".         *)

files == <<search_strings, it, missing_files, corrupt_files, programs, read>>
tables == <<day, total, context_added, total_context_added, excerpts>>
sums == <<daily_match_counts, match_counts, total_programs_cnt, search_results>>
vars == <<files, p, ss, m, tables, sums, pc>>

NoTables == [s \in Strings |-> NoHashes]
Zero == [s \in Strings |-> [contexts |-> 0, programs |-> 0, matches |-> 0]]

Init ==
  /\ search_strings \in SearchLists
  /\ it = 1
  /\ missing_files = <<>>
  /\ corrupt_files = <<>>
  /\ programs = <<>>
  /\ p = 1
  /\ ss = 1
  /\ m = 1
  /\ day = NoTables
  /\ total = NoTables
  /\ context_added = FALSE
  /\ total_context_added = FALSE
  /\ daily_match_counts = Zero
  /\ match_counts = Zero
  /\ total_programs_cnt = 0
  /\ search_results = <<>>
  /\ excerpts = [s \in Strings |-> <<>>]
  /\ read = [range |-> <<>>, day |-> <<>>]
  /\ pc = "files"

NextFile == pc = "files" /\ it <= NumFiles

MissingFile ==
  /\ NextFile
  /\ missing_files' = Append(missing_files, it)
  /\ it' = it + 1
  /\ UNCHANGED <<search_strings, corrupt_files, programs, read, p, ss, m, tables, sums, pc>>

CorruptFile ==
  /\ NextFile
  /\ corrupt_files' = Append(corrupt_files, it)
  /\ it' = it + 1
  /\ UNCHANGED <<search_strings, missing_files, programs, read, p, ss, m, tables, sums, pc>>

\* Mutant: the tables of the day are those of the day before.
OpenFileKeepsTables(content) ==
  /\ NextFile
  /\ programs' = content
  /\ p' = 1
  /\ ss' = 1
  /\ daily_match_counts' = Zero
  /\ total_programs_cnt' = total_programs_cnt + Len(content)
  /\ read' = [range |-> read.range \o content, day |-> content]
  /\ pc' = "programs"
  /\ UNCHANGED <<search_strings, it, missing_files, corrupt_files, m, tables>>
  /\ UNCHANGED <<match_counts, search_results>>

OpenFile(content) ==
  /\ NextFile
  /\ programs' = content
  /\ p' = 1
  /\ ss' = 1
  /\ day' = NoTables
  /\ daily_match_counts' = Zero
  /\ total_programs_cnt' = total_programs_cnt + Len(content)
  /\ read' = [range |-> read.range \o content, day |-> content]
  /\ pc' = "programs"
  /\ UNCHANGED <<search_strings, it, missing_files, corrupt_files, m>>
  /\ UNCHANGED <<total, context_added, total_context_added, excerpts>>
  /\ UNCHANGED <<match_counts, search_results>>

NextString == pc = "programs" /\ p <= Len(programs) /\ ss <= Len(search_strings)

string == search_strings[ss]
match_positions == programs[p][string]

StringWithoutMatch ==
  /\ NextString
  /\ match_positions = <<>>
  /\ ss' = ss + 1
  /\ UNCHANGED <<files, p, m, tables, sums, pc>>

WithMatches(cnts) ==
  [cnts EXCEPT ![string].programs = @ + 1, ![string].matches = @ + Len(match_positions)]

StringWithMatches ==
  /\ NextString
  /\ match_positions # <<>>
  /\ daily_match_counts' = WithMatches(daily_match_counts)
  /\ match_counts' = WithMatches(match_counts)
  /\ context_added' = FALSE
  /\ total_context_added' = FALSE
  /\ m' = 1
  /\ pc' = "matches"
  /\ UNCHANGED <<files, p, ss, day, total, excerpts, total_programs_cnt, search_results>>

\* Mutant: an excerpt is kept when it is new to the day.
Keeps(isNew, isTotallyNew) == isNew

\* "if (total_left_hash_cnt == 0 && total_right_hash_cnt == 0)", within a
\* match that is new to the day.
IsKept(isNew, isTotallyNew) == isNew /\ isTotallyNew

Examine ==
  /\ pc = "matches"
  /\ m <= Len(match_positions)
  /\ LET match == match_positions[m]
         isNew == IsNew(match, day[string])
         isKept == IsKept(isNew, IsNew(match, total[string]))
     IN  /\ day' = [day EXCEPT ![string] = Enter(match, @)]
         /\ total' = [total EXCEPT ![string] = Enter(match, @)]
         /\ context_added' = (context_added \/ isNew)
         /\ daily_match_counts' = IF isNew /\ ~context_added
              THEN [daily_match_counts EXCEPT ![string].contexts = @ + 1]
              ELSE daily_match_counts
         /\ total_context_added' = (total_context_added \/ isKept)
         /\ match_counts' = IF isKept /\ ~total_context_added
              THEN [match_counts EXCEPT ![string].contexts = @ + 1]
              ELSE match_counts
         /\ excerpts' = IF isKept THEN [excerpts EXCEPT ![string] = Append(@, match)]
                        ELSE excerpts
  /\ m' = m + 1
  /\ UNCHANGED <<files, p, ss, total_programs_cnt, search_results, pc>>

EndOfString ==
  /\ pc = "matches"
  /\ m > Len(match_positions)
  /\ ss' = ss + 1
  /\ pc' = "programs"
  /\ UNCHANGED <<files, p, m, tables, sums>>

EndOfProgram ==
  /\ pc = "programs"
  /\ p <= Len(programs)
  /\ ss > Len(search_strings)
  /\ p' = p + 1
  /\ ss' = 1
  /\ UNCHANGED <<files, m, tables, sums, pc>>

Row(dt, cnts, selected) ==
  [dt |-> dt, selected |-> selected,
   cnts |-> [k \in DOMAIN search_strings |-> cnts[search_strings[k]]]]

EndOfFile ==
  /\ pc = "programs"
  /\ p > Len(programs)
  /\ search_results' = Append(search_results, Row(it, daily_match_counts, Len(programs)))
  /\ programs' = <<>>
  /\ it' = it + 1
  /\ pc' = "files"
  /\ UNCHANGED <<search_strings, missing_files, corrupt_files, read, p, ss, m, tables>>
  /\ UNCHANGED <<daily_match_counts, match_counts, total_programs_cnt>>

\* Mutant: the total line repeats the counts of the last day.
FinishWithLastDay ==
  /\ pc = "files"
  /\ it > NumFiles
  /\ search_results' = Append(search_results, Row(0, daily_match_counts, total_programs_cnt))
  /\ pc' = "done"
  /\ UNCHANGED <<files, p, ss, m, tables, daily_match_counts, match_counts, total_programs_cnt>>

\* "Grand Total:", here 0 for a date.
Finish ==
  /\ pc = "files"
  /\ it > NumFiles
  /\ search_results' = Append(search_results, Row(0, match_counts, total_programs_cnt))
  /\ pc' = "done"
  /\ UNCHANGED <<files, p, ss, m, tables, daily_match_counts, match_counts, total_programs_cnt>>

Next ==
  \/ MissingFile \/ CorruptFile \/ \E content \in Files : OpenFile(content)
  \/ StringWithoutMatch \/ StringWithMatches \/ Examine \/ EndOfString
  \/ EndOfProgram \/ EndOfFile \/ Finish

Spec == Init /\ [][Next]_vars
------------------------------------------------------------------------------
Copies(s) == Cardinality({k \in DOMAIN search_strings : search_strings[k] = s})

\* The counts of a string, from the programs alone.
CountsOf(s, ps) ==
  LET found == [k \in DOMAIN ps |-> ps[k][s]]
  IN  [contexts |-> Cardinality(ContextsOf(found)),
       programs |-> Copies(s) * Cardinality({k \in DOMAIN ps : found[k] # <<>>}),
       matches |-> Copies(s) * SumSeq([k \in DOMAIN ps |-> Len(found[k])])]

\* A string searched with others has the contexts it has when searched alone,
\* in the row of the file read last and in the whole range, however often it
\* was entered.  Its programs and matches are counted once per entry.
CountedAsIfAlone ==
  pc = "files" =>
    \A k \in DOMAIN search_strings :
      LET s == search_strings[k]
      IN  /\ match_counts[s] = CountsOf(s, read.range)
          /\ search_results # <<>> =>
               search_results[Len(search_results)].cnts[k] = CountsOf(s, read.day)

\* The sums over rows of a column of string k, and of the selected programs.
Column(rows, k, f) == SumSeq([n \in DOMAIN rows |-> rows[n].cnts[k][f]])
SelectedIn(rows) == SumSeq([n \in DOMAIN rows |-> rows[n].selected])

\* Each file is a row or listed as missing or corrupt, the rows in the order of
\* the dates.
FilesAreListed(rows, n) ==
  /\ Len(rows) + Len(missing_files) + Len(corrupt_files) = n
  /\ {rows[j].dt : j \in DOMAIN rows} \cup ToSet(missing_files) \cup ToSet(corrupt_files) = 1..n
  /\ \A j, k \in DOMAIN rows : j < k => rows[j].dt < rows[k].dt

\* The total line adds up: its programs and matches are the sums of the days,
\* its contexts at most so, and none only if no day had one; and no file is
\* passed over.
TotalLineAddsUp ==
  pc = "done" =>
    LET days == SubSeq(search_results, 1, Len(search_results) - 1)
        line == search_results[Len(search_results)]
    IN  /\ line.selected = SelectedIn(days)
        /\ \A k \in DOMAIN search_strings :
             /\ line.cnts[k].programs = Column(days, k, "programs")
             /\ line.cnts[k].matches = Column(days, k, "matches")
             /\ line.cnts[k].contexts <= Column(days, k, "contexts")
             /\ line.cnts[k].contexts > 0 <=> Column(days, k, "contexts") > 0
        /\ FilesAreListed(days, NumFiles)

\* No two excerpts of a string share a side, and every context of the range
\* has an excerpt that shows it.
ExcerptsShowContexts ==
  \A s \in Strings :
    AllUnlike(excerpts[s]) /\ match_counts[s].contexts <= Len(excerpts[s])
==============================================================================
