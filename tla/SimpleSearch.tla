---------------------------- MODULE SimpleSearch ----------------------------
(***************************************************************************)
(* simple_search: one run of the CGI program over the files of a range of  *)
(* dates.  It counts, for every day and for the whole range, the matches   *)
(* of a search string, the programs with a match, and the contexts: the    *)
(* programs with a match whose text to the left and to the right are both  *)
(* new.  Two pairs of tables say what is new, one for the day and one for  *)
(* the range; a match that is new in both is kept as an excerpt.           *)
(*                                                                         *)
(* A program is its title, and what find and evaluate_expressions make of  *)
(* it: the windows left and right of each match, in order.  Which titles   *)
(* are selected is up to ProgramFilter.                                    *)
(***************************************************************************)
EXTENDS Integers, FiniteSets, SequencesExt, Contexts, Sums

CONSTANTS
  Queries,      (* The form: the range of dates, whether all programs are *)
                (* selected, and the list of names.                       *)
  Titles,       (* The titles of programs.                                *)
  Files,        (* The lists of programs that a file may hold.            *)
  Windows,      (* The texts beside a match.                              *)
  num_excerpts  (* The number of excerpts asked for.                      *)

Matches == [left : Windows, right : Windows]
Lists == {query.names : query \in Queries}

ASSUME QueriesAssumption ==
  \A query \in Queries : query.dates \subseteq Int /\ IsFiniteSet(query.dates)
\* A name or a title is a sequence of characters.
ASSUME NamesAssumption ==
  /\ Titles \subseteq Seq(Int)
  /\ \A query \in Queries : query.names \in Seq(Seq(Int))
ASSUME NumExcerptsAssumption == num_excerpts \in Nat
ASSUME FilesAssumption == Files \subseteq Seq([title : Titles, matches : Seq(Matches)])

VARIABLES
  query, random,     (* The form; random shuffles files and programs.     *)
  entered, program_list, i, filtered_program_list, filter_pc, (* Filter's. *)
  file_list, it,     (* The files and the one at hand.                    *)
  missing_files, corrupt_files,
  programs, p,       (* The programs of the file and the one at hand.     *)
  m,                 (* The match at hand.                                *)
  day,               (* The tables of the day.                            *)
  total,             (* The tables of the range.                          *)
  context_added, total_context_added,
  cnt, sum,          (* The counts of the day and of the range.           *)
  search_results,    (* One row per day.                                  *)
  excerpts,          (* The matches kept.                                 *)
  random_excerpts,   (* Those written to the file of random excerpts.     *)
  read,              (* History: the programs read so far, in the range   *)
                     (* and in the file read last.                        *)
  pc                 (* "filter", "files", "programs", "matches",         *)
                     (* "output", "done" or "crashed".                    *)

filter == <<query, random, entered, program_list, i, filtered_program_list, filter_pc>>
files == <<file_list, it, missing_files, corrupt_files, programs, read>>
tables == <<day, total, context_added, total_context_added, excerpts, random_excerpts>>
vars == <<filter, files, p, m, tables, cnt, sum, search_results, pc>>

Zero == [contexts |-> 0, programs |-> 0, matches |-> 0, selected |-> 0, total |-> 0]

Filter == INSTANCE ProgramFilter WITH pc <- filter_pc

Ascending(dates) == \A j, k \in DOMAIN dates : j < k => dates[j] < dates[k]
DatesOf(rows) == [k \in DOMAIN rows |-> rows[k].dt]

Init ==
  /\ query \in Queries
  /\ random \in BOOLEAN
  /\ Filter!Init
  /\ entered = query.names
  /\ file_list \in {s \in SetToSeqs(query.dates) : random \/ Ascending(s)}
  /\ it = 1
  /\ missing_files = <<>>
  /\ corrupt_files = <<>>
  /\ programs = <<>>
  /\ p = 1
  /\ m = 1
  /\ day = NoHashes
  /\ total = NoHashes
  /\ context_added = FALSE
  /\ total_context_added = FALSE
  /\ cnt = Zero
  /\ sum = Zero
  /\ search_results = <<>>
  /\ excerpts = <<>>
  /\ random_excerpts = <<>>
  /\ read = [range |-> <<>>, day |-> <<>>]
  /\ pc = "filter"

\* The list of names is filtered before the first file is opened.
FilterStep ==
  /\ pc = "filter"
  /\ Filter!Next
  /\ pc' = IF filter_pc' = "done" THEN "files" ELSE "filter"
  /\ UNCHANGED <<query, random, files, p, m, tables, cnt, sum, search_results>>

Selected(program) == query.all_programs \/ Filter!is_program_selected(program.title)

NextFile == pc = "files" /\ it <= Len(file_list)

\* file_exists is false.
MissingFile ==
  /\ NextFile
  /\ missing_files' = Append(missing_files, file_list[it])
  /\ it' = it + 1
  /\ UNCHANGED <<filter, file_list, corrupt_files, programs, read>>
  /\ UNCHANGED <<p, m, tables, cnt, sum, search_results, pc>>

\* Mutant: a file that cannot be parsed is passed over silently.
CorruptFileUnlisted ==
  /\ NextFile
  /\ it' = it + 1
  /\ UNCHANGED <<filter, file_list, missing_files, corrupt_files, programs, read>>
  /\ UNCHANGED <<p, m, tables, cnt, sum, search_results, pc>>

\* parse_programs throws: the file is malformed, or went away after the test.
CorruptFile ==
  /\ NextFile
  /\ corrupt_files' = Append(corrupt_files, file_list[it])
  /\ it' = it + 1
  /\ UNCHANGED <<filter, file_list, missing_files, programs, read>>
  /\ UNCHANGED <<p, m, tables, cnt, sum, search_results, pc>>

\* The file is parsed, and its programs shuffled if random: Files holds every
\* order.
OpenFile(content) ==
  /\ NextFile
  /\ programs' = content
  /\ p' = 1
  /\ cnt' = [Zero EXCEPT !.total = Len(content)]
  /\ day' = NoHashes
  /\ read' = [range |-> read.range \o content, day |-> content]
  /\ pc' = "programs"
  /\ UNCHANGED <<filter, file_list, it, missing_files, corrupt_files, m, total>>
  /\ UNCHANGED <<context_added, total_context_added, sum, search_results>>
  /\ UNCHANGED <<excerpts, random_excerpts>>

NextProgram == pc = "programs" /\ p <= Len(programs)

SkipProgram ==
  /\ NextProgram
  /\ ~Selected(programs[p])
  /\ p' = p + 1
  /\ UNCHANGED <<filter, files, m, tables, cnt, sum, search_results, pc>>

ProgramWithoutMatch ==
  /\ NextProgram
  /\ Selected(programs[p])
  /\ programs[p].matches = <<>>
  /\ cnt' = [cnt EXCEPT !.selected = @ + 1]
  /\ p' = p + 1
  /\ UNCHANGED <<filter, files, m, tables, sum, search_results, pc>>

ProgramWithMatches ==
  /\ NextProgram
  /\ Selected(programs[p])
  /\ programs[p].matches # <<>>
  /\ cnt' = [cnt EXCEPT !.selected = @ + 1, !.programs = @ + 1,
                        !.matches = @ + Len(programs[p].matches)]
  /\ context_added' = FALSE
  /\ total_context_added' = FALSE
  /\ m' = 1
  /\ pc' = "matches"
  /\ UNCHANGED <<filter, files, p, day, total, excerpts, random_excerpts>>
  /\ UNCHANGED <<sum, search_results>>

\* In random order the first excerpts are the random ones, written at once.
WritesExcerpt == random /\ Len(excerpts) < num_excerpts

Examine ==
  /\ pc = "matches"
  /\ m <= Len(programs[p].matches)
  /\ LET match == programs[p].matches[m]
         isNew == IsNew(match, day)
         isTotallyNew == isNew /\ IsNew(match, total)
         isPrinted == isTotallyNew /\ WritesExcerpt
     IN  /\ day' = Enter(match, day)
         /\ total' = Enter(match, total)
         /\ context_added' = (context_added \/ isNew)
         /\ cnt' = IF isNew /\ ~context_added THEN [cnt EXCEPT !.contexts = @ + 1] ELSE cnt
         /\ total_context_added' = (total_context_added \/ isTotallyNew)
         /\ sum' = IF isTotallyNew /\ ~total_context_added
                   THEN [sum EXCEPT !.contexts = @ + 1] ELSE sum
         /\ excerpts' = IF isTotallyNew THEN Append(excerpts, match) ELSE excerpts
         /\ random_excerpts' = IF isPrinted THEN Append(random_excerpts, match)
                               ELSE random_excerpts
  /\ m' = m + 1
  /\ UNCHANGED <<filter, files, p, search_results, pc>>

EndOfProgram ==
  /\ pc = "matches"
  /\ m > Len(programs[p].matches)
  /\ p' = p + 1
  /\ pc' = "programs"
  /\ UNCHANGED <<filter, files, m, tables, cnt, sum, search_results>>

EndOfFile ==
  /\ pc = "programs"
  /\ p > Len(programs)
  /\ sum' = [f \in DOMAIN sum |-> IF f = "contexts" THEN sum[f] ELSE sum[f] + cnt[f]]
  /\ search_results' = Append(search_results, [dt |-> file_list[it], cnt |-> cnt])
  /\ programs' = <<>>
  /\ it' = it + 1
  /\ pc' = "files"
  /\ UNCHANGED <<filter, file_list, missing_files, corrupt_files, read, p, m, tables, cnt>>

\* The number of excerpts that are written.
Fewer(n) == IF num_excerpts < n THEN num_excerpts ELSE n

\* The rows are sorted by date; excerpts not yet written are drawn at random.
Finish ==
  /\ pc = "files"
  /\ it > Len(file_list)
  /\ search_results' \in {rows \in Filter!Arrangements(search_results) : Ascending(DatesOf(rows))}
  /\ IF random
     THEN UNCHANGED <<excerpts, random_excerpts>>
     ELSE /\ excerpts' \in Filter!Arrangements(excerpts)
          /\ random_excerpts' = SubSeq(excerpts', 1, Fewer(Len(excerpts)))
  /\ pc' = "output"
  /\ UNCHANGED <<filter, files, p, m, cnt, sum>>
  /\ UNCHANGED <<day, total, context_added, total_context_added>>

\* The name of the output file begins with search_results.front(): without a
\* row the process dies here, before the missing files are listed.
Output ==
  /\ pc = "output"
  /\ pc' = IF search_results = <<>> THEN "crashed" ELSE "done"
  /\ UNCHANGED <<filter, files, p, m, tables, cnt, sum, search_results>>

Next ==
  \/ FilterStep \/ MissingFile \/ CorruptFile \/ \E content \in Files : OpenFile(content)
  \/ SkipProgram \/ ProgramWithoutMatch \/ ProgramWithMatches
  \/ Examine \/ EndOfProgram \/ EndOfFile
  \/ Finish \/ Output

Spec == Init /\ [][Next]_vars
------------------------------------------------------------------------------
\* The sum of a column.
Column(rows, f) == SumSeq([k \in DOMAIN rows |-> rows[k].cnt[f]])

\* Each file passed is counted in a row, listed as missing or listed as
\* corrupt, and in one of the three only.  The rows come out in the order of
\* the dates, whatever the order the files were read in; only without any row
\* does the process die.  The grand total is their sum, but for the contexts: a
\* context of the range is a context of its day.
RowsAccountForTheRange ==
  LET rows == DatesOf(search_results)
      listed == rows \o missing_files \o corrupt_files
  IN  /\ pc \notin {"programs", "matches"} =>
           /\ IsInjective(listed)
           /\ ToSet(listed) = {file_list[k] : k \in 1..(it - 1)}
           /\ \A f \in DOMAIN sum \ {"contexts"} : sum[f] = Column(search_results, f)
           /\ sum.contexts <= Column(search_results, "contexts")
           /\ Column(search_results, "contexts") > 0 <=> sum.contexts > 0
      /\ pc \in {"output", "done"} => Ascending(rows)
      /\ pc = "crashed" => ToSet(missing_files) \cup ToSet(corrupt_files) = query.dates

\* "only add excerpts with new completely new hashes": no two excerpts share
\* the text to their left or to their right, and every context of the range
\* has an excerpt that shows it.  As many are written to the file of random
\* excerpts as were asked for, if there are as many, and none twice.
ExcerptsAreNew ==
  /\ AllUnlike(excerpts)
  /\ sum.contexts <= Len(excerpts)
  /\ pc \in {"output", "done"} =>
       /\ Len(random_excerpts) = Fewer(Len(excerpts))
       /\ ToSet(random_excerpts) \subseteq ToSet(excerpts)
       /\ IsInjective(random_excerpts)

\* The matches found in programs, of the selected ones alone.
FoundIn(ps) == [k \in DOMAIN ps |-> IF Selected(ps[k]) THEN ps[k].matches ELSE <<>>]

\* At the end of a file its row counts the contexts of the file by themselves,
\* and the grand total counts those of all the files in the order they were
\* read: "context is distinct hash AND distinct program".
ContextsAreDistinct ==
  pc = "files" =>
    /\ sum.contexts = Cardinality(ContextsOf(FoundIn(read.range)))
    /\ search_results # <<>> =>
         search_results[Len(search_results)].cnt.contexts =
           Cardinality(ContextsOf(FoundIn(read.day)))

\* A title is selected if and only if it begins with some name of the list.
SelectsByPrefix == Filter!SelectsByPrefix
=============================================================================
