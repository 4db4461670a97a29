------------------------- MODULE NearSearchProgram -------------------------
(***************************************************************************)
(* near_search: one run of the CGI program over a range of dates.  It      *)
(* calls near, here the steps of NearSearch, for every program of every    *)
(* file, and counts by day and in total the programs with a hit and the    *)
(* hits of either expression.  The date of a row is not read off the file  *)
(* but counted along, on three paths: a file that is parsed, one that      *)
(* cannot be parsed, and one that is not there.                            *)
(*                                                                         *)
(* A program is the two lists evaluate_expression returns for it.          *)
(***************************************************************************)
EXTENDS NearSearch, FiniteSets, Sums

CONSTANT Ranges  (* The files of a range of dates, one after the other. *)

Day(outcome, content) == [outcome |-> outcome, programs |-> content]
Outcomes == {"missing", "corrupt", "parsed"}

ASSUME RangesAssumption ==
  Ranges \subseteq Seq([outcome : Outcomes, programs : Seq(Inputs \X Inputs)])

VARIABLES
  files,          (* The range that is searched.                          *)
  same,           (* Both search strings are one: near has one result     *)
                  (* list for the two of them.                            *)
  it, prog,       (* The file and the program at hand.                    *)
  current_date,
  cnt, sum,       (* The counts of the day and of the range.              *)
  rows, corrupt_files,
  phase           (* "files", "programs", "near" or "done".               *)

nearVars == <<vars, same>>
fileVars == <<files, it, prog, current_date, rows, corrupt_files>>
programVars == <<nearVars, fileVars, cnt, sum, phase>>

Zero == [programs |-> 0, matches01 |-> 0, matches02 |-> 0, total |-> 0]
programs == files[it].programs

ProgramInit ==
  /\ files \in Ranges
  /\ same \in BOOLEAN
  /\ same => \A d \in DOMAIN files : \A k \in DOMAIN files[d].programs :
               files[d].programs[k][1] = files[d].programs[k][2]
  /\ distance \in Distances
  /\ a = <<>> /\ b = <<>> /\ p = 1 /\ q = 1 /\ c1 = <<>> /\ c2 = <<>>
  /\ pc = "done"
  /\ it = 1 /\ prog = 1 /\ current_date = 1
  /\ cnt = Zero /\ sum = Zero
  /\ rows = <<>> /\ corrupt_files = <<>>
  /\ phase = "files"

IsNextFile(outcome) == phase = "files" /\ it <= Len(files) /\ files[it].outcome = outcome

MissingFile ==
  /\ IsNextFile("missing")
  /\ it' = it + 1
  /\ current_date' = current_date + 1
  /\ UNCHANGED <<nearVars, files, prog, rows, corrupt_files, cnt, sum, phase>>

\* Mutant: the continue leaves out the end of the loop.
CorruptFileNoDate ==
  /\ IsNextFile("corrupt")
  /\ it' = it + 1
  /\ corrupt_files' = Append(corrupt_files, it)
  /\ UNCHANGED <<nearVars, files, prog, current_date, rows, cnt, sum, phase>>

CorruptFile ==
  /\ IsNextFile("corrupt")
  /\ it' = it + 1
  /\ current_date' = current_date + 1
  /\ corrupt_files' = Append(corrupt_files, it)
  /\ UNCHANGED <<nearVars, files, prog, rows, cnt, sum, phase>>

\* Mutant: the counts of the day before are kept.
OpenFileKeepsCounts ==
  /\ IsNextFile("parsed")
  /\ prog' = 1
  /\ cnt' = [cnt EXCEPT !.total = Len(programs)]
  /\ phase' = "programs"
  /\ UNCHANGED <<nearVars, files, it, current_date, rows, corrupt_files, sum>>

OpenFile ==
  /\ IsNextFile("parsed")
  /\ prog' = 1
  /\ cnt' = [Zero EXCEPT !.total = Len(programs)]
  /\ phase' = "programs"
  /\ UNCHANGED <<nearVars, files, it, current_date, rows, corrupt_files, sum>>

\* near is called.
Call ==
  /\ phase = "programs"
  /\ prog <= Len(programs)
  /\ a' = programs[prog][1]
  /\ b' = programs[prog][2]
  /\ p' = 1 /\ q' = 1 /\ c1' = <<>> /\ c2' = <<>>
  /\ pc' = "start"
  /\ phase' = "near"
  /\ UNCHANGED <<distance, same, fileVars, cnt, sum>>

NearStep ==
  /\ phase = "near"
  /\ Next
  /\ UNCHANGED <<same, fileVars, cnt, sum, phase>>

\* The sizes of the two result lists, which are one when the strings are.
hits01 == IF same THEN Len(c1) + Len(c2) ELSE Len(c1)
hits02 == IF same THEN Len(c1) + Len(c2) ELSE Len(c2)

\* near has returned.  One excerpt is kept for each hit of the first list.
CountProgram ==
  /\ phase = "near"
  /\ pc = "done"
  /\ cnt' = IF hits01 > 0 \/ hits02 > 0
            THEN [cnt EXCEPT !.programs = @ + 1,
                             !.matches01 = @ + hits01, !.matches02 = @ + hits02]
            ELSE cnt
  /\ prog' = prog + 1
  /\ phase' = "programs"
  /\ UNCHANGED <<nearVars, files, it, current_date, rows, corrupt_files, sum>>

EndOfFile ==
  /\ phase = "programs"
  /\ prog > Len(programs)
  /\ sum' = [f \in DOMAIN sum |-> sum[f] + cnt[f]]
  /\ rows' = Append(rows, [dt |-> current_date, cnt |-> cnt])
  /\ it' = it + 1
  /\ current_date' = current_date + 1
  /\ phase' = "files"
  /\ UNCHANGED <<nearVars, files, prog, corrupt_files, cnt>>

GrandTotal ==
  /\ phase = "files"
  /\ it > Len(files)
  /\ phase' = "done"
  /\ UNCHANGED <<nearVars, fileVars, cnt, sum>>

ProgramNext ==
  MissingFile \/ CorruptFile \/ OpenFile \/ Call \/ NearStep \/ CountProgram \/ EndOfFile
    \/ GrandTotal

ProgramSpec == ProgramInit /\ [][ProgramNext]_programVars
------------------------------------------------------------------------------
\* The days are those read so far whose file came out so, in order.
AreDays(days, outcome) ==
  /\ {days[k] : k \in DOMAIN days} = {d \in 1..(it - 1) : files[d].outcome = outcome}
  /\ \A j, k \in DOMAIN days : j < k => days[j] < days[k]

\* A row shows the date of its own file, and a file that cannot be parsed is
\* listed: the date that is counted along keeps pace on every path.
RowsAreDated ==
  /\ AreDays([k \in DOMAIN rows |-> rows[k].dt], "parsed")
  /\ AreDays(corrupt_files, "corrupt")

\* The positions of one list of a program that one of the other list is near,
\* and how many there are; matches of the second at one position count once in
\* distinct02.
NearIn(pair, mine, other) ==
  {k \in DOMAIN pair[mine] : \E j \in DOMAIN pair[other] : Within(pair[mine][k], pair[other][j])}
Measure(pair) ==
  [all |-> 1,
   programs |-> IF NearIn(pair, 1, 2) # {} THEN 1 ELSE 0,
   near01 |-> Cardinality(NearIn(pair, 1, 2)),
   near02 |-> Cardinality(NearIn(pair, 2, 1)),
   distinct02 |-> Cardinality({pair[2][k] : k \in NearIn(pair, 2, 1)})]
Measures == {"all", "programs", "near01", "near02", "distinct02"}

\* The sums over the first n programs of a day, and over the first n days.
MeasuredPrograms(d, n) ==
  [x \in Measures |-> SumSeq([k \in 1..n |-> Measure(files[d].programs[k])[x]])]
MeasuredDay(d) ==
  MeasuredPrograms(d, IF files[d].outcome = "parsed" THEN Len(files[d].programs) ELSE 0)
MeasuredDays(n) == [x \in Measures |-> SumSeq([d \in 1..n |-> MeasuredDay(d)[x]])]

\* Counts say how many programs have a near pair, how many matches of the
\* first expression are near one of the second, and at least how many the
\* other way round: a match of the second that stays in reach is counted again
\* for each match of the first.  One string for both counts all hits twice.
CountNearPairs(counts, measured) ==
  LET least == measured.distinct02
      most == measured.near01 + measured.near02
  IN  /\ counts.programs = measured.programs
      /\ ~same => counts.matches01 = measured.near01 /\ counts.matches02 \in least..most
      /\ same => /\ counts.matches01 = counts.matches02
                 /\ counts.matches01 \in (measured.near01 + least)..(measured.near01 + most)

\* The grand total is about the programs of all files that were read, and no
\* others.
GrandTotalsMeanNearPairs ==
  phase = "done" =>
    /\ CountNearPairs(sum, MeasuredDays(Len(files)))
    /\ sum.total = MeasuredDays(Len(files)).all

\* Each call of near starts afresh, and implements the filter that the operator
\* @ promises; between calls nothing is added to its lists.
EveryCallImplementsFilter ==
  [][IF pc' = "start" /\ pc = "done"
     THEN a' \in Inputs /\ b' \in Inputs /\ p' = 1 /\ c1' = <<>>
     ELSE Promise!Next \/ UNCHANGED Promise!vars]_programVars
=============================================================================
