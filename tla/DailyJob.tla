------------------------------ MODULE DailyJob ------------------------------
(***************************************************************************)
(* The daily job republican_candidates.js and what it shares with others.  *)
(* Every day it posts a form to multiple_search, reads the file the page   *)
(* links to, mails the counts, and starts to copy the file to where the    *)
(* page current-time-series.html looks for the newest one.                 *)
(*                                                                         *)
(* The job's searches and those of visitors run side by side in one        *)
(* directory.  A search names its file by the first date it has a row for  *)
(* and the first value of rand(), seeded with the second in which it comes *)
(* to write.  A search, or a job, may die at any step; nothing restarts    *)
(* them.                                                                   *)
(*                                                                         *)
(* Whether the folder the newest file goes to is there, when the job looks *)
(* for it, is left open.                                                   *)
(*                                                                         *)
(* A file is a number of parts, each standing for a buffer: two processes  *)
(* that have one file open overwrite each other's parts at equal offsets.  *)
(***************************************************************************)
EXTENDS Integers, Sequences

CONSTANTS
  Days,        (* The days on which the job runs, 1, 2, ...               *)
  Visitors,    (* Searches that are started from the browser.             *)
  FirstDate,   (* The first date each search finds a file of.             *)
  DayOf,       (* The day of each second of the clock, a sequence.        *)
  Parts        (* The number of parts of a file.                          *)

Searches == Days \cup Visitors     \* The search of a job goes by its day.

ASSUME DaysAssumption == Days \subseteq Nat \ {0} /\ Days \cap Visitors = {}
ASSUME DayOfAssumption ==
  /\ DayOf \in Seq(Days)
  /\ DayOf # <<>>
  /\ \A j, k \in 1..Len(DayOf) : j < k => DayOf[j] <= DayOf[k]
ASSUME PartsAssumption == Parts \in Nat \ {0}

VARIABLES
  second,   (* The clock, at most Len(DayOf): a bound.                    *)
  search,   (* "idle", "running", "writing" or "ended".                   *)
  id,       (* random_id of each search: the second of srand, or 0.       *)
  written,  (* The number of parts each search has written.               *)
  linked,   (* The searches whose page holds the link to their data.      *)
  visual,   (* Those whose page also holds the link to the visualization. *)
  tmp,      (* The files in tmp/ by name.                                 *)
  job,      (* "asleep", "posted", "getting", "got", "mailed" (and the    *)
            (* copy started), "unstored" (mailed, and nothing stored),    *)
            (* "over" or "dead".                                          *)
  counts,   (* The data each job has got and mails.                       *)
  copied,   (* The number of parts each job has copied.                   *)
  daily,    (* The files in tmp/daily_2016_republicans/ by day.           *)
  current_js, (* The data in current.js there.                           *)
  page      (* current-time-series.html: the date it asks for, and, for   *)
            (* the properties, the days whose files were there when it    *)
            (* was opened.                                                *)

searchVars == <<search, id, written, linked, visual, tmp>>
jobVars == <<job, counts, copied, daily, current_js>>
vars == <<second, searchVars, jobVars, page>>

Nobody == 0                                   \* Nobody wrote this part.
Empty == [k \in 1..Parts |-> Nobody]
OwnData(s) == [k \in 1..Parts |-> s]
Absent == <<>>
EndsBefore(file, k) == \A j \in k..Parts : file[j] = Nobody

\* Mutant: the file is named by the date alone.
NameWithoutId(s) == <<FirstDate[s], 0>>
Name(s) == <<FirstDate[s], id[s]>>

Init ==
  /\ second = 1
  /\ search = [s \in Searches |-> IF s \in Visitors THEN "running" ELSE "idle"]
  /\ id = [s \in Searches |-> 0]
  /\ written = [s \in Searches |-> 0]
  /\ linked = {}
  /\ visual = {}
  /\ tmp = [n \in {FirstDate[s] : s \in Searches} \X (0..Len(DayOf)) |-> Absent]
  /\ \E past \in SUBSET {d \in Days : d < DayOf[1]} :  \* the jobs that came to their end
       /\ job = [d \in Days |-> IF d \in past THEN "over" ELSE "asleep"]
       /\ counts = [d \in Days |-> IF d \in past THEN OwnData(d) ELSE Absent]
       /\ daily = counts
  /\ copied = [d \in Days |-> 0]
  /\ current_js = Absent
  /\ page = [state |-> "closed", date |-> 0, there |-> {}]

Tick ==
  /\ second < Len(DayOf)
  /\ second' = second + 1
  /\ UNCHANGED <<searchVars, jobVars, page>>
------------------------------------------------------------------------------
(* multiple_search                                                         *)

\* The search is over: srand(time(NULL)), and the file is opened, which
\* empties it.
OpenFile(s) ==
  /\ search[s] = "running"
  /\ search' = [search EXCEPT ![s] = "writing"]
  /\ id' = [id EXCEPT ![s] = second]
  /\ tmp' = [tmp EXCEPT ![Name(s)'] = Empty]
  /\ UNCHANGED <<second, written, linked, visual, jobVars, page>>

WritePart(s) ==
  /\ search[s] = "writing"
  /\ written[s] < Parts
  /\ written' = [written EXCEPT ![s] = @ + 1]
  /\ tmp' = [tmp EXCEPT ![Name(s)][written'[s]] = s]
  /\ UNCHANGED <<second, search, id, linked, visual, jobVars, page>>

\* The file is closed, then the link to it is printed and flushed.
PrintLink(s) ==
  /\ search[s] = "writing"
  /\ written[s] = Parts
  /\ s \notin linked
  /\ linked' = linked \cup {s}
  /\ UNCHANGED <<second, search, id, written, visual, tmp, jobVars, page>>

\* The link to the visualization is printed and flushed, and the page ends.
PrintVisualization(s) ==
  /\ search[s] = "writing"
  /\ s \in linked
  /\ search' = [search EXCEPT ![s] = "ended"]
  /\ visual' = visual \cup {s}
  /\ UNCHANGED <<second, id, written, linked, tmp, jobVars, page>>

\* The process is killed: its page ends with the links flushed so far.
SearchDies(s) ==
  /\ search[s] \in {"running", "writing"}
  /\ search' = [search EXCEPT ![s] = "ended"]
  /\ UNCHANGED <<second, id, written, linked, visual, tmp, jobVars, page>>

SearchStep(s) == OpenFile(s) \/ WritePart(s) \/ PrintLink(s) \/ PrintVisualization(s)
------------------------------------------------------------------------------
(* republican_candidates.js                                                *)

JobGoes(d, from, to) == job[d] = from /\ job' = [job EXCEPT ![d] = to]

Post(d) ==
  /\ DayOf[second] = d
  /\ JobGoes(d, "asleep", "posted")
  /\ search' = [search EXCEPT ![d] = "running"]
  /\ UNCHANGED <<second, id, written, linked, visual, tmp, counts, copied, daily, current_js, page>>

\* Mutant: the job waits for a link.
ResponseEndsLinked(d) ==
  /\ d \in linked
  /\ JobGoes(d, "posted", "getting")
  /\ UNCHANGED <<second, searchVars, counts, copied, daily, current_js, page>>

\* res.on('end'): the page is parsed.  Without the first link the job goes on to get
\* ".../undefined" and throws on the first line of the error page.
ResponseEnds(d) ==
  /\ search[d] = "ended"
  /\ JobGoes(d, "posted", IF d \in linked THEN "getting" ELSE "dead")
  /\ UNCHANGED <<second, searchVars, counts, copied, daily, current_js, page>>

\* The file is fetched; a line that is cut off may name no candidate, and
\* throws.
GetData(d) ==
  /\ job[d] = "getting"
  /\ counts' = [counts EXCEPT ![d] = tmp[Name(d)]]
  /\ \/ JobGoes(d, "getting", "got")
     \/ /\ Nobody \in {counts'[d][k] : k \in 1..Parts} /\ counts'[d] # Empty
        /\ JobGoes(d, "getting", "dead")
  /\ UNCHANGED <<second, searchVars, copied, daily, current_js, page>>

\* The last function of the waterfall: the copy is only started, current.js is
\* written and the mail sent, with a link to the copy, without waiting for it.
Mail(d) ==
  /\ d \in visual
  /\ tmp[Name(d)] # Absent
  /\ JobGoes(d, "got", "mailed")
  /\ current_js' = tmp[Name(d)]
  /\ UNCHANGED <<second, searchVars, counts, copied, daily, page>>

\* Without the second link, or without the folder, nothing is stored, and the
\* mail is sent all the same, with a link to what the second link names.
MailUnstored(d) ==
  /\ JobGoes(d, "got", "unstored")
  /\ UNCHANGED <<second, searchVars, counts, copied, daily, current_js, page>>

OpenCopy(d) ==
  /\ job[d] = "mailed"
  /\ daily[d] = Absent
  /\ daily' = [daily EXCEPT ![d] = Empty]
  /\ UNCHANGED <<second, searchVars, job, counts, copied, current_js, page>>

\* Mutant: one part is thought to be all.
CopyFirstPart(d) ==
  /\ job[d] = "mailed"
  /\ daily[d] # Absent
  /\ copied[d] = 0
  /\ JobGoes(d, "mailed", "over")
  /\ daily' = [daily EXCEPT ![d][1] = tmp[Name(d)][1]]
  /\ UNCHANGED <<second, searchVars, counts, copied, current_js, page>>

CopyPart(d) ==
  LET k == copied[d] + 1
  IN  /\ job[d] = "mailed"
      /\ daily[d] # Absent
      /\ k <= Parts /\ ~EndsBefore(tmp[Name(d)], k)
      /\ daily' = [daily EXCEPT ![d][k] = tmp[Name(d)][k]]
      /\ copied' = [copied EXCEPT ![d] = k]
      /\ UNCHANGED <<second, searchVars, job, counts, current_js, page>>

\* The end of the file is read, and nothing is left to do.
EndCopy(d) ==
  /\ job[d] = "mailed"
  /\ daily[d] # Absent
  /\ copied[d] = Parts \/ EndsBefore(tmp[Name(d)], copied[d] + 1)
  /\ JobGoes(d, "mailed", "over")
  /\ UNCHANGED <<second, searchVars, counts, copied, daily, current_js, page>>

\* Nobody listens for the errors of a request or a stream: they end the job.
JobDies(d) ==
  /\ job[d] \in {"posted", "getting", "got", "mailed"}
  /\ job' = [job EXCEPT ![d] = "dead"]
  /\ UNCHANGED <<second, searchVars, counts, copied, daily, current_js, page>>

JobStep(d) ==
  \/ ResponseEnds(d) \/ GetData(d) \/ Mail(d) \/ MailUnstored(d)
  \/ OpenCopy(d) \/ CopyPart(d) \/ EndCopy(d)
------------------------------------------------------------------------------
(* current-time-series.html                                                *)

OpenPage ==
  /\ page.state = "closed"
  /\ page' = [state |-> "asking", date |-> DayOf[second],
               there |-> {d \in Days : daily[d] # Absent}]
  /\ UNCHANGED <<second, searchVars, jobVars>>

\* Mutant: the day before is asked for, whatever the status.
AskDayBeforeAnyway ==
  /\ page.state = "asking"
  /\ page.date \in Days
  /\ page' = [page EXCEPT !.date = @ - 1]
  /\ UNCHANGED <<second, searchVars, jobVars>>

\* Status 404: the day before is asked for, down to the first day, a bound.
AskDayBefore ==
  /\ page.state = "asking"
  /\ page.date \in Days
  /\ daily[page.date] = Absent
  /\ page' = [page EXCEPT !.date = @ - 1]
  /\ UNCHANGED <<second, searchVars, jobVars>>

\* Status 200: the graph is loaded with the file of that day.
ShowFile ==
  /\ page.state = "asking"
  /\ page.date \in Days
  /\ daily[page.date] # Absent
  /\ page' = [page EXCEPT !.state = "shown"]
  /\ UNCHANGED <<second, searchVars, jobVars>>

Next ==
  \/ Tick
  \/ \E s \in Searches : SearchStep(s) \/ SearchDies(s)
  \/ \E d \in Days : Post(d) \/ JobStep(d) \/ JobDies(d)
  \/ OpenPage \/ AskDayBefore \/ ShowFile

Spec == Init /\ [][Next]_vars

\* The server runs the searches to their end, and node its callbacks.
Fairness ==
  /\ \A s \in Searches : WF_vars(SearchStep(s))
  /\ \A d \in Days : WF_vars(JobStep(d))

FairSpec == Spec /\ Fairness
------------------------------------------------------------------------------
\* Some other search came to write in the same second, and found the same
\* first date: whatever dates and strings it was asked for.
Clash(s) ==
  id[s] # 0 /\ \E t \in Searches \ {s} : id[t] = id[s] /\ FirstDate[t] = FirstDate[s]

\* What a job publishes, in the mail, in current.js and, once the copy is over,
\* in the file of its day, is the whole result of its own search, however many
\* searches run beside it and whichever of them die; only a search that comes
\* to write in the same second with the same first date can come between.
OnlyOwnData ==
  /\ current_js # Absent => \E d \in Days : current_js = OwnData(d) \/ Clash(d)
  /\ \A d \in Days :
       /\ job[d] \in {"mailed", "unstored", "over"} => counts[d] = OwnData(d) \/ Clash(d)
       /\ job[d] = "over" => daily[d] = OwnData(d) \/ Clash(d)

\* Of the files that were there when the page was opened it shows the newest
\* or one that has come since and is newer still, although a file is looked for
\* day by day while jobs go on; and it never shows part of a file unless the
\* job of that day is still at its copy or died of it.
PageShowsNewestFile ==
  [][page'.state = "shown" /\ page.state = "asking" =>
       /\ \A d \in page.there : d <= page.date
       /\ \/ daily[page.date] = OwnData(page.date)
          \/ job[page.date] \in {"mailed", "dead"} /\ daily[page.date] # Absent
          \/ Clash(page.date)]_vars

\* The file the link in a job's mail names.
LinkedFile(d) == IF job[d] = "unstored" THEN tmp[Name(d)] ELSE daily[d]

\* A mail is sent before the file it links to need be there, but the file
\* comes, whole, unless the job dies, or its search had died between its two
\* links: such a mail is sent too, and its link never works.
MailedLinkWorks ==
  \A d \in Days :
    job[d] \in {"mailed", "unstored"} ~>
      LinkedFile(d) = OwnData(d) \/ job[d] = "dead" \/ Clash(d) \/ d \notin visual

\* A job that posted its search comes to an end: it is not kept waiting by a
\* search that dies.
EveryJobEnds == \A d \in Days : job[d] = "posted" ~> job[d] \in {"over", "unstored", "dead"}
=============================================================================
