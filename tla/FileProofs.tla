----------------------------- MODULE FileProofs -----------------------------
(***************************************************************************)
(* What is in the files.                                                   *)
(*                                                                         *)
(* What a job publishes is its own, for all days, visitors, first dates,   *)
(* clocks and sizes of files.  The file a search writes is its own at      *)
(* every step, or the search has clashed with another, and a clash is for  *)
(* ever; so whatever is read of the file once it is linked is the whole    *)
(* of it.                                                                  *)
(*                                                                         *)
(* What parse_programs reads is what was written, for all files and sizes  *)
(* of the buffer: between two programs the stream stands behind a C3, and  *)
(* the programs read are those of the marks in front of it.  The scan of a *)
(* text stands at a symbol that stays, so what is stripped behind it is    *)
(* settled.                                                                *)
(***************************************************************************)
EXTENDS DailyJob, ProgramFile, FiniteLemmas

------------------------------------------------------------------------------
(* The files of searches. *)

\* A file of which s has put the first n parts.
FirstParts(s, n) == [k \in 1..Parts |-> IF k <= n THEN s ELSE Nobody]

TypeInv ==
  /\ second \in 1..Len(DayOf)
  /\ search \in [Searches -> {"idle", "running", "writing", "ended"}]
  /\ id \in [Searches -> 0..Len(DayOf)]
  /\ written \in [Searches -> 0..Parts]
  /\ linked \subseteq Searches
  /\ visual \subseteq Searches
  /\ DOMAIN tmp = {FirstDate[s] : s \in Searches} \X (0..Len(DayOf))
  /\ job \in [Days -> {"asleep", "posted", "getting", "got", "mailed", "unstored", "over", "dead"}]
  /\ DOMAIN counts = Days
  /\ copied \in [Days -> 0..Parts]
  /\ DOMAIN daily = Days

\* A search has a number once it writes, and a link once all is written.
SearchInv ==
  \A s \in Searches :
    /\ search[s] \in {"idle", "running"} => id[s] = 0 /\ written[s] = 0
    /\ search[s] = "writing" => id[s] # 0
    /\ s \in linked => search[s] \in {"writing", "ended"} /\ id[s] # 0 /\ written[s] = Parts

\* The file of a search holds what it has written, and nothing else.
FileInv ==
  \A s \in Searches : id[s] # 0 => tmp[Name(s)] = FirstParts(s, written[s]) \/ Clash(s)

\* A job goes on only with the link, and copies its own file from the front.
JobInv ==
  \A d \in Days :
    /\ job[d] = "asleep" => search[d] = "idle"
    /\ job[d] \in {"asleep", "posted", "getting", "got", "unstored"} => daily[d] = Absent /\ copied[d] = 0
    /\ job[d] \in {"getting", "got", "mailed"} => d \in linked
    /\ job[d] \in {"got", "mailed", "unstored", "over"} => counts[d] = OwnData(d) \/ Clash(d)
    /\ job[d] = "mailed" => \/ daily[d] = Absent /\ copied[d] = 0
                            \/ daily[d] = FirstParts(d, copied[d])
                            \/ Clash(d)
    /\ job[d] = "over" => daily[d] = OwnData(d) \/ Clash(d)

CurrentInv == current_js # Absent => \E d \in Days : current_js = OwnData(d) \/ Clash(d)

\* The days of jobs are over or today, and what the page could have found is
\* there, none of it newer than the file it asks for.
PageInv ==
  /\ \A d \in Days : job[d] # "asleep" => d <= DayOf[second]
  /\ \A d \in Days : daily[d] # Absent => DOMAIN daily[d] = 1..Parts
  /\ page.there \subseteq {d \in Days : daily[d] # Absent}
  /\ page.date \in Int
  /\ page = [state |-> page.state, date |-> page.date, there |-> page.there]
  /\ page.state = "asking" => \A d \in page.there : d <= page.date

Inv == TypeInv /\ SearchInv /\ FileInv /\ JobInv /\ CurrentInv /\ PageInv

LEMMA DayFacts ==
  /\ Len(DayOf) \in Nat \ {0}
  /\ Parts \in Nat \ {0}
  /\ Days \subseteq Searches
  /\ \A d \in Days : d \in Nat \ {0}
<1>1. DayOf \in Seq(Days) /\ DayOf # <<>>
  BY DayOfAssumption
<1>2. Len(DayOf) \in Nat \ {0}
  BY <1>1, EmptySeq
<1> QED  BY <1>2, DaysAssumption, PartsAssumption DEF Searches

LEMMA AllPartsAreOwnData == \A s : FirstParts(s, Parts) = OwnData(s)
  BY PartsAssumption DEF FirstParts, OwnData

LEMMA NoPartsAreEmpty == \A s : FirstParts(s, 0) = Empty
  BY PartsAssumption DEF FirstParts, Empty

LEMMA SomethingIsThere == \A s, n : FirstParts(s, n) # Absent
<1> SUFFICES ASSUME NEW s, NEW n, FirstParts(s, n) = Absent PROVE FALSE
  OBVIOUS
<1>1. DOMAIN FirstParts(s, n) = 1..Parts
  BY DEF FirstParts
<1>2. DOMAIN Absent = {}
  BY DEF Absent
<1> QED  BY <1>1, <1>2, PartsAssumption

LEMMA NextPart ==
  ASSUME NEW s, NEW n \in Nat
  PROVE  [FirstParts(s, n) EXCEPT ![n + 1] = s] = FirstParts(s, n + 1)
<1> DEFINE f == [FirstParts(s, n) EXCEPT ![n + 1] = s]
<1>1. \A k \in 1..Parts : f[k] = IF k <= n + 1 THEN s ELSE Nobody
  BY PartsAssumption DEF FirstParts
<1>2. f = [k \in 1..Parts |-> f[k]]
  BY DEF FirstParts
<1> HIDE DEF f
<1>3. f = [k \in 1..Parts |-> IF k <= n + 1 THEN s ELSE Nobody]
  BY <1>1, <1>2
<1> QED  BY <1>3 DEF f, FirstParts

\* The file of a search that is linked, and has not clashed, is whole.
LEMMA LinkedIsWhole ==
  ASSUME Inv, NEW d \in Days, d \in linked
  PROVE  tmp[Name(d)] = OwnData(d) \/ Clash(d)
<1>1. d \in Searches
  BY DayFacts
<1>2. id[d] # 0 /\ written[d] = Parts
  BY <1>1 DEF Inv, SearchInv
<1>3. tmp[Name(d)] = FirstParts(d, Parts) \/ Clash(d)
  BY <1>1, <1>2 DEF Inv, FileInv
<1> QED  BY <1>3, AllPartsAreOwnData

LEMMA InitInv == Init => Inv
<1> SUFFICES ASSUME Init PROVE Inv
  OBVIOUS
<1> USE DayFacts DEF Init
<1>1. PICK past \in SUBSET {d \in Days : d < DayOf[1]} :
        /\ job = [d \in Days |-> IF d \in past THEN "over" ELSE "asleep"]
        /\ counts = [d \in Days |-> IF d \in past THEN OwnData(d) ELSE Absent]
        /\ daily = counts
  BY Zenon
<1>2. TypeInv
  BY <1>1 DEF TypeInv
<1>3. SearchInv
  BY DEF SearchInv
<1>4. FileInv
  BY DEF FileInv
<1>5. JobInv
  <2>1. \A d \in Days : d \notin Visitors /\ d \in Searches
    BY DaysAssumption
  <2> QED  BY <1>1, <2>1 DEF JobInv
<1>6. PageInv
  <2>1. DayOf[1] \in Nat /\ 1 \in 1..Len(DayOf)
    BY DayOfAssumption
  <2>2. \A d \in Days : daily[d] # Absent => DOMAIN daily[d] = 1..Parts
    BY <1>1 DEF OwnData
  <2>3. \A d \in Days : job[d] # "asleep" => d <= DayOf[second]
    BY <1>1, <2>1
  <2> QED  BY <2>2, <2>3 DEF PageInv
<1> QED  BY <1>2, <1>3, <1>4, <1>5, <1>6 DEF Inv, CurrentInv

\* Clashes are for ever, since a number is given once.
LEMMA ClashStays ==
  ASSUME Inv, [Next]_vars, NEW s \in Searches, Clash(s)
  PROVE  Clash(s)'
<1>1. PICK t \in Searches \ {s} : id[t] = id[s] /\ FirstDate[t] = FirstDate[s]
  BY DEF Clash
<1>2. id[s] # 0 /\ id[t] # 0
  BY <1>1 DEF Clash
<1>3. id'[s] = id[s] /\ id'[t] = id[t]
  <2>1. CASE \E u \in Searches : OpenFile(u)
    <3>1. PICK u \in Searches : OpenFile(u)
      BY <2>1
    <3>2. u # s /\ u # t
      BY <1>1, <1>2, <3>1 DEF OpenFile, Inv, SearchInv
    <3> QED  BY <3>1, <3>2 DEF OpenFile, Inv, TypeInv
  <2>2. CASE UNCHANGED id
    BY <2>2
  <2> QED
    BY <2>1, <2>2
    DEF Next, Tick, SearchStep, WritePart, PrintLink, PrintVisualization, SearchDies, Post, JobStep, ResponseEnds,
        GetData, Mail, MailUnstored, OpenCopy, CopyPart, EndCopy, JobDies, OpenPage, AskDayBefore, ShowFile,
        vars, searchVars, jobVars
<1> QED  BY <1>1, <1>2, <1>3 DEF Clash

\* The steps by what they touch.
ReadersStep(d) == ResponseEnds(d) \/ GetData(d) \/ Mail(d) \/ MailUnstored(d) \/ JobDies(d)
PageStep == OpenPage \/ AskDayBefore \/ ShowFile

LEMMA Steps ==
  ASSUME [Next]_vars
  PROVE  \/ \E s \in Searches : OpenFile(s)
         \/ \E s \in Searches : WritePart(s)
         \/ \E s \in Searches : PrintLink(s)
         \/ \E s \in Searches : PrintVisualization(s)
         \/ \E s \in Searches : SearchDies(s)
         \/ \E d \in Days : Post(d)
         \/ \E d \in Days : ReadersStep(d)
         \/ \E d \in Days : OpenCopy(d)
         \/ \E d \in Days : CopyPart(d)
         \/ \E d \in Days : EndCopy(d)
         \/ Tick \/ PageStep \/ UNCHANGED vars
  BY DEF Next, SearchStep, JobStep, ReadersStep, PageStep

LEMMA TypeStep ==
  ASSUME Inv, [Next]_vars
  PROVE  TypeInv'
<1> USE DayFacts DEF Inv, TypeInv, searchVars, jobVars
<1>1. CASE \E s \in Searches : OpenFile(s)
  BY <1>1 DEF OpenFile
<1>2. CASE \E s \in Searches : WritePart(s)
  BY <1>2 DEF WritePart
<1>3. CASE \E s \in Searches : PrintLink(s)
  BY <1>3 DEF PrintLink
<1>4. CASE \E s \in Searches : SearchDies(s)
  BY <1>4 DEF SearchDies
<1>5. CASE \E d \in Days : Post(d)
  BY <1>5 DEF Post, JobGoes
<1>6. CASE \E d \in Days : ReadersStep(d)
  BY <1>6 DEF ReadersStep, ResponseEnds, GetData, Mail, MailUnstored, JobDies, JobGoes
<1>7. CASE \E d \in Days : OpenCopy(d)
  BY <1>7 DEF OpenCopy
<1>8. CASE \E d \in Days : CopyPart(d)
  BY <1>8, SMTT(30) DEF CopyPart
<1>9. CASE \E d \in Days : EndCopy(d)
  BY <1>9 DEF EndCopy, JobGoes
<1>11. CASE \E s \in Searches : PrintVisualization(s)
  BY <1>11 DEF PrintVisualization
<1>10. CASE Tick \/ PageStep \/ UNCHANGED vars
  BY <1>10 DEF Tick, PageStep, OpenPage, AskDayBefore, ShowFile, vars
<1> QED  BY <1>1, <1>2, <1>3, <1>4, <1>5, <1>6, <1>7, <1>8, <1>9, <1>10, <1>11, Steps

LEMMA SearchInvStep ==
  ASSUME Inv, [Next]_vars
  PROVE  SearchInv'
<1> USE DayFacts DEF Inv, TypeInv, SearchInv, searchVars, jobVars
<1>1. CASE \E s \in Searches : OpenFile(s)
  BY <1>1 DEF OpenFile
<1>2. CASE \E s \in Searches : WritePart(s)
  BY <1>2 DEF WritePart
<1>3. CASE \E s \in Searches : PrintLink(s) \/ PrintVisualization(s)
  BY <1>3 DEF PrintLink, PrintVisualization
<1>4. CASE \E s \in Searches : SearchDies(s)
  BY <1>4 DEF SearchDies
<1>5. CASE \E d \in Days : Post(d)
  <2>1. PICK d \in Days : Post(d)
    BY <1>5
  <2>2. search[d] = "idle" /\ d \in Searches
    BY <2>1 DEF Post, JobGoes, JobInv
  <2> QED  BY <2>1, <2>2 DEF Post
<1>6. CASE UNCHANGED <<search, id, written, linked>>
  BY <1>6
<1> QED
  BY <1>1, <1>2, <1>3, <1>4, <1>5, <1>6, Steps
  DEF ReadersStep, ResponseEnds, GetData, Mail, MailUnstored, JobDies, OpenCopy, CopyPart, EndCopy,
      Tick, PageStep, OpenPage, AskDayBefore, ShowFile, vars

\* Where two searches write to one file they have clashed.
LEMMA FileInvStep ==
  ASSUME Inv, [Next]_vars
  PROVE  FileInv'
<1> SUFFICES ASSUME NEW s \in Searches, id'[s] # 0, ~Clash(s)'
             PROVE  tmp'[Name(s)'] = FirstParts(s, written'[s])
  BY DEF FileInv, FirstParts
<1> USE DayFacts DEF Inv, TypeInv, searchVars, jobVars
<1>0. /\ ~Clash(s)
      /\ id[s] # 0 => tmp[Name(s)] = FirstParts(s, written[s])
  BY ClashStays DEF FileInv
<1>1. CASE \E t \in Searches : OpenFile(t)
  <2>1. PICK t \in Searches : OpenFile(t)
    BY <1>1
  <2>2. /\ id' = [id EXCEPT ![t] = second] /\ written' = written
        /\ tmp' = [tmp EXCEPT ![<<FirstDate[t], second>>] = Empty]
    BY <2>1 DEF OpenFile, Name
  <2>3. <<FirstDate[s], id'[s]>> \in DOMAIN tmp
    BY <2>2
  <2>4. CASE s = t
    <3>1. written[s] = 0
      BY <2>1, <2>4 DEF OpenFile, SearchInv
    <3>2. tmp'[<<FirstDate[s], id'[s]>>] = Empty
      BY <2>2, <2>3, <2>4
    <3> QED  BY <2>2, <3>1, <3>2, NoPartsAreEmpty DEF Name
  <2>5. CASE s # t
    <3>1. id'[s] = id[s] /\ id'[t] = second
      BY <2>2, <2>5
    <3>2. <<FirstDate[s], id[s]>> # <<FirstDate[t], second>>
      BY <2>5, <3>1 DEF Clash
    <3> QED  BY <1>0, <2>2, <2>3, <3>1, <3>2 DEF Name
  <2> QED  BY <2>4, <2>5
<1>2. CASE \E t \in Searches : WritePart(t)
  <2>1. PICK t \in Searches : WritePart(t)
    BY <1>2
  <2>2. /\ id' = id /\ written' = [written EXCEPT ![t] = written[t] + 1]
        /\ tmp' = [tmp EXCEPT ![<<FirstDate[t], id[t]>>] =
                     [tmp[<<FirstDate[t], id[t]>>] EXCEPT ![written[t] + 1] = t]]
        /\ written[t] < Parts /\ id[t] # 0
    BY <2>1 DEF WritePart, Name, SearchInv
  <2>3. <<FirstDate[s], id[s]>> \in DOMAIN tmp
    BY <2>2
  <2>4. CASE s = t
    <3>1. tmp'[<<FirstDate[s], id[s]>>] = [FirstParts(s, written[s]) EXCEPT ![written[s] + 1] = s]
      BY <1>0, <2>2, <2>3, <2>4 DEF Name
    <3>2. [FirstParts(s, written[s]) EXCEPT ![written[s] + 1] = s] = FirstParts(s, written[s] + 1)
      <4>1. written[s] \in Nat
        OBVIOUS
      <4> QED  BY <4>1, NextPart
    <3>3. written'[s] = written[s] + 1
      BY <2>2, <2>4
    <3> QED  BY <2>2, <3>1, <3>2, <3>3 DEF Name
  <2>5. CASE s # t
    <3>1. <<FirstDate[s], id[s]>> # <<FirstDate[t], id[t]>>
      BY <1>0, <2>2, <2>5 DEF Clash
    <3>2. tmp'[<<FirstDate[s], id[s]>>] = tmp[<<FirstDate[s], id[s]>>]
      BY <2>2, <2>3, <3>1
    <3> QED  BY <1>0, <2>2, <2>5, <3>2 DEF Name
  <2> QED  BY <2>4, <2>5
<1>3. CASE UNCHANGED <<id, written, tmp>>
  BY <1>0, <1>3 DEF Name
<1> QED
  BY <1>1, <1>2, <1>3, Steps
  DEF PrintLink, PrintVisualization, SearchDies, Post, ReadersStep, ResponseEnds, GetData, Mail, MailUnstored, JobDies, OpenCopy,
      CopyPart, EndCopy, Tick, PageStep, OpenPage, AskDayBefore, ShowFile, vars

LEMMA JobInvStep ==
  ASSUME Inv, [Next]_vars
  PROVE  JobInv'
<1> USE DayFacts DEF Inv, TypeInv, searchVars, jobVars
<1>0. \A d \in Days : Clash(d) => Clash(d)'
  BY ClashStays
<1>1. CASE \E s \in Searches : OpenFile(s) \/ WritePart(s) \/ PrintLink(s) \/ PrintVisualization(s) \/ SearchDies(s)
  <2>1. PICK s \in Searches : OpenFile(s) \/ WritePart(s) \/ PrintLink(s) \/ PrintVisualization(s) \/ SearchDies(s)
    BY <1>1
  <2>2. /\ UNCHANGED <<job, counts, copied, daily>> /\ linked \subseteq linked'
        /\ \A t \in Searches : search[t] = "idle" => search'[t] = "idle"
    BY <2>1 DEF OpenFile, WritePart, PrintLink, PrintVisualization, SearchDies
  <2> QED  BY <1>0, <2>2 DEF JobInv
<1>2. CASE \E e \in Days : Post(e)
  BY <1>0, <1>2 DEF Post, JobGoes, JobInv
<1>3. CASE \E e \in Days : ReadersStep(e)
  <2>1. PICK e \in Days : ReadersStep(e)
    BY <1>3
  <2>2. CASE ResponseEnds(e)
    BY <1>0, <2>2 DEF ResponseEnds, JobGoes, JobInv
  <2>3. CASE GetData(e)
    <3>1. e \in linked
      BY <2>3 DEF GetData, JobInv
    <3>2. tmp[Name(e)] = OwnData(e) \/ Clash(e)
      BY <3>1, LinkedIsWhole
    <3>3. /\ counts' = [counts EXCEPT ![e] = tmp[Name(e)]]
          /\ job[e] = "getting"
          /\ job' = [job EXCEPT ![e] = "got"] \/ job' = [job EXCEPT ![e] = "dead"]
          /\ UNCHANGED <<search, linked, copied, daily>>
      BY <2>3 DEF GetData, JobGoes
    <3> QED  BY <1>0, <3>1, <3>2, <3>3 DEF JobInv
  <2>4. CASE Mail(e)
    BY <1>0, <2>4 DEF Mail, MailUnstored, JobGoes, JobInv
  <2>5. CASE MailUnstored(e)
    BY <1>0, <2>5 DEF MailUnstored, JobGoes, JobInv
  <2>6. CASE JobDies(e)
    BY <1>0, <2>6 DEF JobDies, JobInv
  <2> QED  BY <2>1, <2>2, <2>3, <2>4, <2>5, <2>6 DEF ReadersStep
<1>4. CASE \E e \in Days : OpenCopy(e)
  <2>1. PICK e \in Days : OpenCopy(e)
    BY <1>4
  <2>2. (daily'[e] = FirstParts(e, 0) /\ copied'[e] = 0) \/ Clash(e)
    <3>1. /\ job[e] = "mailed" /\ daily[e] = Absent
          /\ daily' = [daily EXCEPT ![e] = Empty] /\ copied' = copied
      BY <2>1 DEF OpenCopy
    <3>2. copied[e] = 0 \/ Clash(e)
      BY <3>1, SomethingIsThere DEF JobInv
    <3> QED  BY <3>1, <3>2, NoPartsAreEmpty
  <2>3. /\ job[e] = "mailed"
        /\ UNCHANGED <<search, linked, job, counts, copied>>
        /\ \A d \in Days \ {e} : daily'[d] = daily[d]
    BY <2>1 DEF OpenCopy
  <2> QED  BY <1>0, <2>2, <2>3 DEF JobInv
<1>5. CASE \E e \in Days : CopyPart(e)
  <2>1. PICK e \in Days : CopyPart(e)
    BY <1>5
  <2>2. /\ job[e] = "mailed" /\ daily[e] # Absent
        /\ copied[e] + 1 <= Parts
        /\ daily' = [daily EXCEPT ![e] = [daily[e] EXCEPT ![copied[e] + 1] =
                                            tmp[Name(e)][copied[e] + 1]]]
        /\ copied' = [copied EXCEPT ![e] = copied[e] + 1]
        /\ UNCHANGED <<search, linked, job, counts>>
    BY <2>1 DEF CopyPart
  <2>3. daily'[e] = FirstParts(e, copied'[e]) \/ Clash(e)
    <3>1. SUFFICES ASSUME ~Clash(e) PROVE daily'[e] = FirstParts(e, copied'[e])
      OBVIOUS
    <3>2. daily[e] = FirstParts(e, copied[e]) /\ e \in linked
      BY <2>2, <3>1 DEF JobInv
    <3>3. tmp[Name(e)][copied[e] + 1] = e
      <4>1. tmp[Name(e)] = OwnData(e)
        BY <3>1, <3>2, LinkedIsWhole
      <4>2. copied[e] + 1 \in 1..Parts
        BY <2>2
      <4> QED  BY <4>1, <4>2 DEF OwnData
    <3>4. daily'[e] = [FirstParts(e, copied[e]) EXCEPT ![copied[e] + 1] = e]
      BY <2>2, <3>2, <3>3
    <3>5. copied'[e] = copied[e] + 1 /\ copied[e] \in Nat
      BY <2>2
    <3> QED  BY <3>4, <3>5, NextPart
  <2>4. \A d \in Days \ {e} : daily'[d] = daily[d] /\ copied'[d] = copied[d]
    BY <2>2
  <2> QED  BY <1>0, <2>2, <2>3, <2>4 DEF JobInv
<1>6. CASE \E e \in Days : EndCopy(e)
  <2>1. PICK e \in Days : EndCopy(e)
    BY <1>6
  <2>2. /\ job[e] = "mailed" /\ daily[e] # Absent
        /\ copied[e] = Parts \/ EndsBefore(tmp[Name(e)], copied[e] + 1)
        /\ job' = [job EXCEPT ![e] = "over"]
        /\ UNCHANGED <<search, linked, counts, copied, daily>>
    BY <2>1 DEF EndCopy, JobGoes
  <2>3. daily[e] = OwnData(e) \/ Clash(e)
    <3>1. SUFFICES ASSUME ~Clash(e) PROVE daily[e] = OwnData(e)
      OBVIOUS
    <3>2. daily[e] = FirstParts(e, copied[e]) /\ tmp[Name(e)] = OwnData(e)
      BY <2>2, <3>1, LinkedIsWhole DEF JobInv
    <3>3. copied[e] = Parts
      <4>1. ASSUME copied[e] # Parts, EndsBefore(OwnData(e), copied[e] + 1) PROVE FALSE
        <5>1. copied[e] + 1 \in (copied[e] + 1)..Parts /\ copied[e] + 1 \in 1..Parts
          BY <4>1
        <5>2. OwnData(e)[copied[e] + 1] = Nobody
          BY <4>1, <5>1 DEF EndsBefore
        <5> QED  BY <5>1, <5>2 DEF OwnData, Nobody
      <4> QED  BY <2>2, <3>2, <4>1
    <3> QED  BY <3>2, <3>3, AllPartsAreOwnData
  <2> QED  BY <1>0, <2>2, <2>3 DEF JobInv
<1>7. CASE Tick \/ PageStep \/ UNCHANGED vars
  <2>1. UNCHANGED <<search, linked, job, counts, copied, daily>>
    BY <1>7 DEF Tick, PageStep, OpenPage, AskDayBefore, ShowFile, vars
  <2> QED  BY <1>0, <2>1 DEF JobInv
<1> QED  BY <1>1, <1>2, <1>3, <1>4, <1>5, <1>6, <1>7, Steps

LEMMA CurrentInvStep ==
  ASSUME Inv, [Next]_vars
  PROVE  CurrentInv'
<1>0. \A d \in Days : Clash(d) => Clash(d)'
  BY DayFacts, ClashStays
<1>1. CASE \E d \in Days : Mail(d)
  <2>1. PICK d \in Days : Mail(d)
    BY <1>1
  <2>2. d \in linked /\ current_js' = tmp[Name(d)]
    BY <2>1 DEF Mail, MailUnstored, JobGoes, Inv, JobInv
  <2>3. current_js' = OwnData(d) \/ Clash(d)
    BY <2>2, LinkedIsWhole
  <2> QED  BY <1>0, <2>3 DEF CurrentInv, OwnData
<1>2. CASE UNCHANGED current_js
  BY <1>0, <1>2 DEF Inv, CurrentInv, OwnData
<1> QED
  BY <1>1, <1>2, Steps
  DEF OpenFile, WritePart, PrintLink, PrintVisualization, SearchDies, Post, ReadersStep, ResponseEnds, GetData,
      MailUnstored, JobDies, OpenCopy, CopyPart, EndCopy, Tick, PageStep, OpenPage, AskDayBefore, ShowFile,
      vars, jobVars

\* Files stay, and a new one is of today: not older than any that is there.
LEMMA PageInvStep ==
  ASSUME Inv, [Next]_vars
  PROVE  PageInv'
<1> USE DayFacts DEF Inv, TypeInv, PageInv, searchVars, jobVars
<1>0. \A k \in 1..Len(DayOf) : DayOf[k] \in Days /\ DayOf[k] \in Nat
  BY DayOfAssumption
<1>1. CASE OpenPage
  <2>1. /\ page' = [state |-> "asking", date |-> DayOf[second], there |-> {d \in Days : daily[d] # Absent}]
        /\ UNCHANGED <<second, job, daily>>
    BY <1>1 DEF OpenPage
  <2>2. \A d \in Days : daily[d] # Absent => job[d] # "asleep"
    BY DEF JobInv
  <2> QED  BY <1>0, <2>1, <2>2
<1>2. CASE AskDayBefore
  <2>1. /\ page.state = "asking" /\ page.date \in Days /\ daily[page.date] = Absent
        /\ page' = [state |-> "asking", date |-> page.date - 1, there |-> page.there]
        /\ UNCHANGED <<second, job, daily>>
    BY <1>2 DEF AskDayBefore
  <2>2. \A d \in page.there : d \in Nat /\ d <= page.date /\ d # page.date
    BY <2>1
  <2>3. \A d \in page.there : d <= page.date - 1
    BY <2>2
  <2> QED  BY <2>1, <2>3
<1>3. CASE ShowFile
  <2>1. /\ page' = [state |-> "shown", date |-> page.date, there |-> page.there]
        /\ UNCHANGED <<second, job, daily>>
    BY <1>3 DEF ShowFile
  <2> QED  BY <2>1
<1>4. CASE Tick
  <2>1. second' = second + 1 /\ second < Len(DayOf) /\ UNCHANGED <<job, daily, page>>
    BY <1>4 DEF Tick
  <2>2. second' \in 1..Len(DayOf) /\ second < second'
    BY <2>1
  <2>3. DayOf[second] \in Nat /\ DayOf[second'] \in Nat /\ DayOf[second] <= DayOf[second']
    BY <1>0, <2>2, DayOfAssumption
  <2>4. \A d \in Days : d <= DayOf[second] => d <= DayOf[second']
    BY <2>3
  <2> QED  BY <2>1, <2>4
<1>5. CASE \E e \in Days : Post(e)
  BY <1>0, <1>5 DEF Post, JobGoes
<1>6. CASE \E e \in Days : ReadersStep(e) \/ EndCopy(e)
  <2>1. /\ UNCHANGED <<second, daily, page>>
        /\ \A d \in Days : job'[d] # "asleep" => job[d] # "asleep"
    BY <1>6
    DEF ReadersStep, ResponseEnds, GetData, Mail, MailUnstored, JobDies, EndCopy, JobGoes
  <2> QED  BY <2>1
<1>7. CASE \E e \in Days : OpenCopy(e) \/ CopyPart(e)
  <2>0. \A f : DOMAIN f = 1..Parts => f # Absent
    <3>1. DOMAIN Absent = {} /\ 1 \in 1..Parts
      BY DEF Absent
    <3> QED  BY <3>1
  <2>1. PICK e \in Days : OpenCopy(e) \/ CopyPart(e)
    BY <1>7
  <2>2. UNCHANGED <<second, job, page>> /\ DOMAIN daily'[e] = 1..Parts
    <3>1. CASE OpenCopy(e)
      BY <3>1 DEF OpenCopy, Empty
    <3>2. CASE CopyPart(e)
      BY <3>2 DEF CopyPart
    <3> QED  BY <2>1, <3>1, <3>2
  <2>3. \A d \in Days \ {e} : daily'[d] = daily[d]
    BY <2>1 DEF OpenCopy, CopyPart
  <2>4. \A d \in Days : daily[d] # Absent => daily'[d] # Absent
    BY <2>0, <2>2, <2>3
  <2> QED  BY <2>2, <2>3, <2>4
<1>8. CASE UNCHANGED <<second, job, daily, page>>
  BY <1>8
<1> QED
  BY <1>1, <1>2, <1>3, <1>4, <1>5, <1>6, <1>7, <1>8, Steps
  DEF PageStep, OpenFile, WritePart, PrintLink, PrintVisualization, SearchDies, vars

\* The invariant of the processes and files of a day, at every step of theirs.
THEOREM InvCorrect == Spec => []Inv
<1>1. Inv /\ [Next]_vars => Inv'
  BY TypeStep, SearchInvStep, FileInvStep, JobInvStep, CurrentInvStep, PageInvStep DEF Inv
<1> QED  BY <1>1, InitInv, PTL DEF Spec

\* Whatever runs side by side with a job, and whatever dies, it publishes the
\* whole result of its own search or has clashed with another one.
THEOREM OnlyOwnDataIsPublished == Spec => []OnlyOwnData
<1>1. Inv => OnlyOwnData
  BY DEF Inv, JobInv, CurrentInv, OnlyOwnData
<1> QED  BY <1>1, InvCorrect, PTL

\* A job that has mailed its link without an accident brings the file there:
\* what it has put there at any time is the beginning of its own result.
THEOREM CopyIsABeginning ==
  Spec => [](\A d \in Days : job[d] = "mailed" /\ daily[d] # Absent =>
               daily[d] = FirstParts(d, copied[d]) \/ Clash(d))
<1>1. Inv => \A d \in Days : job[d] = "mailed" /\ daily[d] # Absent =>
               daily[d] = FirstParts(d, copied[d]) \/ Clash(d)
  BY DEF Inv, JobInv
<1> QED  BY <1>1, InvCorrect, PTL

\* While jobs are at any step the page goes back to the newest of the files
\* that were there when it was opened, or to a newer one that has come since,
\* and it is shown part of a file only if the job of that day is at its copy or
\* has died: every other file that is there is the whole result of the search
\* of its day.
THEOREM PageIsShownNewestFile == Spec => PageShowsNewestFile
<1> DEFINE Newest ==
      page'.state = "shown" /\ page.state = "asking" =>
        /\ \A d \in page.there : d <= page.date
        /\ \/ daily[page.date] = OwnData(page.date)
           \/ job[page.date] \in {"mailed", "dead"} /\ daily[page.date] # Absent
           \/ Clash(page.date)
<1>1. ASSUME Inv, [Next]_vars PROVE [Newest]_vars
  <2>1. CASE ShowFile
    <3>1. page.state = "asking" /\ page.date \in Days /\ daily[page.date] # Absent
      BY <2>1 DEF ShowFile
    <3>2. job[page.date] \in {"mailed", "over", "dead"}
      BY <1>1, <3>1 DEF Inv, TypeInv, JobInv
    <3>3. job[page.date] = "over" => daily[page.date] = OwnData(page.date) \/ Clash(page.date)
      BY <1>1, <3>1 DEF Inv, JobInv
    <3>4. \A d \in page.there : d <= page.date
      BY <1>1, <3>1 DEF Inv, PageInv
    <3> QED  BY <3>1, <3>2, <3>3, <3>4
  <2>2. CASE OpenPage
    BY <2>2 DEF OpenPage
  <2>3. CASE AskDayBefore
    BY <2>3 DEF AskDayBefore
  <2>4. CASE page' = page
    BY <2>4
  <2> QED
    BY <1>1, <2>1, <2>2, <2>3, <2>4, Steps
    DEF PageStep, Tick, OpenFile, WritePart, PrintLink, PrintVisualization, SearchDies, Post,
        ReadersStep, ResponseEnds, GetData, Mail, MailUnstored, JobDies, OpenCopy, CopyPart,
        EndCopy, vars
<1> QED  BY <1>1, InvCorrect, PTL DEF Spec, PageShowsNewestFile

------------------------------------------------------------------------------
(* The files of programs. *)

LEMMA MinIs ==
  ASSUME NEW S, S \subseteq Nat, S # {}
  PROVE  Min(S) \in S /\ \A y \in S : Min(S) <= y
<1>1. \E x \in S : \A y \in S : x <= y
  BY LeastNumber
<1> QED  BY <1>1 DEF Min

LEMMA MaxIs ==
  ASSUME NEW n \in Nat, NEW S \in SUBSET (1..n), S # {}
  PROVE  Max(S) \in S /\ \A y \in S : y <= Max(S)
<1>1. PICK x \in S : \A y \in S : y <= x
  BY GreatestNumber
<1>2. x >= x /\ \A y \in S : x >= y
  BY <1>1
<1>3. Max(S) \in S /\ \A y \in S : Max(S) >= y
  BY <1>2 DEF Max
<1> QED  BY <1>3

FileSymbols == Symbols \cup {"C3", "BF", "rule"}

\* The end of a line.
LEMMA EndOfLineIs ==
  ASSUME file \in Seq(FileSymbols), NEW p \in Nat \ {0}, NEW delim,
         p <= Len(file) + 1
  PROVE  /\ EndOfLine(p, delim) \in p..(Len(file) + 1)
         /\ \A k \in p..(EndOfLine(p, delim) - 1) : file[k] # delim
         /\ EndOfLine(p, delim) <= Len(file) => file[EndOfLine(p, delim)] = delim
<1> DEFINE S == {k \in p..Len(file) : file[k] = delim} \cup {Len(file) + 1}
<1>1. Len(file) \in Nat
  OBVIOUS
<1>2. S \subseteq Nat /\ S # {}
  BY <1>1
<1>3. EndOfLine(p, delim) = Min(S)
  BY DEF EndOfLine
<1>4. Min(S) \in S /\ \A y \in S : Min(S) <= y
  <2> HIDE DEF S
  <2> QED  BY <1>2, MinIs
<1>5. Min(S) \in p..(Len(file) + 1)
  <2>1. \A y \in S : y \in p..(Len(file) + 1)
    BY <1>1
  <2> HIDE DEF S
  <2> QED  BY <1>4, <2>1
<1>6. Min(S) <= Len(file) => file[Min(S)] = delim
  <2>1. \A y \in S : y <= Len(file) => file[y] = delim
    BY <1>1
  <2> HIDE DEF S
  <2> QED  BY <1>4, <2>1
<1>7. ASSUME NEW k \in p..(Min(S) - 1) PROVE file[k] # delim
  <2>1. k \in p..Len(file) /\ ~(Min(S) <= k)
    <3> HIDE DEF S
    <3> QED  BY <1>1, <1>5
  <2>2. k \notin S
    <3> HIDE DEF S
    <3> QED  BY <1>4, <2>1
  <2> QED  BY <2>1, <2>2
<1> QED  BY <1>3, <1>5, <1>6, <1>7

\* Where a stream stands: only at the end of the file is a line not ended.
Streams == [pos : Nat \ {0}, eof : BOOLEAN, fail : BOOLEAN]
IsGood(st) == ~st.eof /\ ~st.fail

\* A stretch that does not fit into the buffer.
Oversized ==
  \E k \in 1..(Len(file) - read_size + 1), delim \in {"C3", "BF"} :
    \A j \in k..(k + read_size - 1) : file[j] # delim

StreamInv ==
  /\ file \in Files
  /\ stream \in Streams
  /\ ~stream.eof => stream.pos <= Len(file) + 1
  /\ stream.fail /\ ~stream.eof /\ stream.pos > 1 => Oversized
  /\ phase = "corrupt" => stream.fail /\ ~stream.eof

LEMMA GetlineFacts ==
  ASSUME StreamInv, NEW delim \in {"C3", "BF"}
  PROVE  LET g == getline(stream, delim).stream
         IN  /\ g \in Streams
             /\ ~g.eof => g.pos <= Len(file) + 1
             /\ g.fail /\ ~g.eof /\ g.pos > 1 => Oversized
<1> DEFINE st == stream
           e == EndOfLine(st.pos, delim)
<1>1. /\ file \in Seq(FileSymbols) /\ Len(file) \in Nat
      /\ st \in Streams /\ st.pos \in Nat \ {0} /\ read_size \in Nat \ {0, 1}
  BY FilesAssumption, ReadSizeAssumption DEF StreamInv, Streams, FileSymbols
<1>2. CASE st.eof \/ st.fail
  <2>1. getline(st, delim).stream = [st EXCEPT !.fail = TRUE]
    BY <1>2 DEF getline, Failed
  <2>2. [st EXCEPT !.fail = TRUE] \in Streams /\ [st EXCEPT !.fail = TRUE].eof = st.eof
        /\ [st EXCEPT !.fail = TRUE].pos = st.pos
    BY <1>1 DEF Streams
  <2> QED  BY <1>2, <2>1, <2>2 DEF StreamInv
<1>3. CASE ~(st.eof \/ st.fail)
  <2>1. e \in st.pos..(Len(file) + 1) /\ (\A k \in st.pos..(e - 1) : file[k] # delim)
    BY <1>1, <1>3, EndOfLineIs DEF StreamInv
  <2>2. CASE Overflows(st.pos, e)
    <3> DEFINE g == Overflowed(st)
    <3>1. getline(st, delim).stream = g
      BY <1>3, <2>2 DEF getline
    <3>2. e > st.pos + read_size - 1 /\ e \in Nat
      BY <1>1, <2>1, <2>2 DEF Overflows
    <3>3. g \in Streams /\ g.pos = st.pos + read_size - 1
      <4> DEFINE h == [st EXCEPT !.pos = st.pos + read_size - 1]
      <4>1. h \in Streams /\ h.pos = st.pos + read_size - 1
        BY <1>1 DEF Streams
      <4>2. Overflowed(st) = [h EXCEPT !.fail = TRUE]
        BY DEF Overflowed, Failed
      <4> HIDE DEF h
      <4> QED  BY <4>1, <4>2 DEF Streams
    <3>4. g.pos <= Len(file) + 1
      BY <1>1, <2>1, <3>2, <3>3
    <3>5. /\ st.pos \in 1..(Len(file) - read_size + 1)
          /\ \A j \in st.pos..(st.pos + read_size - 1) : file[j] # delim
      BY <1>1, <2>1, <3>2
    <3>6. Oversized
      BY <3>5 DEF Oversized
    <3> HIDE DEF g
    <3> QED  BY <3>1, <3>3, <3>4, <3>6
  <2>3. CASE ~Overflows(st.pos, e)
    <3> DEFINE x == e > Len(file)
               y == e > Len(file) /\ e = st.pos
               g == [pos |-> e + 1, eof |-> x, fail |-> y]
    <3>1. getline(st, delim).stream = g
      BY <1>3, <2>3 DEF getline
    <3>2. g \in Streams /\ (~g.eof => g.pos <= Len(file) + 1 /\ ~g.fail)
      <4>1. e + 1 \in Nat \ {0} /\ (~x => e + 1 <= Len(file) + 1 /\ ~y)
        BY <1>1, <2>1
      <4>2. x \in BOOLEAN /\ y \in BOOLEAN
        OBVIOUS
      <4> HIDE DEF x, y
      <4> QED  BY <4>1, <4>2 DEF Streams
    <3> HIDE DEF g
    <3> QED  BY <3>1, <3>2
  <2> QED  BY <2>2, <2>3
<1> QED  BY <1>2, <1>3

LEMMA StreamInvStep ==
  ASSUME StreamInv, [ProgramNext]_programVars
  PROVE  StreamInv'
<1>1. CASE SkipMark \/ ReadProgram
  <2>1. PICK delim \in {"C3", "BF"} : stream' = getline(stream, delim).stream
    BY <1>1 DEF SkipMark, ReadProgram
  <2>2. file' = file /\ phase' # "corrupt"
    BY <1>1 DEF SkipMark, ReadProgram
  <2>3. /\ stream' \in Streams
        /\ ~stream'.eof => stream'.pos <= Len(file) + 1
        /\ stream'.fail /\ ~stream'.eof /\ stream'.pos > 1 => Oversized
    BY <2>1, GetlineFacts
  <2> QED  BY <2>2, <2>3 DEF StreamInv, Oversized
<1>2. CASE Throw
  BY <1>2 DEF Throw, StreamInv, Oversized
<1>3. CASE Construct \/ StripStep \/ AddProgram \/ Return \/ UNCHANGED programVars
  <2>1. file' = file /\ stream' = stream /\ (phase' = "corrupt" => phase = "corrupt")
    BY <1>3 DEF Construct, StripStep, AddProgram, Return, programVars
  <2> QED  BY <2>1 DEF StreamInv, Oversized
<1> QED  BY <1>1, <1>2, <1>3 DEF ProgramNext

\* Where getline leaves the stream, for every file and size of the buffer.
THEOREM StreamIsRead == ProgramSpec => []StreamInv
<1>1. ProgramInit => StreamInv
  <2> SUFFICES ASSUME ProgramInit PROVE StreamInv
    OBVIOUS
  <2>1. file \in Files /\ phase = "file"
    BY DEF ProgramInit
  <2>2. PICK opened \in BOOLEAN : stream = [pos |-> 1, eof |-> FALSE, fail |-> ~opened]
    BY DEF ProgramInit
  <2>3. Len(file) \in Nat
    BY <2>1, FilesAssumption
  <2> QED  BY <2>1, <2>2, <2>3 DEF StreamInv, Streams
<1> QED  BY <1>1, StreamInvStep, PTL DEF ProgramSpec

\* parse_programs throws only at a file with a stretch that does not fit.
THEOREM OnlyOversizedIsCorrupt == ProgramSpec => []CorruptOnlyIfOversized
<1>1. StreamInv => CorruptOnlyIfOversized
  BY DEF StreamInv, CorruptOnlyIfOversized, Oversized
<1> QED  BY <1>1, StreamIsRead, PTL

------------------------------------------------------------------------------
(* The texts of the programs. *)

Texts == Seq(FileSymbols)

TextInv ==
  /\ text \in Texts
  /\ stripped_text \in Texts
  /\ current \in 1..(Len(text) + 1)
  /\ pc \in {"loop", "done"}
  /\ programs \in Seq([raw_text : Texts, text : Texts])
  /\ phase = "construct" => current = 1 /\ stripped_text = <<>> /\ pc = "loop"

\* A part of a text is a text.
LEMMA PartOf ==
  ASSUME NEW t \in Texts, NEW i \in Nat \ {0}, NEW j \in Int, j <= Len(t)
  PROVE  /\ SubSeq(t, i, j) \in Texts
         /\ Len(SubSeq(t, i, j)) = IF i <= j THEN j - i + 1 ELSE 0
         /\ \A k \in 1..(j - i + 1) : SubSeq(t, i, j)[k] = t[i + k - 1]
<1>1. Len(t) \in Nat /\ \A k \in 1..Len(t) : t[k] \in FileSymbols
  BY DEF Texts
<1>2. \A k \in i..j : t[k] \in FileSymbols
  BY <1>1
<1>3. i \in Int
  OBVIOUS
<1> QED  BY <1>2, <1>3, SubSeqProperties DEF Texts

LEMMA TrimmedIs ==
  ASSUME NEW t \in Texts
  PROVE  Trimmed(t) \in Texts
<1> DEFINE kept == {k \in DOMAIN t : t[k] # "newline"}
<1>1. Len(t) \in Nat /\ DOMAIN t = 1..Len(t) /\ <<>> \in Texts
  BY DEF Texts
<1>2. kept \in SUBSET (1..Len(t)) /\ kept \subseteq Nat
  BY <1>1
<1>3. Trimmed(t) = IF kept = {} THEN <<>> ELSE SubSeq(t, Min(kept), Max(kept))
  BY DEF Trimmed
<1> HIDE DEF kept
<1>4. CASE kept # {}
  <2>1. Min(kept) \in kept /\ Max(kept) \in kept
    BY <1>1, <1>2, <1>4, MinIs, MaxIs
  <2>2. Min(kept) \in 1..Len(t) /\ Max(kept) \in 1..Len(t)
    BY <1>2, <2>1
  <2>3. Min(kept) \in Nat \ {0} /\ Max(kept) \in Int /\ Max(kept) <= Len(t)
    BY <1>1, <2>2
  <2> QED  BY <1>3, <1>4, <2>3, PartOf
<1> QED  BY <1>1, <1>3, <1>4

LEMMA BodyIs ==
  ASSUME NEW t \in Texts
  PROVE  Body(t) \in Texts
<1> DEFINE marks == {k \in DOMAIN t : t[k] = "rule"}
           breaks == {k \in DOMAIN t : t[k] = "newline" /\ \E j \in marks : j < k}
<1>1. Len(t) \in Nat /\ DOMAIN t = 1..Len(t)
  BY DEF Texts
<1>2. breaks \subseteq 1..Len(t) /\ breaks \subseteq Nat
  BY <1>1
<1>3. Body(t) = Trimmed(IF breaks = {} THEN t ELSE SubSeq(t, Min(breaks) + 1, Len(t)))
  BY DEF Body
<1> HIDE DEF breaks
<1>4. CASE breaks # {}
  <2>1. Min(breaks) \in breaks
    BY <1>2, <1>4, MinIs
  <2>2. Min(breaks) \in 1..Len(t)
    BY <1>2, <2>1
  <2>3. Min(breaks) + 1 \in Nat \ {0} /\ Len(t) \in Int /\ Len(t) <= Len(t)
    BY <1>1, <2>2
  <2>4. SubSeq(t, Min(breaks) + 1, Len(t)) \in Texts
    BY <2>3, PartOf
  <2> QED  BY <1>3, <1>4, <2>4, TrimmedIs
<1> QED  BY <1>3, <1>4, TrimmedIs

LEMMA EmptyBody == Body(<<>>) = <<>>
<1>1. DOMAIN <<>> = {}
  OBVIOUS
<1>2. Body(<<>>) = Trimmed(<<>>)
  BY <1>1 DEF Body
<1> QED  BY <1>1, <1>2 DEF Trimmed

\* What is read of a line.
LEMMA LineIs ==
  ASSUME StreamInv, NEW delim
  PROVE  getline(stream, delim).line \in Texts
<1> DEFINE st == stream
           e == EndOfLine(st.pos, delim)
<1>1. /\ file \in Texts /\ Len(file) \in Nat /\ <<>> \in Texts
      /\ st.pos \in Nat \ {0} /\ read_size \in Nat \ {0, 1}
  BY FilesAssumption, ReadSizeAssumption DEF StreamInv, Streams, FileSymbols, Texts
<1>2. CASE st.eof \/ st.fail
  BY <1>1, <1>2 DEF getline
<1>3. CASE ~(st.eof \/ st.fail)
  <2>1. e \in st.pos..(Len(file) + 1)
    BY <1>1, <1>3, EndOfLineIs DEF StreamInv, Texts
  <2>2. ASSUME NEW n \in Int, n <= Len(file) + 1 PROVE Line(st.pos, n) \in Texts
    <3>1. n - 1 \in Int /\ n - 1 <= Len(file)
      BY <1>1, <2>2
    <3> QED  BY <1>1, <3>1, PartOf DEF Line
  <2>3. CASE Overflows(st.pos, e)
    <3>1. st.pos + read_size - 1 \in Int /\ st.pos + read_size - 1 <= Len(file) + 1
      BY <1>1, <2>1, <2>3 DEF Overflows
    <3>2. getline(st, delim).line = Line(st.pos, st.pos + read_size - 1)
      BY <1>3, <2>3 DEF getline
    <3> QED  BY <2>2, <3>1, <3>2
  <2>4. CASE ~Overflows(st.pos, e)
    <3>1. getline(st, delim).line = Line(st.pos, e)
      BY <1>3, <2>4 DEF getline
    <3>2. e \in Int /\ e <= Len(file) + 1
      BY <1>1, <2>1
    <3> QED  BY <2>2, <3>1, <3>2
  <2> QED  BY <2>3, <2>4
<1> QED  BY <1>2, <1>3

\* The parts of a scan stay inside the text.
LEMMA BackOverIs ==
  ASSUME text \in Texts, NEW k \in 1..Len(text)
  PROVE  /\ BackOver(k) \in 1..k
         /\ \A n \in BackOver(k)..(k - 1) : text[n] = "newline"
         /\ BackOver(k) > 1 => text[BackOver(k) - 1] # "newline"
<1> DEFINE S == {j \in 1..k : \A n \in j..(k - 1) : text[n] = "newline"}
<1>1. Len(text) \in Nat
  BY DEF Texts
<1>2. k \in S /\ S \subseteq Nat
  BY <1>1
<1>3. BackOver(k) = Min(S)
  BY DEF BackOver
<1>4. Min(S) \in S /\ \A y \in S : Min(S) <= y
  <2> HIDE DEF S
  <2> QED  BY <1>2, MinIs
<1> DEFINE b == Min(S)
<1>5. b \in 1..k /\ \A n \in b..(k - 1) : text[n] = "newline"
  BY <1>4
<1>6. ASSUME b > 1 PROVE text[b - 1] # "newline"
  <2>1. b - 1 \in 1..k /\ b - 1 \notin S
    <3>1. ~(b <= b - 1) /\ b - 1 \in 1..k
      <4> HIDE DEF b
      <4> QED  BY <1>1, <1>5, <1>6
    <3> HIDE DEF S
    <3> QED  BY <1>4, <3>1
  <2>2. \E n \in (b - 1)..(k - 1) : text[n] # "newline"
    BY <2>1
  <2> HIDE DEF b
  <2> QED  BY <1>5, <2>2
<1> QED  BY <1>3, <1>5, <1>6

LEMMA ForwardOverIs ==
  ASSUME text \in Texts, NEW k \in 1..Len(text)
  PROVE  /\ ForwardOver(k) \in k..Len(text)
         /\ \A n \in (k + 1)..ForwardOver(k) : text[n] = "newline"
         /\ ForwardOver(k) = Len(text) \/ text[ForwardOver(k) + 1] # "newline"
<1> DEFINE S == {j \in k..Len(text) : \A n \in (k + 1)..j : text[n] = "newline"}
           f == Max(S)
<1>1. Len(text) \in Nat
  BY DEF Texts
<1>2. k \in S /\ S \in SUBSET (1..Len(text))
  BY <1>1
<1>3. f \in S /\ \A y \in S : y <= f
  <2> HIDE DEF S
  <2> QED  BY <1>1, <1>2, MaxIs
<1>4. f \in k..Len(text) /\ \A n \in (k + 1)..f : text[n] = "newline"
  BY <1>3
<1>5. f = Len(text) \/ text[f + 1] # "newline"
  <2> SUFFICES ASSUME f # Len(text), text[f + 1] = "newline" PROVE FALSE
    OBVIOUS
  <2>1. f + 1 \in k..Len(text) /\ ~(f + 1 <= f)
    <3> HIDE DEF f
    <3> QED  BY <1>1, <1>4
  <2>2. \A n \in (k + 1)..(f + 1) : text[n] = "newline"
    <3> HIDE DEF f
    <3> QED  BY <1>1, <1>4
  <2>3. f + 1 \in S
    BY <2>1, <2>2
  <2> HIDE DEF S
  <2> QED  BY <1>3, <2>1, <2>3
<1>6. \E j \in k..Len(text) :
        /\ \A n \in (k + 1)..j : text[n] = "newline"
        /\ j = Len(text) \/ text[j + 1] # "newline"
  <2> HIDE DEF f
  <2> QED  BY <1>4, <1>5
<1> QED  BY <1>6 DEF ForwardOver

\* The brackets ahead.
LEMMA BracketsAhead ==
  ASSUME TextInv, Bracket
  PROVE  /\ left \in current..Len(text) /\ text[left] = "["
         /\ right \in current..Len(text) /\ text[right] = "]"
         /\ \A k \in current..(left - 1) : text[k] # "["
         /\ \A k \in current..(right - 1) : text[k] # "]"
<1>1. Len(text) \in Nat /\ current \in 1..(Len(text) + 1)
  BY DEF TextInv, Texts
<1>2. ASSUME NEW symbol, Ahead(symbol) # {}
      PROVE  /\ Min(Ahead(symbol)) \in current..Len(text)
             /\ text[Min(Ahead(symbol))] = symbol
             /\ \A k \in current..(Min(Ahead(symbol)) - 1) : text[k] # symbol
  <2> DEFINE S == Ahead(symbol)
             b == Min(S)
  <2>1. S \subseteq Nat /\ S # {}
    BY <1>1, <1>2 DEF Ahead
  <2>2. b \in S /\ \A y \in S : b <= y
    <3> HIDE DEF S
    <3> QED  BY <2>1, MinIs
  <2>3. b \in current..Len(text) /\ text[b] = symbol
    BY <2>2 DEF Ahead
  <2>4. ASSUME NEW k \in current..(b - 1) PROVE text[k] # symbol
    <3>1. k \in current..Len(text) /\ ~(b <= k)
      <4> HIDE DEF b
      <4> QED  BY <1>1, <2>3
    <3>2. k \notin S
      <4> HIDE DEF S
      <4> QED  BY <2>2, <3>1
    <3> QED  BY <3>1, <3>2 DEF Ahead
  <2> QED  BY <2>3, <2>4
<1>3. Ahead("[") # {} /\ Ahead("]") # {}
  BY DEF Bracket
<1> QED  BY <1>2, <1>3 DEF left, right

LEMMA TextInvStep ==
  ASSUME StreamInv, TextInv, [ProgramNext]_programVars
  PROVE  TextInv'
<1>0. /\ Len(text) \in Nat /\ current \in 1..(Len(text) + 1) /\ <<>> \in Texts
      /\ text \in Texts /\ stripped_text \in Texts
  BY DEF TextInv, Texts
<1>1. ASSUME NEW i \in Nat \ {0}, NEW j \in Int, j <= Len(text)
      PROVE  stripped_text \o SubSeq(text, i, j) \in Texts
  <2>1. SubSeq(text, i, j) \in Texts
    BY <1>0, <1>1, PartOf
  <2> QED  BY <1>0, <2>1 DEF Texts
<1>2. CASE SkipMark \/ Throw \/ Return \/ UNCHANGED programVars
  <2>1. /\ UNCHANGED stripVars
        /\ programs' = programs \/ programs' = <<>>
        /\ phase' = "construct" => phase = "construct"
    BY <1>2 DEF SkipMark, Throw, Return, programVars
  <2>2. programs' \in Seq([raw_text : Texts, text : Texts])
    <3> DEFINE R == [raw_text : Texts, text : Texts]
    <3>1. programs \in Seq(R)
      BY DEF TextInv
    <3> HIDE DEF R
    <3>2. <<>> \in Seq(R)
      BY EmptySeq
    <3>3. programs' = programs \/ programs' = <<>>
      BY <2>1
    <3>4. programs' \in Seq(R)
      BY ONLY <3>1, <3>2, <3>3
    <3> QED  BY <3>4 DEF R
  <2>3. UNCHANGED <<text, current, stripped_text, pc>>
    BY <2>1 DEF stripVars
  <2> QED  BY <2>1, <2>2, <2>3 DEF TextInv
<1>3. CASE ReadProgram
  <2>1. text' = getline(stream, "C3").line /\ programs' = programs
        /\ current' = 1 /\ stripped_text' = <<>> /\ pc' = "loop"
    BY <1>3 DEF ReadProgram
  <2>2. text' \in Texts
    BY <2>1, LineIs
  <2>3. Len(text') \in Nat
    BY <2>2 DEF Texts
  <2> QED  BY <1>0, <2>1, <2>2, <2>3 DEF TextInv
<1>4. CASE Construct
  <2>1. text' = Body(text) /\ UNCHANGED <<current, stripped_text, pc, programs>>
    BY <1>4 DEF Construct
  <2>2. text' \in Texts
    BY <1>0, <2>1, BodyIs
  <2>3. Len(text') \in Nat
    BY <2>2 DEF Texts
  <2>4. current = 1 /\ phase' = "strip"
    BY <1>4 DEF Construct, TextInv
  <2>5. current' \in 1..(Len(text') + 1)
    BY <2>1, <2>3, <2>4
  <2>6. /\ stripped_text' = stripped_text /\ pc' = pc /\ programs' = programs
        /\ phase' # "construct"
    BY <2>1, <2>4
  <2> QED  BY ONLY TextInv, <2>2, <2>5, <2>6 DEF TextInv
<1>5. CASE StripStep
  <2>1. UNCHANGED <<text, programs, phase>> /\ phase = "strip"
    BY <1>5 DEF StripStep, StripNext, Timestamp, NotATimestamp, Rest
  <2>2. CASE Timestamp
    <3>1. left \in current..Len(text) /\ right \in current..Len(text)
      BY <2>2, BracketsAhead DEF Timestamp
    <3>2. BackOver(left) \in 1..left
      BY <1>0, <3>1, BackOverIs
    <3>3. ForwardOver(right) \in right..Len(text)
      BY <1>0, <3>1, ForwardOverIs
    <3>4. PICK j \in Int :
            j <= Len(text) /\ stripped_text' = stripped_text \o SubSeq(text, current, j)
      <4>1. CASE BackOver(left) - current < 0
        <5>1. stripped_text' = stripped_text \o SubSeq(text, current, Len(text))
          BY <2>2, <4>1 DEF Timestamp, substr
        <5> QED  BY <1>0, <5>1
      <4>2. CASE ~(BackOver(left) - current < 0)
        <5>1. stripped_text' =
                stripped_text \o SubSeq(text, current, current + (BackOver(left) - current) - 1)
          BY <2>2, <4>2 DEF Timestamp, substr
        <5>2. current + (BackOver(left) - current) - 1 \in Int
              /\ current + (BackOver(left) - current) - 1 <= Len(text)
          BY <1>0, <3>1, <3>2
        <5> QED  BY <5>1, <5>2
      <4> QED  BY <4>1, <4>2
    <3>5. stripped_text' \in Texts
      BY <1>0, <1>1, <3>4
    <3>6. current' \in 1..(Len(text) + 1) /\ pc' = pc
      <4>1. current' = ForwardOver(right) + 1 /\ pc' = pc
        BY <2>2 DEF Timestamp
      <4> QED  BY <1>0, <3>1, <3>3, <4>1
    <3> QED  BY <2>1, <3>5, <3>6 DEF TextInv
  <2>3. CASE NotATimestamp
    <3>1. right \in current..Len(text)
      BY <2>3, BracketsAhead DEF NotATimestamp
    <3>2. stripped_text' =
            stripped_text \o SubSeq(text, current, current + (right - current + 1) - 1)
      <4>1. ~(right - current + 1 < 0)
        BY <1>0, <3>1
      <4> QED  BY <2>3, <4>1 DEF NotATimestamp, substr
    <3>3. current + (right - current + 1) - 1 \in Int
          /\ current + (right - current + 1) - 1 <= Len(text)
      BY <1>0, <3>1
    <3>4. stripped_text' \in Texts
      BY <1>0, <1>1, <3>2, <3>3
    <3>5. current' = right + 1 /\ pc' = pc
      BY <2>3 DEF NotATimestamp
    <3>6. current' \in 1..(Len(text) + 1)
      BY <1>0, <3>1, <3>5
    <3> QED  BY <2>1, <3>4, <3>5, <3>6 DEF TextInv
  <2>4. CASE Rest
    <3>1. stripped_text' = stripped_text \o SubSeq(text, current, Len(text))
          /\ pc' = "done" /\ current' = current
      BY <2>4 DEF Rest
    <3>2. stripped_text' \in Texts
      BY <1>0, <1>1, <3>1
    <3> QED  BY <2>1, <3>1, <3>2 DEF TextInv
  <2> QED  BY <1>5, <2>2, <2>3, <2>4 DEF StripStep, StripNext
<1>6. CASE AddProgram
  <2>1. /\ UNCHANGED stripVars
        /\ programs' = Append(programs, [raw_text |-> text, text |-> stripped_text])
    BY <1>6 DEF AddProgram
  <2>2. [raw_text |-> text, text |-> stripped_text] \in [raw_text : Texts, text : Texts]
    BY <1>0
  <2>3. programs' \in Seq([raw_text : Texts, text : Texts])
    BY <2>1, <2>2 DEF TextInv
  <2>4. phase' = "file"
    BY <1>6 DEF AddProgram
  <2> QED  BY <2>1, <2>3, <2>4 DEF TextInv, stripVars
<1> QED  BY <1>2, <1>3, <1>4, <1>5, <1>6 DEF ProgramNext

\* The texts of the programs and the scan of strip_timestamps are well-typed.
THEOREM TextsAreTyped == ProgramSpec => [](StreamInv /\ TextInv)
<1>1. ProgramInit => TextInv
  <2> SUFFICES ASSUME ProgramInit PROVE TextInv
    OBVIOUS
  <2>1. /\ text = <<>> /\ current = 1 /\ stripped_text = <<>> /\ pc = "done"
        /\ programs = <<>> /\ phase = "file"
    BY DEF ProgramInit
  <2>2. text \in Texts /\ Len(text) = 0
    BY <2>1 DEF Texts
  <2>3. programs \in Seq([raw_text : Texts, text : Texts])
    BY <2>1, EmptySeq
  <2> QED  BY <2>1, <2>2, <2>3 DEF TextInv
<1>2. StreamInv /\ TextInv /\ [ProgramNext]_programVars => TextInv'
  BY TextInvStep
<1> QED  BY <1>1, <1>2, StreamIsRead, PTL DEF ProgramSpec

------------------------------------------------------------------------------
(* What is read of a well-formed file.  What the file says is put in terms  *)
(* of the contents f, which no step changes.                                *)

FirstsOf(f) == {k \in DOMAIN f : f[k] = "C3"}
MarksOf(f) == {k \in FirstsOf(f) : k < Len(f) /\ f[k + 1] = "BF"}

IsWellFormed(f) ==
  /\ 1 \in MarksOf(f)
  /\ \A k \in DOMAIN f : f[k] = "BF" => k - 1 \in MarksOf(f)

WrittenIn(f, k) ==
  LET ends == {j \in FirstsOf(f) : j > k}
  IN  Body(SubSeq(f, k + 2, IF ends = {} THEN Len(f) ELSE Min(ends) - 1))

\* The marks before p.
Upto(f, p) == {k \in MarksOf(f) : k < p}

\* The programs of the marks before p, and no others.
AreRead(f, ps, p) ==
  /\ Len(ps) = Cardinality(Upto(f, p))
  /\ \A k \in Upto(f, p) : ps[Cardinality(Upto(f, k + 1))].raw_text = WrittenIn(f, k)

\* An accented letter in the last program ends it.
LastIsCut(f, ps) == AreRead(f, ps, Len(f) + 1) /\ Max(FirstsOf(f)) \notin MarksOf(f)

\* What is returned at the end of the file.
AllRead(f, ps) ==
  /\ \A k \in MarksOf(f) : ps[Cardinality(Upto(f, k + 1))].raw_text = WrittenIn(f, k)
  /\ IF Max(FirstsOf(f)) \in MarksOf(f) THEN Len(ps) = Cardinality(MarksOf(f))
     ELSE Len(ps) = Cardinality(MarksOf(f)) + 1 /\ ps[Len(ps)].raw_text = <<>>

\* The program about to be added is that of the mark m, the last before p.
IsNext(f, ps, raw, m, p) ==
  /\ m \in MarksOf(f)
  /\ AreRead(f, ps, m)
  /\ Upto(f, p) = Upto(f, m) \cup {m}
  /\ raw = WrittenIn(f, m)

Pending(f, st, ps, raw) ==
  /\ IsGood(st) =>
       /\ st.pos > 1
       /\ f[st.pos - 1] = "C3"
       /\ \E m \in MarksOf(f) : IsNext(f, ps, raw, m, st.pos - 1)
  /\ st.eof =>
       \/ LastIsCut(f, ps) /\ raw = <<>>
       \/ \E m \in MarksOf(f) : IsNext(f, ps, raw, m, Len(f) + 1) /\ Max(FirstsOf(f)) = m

\* Between two programs.
Between(f, st, ps) ==
  /\ IsGood(st) => (st.pos > 1 => f[st.pos - 1] = "C3") /\ AreRead(f, ps, st.pos - 1)
  /\ st.eof => AllRead(f, ps)

\* Behind a mark.
Behind(f, st, ps) ==
  /\ IsGood(st) => st.pos - 2 \in MarksOf(f) /\ AreRead(f, ps, st.pos - 2)
  /\ st.eof => LastIsCut(f, ps)

WrittenInv ==
  IsWellFormed(file) =>
    /\ phase = "file" => Between(file, stream, programs)
    /\ phase = "program" => Behind(file, stream, programs)
    /\ phase = "construct" => Pending(file, stream, programs, Body(text))
    /\ phase = "strip" => Pending(file, stream, programs, text)
    /\ phase = "returned" => AllRead(file, programs)

LEMMA MarksOfFile ==
  ASSUME NEW f \in Texts
  PROVE  /\ Len(f) \in Nat /\ DOMAIN f = 1..Len(f)
         /\ FirstsOf(f) \in SUBSET (1..Len(f)) /\ MarksOf(f) \subseteq FirstsOf(f)
         /\ IsFiniteSet(MarksOf(f))
         /\ \A k \in MarksOf(f) : k + 1 \in 1..Len(f) /\ f[k] = "C3" /\ f[k + 1] = "BF" /\ k \in Nat
<1>1. Len(f) \in Nat /\ DOMAIN f = 1..Len(f)
  BY DEF Texts
<1>2. FirstsOf(f) \in SUBSET (1..Len(f)) /\ MarksOf(f) \subseteq FirstsOf(f)
  BY <1>1 DEF FirstsOf, MarksOf
<1>3. MarksOf(f) \subseteq 1..Len(f)
  BY <1>2
<1>4. IsFiniteSet(1..Len(f))
  BY <1>1, FS_Interval
<1>5. IsFiniteSet(MarksOf(f))
  BY <1>3, <1>4, FS_Subset
<1>6. \A k \in MarksOf(f) : k + 1 \in 1..Len(f) /\ f[k] = "C3" /\ f[k + 1] = "BF" /\ k \in Nat
  BY <1>1 DEF FirstsOf, MarksOf
<1> QED  BY <1>1, <1>2, <1>5, <1>6

LEMMA UptoCount ==
  ASSUME NEW f \in Texts, NEW p \in Int
  PROVE  /\ IsFiniteSet(Upto(f, p)) /\ Cardinality(Upto(f, p)) \in Nat
         /\ \A k \in Upto(f, p) : Cardinality(Upto(f, k + 1)) \in 1..Cardinality(Upto(f, p))
<1>1. IsFiniteSet(Upto(f, p)) /\ Cardinality(Upto(f, p)) \in Nat
  <2>1. Upto(f, p) \subseteq MarksOf(f)
    BY DEF Upto
  <2> QED  BY <2>1, MarksOfFile, FS_Subset, FS_CardinalityType
<1>2. ASSUME NEW k \in Upto(f, p)
      PROVE  Cardinality(Upto(f, k + 1)) \in 1..Cardinality(Upto(f, p))
  <2>1. k \in MarksOf(f) /\ k \in Nat /\ k < p
    BY MarksOfFile DEF Upto
  <2>2. \A n \in MarksOf(f) : n \in Nat
    BY MarksOfFile
  <2>3. Upto(f, k + 1) \subseteq Upto(f, p) /\ k \in Upto(f, k + 1)
    <3>1. ASSUME NEW n \in MarksOf(f), n < k + 1 PROVE n < p
      BY <2>1, <2>2, <3>1
    <3>2. k < k + 1
      BY <2>1
    <3> QED  BY <2>1, <3>1, <3>2 DEF Upto
  <2>4. Cardinality(Upto(f, k + 1)) <= Cardinality(Upto(f, p)) /\ IsFiniteSet(Upto(f, k + 1))
    BY <1>1, <2>3, FS_Subset
  <2>5. Cardinality(Upto(f, k + 1)) \in Nat /\ Cardinality(Upto(f, k + 1)) # 0
    BY <2>3, <2>4, FS_CardinalityType, FS_EmptySet
  <2> QED  BY <1>1, <2>4, <2>5
<1> QED  BY <1>1, <1>2

\* The next program is added.
LEMMA NextIsAdded ==
  ASSUME NEW f \in Texts, NEW R, NEW ps \in Seq(R), NEW x, NEW m, NEW p \in Int,
         IsNext(f, ps, x.raw_text, m, p)
  PROVE  AreRead(f, Append(ps, x), p)
<1> DEFINE qs == Append(ps, x)
           c(n) == Cardinality(Upto(f, n))
<1>1. /\ m \in MarksOf(f) /\ m \in Nat /\ AreRead(f, ps, m)
      /\ Upto(f, p) = Upto(f, m) \cup {m}
  BY MarksOfFile DEF IsNext
<1>2. m \notin Upto(f, m) /\ IsFiniteSet(Upto(f, m)) /\ c(m) \in Nat
  BY <1>1, UptoCount DEF Upto
<1>3. c(p) = c(m) + 1
  BY <1>1, <1>2, FS_AddElement
<1>4. Len(ps) = c(m) /\ Len(qs) = c(m) + 1 /\ qs[c(m) + 1] = x
      /\ \A i \in 1..c(m) : qs[i] = ps[i]
  <2>1. Len(ps) = c(m)
    BY <1>1 DEF AreRead
  <2> HIDE DEF c
  <2> QED  BY <1>2, <2>1, AppendProperties
<1>5. Upto(f, m + 1) = Upto(f, m) \cup {m}
  <2>1. \A n \in MarksOf(f) : n \in Nat
    BY MarksOfFile
  <2>2. \A n \in MarksOf(f) : n < m + 1 <=> n < m \/ n = m
    BY <1>1, <2>1
  <2> QED  BY <1>1, <2>2 DEF Upto
<1>6. ASSUME NEW k \in Upto(f, p) PROVE qs[c(k + 1)].raw_text = WrittenIn(f, k)
  <2>1. CASE k = m
    <3>1. c(k + 1) = c(m) + 1
      BY <1>1, <1>3, <1>5, <2>1
    <3> QED  BY <1>4, <2>1, <3>1 DEF IsNext
  <2>2. CASE k # m
    <3>1. k \in Upto(f, m)
      BY <1>1, <2>2
    <3>2. c(k + 1) \in 1..c(m)
      BY <1>1, <3>1, UptoCount
    <3>3. ps[c(k + 1)].raw_text = WrittenIn(f, k)
      BY <1>1, <3>1 DEF AreRead
    <3> QED  BY <1>4, <3>2, <3>3
  <2> QED  BY <2>1, <2>2
<1> QED  BY <1>3, <1>4, <1>6 DEF AreRead

LEMMA ReadToTheEnd ==
  ASSUME NEW f \in Texts
  PROVE  Upto(f, Len(f) + 1) = MarksOf(f)
<1>1. \A k \in MarksOf(f) : k + 1 \in 1..Len(f) /\ k \in Nat
  BY MarksOfFile
<1>2. Len(f) \in Nat
  BY MarksOfFile
<1> QED  BY <1>1, <1>2 DEF Upto

LEMMA AddedProgram ==
  ASSUME NEW f \in Texts, NEW R, NEW ps \in Seq(R), NEW x, NEW st \in Streams,
         Pending(f, st, ps, x.raw_text)
  PROVE  Between(f, st, Append(ps, x))
<1> DEFINE qs == Append(ps, x)
<1>0. st.pos \in Nat \ {0} /\ Len(f) \in Nat
  BY MarksOfFile DEF Streams
<1>1. ASSUME IsGood(st) PROVE (st.pos > 1 => f[st.pos - 1] = "C3") /\ AreRead(f, qs, st.pos - 1)
  <2>1. PICK m \in MarksOf(f) : IsNext(f, ps, x.raw_text, m, st.pos - 1)
    BY <1>1 DEF Pending
  <2>2. st.pos - 1 \in Int
    BY <1>0
  <2> QED  BY <1>1, <2>1, <2>2, NextIsAdded DEF Pending
<1>2. ASSUME st.eof PROVE AllRead(f, qs)
  <2>1. CASE LastIsCut(f, ps) /\ x.raw_text = <<>>
    <3> DEFINE c == Cardinality(MarksOf(f))
    <3>1. AreRead(f, ps, Len(f) + 1) /\ Max(FirstsOf(f)) \notin MarksOf(f)
      BY <2>1 DEF LastIsCut
    <3>2. /\ Len(ps) = c
          /\ \A k \in MarksOf(f) : ps[Cardinality(Upto(f, k + 1))].raw_text = WrittenIn(f, k)
      BY <3>1, ReadToTheEnd DEF AreRead
    <3>3. c \in Nat /\ \A k \in MarksOf(f) : Cardinality(Upto(f, k + 1)) \in 1..c
      <4>1. Len(f) + 1 \in Int
        BY <1>0
      <4> QED  BY <4>1, UptoCount, ReadToTheEnd
    <3>4. Len(qs) = c + 1 /\ qs[c + 1] = x /\ \A i \in 1..c : qs[i] = ps[i]
      <4> HIDE DEF c
      <4> QED  BY <3>2, <3>3, AppendProperties
    <3>5. \A k \in MarksOf(f) : qs[Cardinality(Upto(f, k + 1))].raw_text = WrittenIn(f, k)
      BY <3>2, <3>3, <3>4
    <3> QED  BY <2>1, <3>1, <3>4, <3>5 DEF AllRead
  <2>2. ASSUME NEW m \in MarksOf(f), IsNext(f, ps, x.raw_text, m, Len(f) + 1), Max(FirstsOf(f)) = m
        PROVE  AllRead(f, qs)
    <3>0. Len(f) + 1 \in Int
      BY <1>0
    <3>1. AreRead(f, qs, Len(f) + 1)
      BY <2>2, <3>0, NextIsAdded
    <3> QED  BY <2>2, <3>1, ReadToTheEnd DEF AllRead, AreRead
  <2> QED  BY <1>2, <2>1, <2>2 DEF Pending
<1> QED  BY <1>1, <1>2 DEF Between

\* getline on a good stream.
LEMMA GoodLine ==
  ASSUME StreamInv, IsGood(stream), NEW delim \in {"C3", "BF"}
  PROVE  LET g == getline(stream, delim)
             e == EndOfLine(stream.pos, delim)
         IN  /\ e \in stream.pos..(Len(file) + 1)
             /\ \A k \in stream.pos..(e - 1) : file[k] # delim
             /\ e <= Len(file) => file[e] = delim
             /\ g.stream.eof => e = Len(file) + 1
             /\ IsGood(g.stream) => e <= Len(file) /\ g.stream.pos = e + 1
             /\ IsGood(g.stream) \/ g.stream.eof => g.line = SubSeq(file, stream.pos, e - 1)
<1> DEFINE g == getline(stream, delim)
           e == EndOfLine(stream.pos, delim)
<1>1. /\ file \in Texts /\ Len(file) \in Nat
      /\ stream.pos \in Nat \ {0} /\ stream.pos <= Len(file) + 1
  BY FilesAssumption DEF StreamInv, Streams, FileSymbols, Texts, IsGood
<1>2. /\ e \in stream.pos..(Len(file) + 1)
      /\ \A k \in stream.pos..(e - 1) : file[k] # delim
      /\ e <= Len(file) => file[e] = delim
  BY <1>1, EndOfLineIs DEF Texts
<1>3. CASE Overflows(stream.pos, e)
  <2>1. g.stream = Overflowed(stream)
    BY <1>3 DEF getline, IsGood
  <2>2. g.stream.fail /\ ~g.stream.eof
    BY <2>1 DEF Overflowed, Failed, IsGood, StreamInv, Streams
  <2> QED  BY <1>2, <2>2 DEF IsGood
<1>4. CASE ~Overflows(stream.pos, e)
  <2> DEFINE x == e > Len(file)
             y == e > Len(file) /\ e = stream.pos
  <2>1. g = [line |-> Line(stream.pos, e), stream |-> [pos |-> e + 1, eof |-> x, fail |-> y]]
    BY <1>4 DEF getline, IsGood
  <2>2. /\ g.line = SubSeq(file, stream.pos, e - 1)
        /\ g.stream.pos = e + 1
        /\ g.stream.eof => e > Len(file)
        /\ ~g.stream.eof => ~(e > Len(file))
    <3>1. x \in BOOLEAN
      OBVIOUS
    <3>2. g.line = SubSeq(file, stream.pos, e - 1) /\ g.stream.pos = e + 1 /\ g.stream.eof = x
      <4> DEFINE st == [pos |-> e + 1, eof |-> x, fail |-> y]
      <4>1. st.pos = e + 1 /\ st.eof = x
        <5> HIDE DEF e, x, y
        <5> QED  OBVIOUS
      <4> HIDE DEF st, g
      <4>2. g.line = Line(stream.pos, e) /\ g.stream = st
        BY <2>1 DEF st
      <4> QED  BY <4>1, <4>2 DEF Line
    <3> QED  BY <3>1, <3>2
  <2>3. (~(e > Len(file)) => e <= Len(file)) /\ (e > Len(file) => e = Len(file) + 1)
    BY <1>1, <1>2
  <2> QED  BY <1>2, <2>2, <2>3 DEF IsGood
<1> QED  BY <1>3, <1>4

LEMMA BadLine ==
  ASSUME StreamInv, ~IsGood(stream), NEW delim
  PROVE  /\ getline(stream, delim).line = <<>>
         /\ getline(stream, delim).stream.eof = stream.eof
         /\ ~IsGood(getline(stream, delim).stream)
<1>1. getline(stream, delim) = [line |-> <<>>, stream |-> [stream EXCEPT !.fail = TRUE]]
  BY DEF getline, Failed, IsGood
<1> QED  BY <1>1 DEF IsGood, StreamInv, Streams

\* What is in front of the next mark is dropped.
LEMMA MarkIsSkipped ==
  ASSUME StreamInv, IsGood(stream), IsWellFormed(file), NEW ps, Between(file, stream, ps)
  PROVE  Behind(file, getline(stream, "BF").stream, ps)
<1> DEFINE g == getline(stream, "BF").stream
           e == EndOfLine(stream.pos, "BF")
           p == stream.pos
<1>1. /\ file \in Texts /\ Len(file) \in Nat /\ p \in Nat \ {0}
      /\ p > 1 => file[p - 1] = "C3"
      /\ AreRead(file, ps, p - 1)
  <2>1. file \in Texts /\ p \in Nat \ {0}
    BY FilesAssumption DEF StreamInv, Streams, FileSymbols, Texts
  <2> QED  BY <2>1, MarksOfFile DEF Between
<1>2. /\ e \in p..(Len(file) + 1)
      /\ \A k \in p..(e - 1) : file[k] # "BF"
      /\ e <= Len(file) => file[e] = "BF"
      /\ g.eof => e = Len(file) + 1
      /\ IsGood(g) => e <= Len(file) /\ g.pos = e + 1
  BY GoodLine
<1> HIDE DEF g, e, p
<1>3. \A k \in MarksOf(file) : k + 1 \in 1..Len(file) /\ file[k + 1] = "BF" /\ k \in Nat \ {0}
  BY <1>1, MarksOfFile
<1>4. \A k \in MarksOf(file) : k < e - 1 <=> k < p - 1
  <2>1. ASSUME NEW k \in MarksOf(file), k < e - 1, ~(k < p - 1) PROVE FALSE
    <3>1. k + 1 \in p..(e - 1)
      BY <1>1, <1>2, <1>3, <2>1
    <3> QED  BY <1>2, <1>3, <3>1
  <2>2. ASSUME NEW k \in MarksOf(file), k < p - 1 PROVE k < e - 1
    BY <1>1, <1>2, <1>3, <2>2
  <2> QED  BY <2>1, <2>2
<1>5. Upto(file, e - 1) = Upto(file, p - 1) /\ AreRead(file, ps, e - 1)
  BY <1>1, <1>4 DEF Upto, AreRead
<1>6. ASSUME IsGood(g) PROVE g.pos - 2 \in MarksOf(file) /\ AreRead(file, ps, g.pos - 2)
  <2>1. e \in DOMAIN file /\ file[e] = "BF" /\ g.pos - 2 = e - 1
    BY <1>1, <1>2, <1>6, MarksOfFile
  <2>2. e - 1 \in MarksOf(file)
    BY <2>1 DEF IsWellFormed
  <2> QED  BY <1>5, <2>1, <2>2
<1>7. ASSUME g.eof PROVE LastIsCut(file, ps)
  <2>1. e = Len(file) + 1
    BY <1>2, <1>7
  <2>2. \A k \in MarksOf(file) : k < e - 1
    BY <1>1, <1>3, <2>1
  <2>3. Upto(file, Len(file) + 1) = Upto(file, e - 1)
    BY <1>1, <2>2, ReadToTheEnd DEF Upto
  <2>4. AreRead(file, ps, Len(file) + 1)
    BY <1>5, <2>3 DEF AreRead
  <2>5. p > 1
    <3>1. 1 \in MarksOf(file)
      BY DEF IsWellFormed
    <3>2. 1 < p - 1
      BY <1>4, <2>2, <3>1
    <3> QED  BY <1>1, <3>2
  <2>6. p - 1 \in FirstsOf(file)
    <3>1. p - 1 \in 1..Len(file)
      BY <1>1, <1>2, <2>5
    <3> QED  BY <1>1, <2>5, <3>1, MarksOfFile DEF FirstsOf
  <2>7. Max(FirstsOf(file)) \in FirstsOf(file) /\ p - 1 <= Max(FirstsOf(file))
    <3>1. FirstsOf(file) \in SUBSET (1..Len(file))
      BY <1>1, MarksOfFile
    <3> QED  BY <1>1, <2>6, <3>1, MaxIs
  <2>8. Max(FirstsOf(file)) \notin MarksOf(file)
    <3>1. \A k \in MarksOf(file) : k < p - 1
      BY <1>4, <2>2
    <3>2. ASSUME NEW k \in MarksOf(file) PROVE ~(p - 1 <= k)
      BY <1>1, <1>3, <3>1
    <3> QED  BY <2>7, <3>2
  <2> QED  BY <2>4, <2>8 DEF LastIsCut
<1> QED  BY <1>6, <1>7 DEF Behind, g

\* What is in front of the next accented letter is kept.
LEMMA ProgramIsRead ==
  ASSUME StreamInv, IsWellFormed(file), NEW ps, Behind(file, stream, ps)
  PROVE  Pending(file, getline(stream, "C3").stream, ps, Body(getline(stream, "C3").line))
<1> DEFINE g == getline(stream, "C3").stream
           raw == Body(getline(stream, "C3").line)
           e == EndOfLine(stream.pos, "C3")
           p == stream.pos
           m == p - 2
<1>1. file \in Texts /\ Len(file) \in Nat /\ p \in Nat \ {0}
  <2>1. file \in Texts /\ p \in Nat \ {0}
    BY FilesAssumption DEF StreamInv, Streams, FileSymbols, Texts
  <2> QED  BY <2>1, MarksOfFile
<1>2. CASE ~IsGood(stream)
  <2>1. getline(stream, "C3").line = <<>> /\ g.eof = stream.eof /\ ~IsGood(g)
    BY <1>2, BadLine
  <2>2. raw = <<>>
    BY <2>1, EmptyBody
  <2> QED  BY <2>1, <2>2 DEF Behind, Pending
<1>3. CASE IsGood(stream)
  <2>1. /\ e \in p..(Len(file) + 1)
        /\ \A k \in p..(e - 1) : file[k] # "C3"
        /\ e <= Len(file) => file[e] = "C3"
        /\ g.eof => e = Len(file) + 1
        /\ IsGood(g) => e <= Len(file) /\ g.pos = e + 1
        /\ IsGood(g) \/ g.eof => getline(stream, "C3").line = SubSeq(file, p, e - 1)
    BY <1>3, GoodLine
  <2>2. m \in MarksOf(file) /\ AreRead(file, ps, m)
    BY <1>3 DEF Behind
  <2>3. /\ m + 1 \in 1..Len(file) /\ file[m + 1] = "BF" /\ file[m] = "C3" /\ m \in Nat \ {0}
        /\ p = m + 2
    <3>1. /\ m + 1 \in 1..Len(file) /\ file[m + 1] = "BF"
          /\ m \in Nat /\ m \in 1..Len(file) /\ file[m] = "C3"
      BY <1>1, <2>2, MarksOfFile
    <3> QED  BY <1>1, <3>1
  <2>4. raw = Body(SubSeq(file, p, e - 1)) \/ ~(IsGood(g) \/ g.eof)
    BY <2>1
  <2> HIDE DEF g, raw, e, p, m
  <2>5. ASSUME NEW k \in FirstsOf(file), k > m PROVE k \in Nat /\ e <= k
    <3>1. k \in 1..Len(file) /\ file[k] = "C3"
      BY <1>1, MarksOfFile DEF FirstsOf
    <3>2. k # m + 1
      BY <2>3, <3>1
    <3>3. k >= p
      BY <1>1, <2>3, <2>5, <3>1, <3>2
    <3>4. k \notin p..(e - 1)
      BY <2>1, <3>1
    <3> QED  BY <1>1, <2>1, <3>1, <3>3, <3>4
  <2> DEFINE ends == {j \in FirstsOf(file) : j > m}
  <2>6. (IF ends = {} THEN Len(file) ELSE Min(ends) - 1) = e - 1
    <3>1. CASE e <= Len(file)
      <4>1. e \in ends
        <5>1. e \in DOMAIN file /\ file[e] = "C3" /\ e > m
          BY <1>1, <2>1, <2>3, <3>1, MarksOfFile
        <5> QED  BY <5>1 DEF FirstsOf
      <4>2. ends \subseteq Nat /\ \A j \in ends : e <= j
        BY <2>5
      <4>3. Min(ends) \in ends /\ Min(ends) <= e
        <5> HIDE DEF ends
        <5> QED  BY <4>1, <4>2, MinIs
      <4>4. Min(ends) = e
        <5> HIDE DEF ends
        <5>1. Min(ends) \in Nat /\ e \in Nat /\ e <= Min(ends)
          BY <4>1, <4>2, <4>3
        <5> QED  BY <4>3, <5>1
      <4> QED  BY <4>1, <4>4
    <3>2. CASE ~(e <= Len(file))
      <4>1. e = Len(file) + 1
        BY <1>1, <2>1, <3>2
      <4>2. \A k \in FirstsOf(file) : k \in 1..Len(file)
        BY <1>1, MarksOfFile
      <4>3. ends = {}
        BY <1>1, <2>5, <4>1, <4>2
      <4> QED  BY <1>1, <4>1, <4>3
    <3> QED  BY <3>1, <3>2
  <2>7. WrittenIn(file, m) = Body(SubSeq(file, p, e - 1))
    BY <2>3, <2>6 DEF WrittenIn
  <2>8. Upto(file, e) = Upto(file, m) \cup {m}
    <3>1. ASSUME NEW k \in MarksOf(file) PROVE k < e <=> k < m \/ k = m
      <4>1. k \in FirstsOf(file) /\ k \in Nat
        BY <1>1, MarksOfFile
      <4>2. k > m => e <= k
        BY <2>5, <4>1
      <4> QED  BY <1>1, <2>1, <2>3, <4>1, <4>2
    <3> QED  BY <2>2, <3>1 DEF Upto
  <2>9. ASSUME IsGood(g)
         PROVE  /\ g.pos > 1 /\ file[g.pos - 1] = "C3"
                /\ \E n \in MarksOf(file) : IsNext(file, ps, raw, n, g.pos - 1)
    <3>1. g.pos > 1 /\ g.pos - 1 = e /\ file[e] = "C3"
      BY <1>1, <2>1, <2>9
    <3>2. IsNext(file, ps, raw, m, e)
      BY <2>2, <2>4, <2>7, <2>8, <2>9 DEF IsNext
    <3> QED  BY <2>2, <3>1, <3>2
  <2>10. ASSUME g.eof
         PROVE  \E n \in MarksOf(file) :
                  IsNext(file, ps, raw, n, Len(file) + 1) /\ Max(FirstsOf(file)) = n
    <3>1. e = Len(file) + 1
      BY <2>1, <2>10
    <3>2. IsNext(file, ps, raw, m, Len(file) + 1)
      BY <2>2, <2>4, <2>7, <2>8, <2>10, <3>1 DEF IsNext
    <3>3. FirstsOf(file) \in SUBSET (1..Len(file)) /\ m \in FirstsOf(file)
      BY <1>1, <2>2, MarksOfFile
    <3>4. Max(FirstsOf(file)) \in FirstsOf(file) /\ m <= Max(FirstsOf(file))
      BY <1>1, <3>3, MaxIs
    <3>5. Max(FirstsOf(file)) = m
      <4> DEFINE x == Max(FirstsOf(file))
      <4>1. x \in 1..Len(file) /\ (x > m => e <= x)
        BY <2>5, <3>3, <3>4
      <4> HIDE DEF x
      <4>2. x = m
        BY <1>1, <2>3, <3>1, <3>4, <4>1 DEF x
      <4> QED  BY <4>2 DEF x
    <3> QED  BY <2>2, <3>2, <3>5
  <2> QED  BY <2>9, <2>10 DEF Pending, g, raw
<1> QED  BY <1>2, <1>3

LEMMA WrittenInvStep ==
  ASSUME StreamInv, TextInv, WrittenInv, [ProgramNext]_programVars
  PROVE  WrittenInv'
<1> SUFFICES ASSUME IsWellFormed(file)' PROVE WrittenInv'
  BY DEF WrittenInv
<1>1. /\ file' = file /\ file \in Texts /\ stream \in Streams
      /\ programs \in Seq([raw_text : Texts, text : Texts])
  <2>1. file' = file
    BY DEF ProgramNext, SkipMark, ReadProgram, Construct, StripStep, AddProgram, Throw, Return,
      programVars
  <2>2. file \in Texts
    BY FilesAssumption DEF StreamInv, FileSymbols, Texts
  <2> QED  BY <2>1, <2>2 DEF StreamInv, TextInv
<1>2. IsWellFormed(file)
  BY <1>1
<1>3. CASE SkipMark
  <2>1. /\ phase = "file" /\ IsGood(stream) /\ phase' = "program"
        /\ stream' = getline(stream, "BF").stream /\ programs' = programs
    BY <1>3 DEF SkipMark, IsGood
  <2>2. Behind(file, stream', programs)
    BY <1>2, <2>1, MarkIsSkipped DEF WrittenInv
  <2> QED  BY <1>1, <2>1, <2>2 DEF WrittenInv
<1>4. CASE ReadProgram
  <2>1. /\ phase = "program" /\ phase' = "construct" /\ programs' = programs
        /\ stream' = getline(stream, "C3").stream /\ text' = getline(stream, "C3").line
    BY <1>4 DEF ReadProgram
  <2>2. Pending(file, stream', programs, Body(text'))
    BY <1>2, <2>1, ProgramIsRead DEF WrittenInv
  <2>3. Body(text)' = Body(text')
    BY DEF Body, Trimmed
  <2> QED  BY <1>1, <2>1, <2>2, <2>3 DEF WrittenInv
<1>5. CASE Construct
  <2>1. /\ phase = "construct" /\ phase' = "strip" /\ text' = Body(text)
        /\ UNCHANGED <<programs, stream>>
    BY <1>5 DEF Construct
  <2> QED  BY <1>1, <1>2, <2>1 DEF WrittenInv
<1>6. CASE StripStep
  <2>1. phase = "strip" /\ phase' = "strip" /\ UNCHANGED <<programs, stream, text>>
    BY <1>6 DEF StripStep, StripNext, Timestamp, NotATimestamp, Rest
  <2> QED  BY <1>1, <1>2, <2>1 DEF WrittenInv
<1>7. CASE AddProgram
  <2> DEFINE x == [raw_text |-> text, text |-> stripped_text]
  <2>1. phase = "strip" /\ phase' = "file" /\ programs' = Append(programs, x) /\ stream' = stream
    BY <1>7 DEF AddProgram
  <2>2. Pending(file, stream, programs, x.raw_text)
    BY <1>2, <2>1 DEF WrittenInv
  <2>3. Between(file, stream, Append(programs, x))
    <3> HIDE DEF x
    <3> QED  BY <1>1, <2>2, AddedProgram
  <2> QED  BY <1>1, <2>1, <2>3 DEF WrittenInv
<1>8. CASE Throw
  <2>1. phase' = "corrupt"
    BY <1>8 DEF Throw
  <2> QED  BY <2>1 DEF WrittenInv
<1>9. CASE Return
  <2>1. phase = "file" /\ stream.eof /\ phase' = "returned" /\ UNCHANGED <<programs, stream>>
    BY <1>9 DEF Return
  <2> QED  BY <1>1, <1>2, <2>1 DEF WrittenInv, Between
<1>10. CASE UNCHANGED programVars
  <2>1. UNCHANGED <<programs, stream, text, phase>>
    BY <1>10 DEF programVars, stripVars
  <2>2. Body(text)' = Body(text)
    BY <2>1 DEF Body, Trimmed
  <2> QED  BY <1>1, <1>2, <2>1, <2>2 DEF WrittenInv
<1> QED  BY <1>3, <1>4, <1>5, <1>6, <1>7, <1>8, <1>9, <1>10 DEF ProgramNext

\* parse_programs gives back the programs of a well-formed file that it does
\* not report corrupt, in order and whole.
THEOREM ProgramsAreAsWritten == ProgramSpec => []ProgramsAsWritten
<1>1. ProgramInit /\ StreamInv => WrittenInv
  <2> SUFFICES ASSUME ProgramInit, StreamInv PROVE WrittenInv
    OBVIOUS
  <2>1. phase = "file" /\ programs = <<>>
    BY DEF ProgramInit
  <2>2. PICK opened \in BOOLEAN : stream = [pos |-> 1, eof |-> FALSE, fail |-> ~opened]
    BY DEF ProgramInit
  <2>3. file \in Texts
    BY FilesAssumption DEF StreamInv, FileSymbols, Texts
  <2>4. Upto(file, 0) = {}
    <3>1. \A k \in MarksOf(file) : k \in 1..Len(file)
      BY <2>3, MarksOfFile
    <3>2. Len(file) \in Nat
      BY <2>3, MarksOfFile
    <3> QED  BY <3>1, <3>2 DEF Upto
  <2>5. AreRead(file, programs, 0)
    BY <2>1, <2>4, FS_EmptySet DEF AreRead
  <2>6. stream.pos = 1 /\ ~stream.eof
    BY <2>2
  <2> QED  BY <2>1, <2>5, <2>6 DEF WrittenInv, Between
<1>2. StreamInv /\ TextInv /\ WrittenInv /\ [ProgramNext]_programVars => WrittenInv'
  BY WrittenInvStep
<1>3. StreamInv /\ WrittenInv => ProgramsAsWritten
  <2> SUFFICES ASSUME StreamInv, WrittenInv, phase = "returned", WellFormed
               PROVE  /\ \A k \in Marks :
                           programs[Cardinality({j \in Marks : j <= k})].raw_text = Written(k)
                      /\ IF Max(Firsts) \in Marks THEN Len(programs) = Cardinality(Marks)
                         ELSE /\ Len(programs) = Cardinality(Marks) + 1
                              /\ programs[Len(programs)].raw_text = <<>>
    BY DEF ProgramsAsWritten
  <2>1. Firsts = FirstsOf(file) /\ Marks = MarksOf(file)
    BY DEF Firsts, Marks, FirstsOf, MarksOf
  <2>2. IsWellFormed(file)
    BY <2>1 DEF WellFormed, IsWellFormed
  <2>3. AllRead(file, programs)
    BY <2>2 DEF WrittenInv
  <2>4. file \in Texts
    BY FilesAssumption DEF StreamInv, FileSymbols, Texts
  <2>5. ASSUME NEW k \in Marks
        PROVE  programs[Cardinality({j \in Marks : j <= k})].raw_text = Written(k)
    <3>1. k \in Nat /\ \A j \in Marks : j \in Nat
      BY <2>1, <2>4, MarksOfFile
    <3>2. \A j \in Marks : j <= k <=> j < k + 1
      BY <3>1
    <3>3. {j \in Marks : j <= k} = Upto(file, k + 1)
      BY <2>1, <3>2 DEF Upto
    <3>4. Written(k) = WrittenIn(file, k)
      BY <2>1 DEF Written, WrittenIn
    <3> QED  BY <2>1, <2>3, <3>3, <3>4 DEF AllRead
  <2> QED  BY <2>1, <2>3, <2>5 DEF AllRead
<1> QED  BY <1>1, <1>2, <1>3, TextsAreTyped, PTL DEF ProgramSpec

------------------------------------------------------------------------------
(* What is stripped of a text t: as above, nothing here changes with a step *)
(* but the text itself.                                                     *)

Inside(t, k) == \E b \in Timestamps(t) : b <= k /\ k <= b + 2

StrippedIn(t, k) ==
  \/ Inside(t, k)
  \/ \E n \in DOMAIN t :
       /\ Inside(t, n)
       /\ \A i \in (n + 1)..k \cup k..(n - 1) : t[i] = "newline" \/ Inside(t, i)
       /\ t[k] = "newline"

IsKeptOf(t, f) ==
  f = [n \in 0..Len(t) |->
         IF n = 0 THEN <<>>
         ELSE IF StrippedIn(t, n) THEN f[n - 1] ELSE Append(f[n - 1], t[n])]

KeptOf(t) == CHOOSE f : IsKeptOf(t, f)

\* The scan stands between two timestamps, at a symbol that stays.
Solid(t, k) == t[k] # "newline" /\ ~Inside(t, k)
Edge(t, c) == c = 1 \/ c = Len(t) + 1 \/ Solid(t, c - 1) \/ Solid(t, c)
BetweenTimestamps(t, c) == \A b \in Timestamps(t) : b + 2 < c \/ b >= c

LEMMA TripleIs ==
  ASSUME NEW q \in Texts, Len(q) = 3
  PROVE  q = <<"[", "time", "]">> <=> q[1] = "[" /\ q[2] = "time" /\ q[3] = "]"
<1> DEFINE r == <<"[", "time", "]">>
<1>1. Len(r) = 3 /\ r[1] = "[" /\ r[2] = "time" /\ r[3] = "]"
  OBVIOUS
<1>2. r \in Seq(FileSymbols)
  BY DEF FileSymbols, Symbols
<1> HIDE DEF r
<1>3. ASSUME q[1] = "[", q[2] = "time", q[3] = "]" PROVE q = r
  <2>1. \A k \in 1..3 : k = 1 \/ k = 2 \/ k = 3
    OBVIOUS
  <2>2. \A k \in 1..3 : q[k] = r[k]
    BY <1>1, <1>3, <2>1
  <2>3. q \in Seq(FileSymbols)
    BY DEF Texts
  <2> QED  BY <1>1, <1>2, <2>2, <2>3, SeqEqual
<1> QED  BY <1>1, <1>3 DEF r

LEMMA TimestampIs ==
  ASSUME NEW t \in Texts
  PROVE  \A b \in Int : b \in Timestamps(t) <=> /\ b \in 1..(Len(t) - 2)
                                                /\ t[b] = "[" /\ t[b + 1] = "time" /\ t[b + 2] = "]"
<1>0. Len(t) \in Nat
  BY DEF Texts
<1>1. ASSUME NEW b \in 1..(Len(t) - 2)
      PROVE  SubSeq(t, b, b + 2) = <<"[", "time", "]">> <=>
               t[b] = "[" /\ t[b + 1] = "time" /\ t[b + 2] = "]"
  <2> DEFINE q == SubSeq(t, b, b + 2)
  <2>1. q \in Texts /\ Len(q) = 3 /\ \A k \in 1..3 : q[k] = t[b + k - 1]
    <3>1. b \in Nat \ {0} /\ b + 2 \in Int /\ b + 2 <= Len(t) /\ b <= b + 2 /\ (b + 2) - b + 1 = 3
      BY <1>0
    <3> QED  BY <3>1, PartOf
  <2>2. q[1] = t[b] /\ q[2] = t[b + 1] /\ q[3] = t[b + 2]
    <3>1. q[1] = t[b + 1 - 1] /\ q[2] = t[b + 2 - 1] /\ q[3] = t[b + 3 - 1]
      <4> HIDE DEF q
      <4> QED  BY <2>1
    <3> QED  BY <3>1
  <2>3. q = <<"[", "time", "]">> <=> q[1] = "[" /\ q[2] = "time" /\ q[3] = "]"
    <3> HIDE DEF q
    <3> QED  BY <2>1, TripleIs
  <2> HIDE DEF q
  <2>4. q = <<"[", "time", "]">> <=> t[b] = "[" /\ t[b + 1] = "time" /\ t[b + 2] = "]"
    BY <2>2, <2>3
  <2> QED  BY <2>4 DEF q
<1> QED  BY <1>0, <1>1 DEF Timestamps

LEMMA KeptExists ==
  ASSUME NEW t \in Texts
  PROVE  /\ KeptOf(t) \in [0..Len(t) -> Texts]
         /\ KeptOf(t)[0] = <<>>
         /\ \A n \in 1..Len(t) :
              KeptOf(t)[n] = IF StrippedIn(t, n) THEN KeptOf(t)[n - 1]
                             ELSE Append(KeptOf(t)[n - 1], t[n])
<1> DEFINE N == Len(t)
           Extended(q, n) == IF StrippedIn(t, n) THEN q ELSE Append(q, t[n])
           Is(g, m) == g[0] = <<>> /\ \A n \in 1..m : g[n] = Extended(g[n - 1], n)
           Bad == {m \in 0..N : ~\E g \in [0..m -> Texts] : Is(g, m)}
<1>0. N \in Nat /\ <<>> \in Texts /\ \A q \in Texts, n \in 1..N : Extended(q, n) \in Texts
  BY DEF Texts
<1> HIDE DEF N, Extended
<1>1. N \notin Bad
  <2> SUFFICES ASSUME N \in Bad PROVE FALSE
    OBVIOUS
  <2>1. PICK m \in Bad : \A n \in Bad : m <= n
    <3>1. Bad \subseteq Nat /\ Bad # {}
      OBVIOUS
    <3> HIDE DEF Bad
    <3> QED  BY <3>1, LeastNumber
  <2>2. m \in 0..N /\ ~\E g \in [0..m -> Texts] : Is(g, m)
    BY <2>1
  <2>3. CASE m = 0
    <3> DEFINE g == [n \in 0..0 |-> <<>>]
    <3>1. g \in [0..m -> Texts] /\ g[0] = <<>> /\ 1..m = {}
      BY <1>0, <2>3
    <3> QED  BY <2>2, <3>1
  <2>4. CASE m # 0
    <3>1. m - 1 \in 0..N /\ m - 1 \notin Bad
      <4>1. m - 1 \in 0..N /\ ~(m <= m - 1)
        BY <1>0, <2>2, <2>4
      <4> HIDE DEF Bad
      <4> QED  BY <2>1, <4>1
    <3>2. PICK h \in [0..(m - 1) -> Texts] : Is(h, m - 1)
      BY <3>1
    <3> DEFINE g == [n \in 0..m |-> IF n = m THEN Extended(h[m - 1], m) ELSE h[n]]
    <3>3. ASSUME NEW n \in 0..m PROVE n = m \/ n \in 0..(m - 1)
      BY <1>0, <2>2
    <3>4. Extended(h[m - 1], m) \in Texts
      <4>1. m - 1 \in 0..(m - 1) /\ m \in 1..N
        BY <1>0, <2>2, <2>4
      <4> QED  BY <1>0, <4>1
    <3>5. g \in [0..m -> Texts]
      BY <3>3, <3>4
    <3>6. g[0] = <<>>
      BY <1>0, <2>2, <2>4, <3>2
    <3>7. ASSUME NEW n \in 1..m PROVE g[n] = Extended(g[n - 1], n)
      <4>1. g[n - 1] = h[n - 1]
        BY <1>0, <2>2, <2>4
      <4>2. CASE n = m
        <5>1. g[m] = Extended(h[m - 1], m)
          BY <1>0, <2>2, <2>4
        <5> QED  BY <4>1, <4>2, <5>1
      <4>3. CASE n # m
        <5>1. n \in 1..(m - 1) /\ g[n] = h[n]
          BY <1>0, <2>2, <4>3
        <5> QED  BY <3>2, <4>1, <5>1
      <4> QED  BY <4>2, <4>3
    <3> HIDE DEF g
    <3> QED  BY <2>2, <3>5, <3>6, <3>7
  <2> QED  BY <2>3, <2>4
<1>2. PICK g \in [0..N -> Texts] : Is(g, N)
  BY <1>0, <1>1
<1>3. IsKeptOf(t, g)
  <2>1. ASSUME NEW n \in 0..N
        PROVE  g[n] = IF n = 0 THEN <<>>
                      ELSE IF StrippedIn(t, n) THEN g[n - 1] ELSE Append(g[n - 1], t[n])
    <3>1. n = 0 \/ n \in 1..N
      BY <1>0
    <3> QED  BY <1>2, <3>1 DEF Extended
  <2> QED  BY <1>2, <2>1 DEF IsKeptOf, N
<1> DEFINE f == KeptOf(t)
<1>4. IsKeptOf(t, f)
  BY <1>3 DEF KeptOf
<1> HIDE DEF f
<1>5. f[0] = <<>> /\ DOMAIN f = 0..N
  BY <1>0, <1>4 DEF IsKeptOf, N
<1>6. ASSUME NEW n \in 1..N
      PROVE  f[n] = IF StrippedIn(t, n) THEN f[n - 1] ELSE Append(f[n - 1], t[n])
  <2>1. n \in 0..N /\ n # 0
    BY <1>0
  <2> QED  BY <1>4, <2>1 DEF IsKeptOf, N
<1>7. \A n \in 0..N : f[n] = g[n]
  <2> DEFINE Wrong == {n \in 0..N : f[n] # g[n]}
  <2> SUFFICES ASSUME Wrong # {} PROVE FALSE
    OBVIOUS
  <2>1. PICK n \in Wrong : \A m \in Wrong : n <= m
    <3>1. Wrong \subseteq Nat
      OBVIOUS
    <3> HIDE DEF Wrong
    <3> QED  BY <3>1, LeastNumber
  <2>2. n \in 1..N /\ n - 1 \in 0..N /\ ~(n <= n - 1)
    BY <1>0, <1>2, <1>5, <2>1
  <2>3. f[n - 1] = g[n - 1]
    <3>1. n - 1 \notin Wrong
      <4> HIDE DEF Wrong
      <4> QED  BY <2>1, <2>2
    <3> QED  BY <2>2, <3>1
  <2> QED  BY <1>2, <1>6, <2>1, <2>2, <2>3 DEF Extended
<1>8. f \in [0..N -> Texts]
  <2>1. f = [n \in 0..N |-> f[n]]
    BY <1>4, <1>5 DEF IsKeptOf, N
  <2> QED  BY <1>2, <1>7, <2>1
<1> QED  BY <1>5, <1>6, <1>8 DEF N, f

\* A stretch of which nothing stays, and one that stays whole.
LEMMA KeptOfStretch ==
  ASSUME NEW t \in Texts, NEW c \in 1..(Len(t) + 1), NEW d \in (c - 1)..Len(t)
  PROVE  /\ (\A k \in c..d : StrippedIn(t, k)) => KeptOf(t)[d] = KeptOf(t)[c - 1]
         /\ (\A k \in c..d : ~StrippedIn(t, k)) =>
              KeptOf(t)[d] = KeptOf(t)[c - 1] \o SubSeq(t, c, d)
<1> DEFINE N == Len(t)
           f == KeptOf(t)
           S(k) == StrippedIn(t, k)
<1>0. N \in Nat /\ c \in 1..(N + 1) /\ d \in (c - 1)..N /\ d \in Int
  <2>1. N \in Nat
    BY DEF Texts
  <2> QED  BY <2>1
<1>00. d \in (c - 1)..d /\ (c - 1)..d \subseteq Nat
  BY <1>0
<1>1. /\ f \in [0..N -> Texts]
      /\ \A n \in 1..N : f[n] = IF S(n) THEN f[n - 1] ELSE Append(f[n - 1], t[n])
  BY KeptExists
<1> HIDE DEF f, S
<1>2. ASSUME \A k \in c..d : S(k) PROVE f[d] = f[c - 1]
  <2> DEFINE Bad == {n \in (c - 1)..d : f[n] # f[c - 1]}
  <2> SUFFICES ASSUME d \in Bad PROVE FALSE
    BY <1>0
  <2>1. PICK n \in Bad : \A m \in Bad : n <= m
    <3>1. Bad \subseteq Nat /\ Bad # {}
      BY <1>0
    <3> HIDE DEF Bad
    <3> QED  BY <3>1, LeastNumber
  <2>2. n \in (c - 1)..d /\ f[n] # f[c - 1]
    BY <2>1
  <2>3. n \in c..d /\ n \in 1..N /\ n - 1 \in (c - 1)..d /\ ~(n <= n - 1)
    BY <1>0, <2>2
  <2>4. n - 1 \notin Bad
    <3> HIDE DEF Bad
    <3> QED  BY <2>1, <2>3
  <2>5. f[n - 1] = f[c - 1]
    BY <2>3, <2>4
  <2> HIDE DEF Bad
  <2> QED  BY <1>1, <1>2, <2>2, <2>3, <2>5
<1>3. ASSUME \A k \in c..d : ~S(k) PROVE f[d] = f[c - 1] \o SubSeq(t, c, d)
  <2> DEFINE Whole(n) == f[c - 1] \o SubSeq(t, c, n)
             Bad == {n \in (c - 1)..d : f[n] # Whole(n)}
  <2> HIDE DEF Whole
  <2> SUFFICES ASSUME d \in Bad PROVE FALSE
    BY <1>00 DEF Whole
  <2>1. PICK n \in Bad : \A m \in Bad : n <= m
    <3>1. Bad \subseteq (c - 1)..d /\ d \in Bad
      OBVIOUS
    <3>2. Bad \subseteq Nat /\ Bad # {}
      <4> HIDE DEF Bad
      <4> QED  BY <1>00, <3>1
    <3> HIDE DEF Bad
    <3> QED  BY <3>2, LeastNumber
  <2>2. n \in (c - 1)..d /\ f[n] # Whole(n)
    BY <2>1
  <2>3. f[c - 1] \in Seq(FileSymbols) /\ t \in Seq(FileSymbols)
    BY <1>0, <1>1 DEF Texts
  <2>4. CASE n = c - 1
    <3>1. SubSeq(t, c, n) = <<>>
      BY <1>0, <2>3, <2>4
    <3>2. f[c - 1] \o <<>> = f[c - 1]
      <4> DEFINE q == f[c - 1]
      <4>1. q \in Seq(FileSymbols)
        BY <2>3
      <4> HIDE DEF q
      <4>2. q \o <<>> = q
        BY <4>1, ConcatEmptySeq
      <4> QED  BY <4>2 DEF q
    <3> QED  BY <2>2, <2>4, <3>1, <3>2 DEF Whole
  <2>5. CASE n # c - 1
    <3>1. n \in c..d /\ n \in 1..N /\ n - 1 \in (c - 1)..d /\ ~(n <= n - 1)
      BY <1>0, <2>2, <2>5
    <3>2. n - 1 \notin Bad
      <4> HIDE DEF Bad
      <4> QED  BY <2>1, <3>1
    <3>3. f[n - 1] = f[c - 1] \o SubSeq(t, c, n - 1)
      BY <3>1, <3>2 DEF Whole
    <3>4. f[n] = Append(f[n - 1], t[n])
      BY <1>1, <1>3, <3>1
    <3> DEFINE q == f[c - 1]
               a == SubSeq(t, c, n - 1)
               b == SubSeq(t, c, n)
    <3>5. /\ a \in Seq(FileSymbols) /\ Len(a) = n - c
          /\ b \in Seq(FileSymbols) /\ Len(b) = n - c + 1
          /\ \A k \in 1..(n - c) : a[k] = t[c + k - 1]
          /\ \A k \in 1..(n - c + 1) : b[k] = t[c + k - 1]
      <4>1. c \in Nat \ {0} /\ n \in Int /\ n - 1 \in Int /\ n <= Len(t) /\ n - 1 <= Len(t) /\ c <= n
            /\ (n - 1) - c + 1 = n - c
        BY <1>0, <3>1
      <4>2. /\ b \in Texts
            /\ Len(b) = IF c <= n THEN n - c + 1 ELSE 0
            /\ \A k \in 1..(n - c + 1) : b[k] = t[c + k - 1]
        BY <4>1, PartOf
      <4>3. /\ a \in Texts
            /\ Len(a) = IF c <= n - 1 THEN (n - 1) - c + 1 ELSE 0
            /\ \A k \in 1..((n - 1) - c + 1) : a[k] = t[c + k - 1]
        BY <4>1, PartOf
      <4>4. Len(a) = n - c
        BY <1>0, <3>1, <4>1, <4>3
      <4> HIDE DEF a, b
      <4> QED  BY <4>1, <4>2, <4>3, <4>4 DEF Texts
    <3>6. b = Append(a, t[n])
      <4> HIDE DEF a, b
      <4>1. t[n] \in FileSymbols /\ c + (n - c + 1) - 1 = n /\ n - c \in Nat
        BY <1>0, <2>3, <3>1
      <4>2. Append(a, t[n]) \in Seq(FileSymbols) /\ Len(Append(a, t[n])) = n - c + 1
            /\ Append(a, t[n])[n - c + 1] = t[n]
            /\ \A k \in 1..(n - c) : Append(a, t[n])[k] = a[k]
        BY <3>5, <4>1, AppendProperties
      <4>3. \A k \in 1..(n - c + 1) : b[k] = Append(a, t[n])[k]
        <5>1. ASSUME NEW k \in 1..(n - c + 1), k # n - c + 1 PROVE k \in 1..(n - c)
          BY <4>1, <5>1
        <5>2. b[n - c + 1] = t[n]
          <6>1. n - c + 1 \in 1..(n - c + 1)
            BY <4>1
          <6>2. b[n - c + 1] = t[c + (n - c + 1) - 1]
            BY <3>5, <6>1
          <6> QED  BY <4>1, <6>2
        <5> QED  BY <3>5, <4>2, <5>1, <5>2
      <4> DEFINE b2 == Append(a, t[n])
      <4>4. /\ b \in Seq(FileSymbols) /\ b2 \in Seq(FileSymbols) /\ Len(b) = Len(b2)
            /\ \A k \in 1..Len(b) : b[k] = b2[k]
        BY <3>5, <4>2, <4>3
      <4> HIDE DEF b2
      <4>5. b = b2
        BY ONLY <4>4, SeqEqual
      <4> QED  BY <4>5 DEF b2
    <3>7. Append(q \o a, t[n]) = q \o Append(a, t[n])
      <4> HIDE DEF q, a
      <4>1. q \in Seq(FileSymbols) /\ a \in Seq(FileSymbols) /\ t[n] \in FileSymbols
        BY <2>3, <3>1, <3>5 DEF q
      <4> QED  BY <4>1, SMTT(30)
    <3> QED  BY <2>2, <3>3, <3>4, <3>6, <3>7 DEF Whole
  <2> QED  BY <2>4, <2>5
<1> QED  BY <1>2, <1>3 DEF f, S

\* What stands between two walls and in no timestamp is not stripped.
LEMMA NotStripped ==
  ASSUME NEW t \in Texts, NEW c \in 1..(Len(t) + 1), NEW d \in (c - 1)..Len(t),
         Edge(t, c), d = Len(t) \/ Solid(t, d),
         \A k \in c..d : ~Inside(t, k),
         NEW k \in c..d
  PROVE  ~StrippedIn(t, k)
<1> DEFINE N == Len(t)
<1>0. N \in Nat /\ DOMAIN t = 1..N
  BY DEF Texts
<1>00. c \in Nat /\ k \in Nat /\ d \in Nat /\ 1 <= c /\ c <= k /\ k <= d /\ d <= N
  <2>1. c \in 1..(N + 1) /\ d \in (c - 1)..N /\ k \in c..d
    OBVIOUS
  <2> HIDE DEF N
  <2>2. c \in Int /\ d \in Int
    BY <1>0, <2>1
  <2> QED  BY <1>0, <2>1, <2>2
<1>1. SUFFICES ASSUME NEW n \in 1..Len(t), Inside(t, n),
                      \A i \in (n + 1)..k \cup k..(n - 1) : t[i] = "newline" \/ Inside(t, i)
               PROVE  FALSE
  BY <1>0 DEF StrippedIn
<1>2. \A i \in (n + 1)..k \cup k..(n - 1) : ~Solid(t, i)
  BY <1>1 DEF Solid
<1>11. n \in Nat
  <2>1. n \in 1..N
    OBVIOUS
  <2> QED  BY ONLY <1>0, <2>1
<1>3. n \notin c..d
  BY <1>1
<1> HIDE DEF N
<1>4. CASE n < c
  <2>1. c # 1 /\ c # N + 1 /\ c \in (n + 1)..k
    BY <1>0, <1>00, <1>11, <1>4
  <2>2. Solid(t, c - 1)
    BY <1>2, <2>1 DEF Edge, N
  <2>3. n = c - 1 \/ c - 1 \in (n + 1)..k
    BY <1>0, <1>00, <1>11, <1>4
  <2> QED  BY <1>1, <1>2, <2>2, <2>3 DEF Solid
<1>5. CASE n > d
  <2>1. d # N /\ d \in k..(n - 1)
    BY <1>0, <1>00, <1>11, <1>5
  <2> QED  BY <1>2, <2>1 DEF N
<1> QED  BY <1>0, <1>00, <1>11, <1>3, <1>4, <1>5

ScanInv(t, c, q) == q = KeptOf(t)[c - 1] /\ BetweenTimestamps(t, c) /\ Edge(t, c)

StripInv ==
  Separated(text) /\ Closed(text) =>
    /\ pc = "loop" => ScanInv(text, current, stripped_text)
    /\ pc = "done" => stripped_text = KeptOf(text)[Len(text)]

\* No timestamp that is not passed reaches back before the scan.
LEMMA InsideAhead ==
  ASSUME NEW t \in Texts, NEW c \in Nat, NEW k \in Nat, c <= k,
         BetweenTimestamps(t, c), Inside(t, k)
  PROVE  \E b \in Timestamps(t) :
           /\ b \in 1..(Len(t) - 2) /\ c <= b /\ b <= k /\ k <= b + 2
           /\ t[b] = "[" /\ t[b + 1] = "time" /\ t[b + 2] = "]"
<1>1. PICK b \in Timestamps(t) : b <= k /\ k <= b + 2
  BY DEF Inside
<1>2. b \in Int
  BY DEF Timestamps
<1>3. b \in 1..(Len(t) - 2) /\ t[b] = "[" /\ t[b + 1] = "time" /\ t[b + 2] = "]"
  BY <1>2, TimestampIs
<1>4. c <= b
  <2>1. b + 2 < c \/ b >= c
    BY DEF BetweenTimestamps
  <2> QED  BY <1>1, <1>2, <2>1
<1> QED  BY <1>1, <1>3, <1>4

LEMMA TimestampStep ==
  ASSUME TextInv, Separated(text), Timestamp, ScanInv(text, current, stripped_text)
  PROVE  ScanInv(text, current', stripped_text')
<1> DEFINE t == text
           N == Len(text)
           c == current
           l == left
           f == ForwardOver(right)
           k0 == BackOver(left)
<1>1. t \in Texts /\ N \in Nat /\ c \in 1..(N + 1) /\ BetweenTimestamps(t, c) /\ Edge(t, c)
      /\ stripped_text = KeptOf(t)[c - 1]
  BY DEF TextInv, Texts, ScanInv
<1>2. /\ l \in c..N /\ t[l] = "[" /\ t[l + 1] = "time" /\ t[l + 2] = "]"
      /\ right = l + 2 /\ l + 2 \in c..N
      /\ \A k \in c..(l - 1) : t[k] # "["
  <2>1. /\ left \in current..Len(text) /\ text[left] = "["
        /\ right \in current..Len(text) /\ text[right] = "]"
        /\ \A k \in current..(left - 1) : text[k] # "["
    BY BracketsAhead DEF Timestamp
  <2>2. right = left + 2 /\ text[left + 1] = "time"
    BY DEF Timestamp, IsTimestamp
  <2> QED  BY <2>1, <2>2
<1>3. /\ f \in (l + 2)..N
      /\ \A n \in (l + 3)..f : t[n] = "newline"
      /\ f = N \/ t[f + 1] # "newline"
  <2>1. right \in 1..N
    BY <1>1, <1>2
  <2>2. /\ f \in right..N
        /\ \A n \in (right + 1)..f : t[n] = "newline"
        /\ f = N \/ t[f + 1] # "newline"
    BY <1>1, <2>1, ForwardOverIs
  <2>3. right + 1 = l + 3
    BY <1>1, <1>2
  <2> QED  BY <1>2, <2>2, <2>3
<1>4. k0 \in 1..l /\ (\A n \in k0..(l - 1) : t[n] = "newline") /\ (k0 > 1 => t[k0 - 1] # "newline")
  <2>1. left \in 1..N
    BY <1>1, <1>2
  <2> QED  BY <1>1, <2>1, BackOverIs
<1>5. stripped_text' = stripped_text \o substr(c, k0 - c) /\ current' = f + 1
  BY DEF Timestamp
<1> HIDE DEF t, N, c, l, f, k0
<1>6. l \in Timestamps(t)
  <2>1. l \in 1..(N - 2)
    BY <1>1, <1>2
  <2> QED  BY <1>1, <1>2, <2>1, TimestampIs DEF N, t
<1>7. \A k \in l..(l + 2) : Inside(t, k)
  BY <1>6 DEF Inside
\* What is added ends before the line breaks.
<1>8. k0 >= c
  <2> SUFFICES ASSUME k0 < c PROVE FALSE
    BY <1>1, <1>2, <1>4
  <2>1. c > 1 /\ c - 1 \in k0..(l - 1) /\ c # N + 1 /\ (c = l \/ c \in k0..(l - 1))
    BY <1>1, <1>2, <1>4
  <2>2. ~Solid(t, c - 1)
    BY <1>4, <2>1 DEF Solid
  <2>3. ~Solid(t, c)
    <3>1. l \in l..(l + 2)
      BY <1>1, <1>2
    <3> QED  BY <1>4, <1>7, <2>1, <3>1 DEF Solid
  <2> QED  BY <1>1, <2>1, <2>2, <2>3 DEF Edge, N, t
<1> DEFINE d == k0 - 1
<1>9. d \in (c - 1)..N /\ d < l /\ d \in Int
  BY <1>1, <1>2, <1>4, <1>8
<1>10. \A k \in c..d : ~Inside(t, k)
  <2> SUFFICES ASSUME NEW k \in c..d, Inside(t, k) PROVE FALSE
    OBVIOUS
  <2>1. c \in Nat /\ k \in Nat /\ c <= k /\ k < l
    BY <1>1, <1>2, <1>9
  <2>2. PICK b \in Timestamps(t) : b \in 1..(Len(t) - 2) /\ c <= b /\ b <= k /\ t[b] = "["
    BY <1>1, <2>1, InsideAhead
  <2>3. b \in c..(l - 1)
    <3>1. b \in Int
      BY <2>2
    <3> QED  BY <1>1, <1>2, <2>1, <2>2, <3>1
  <2> QED  BY <1>2, <2>2, <2>3
<1>11. \A k \in c..d : ~StrippedIn(t, k)
  <2> SUFFICES ASSUME NEW k \in c..d PROVE ~StrippedIn(t, k)
    OBVIOUS
  <2>1. d > 0 /\ d \in c..d
    BY <1>1, <1>9
  <2>2. Solid(t, d)
    <3>1. k0 > 1
      BY <1>4, <2>1
    <3> QED  BY <1>4, <1>10, <2>1, <3>1 DEF Solid
  <2>3. c \in 1..(Len(t) + 1) /\ d \in (c - 1)..Len(t)
    BY <1>1, <1>9 DEF N, t
  <2> HIDE DEF d
  <2> QED  BY <1>1, <1>10, <2>2, <2>3, NotStripped
\* The timestamp and the line breaks around it are stripped.
<1>12. \A k \in k0..f : StrippedIn(t, k)
  <2> SUFFICES ASSUME NEW k \in k0..f PROVE StrippedIn(t, k)
    OBVIOUS
  <2>0. DOMAIN t = 1..N /\ k \in Int
    BY <1>1, <1>3, <1>4 DEF N, t, Texts
  <2>1. CASE k \in l..(l + 2)
    BY <1>7, <2>1 DEF StrippedIn
  <2>2. CASE k < l
    <3>1. Inside(t, l) /\ l \in DOMAIN t
      BY <1>1, <1>2, <1>7, <2>0
    <3>2. (l + 1)..k = {} /\ k..(l - 1) \subseteq k0..(l - 1) /\ k \in k0..(l - 1)
      BY <1>1, <1>2, <1>4, <2>0, <2>2
    <3>3. /\ \A i \in (l + 1)..k \cup k..(l - 1) : t[i] = "newline" \/ Inside(t, i)
          /\ t[k] = "newline"
      BY <1>4, <3>2
    <3> QED  BY <3>1, <3>3 DEF StrippedIn
  <2>3. CASE k > l + 2
    <3> DEFINE r == l + 2
    <3>1. Inside(t, r) /\ r \in DOMAIN t
      BY <1>1, <1>2, <1>7, <2>0
    <3>2. (r + 1)..k \subseteq (l + 3)..f /\ k..(r - 1) = {} /\ k \in (l + 3)..f
      BY <1>1, <1>2, <1>3, <2>0, <2>3
    <3> HIDE DEF r
    <3>3. /\ \A i \in (r + 1)..k \cup k..(r - 1) : t[i] = "newline" \/ Inside(t, i)
          /\ t[k] = "newline"
      BY <1>3, <3>2
    <3> QED  BY <3>1, <3>3 DEF StrippedIn
  <2> QED  BY <1>1, <1>2, <2>0, <2>1, <2>2, <2>3
<1>13. stripped_text' = KeptOf(t)[f]
  <2>1. substr(c, k0 - c) = SubSeq(t, c, d)
    <3>1. ~(k0 - c < 0) /\ c + (k0 - c) - 1 = d
      BY <1>1, <1>4, <1>8
    <3> QED  BY <3>1 DEF substr, t
  <2>2. KeptOf(t)[d] = KeptOf(t)[c - 1] \o SubSeq(t, c, d)
    <3>1. c \in 1..(Len(t) + 1) /\ d \in (c - 1)..Len(t)
      BY <1>1, <1>9 DEF N, t
    <3> HIDE DEF d
    <3> QED  BY <1>1, <1>11, <3>1, KeptOfStretch
  <2>3. KeptOf(t)[f] = KeptOf(t)[d]
    <3>1. k0 \in 1..(Len(t) + 1) /\ f \in (k0 - 1)..Len(t)
      BY <1>1, <1>2, <1>3, <1>4 DEF N, t
    <3> QED  BY <1>1, <1>12, <3>1, KeptOfStretch
  <2> QED  BY <1>1, <1>5, <2>1, <2>2, <2>3
<1>14. BetweenTimestamps(t, f + 1)
  <2> SUFFICES ASSUME NEW b \in Timestamps(t), ~(b + 2 < f + 1), ~(b >= f + 1) PROVE FALSE
    BY DEF BetweenTimestamps
  <2>1. b \in Int
    BY DEF Timestamps
  <2>2. t[b] = "["
    BY <1>1, <2>1, TimestampIs
  <2>3. b \in (l + 3)..f \/ b = l + 1 \/ b = l + 2
    BY <1>1, <1>2, <1>3, <2>1
  <2> QED  BY <1>2, <1>3, <2>2, <2>3
<1>15. Edge(t, f + 1)
  <2> SUFFICES ASSUME f # N PROVE Solid(t, f + 1)
    BY DEF Edge, N, t
  <2>1. t[f + 1] # "newline"
    BY <1>3
  <2>2. ASSUME Inside(t, f + 1) PROVE FALSE
    <3>1. f + 1 \in Nat /\ f + 1 <= f + 1
      BY <1>1, <1>2, <1>3
    <3>2. PICK b \in Timestamps(t) : b \in 1..(Len(t) - 2) /\ f + 1 <= b /\ b <= f + 1
      BY <1>1, <1>14, <2>2, <3>1, InsideAhead
    <3>3. b \in Int
      BY <3>2
    <3>4. b = f + 1 /\ l < b
      BY <1>1, <1>2, <1>3, <3>2, <3>3
    <3>5. \E n \in (l + 3)..(b - 1) : t[n] # "newline"
      BY <1>6, <3>4 DEF Separated, t
    <3>6. b - 1 = f
      BY <1>1, <1>2, <1>3, <3>4
    <3> QED  BY <1>3, <3>5, <3>6
  <2> QED  BY <2>1, <2>2 DEF Solid
<1>16. (f + 1) - 1 = f
  BY <1>1, <1>2, <1>3
<1> QED  BY <1>5, <1>13, <1>14, <1>15, <1>16 DEF ScanInv, t

LEMMA NotATimestampStep ==
  ASSUME TextInv, Closed(text), NotATimestamp, ScanInv(text, current, stripped_text)
  PROVE  ScanInv(text, current', stripped_text')
<1> DEFINE t == text
           N == Len(text)
           c == current
           l == left
           r == right
<1>1. t \in Texts /\ N \in Nat /\ c \in 1..(N + 1) /\ BetweenTimestamps(t, c) /\ Edge(t, c)
      /\ stripped_text = KeptOf(t)[c - 1]
  BY DEF TextInv, Texts, ScanInv
<1>2. /\ l \in c..N /\ t[l] = "[" /\ r \in c..N /\ t[r] = "]"
      /\ \A k \in c..(l - 1) : t[k] # "["
      /\ \A k \in c..(r - 1) : t[k] # "]"
  BY BracketsAhead DEF NotATimestamp
<1>3. ~(r = l + 2 /\ t[l + 1] = "time")
  BY DEF NotATimestamp, IsTimestamp
<1>4. stripped_text' = stripped_text \o substr(c, r - c + 1) /\ current' = r + 1
  BY DEF NotATimestamp
<1>5. DOMAIN t = 1..N
  BY <1>1 DEF Texts
<1> HIDE DEF t, N, c, l, r
<1>6. ASSUME NEW k \in c..r, Inside(t, k) PROVE FALSE
  <2>1. c \in Nat /\ k \in Nat /\ c <= k /\ k <= r
    BY <1>1, <1>2
  <2>2. PICK b \in Timestamps(t) :
          /\ b \in 1..(Len(t) - 2) /\ c <= b /\ b <= k /\ k <= b + 2
          /\ t[b] = "[" /\ t[b + 1] = "time" /\ t[b + 2] = "]"
    BY <1>1, <1>6, <2>1, InsideAhead
  <2>3. b \in Int /\ b <= r
    BY <1>1, <1>2, <2>1, <2>2
  <2>4. l <= b
    BY <1>1, <1>2, <2>2, <2>3
  <2>5. CASE l = b
    <3>1. r <= b + 2
      <4>1. b + 2 \notin c..(r - 1)
        BY <1>2, <2>2
      <4> QED  BY <1>1, <1>2, <2>2, <2>3, <4>1
    <3>2. r # b /\ r # b + 1
      BY <1>2, <2>2
    <3>3. r = b + 2
      BY <1>1, <1>2, <2>3, <3>1, <3>2
    <3> QED  BY <1>3, <2>2, <2>5, <3>3
  <2>6. CASE l # b
    <3>1. l < b /\ l \in DOMAIN t
      BY <1>1, <1>2, <1>5, <2>3, <2>4, <2>6
    <3>2. PICK n \in l..(b - 1) : t[n] = "]"
      BY <1>2, <3>1 DEF Closed, t
    <3>3. n \in c..(r - 1)
      BY <1>1, <1>2, <2>3, <3>2
    <3> QED  BY <1>2, <3>2, <3>3
  <2> QED  BY <2>5, <2>6
<1>7. r \in c..r /\ r \in (c - 1)..N /\ r \in Nat
  BY <1>1, <1>2
<1>8. Solid(t, r)
  BY <1>2, <1>6, <1>7 DEF Solid
<1>9. \A k \in c..r : ~StrippedIn(t, k)
  <2> SUFFICES ASSUME NEW k \in c..r PROVE ~StrippedIn(t, k)
    OBVIOUS
  <2>1. c \in 1..(Len(t) + 1) /\ r \in (c - 1)..Len(t)
    BY <1>1, <1>7 DEF N, t
  <2> QED  BY <1>1, <1>6, <1>8, <2>1, NotStripped
<1>10. stripped_text' = KeptOf(t)[r]
  <2>1. substr(c, r - c + 1) = SubSeq(t, c, r)
    <3>1. ~(r - c + 1 < 0) /\ c + (r - c + 1) - 1 = r
      BY <1>1, <1>2
    <3> QED  BY <3>1 DEF substr, t
  <2>2. KeptOf(t)[r] = KeptOf(t)[c - 1] \o SubSeq(t, c, r)
    <3>1. c \in 1..(Len(t) + 1) /\ r \in (c - 1)..Len(t)
      BY <1>1, <1>7 DEF N, t
    <3> QED  BY <1>1, <1>9, <3>1, KeptOfStretch
  <2> QED  BY <1>1, <1>4, <2>1, <2>2
<1>11. BetweenTimestamps(t, r + 1)
  <2> SUFFICES ASSUME NEW b \in Timestamps(t), ~(b + 2 < r + 1), ~(b >= r + 1) PROVE FALSE
    BY DEF BetweenTimestamps
  <2>1. b \in Int
    BY DEF Timestamps
  <2>2. b <= r /\ r <= b + 2
    BY <1>7, <2>1
  <2>3. Inside(t, r)
    BY <2>2 DEF Inside
  <2> QED  BY <1>6, <1>7, <2>3
<1>12. Edge(t, r + 1) /\ (r + 1) - 1 = r
  <2>1. (r + 1) - 1 = r
    BY <1>7
  <2> QED  BY <1>8, <2>1 DEF Edge
<1> QED  BY <1>4, <1>10, <1>11, <1>12 DEF ScanInv, t

LEMMA RestStep ==
  ASSUME TextInv, Rest, ScanInv(text, current, stripped_text)
  PROVE  stripped_text' = KeptOf(text)[Len(text)]
<1> DEFINE t == text
           N == Len(text)
           c == current
<1>1. t \in Texts /\ N \in Nat /\ c \in 1..(N + 1) /\ BetweenTimestamps(t, c) /\ Edge(t, c)
      /\ stripped_text = KeptOf(t)[c - 1]
  BY DEF TextInv, Texts, ScanInv
<1>2. (\A k \in c..N : t[k] # "[") \/ (\A k \in c..N : t[k] # "]")
  BY DEF Rest, Ahead
<1>3. stripped_text' = stripped_text \o SubSeq(t, c, N)
  BY DEF Rest
<1> HIDE DEF t, N, c
<1>4. ASSUME NEW k \in c..N, Inside(t, k) PROVE FALSE
  <2>1. c \in Nat /\ k \in Nat /\ c <= k
    BY <1>1
  <2>2. PICK b \in Timestamps(t) : b \in 1..(N - 2) /\ c <= b /\ t[b] = "[" /\ t[b + 2] = "]"
    BY <1>1, <1>4, <2>1, InsideAhead DEF N, t
  <2>3. b \in c..N /\ b + 2 \in c..N
    BY <1>1, <2>1, <2>2
  <2> QED  BY <1>2, <2>2, <2>3
<1>5. c \in 1..(Len(t) + 1) /\ N \in (c - 1)..Len(t) /\ N = Len(t)
  BY <1>1 DEF N, t
<1>6. \A k \in c..N : ~StrippedIn(t, k)
  <2> SUFFICES ASSUME NEW k \in c..N PROVE ~StrippedIn(t, k)
    OBVIOUS
  <2> QED  BY <1>1, <1>4, <1>5, NotStripped
<1>7. KeptOf(t)[N] = KeptOf(t)[c - 1] \o SubSeq(t, c, N)
  BY <1>1, <1>5, <1>6, KeptOfStretch
<1> QED  BY <1>1, <1>3, <1>5, <1>7 DEF t

\* The start of a scan.
LEMMA ScanStart ==
  ASSUME NEW t \in Texts
  PROVE  ScanInv(t, 1, <<>>)
<1>1. KeptOf(t)[1 - 1] = <<>>
  BY KeptExists
<1>2. BetweenTimestamps(t, 1)
  <2>1. \A b \in Timestamps(t) : b >= 1
    BY DEF Timestamps
  <2> QED  BY <2>1 DEF BetweenTimestamps
<1> QED  BY <1>1, <1>2 DEF ScanInv, Edge

LEMMA StripInvStep ==
  ASSUME TextInv, TextInv', StripInv, [ProgramNext]_programVars
  PROVE  StripInv'
<1> SUFFICES ASSUME Separated(text'), Closed(text')
             PROVE  /\ pc' = "loop" => ScanInv(text', current', stripped_text')
                    /\ pc' = "done" => stripped_text' = KeptOf(text')[Len(text')]
  BY DEF StripInv
<1>1. CASE ReadProgram \/ Construct
  <2>1. text' \in Texts
    BY DEF TextInv
  <2>2. current' = 1 /\ stripped_text' = <<>> /\ pc' = "loop"
    BY <1>1 DEF ReadProgram, Construct, TextInv
  <2> QED  BY <2>1, <2>2, ScanStart
<1>2. CASE StripStep
  <2>1. text' = text
    BY <1>2 DEF StripStep, StripNext, Timestamp, NotATimestamp, Rest
  <2>2. pc = "loop" /\ ScanInv(text, current, stripped_text)
    BY <1>2, <2>1 DEF StripStep, StripNext, Timestamp, NotATimestamp, Rest, Bracket, StripInv
  <2>3. CASE Timestamp
    <3>1. pc' = "loop"
      BY <2>2, <2>3 DEF Timestamp
    <3> QED  BY <2>1, <2>2, <2>3, <3>1, TimestampStep
  <2>4. CASE NotATimestamp
    <3>1. pc' = "loop"
      BY <2>2, <2>4 DEF NotATimestamp
    <3> QED  BY <2>1, <2>2, <2>4, <3>1, NotATimestampStep
  <2>5. CASE Rest
    <3>1. pc' = "done"
      BY <2>5 DEF Rest
    <3> QED  BY <2>1, <2>2, <2>5, <3>1, RestStep
  <2> QED  BY <1>2, <2>3, <2>4, <2>5 DEF StripStep, StripNext
<1>3. CASE SkipMark \/ AddProgram \/ Throw \/ Return \/ UNCHANGED programVars
  <2>1. UNCHANGED <<text, current, stripped_text, pc>>
    BY <1>3 DEF SkipMark, AddProgram, Throw, Return, programVars, stripVars
  <2> QED  BY <2>1 DEF StripInv
<1> QED  BY <1>1, <1>2, <1>3 DEF ProgramNext

\* strip_timestamps takes the timestamps and the line breaks around them out of
\* a text and leaves the rest, at every step of its scan.
THEOREM TimestampsAreStripped ==
  ProgramSpec => [](Separated(text) /\ Closed(text) => TimestampsStripped)
<1>1. ProgramInit => StripInv
  <2> SUFFICES ASSUME ProgramInit PROVE StripInv
    OBVIOUS
  <2>1. text = <<>> /\ stripped_text = <<>> /\ pc = "done"
    BY DEF ProgramInit
  <2>2. text \in Texts /\ Len(text) = 0
    BY <2>1 DEF Texts
  <2> QED  BY <2>1, <2>2, KeptExists DEF StripInv
<1>2. TextInv /\ TextInv' /\ StripInv /\ [ProgramNext]_programVars => StripInv'
  BY StripInvStep
<1>3. TextInv /\ StripInv => (Separated(text) /\ Closed(text) => TimestampsStripped)
  <2> SUFFICES ASSUME TextInv, StripInv, Separated(text), Closed(text) PROVE TimestampsStripped
    OBVIOUS
  <2>1. Kept = KeptOf(text)
    BY DEF Kept, KeptOf, IsKeptOf, IsStripped, StrippedIn, InTimestamp, Inside
  <2>2. pc = "loop" \/ pc = "done"
    BY DEF TextInv
  <2> QED  BY <2>1, <2>2 DEF TimestampsStripped, StripInv, ScanInv
<1> QED  BY <1>1, <1>2, <1>3, TextsAreTyped, PTL DEF ProgramSpec
=============================================================================
