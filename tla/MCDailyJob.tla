----------------------------- MODULE MCDailyJob -----------------------------
(***************************************************************************)
(* DailyJob on the second of two days, two seconds long, with one visitor  *)
(* who searches from the same first date.                                  *)
(***************************************************************************)
EXTENDS DailyJob

MCDayOf == <<2, 2>>
MCFirstDate == [s \in Days \cup Visitors |-> 1]
=============================================================================
