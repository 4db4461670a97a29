--------------------------- MODULE StripTimestamps ---------------------------
(***************************************************************************)
(* Program::strip_timestamps: the text of a program without the timestamps *)
(* "[hh:mm:ss AM]" and the line breaks around them.  The text is read once *)
(* from left to right, one bracket at a time.                              *)
(*                                                                         *)
(* The text is a sequence of "[", "]", "time" (what stands between the     *)
(* brackets of a timestamp), "newline" and "word" (anything else).  It is  *)
(* set by the constructor, before the first step.                          *)
(***************************************************************************)
EXTENDS Integers, Sequences, FiniteSetsExt

Symbols == {"[", "]", "time", "newline", "word"}

VARIABLES
  text,
  current,        (* The first symbol not read yet. *)
  stripped_text,
  pc              (* "loop" or "done".              *)

stripVars == <<text, current, stripped_text, pc>>

\* text.find(symbol, current): the first position of symbol, if there is one.
Ahead(symbol) == {k \in current..Len(text) : text[k] = symbol}
left == Min(Ahead("["))
right == Min(Ahead("]"))

IsTimestamp == right = left + 2 /\ text[left + 1] = "time"

\* Mutant: the newlines before a timestamp are kept.
BackNowhere(k) == k

\* The ends of the run of newlines before position k and after it.
BackOver(k) == Min({j \in 1..k : \A n \in j..(k - 1) : text[n] = "newline"})
ForwardOver(k) ==
  CHOOSE j \in k..Len(text) :
    /\ \A n \in (k + 1)..j : text[n] = "newline"
    /\ j = Len(text) \/ text[j + 1] # "newline"

\* text.substr(from, count): a negative count is a huge one.
substr(from, count) ==
  SubSeq(text, from, IF count < 0 THEN Len(text) ELSE from + count - 1)

Bracket == pc = "loop" /\ Ahead("[") # {} /\ Ahead("]") # {}

Timestamp ==
  /\ Bracket
  /\ IsTimestamp
  /\ stripped_text' = stripped_text \o substr(current, BackOver(left) - current)
  /\ current' = ForwardOver(right) + 1
  /\ UNCHANGED <<text, pc>>

\* Mutant: the loop does not move on.
NotATimestampStays == Bracket /\ ~IsTimestamp /\ UNCHANGED stripVars

NotATimestamp ==
  /\ Bracket
  /\ ~IsTimestamp
  /\ stripped_text' = stripped_text \o substr(current, right - current + 1)
  /\ current' = right + 1
  /\ UNCHANGED <<text, pc>>

\* No bracket is left, or it is not closed: the rest is added.
Rest ==
  /\ pc = "loop"
  /\ Ahead("[") = {} \/ Ahead("]") = {}
  /\ stripped_text' = stripped_text \o SubSeq(text, current, Len(text))
  /\ pc' = "done"
  /\ UNCHANGED <<text, current>>

StripNext == Timestamp \/ NotATimestamp \/ Rest
------------------------------------------------------------------------------
\* Where the timestamps of a text begin.
Timestamps(t) == {b \in 1..(Len(t) - 2) : SubSeq(t, b, b + 2) = <<"[", "time", "]">>}

\* Some text stands between any two timestamps.
Separated(t) ==
  \A j, k \in Timestamps(t) : j < k => \E n \in (j + 3)..(k - 1) : t[n] # "newline"

\* No opening bracket is left open before a timestamp.
Closed(t) ==
  \A j \in DOMAIN t, k \in Timestamps(t) :
    t[j] = "[" /\ j < k => \E n \in j..(k - 1) : t[n] = "]"

InTimestamp(k) == \E b \in Timestamps(text) : b <= k /\ k <= b + 2

\* Part of a timestamp, or of the line breaks that join one.
IsStripped(k) ==
  \/ InTimestamp(k)
  \/ \E t \in DOMAIN text :
       /\ InTimestamp(t)
       /\ \A n \in (t + 1)..k \cup k..(t - 1) : text[n] = "newline" \/ InTimestamp(n)
       /\ text[k] = "newline"

\* The symbols of the first n that are kept.
Kept[n \in 0..Len(text)] ==
  IF n = 0 THEN <<>>
  ELSE IF IsStripped(n) THEN Kept[n - 1] ELSE Append(Kept[n - 1], text[n])

\* The text kept is the text without its timestamps, nothing more and nothing
\* less, at every step of the way.
TimestampsStripped ==
  stripped_text = Kept[IF pc = "done" THEN Len(text) ELSE current - 1]

\* "add all texts before the timestamp": what a timestamp adds stands before it.
OnlyTextBeforeAdded ==
  [][Timestamp => Len(stripped_text') - Len(stripped_text) <= left - current]_stripVars
=============================================================================
