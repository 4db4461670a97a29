---------------------------- MODULE ProgramFile ----------------------------
(***************************************************************************)
(* parse_programs: the programs of a file.  A program begins with a byte   *)
(* order mark, of whose bytes only the first (C3, which also begins most   *)
(* accented letters) and the last (BF) are looked at: getline drops what   *)
(* is in front of the next BF and keeps what is in front of the next C3.   *)
(* The body below the line of equals signs, the "rule", is trimmed and its *)
(* timestamps are stripped, in the steps of StripTimestamps.               *)
(*                                                                         *)
(* A file is a sequence of the symbols of a text, "C3", "BF" and "rule".   *)
(***************************************************************************)
EXTENDS StripTimestamps

CONSTANTS
  Files,      (* The contents of files.   *)
  read_size   (* The size of the buffer.  *)

ASSUME FilesAssumption == Files \subseteq Seq(Symbols \cup {"C3", "BF", "rule"})
ASSUME ReadSizeAssumption == read_size \in Nat \ {0, 1}

VARIABLES
  file,
  stream,     (* The ifstream: the next position, eofbit and failbit. *)
  programs,   (* The bodies, as read and without timestamps.          *)
  phase       (* "file", "program", "construct", "strip", "returned"  *)
              (* or "corrupt".                                       *)

programVars == <<stripVars, file, stream, programs, phase>>

Line(pos, end) == SubSeq(file, pos, end - 1)

\* Where the next delim is, or the end of the file.
EndOfLine(pos, delim) == Min({k \in pos..Len(file) : file[k] = delim} \cup {Len(file) + 1})

Failed(st) == [st EXCEPT !.fail = TRUE]

\* The buffer is full, and the next symbol does not end the line.  Mutant: full
\* is full.
OverflowsWhenFull(pos, end) == end >= pos + read_size - 1
Overflows(pos, end) == end > pos + read_size - 1

\* Mutant: a full buffer is no failure.
OverflowedSilently(st) == [st EXCEPT !.pos = @ + read_size - 1]
Overflowed(st) == Failed([st EXCEPT !.pos = @ + read_size - 1])

\* istream::getline, as the line and the stream it leaves: it fails on a stream
\* that is not good, on a line that does not fit, and at the end of the file if
\* nothing is left.
getline(st, delim) ==
  LET end == EndOfLine(st.pos, delim)
  IN  IF st.eof \/ st.fail THEN [line |-> <<>>, stream |-> Failed(st)]
      ELSE IF Overflows(st.pos, end)
      THEN [line |-> Line(st.pos, st.pos + read_size - 1), stream |-> Overflowed(st)]
      ELSE [line |-> Line(st.pos, end),
            stream |-> [pos |-> end + 1, eof |-> end > Len(file),
                        fail |-> end > Len(file) /\ end = st.pos]]

Trimmed(t) ==
  LET kept == {k \in DOMAIN t : t[k] # "newline"}
  IN  IF kept = {} THEN <<>> ELSE SubSeq(t, Min(kept), Max(kept))

\* What follows the line with the rule; without one, everything.
Body(t) ==
  LET marks == {k \in DOMAIN t : t[k] = "rule"}
      breaks == {k \in DOMAIN t : t[k] = "newline" /\ \E j \in marks : j < k}
  IN  Trimmed(IF breaks = {} THEN t ELSE SubSeq(t, Min(breaks) + 1, Len(t)))

\* A file that cannot be opened is a stream with its failbit set.
ProgramInit ==
  /\ file \in Files
  /\ \E opened \in BOOLEAN : stream = [pos |-> 1, eof |-> FALSE, fail |-> ~opened]
  /\ programs = <<>>
  /\ phase = "file"
  /\ text = <<>> /\ current = 1 /\ stripped_text = <<>> /\ pc = "done"

\* What is in front of the mark is dropped.
SkipMark ==
  /\ phase = "file"
  /\ ~stream.eof /\ ~stream.fail
  /\ stream' = getline(stream, "BF").stream
  /\ phase' = "program"
  /\ UNCHANGED <<stripVars, file, programs>>

ReadProgram ==
  LET kept == getline(stream, "C3")
  IN  /\ phase = "program"
      /\ stream' = kept.stream
      /\ text' = kept.line
      /\ current' = 1 /\ stripped_text' = <<>> /\ pc' = "loop"
      /\ phase' = "construct"
      /\ UNCHANGED <<file, programs>>

\* The constructor of Program, up to strip_timestamps.
Construct ==
  /\ phase = "construct"
  /\ text' = Body(text)
  /\ phase' = "strip"
  /\ UNCHANGED <<current, stripped_text, pc, file, stream, programs>>

StripStep ==
  /\ phase = "strip"
  /\ StripNext
  /\ UNCHANGED <<file, stream, programs, phase>>

AddProgram ==
  /\ phase = "strip"
  /\ pc = "done"
  /\ programs' = Append(programs, [raw_text |-> text, text |-> stripped_text])
  /\ phase' = "file"
  /\ UNCHANGED <<stripVars, file, stream>>

\* tellg is -1: CorruptFileException.
Throw ==
  /\ phase = "file"
  /\ ~stream.eof /\ stream.fail
  /\ programs' = <<>>
  /\ phase' = "corrupt"
  /\ UNCHANGED <<stripVars, file, stream>>

Return ==
  /\ phase = "file"
  /\ stream.eof
  /\ phase' = "returned"
  /\ UNCHANGED <<stripVars, file, stream, programs>>

ProgramNext == SkipMark \/ ReadProgram \/ Construct \/ StripStep \/ AddProgram \/ Throw \/ Return

ProgramSpec == ProgramInit /\ [][ProgramNext]_programVars /\ WF_programVars(ProgramNext)
------------------------------------------------------------------------------
Firsts == {k \in DOMAIN file : file[k] = "C3"}
Marks == {k \in Firsts : k < Len(file) /\ file[k + 1] = "BF"}

\* A file begins with a mark, and BF is met in marks only.
WellFormed ==
  /\ 1 \in Marks
  /\ \A k \in DOMAIN file : file[k] = "BF" => k - 1 \in Marks

\* The text that begins with the mark at k, up to the next mark or accent.
Written(k) ==
  LET ends == {j \in Firsts : j > k}
  IN  Body(SubSeq(file, k + 2, IF ends = {} THEN Len(file) ELSE Min(ends) - 1))

\* A file that is not reported corrupt gives back exactly the programs that
\* were written, in order, each whole up to its first accented letter; an
\* accented letter in the last one adds an empty program.
ProgramsAsWritten ==
  phase = "returned" /\ WellFormed =>
    /\ \A k \in Marks : programs[Cardinality({j \in Marks : j <= k})].raw_text = Written(k)
    /\ IF Max(Firsts) \in Marks THEN Len(programs) = Cardinality(Marks)
       ELSE Len(programs) = Cardinality(Marks) + 1 /\ programs[Len(programs)].raw_text = <<>>

\* A file that could be opened is reported corrupt only if it has a stretch
\* without a C3, or without a BF, that does not fit into the buffer.
CorruptOnlyIfOversized ==
  phase = "corrupt" /\ stream.pos > 1 =>
    \E k \in 1..(Len(file) - read_size + 1), delim \in {"C3", "BF"} :
      \A j \in k..(k + read_size - 1) : file[j] # delim

\* Every round moves the stream on or ends the loop, every bracket the scan.
ProgramTermination == <>(phase \in {"returned", "corrupt"})
=============================================================================
