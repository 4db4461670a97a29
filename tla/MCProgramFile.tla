--------------------------- MODULE MCProgramFile ---------------------------
(***************************************************************************)
(* ProgramFile for a file of one program with any text of Texts, for all   *)
(* files of at most MaxFile of the symbols that the framing looks at, and  *)
(* for files of about the size of the buffer.                              *)
(***************************************************************************)
EXTENDS ProgramFile

CONSTANTS Texts, MaxLen, MaxFile, MaxEnds

AllTexts == UNION {[1..n -> Symbols] : n \in 0..MaxLen}

\* "time" stands for the inside of a timestamp and is not met elsewhere.
RealTexts ==
  {t \in AllTexts : \A k \in DOMAIN t : t[k] = "time" =>
     k > 1 /\ k < Len(t) /\ t[k - 1] = "[" /\ t[k + 1] = "]"}

SeparatedTexts == {t \in RealTexts : Separated(t) /\ Closed(t)}

FilesUpTo(n) == UNION {[1..k -> {"C3", "BF", "rule", "newline", "word"}] : k \in 0..n}

MCFiles ==
  {<<"C3", "BF", "rule", "newline">> \o t : t \in Texts}
    \cup FilesUpTo(MaxFile)
    \cup {x \o [k \in 1..n |-> "word"] \o y :
            x \in FilesUpTo(MaxEnds), n \in (read_size - 2)..read_size, y \in FilesUpTo(MaxEnds)}
=============================================================================
