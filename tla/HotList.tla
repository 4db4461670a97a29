------------------------------ MODULE HotList ------------------------------
(***************************************************************************)
(* hot_list: the words of two intervals of dates are counted, in contexts, *)
(* programs and occurrences, and those whose contexts rose are listed.     *)
(* tokenize splits a program into words; get_word_count keeps a pair of    *)
(* tables per word, of hashes of the text left and right of it.  The       *)
(* hashes are those of the one StringHasher that serves both intervals.    *)
(*                                                                         *)
(* An interval is the programs of its files, one after the other: files    *)
(* that are missing or corrupt add none.  Phrases are joined, since only   *)
(* their words are counted.                                                *)
(***************************************************************************)
EXTENDS StringHasher, FiniteSets, SequencesExt

CONSTANTS
  Letters, Spaces,                     (* Lower-case letters; space and hyphen. *)
  MinSize,                             (* A word is longer than that: 2.        *)
  LEFT_HASH_WIDTH, RIGHT_HASH_WIDTH,
  min_count, min_percent_increase      (* The form; the latter is a factor.     *)

\* A character has one type; those above 127 are not in the table.
ASSUME HotListAssumption ==
  /\ Letters \subseteq Nat /\ Spaces \subseteq Nat /\ Letters \cap Spaces = {}
  /\ MinSize \in Nat
  /\ {LEFT_HASH_WIDTH, RIGHT_HASH_WIDTH, min_count, min_percent_increase} \subseteq Nat

Intervals == {"a", "b"}

VARIABLES
  outside,          (* What stands in front of the table char_types, by c.   *)
  interval,
  tokens,           (* The words of the program not yet counted.             *)
  left_word_hashes, right_word_hashes,  (* Pairs of a word and a hash.       *)
  program_added,    (* The words that have a context in the program.         *)
  program_words,    (* The words of program_word_count.                      *)
  word_count,       (* The counts of each interval by word.                  *)
  hot_list,
  read,             (* History: the programs of each interval.               *)
  phase             (* "programs", "load", "words" or "done".                *)

programVars == <<tokens, program_added, program_words>>
tableVars == <<left_word_hashes, right_word_hashes, word_count>>
hotVars == <<vars, outside, interval, programVars, tableVars, hot_list, read, phase>>

\* char_types[c], with a signed c: for a character above 127 whatever stands at
\* its place in front of the table, which need not be any of the types.
CharType(c, other) ==
  CASE c < 0 -> other[c]
    [] c \in Letters -> "letter"
    [] c \in Spaces -> "space"
    [] OTHER -> "break"

NoWord == [word |-> <<>>, start |-> -1, tokens |-> <<>>]

EndWord(acc) ==
  [acc EXCEPT !.word = <<>>,
              !.tokens = IF Len(acc.word) > MinSize
                         THEN Append(@, [word |-> acc.word, at |-> acc.start]) ELSE @]

\* Mutant: the position of the letter before is not given up.
AddLetterKeepsStart(acc, k, c) ==
  [acc EXCEPT !.word = Append(@, c), !.start = IF @ = -1 THEN k - 1 ELSE @]

AddLetter(acc, k, c) ==
  [acc EXCEPT !.word = Append(@, c), !.start = IF acc.word = <<>> THEN k - 1 ELSE @]

AddCharacterOfType(acc, k, c, type) ==
  CASE type = "letter" -> AddLetter(acc, k, c)
    [] type \in {"space", "break"} -> EndWord(acc)
    [] OTHER -> acc

\* The words of a text, with other in front of the table.
Tokens(t, other) ==
  LET scan[k \in 0..Len(t)] ==
        IF k = 0 THEN NoWord
        ELSE AddCharacterOfType(scan[k - 1], k, t[k], CharType(t[k], other))
  IN  EndWord(scan[Len(t)]).tokens

tokenize(t) == Tokens(t, outside)

Above127 == UNION {{c \in ToSet(t) : c < 0} : t \in Texts}

HotInit ==
  /\ Init
  /\ outside \in [Above127 -> {"letter", "space", "break", "none"}]
  /\ interval = "a"
  /\ tokens = <<>>
  /\ left_word_hashes = {} /\ right_word_hashes = {}
  /\ program_added = {} /\ program_words = {}
  /\ word_count = [x \in Intervals |-> <<>>]
  /\ hot_list = <<>>
  /\ read = [x \in Intervals |-> <<>>]
  /\ phase = "programs"

\* The next program is loaded into the hasher.
NextProgram(t) ==
  /\ phase = "programs"
  /\ LoadText(t)
  /\ read' = [read EXCEPT ![interval] = Append(@, t)]
  /\ program_added' = {} /\ program_words' = {}
  /\ phase' = "load"
  /\ UNCHANGED <<outside, interval, tokens, tableVars, hot_list>>

LoadStep ==
  /\ phase = "load"
  /\ AddCharacter \/ Loaded
  /\ UNCHANGED <<outside, interval, programVars, tableVars, hot_list, read, phase>>

Tokenize ==
  /\ phase = "load"
  /\ pc = "ready"
  /\ tokens' = tokenize(text)
  /\ phase' = "words"
  /\ UNCHANGED <<vars, outside, interval, program_added, program_words, tableVars, hot_list, read>>

Counted(x, word) == IF word \in DOMAIN word_count[x] THEN word_count[x][word]
                    ELSE [contexts |-> 0, programs |-> 0, total |-> 0]

One(condition) == IF condition THEN 1 ELSE 0

\* Mutant: new text on one side is enough.
IsContextEitherSide(word, left, right) ==
  (left \notin left_word_hashes \/ right \notin right_word_hashes) /\ word \notin program_added

IsContext(word, left, right) ==
  left \notin left_word_hashes /\ right \notin right_word_hashes /\ word \notin program_added

\* Both tables get the hash beside the word, whether or not it is counted.
CountWord ==
  LET word == Head(tokens).word
      at == Head(tokens).at
      left == <<word, hash(at - LEFT_HASH_WIDTH, at)>>
      right == <<word, hash(at, at + RIGHT_HASH_WIDTH)>>
      isContext == IsContext(word, left, right)
      was == Counted(interval, word)
      is == [contexts |-> was.contexts + One(isContext),
             programs |-> was.programs + One(word \notin program_words),
             total |-> was.total + 1]
  IN  /\ left_word_hashes' = left_word_hashes \cup {left}
      /\ right_word_hashes' = right_word_hashes \cup {right}
      /\ program_added' = IF isContext THEN program_added \cup {word} ELSE program_added
      /\ program_words' = program_words \cup {word}
      /\ word_count' = [word_count EXCEPT ![interval] =
                          [x \in DOMAIN @ \cup {word} |-> IF x = word THEN is ELSE @[x]]]
      /\ tokens' = Tail(tokens)

NextWord ==
  /\ phase = "words"
  /\ tokens # <<>>
  /\ CountWord
  /\ UNCHANGED <<vars, outside, interval, hot_list, read, phase>>

EndOfProgram ==
  /\ phase = "words"
  /\ tokens = <<>>
  /\ phase' = "programs"
  /\ UNCHANGED <<vars, outside, interval, programVars, tableVars, hot_list, read>>

\* Mutant: the tables outlive the call, as the hasher does.
SecondIntervalKeepsTables ==
  /\ phase = "programs" /\ interval = "a"
  /\ interval' = "b"
  /\ UNCHANGED <<vars, outside, programVars, tableVars, hot_list, read, phase>>

\* get_word_count returns and is called again, with tables of its own.
SecondInterval ==
  /\ phase = "programs" /\ interval = "a"
  /\ interval' = "b"
  /\ left_word_hashes' = {} /\ right_word_hashes' = {}
  /\ UNCHANGED <<vars, outside, programVars, word_count, hot_list, read, phase>>

\* compare_word_counts: the contexts of b are divided by those of a.
Compare ==
  LET a == word_count["a"]
      b == word_count["b"]
  IN  /\ phase = "programs" /\ interval = "b"
      /\ hot_list' =
           [word \in {x \in DOMAIN b :
                        /\ b[x].contexts >= min_count
                        /\ x \in DOMAIN a => b[x].contexts >= min_percent_increase * a[x].contexts}
              |-> <<Counted("a", word).contexts, b[word].contexts>>]
      /\ phase' = "done"
      /\ UNCHANGED <<vars, outside, interval, programVars, tableVars, read>>

HotNext ==
  \/ \E t \in Texts : NextProgram(t)
  \/ LoadStep \/ Tokenize \/ NextWord \/ EndOfProgram \/ SecondInterval \/ Compare

HotSpec == HotInit /\ [][HotNext]_hotVars
------------------------------------------------------------------------------
\* A word that is counted has a context: it is never divided by a count of 0.
WordCountsNested ==
  phase = "programs" =>
    \A x \in Intervals : \A word \in DOMAIN word_count[x] :
      LET count == word_count[x][word]
      IN  /\ 1 <= count.contexts
          /\ count.contexts <= count.programs
          /\ count.programs <= count.total

\* Every word that is counted has a context, and a word is shown as new in the
\* second interval if and only if no program of the first has it.
EveryWordHasAContext ==
  /\ WordCountsNested
  /\ \A word \in DOMAIN hot_list :
       hot_list[word][1] = 0 <=>
         \A k \in DOMAIN read["a"] : \A j \in DOMAIN tokenize(read["a"][k]) :
           tokenize(read["a"][k])[j].word # word

Window(t, j, k) == SubSeq(t, IF j < 0 THEN 1 ELSE j + 1, IF k >= Len(t) THEN Len(t) ELSE k + 1)

\* The programs of an interval in which a word is new, by the texts beside it.
TrueContexts(x, word) ==
  LET token(k, j) == tokenize(read[x][k])[j]
      occurrences == {o \in UNION {{k} \X DOMAIN tokenize(read[x][k]) : k \in DOMAIN read[x]} :
                        token(o[1], o[2]).word = word}
      left(o) == LET at == token(o[1], o[2]).at IN Window(read[x][o[1]], at - LEFT_HASH_WIDTH, at)
      right(o) == LET at == token(o[1], o[2]).at IN Window(read[x][o[1]], at, at + RIGHT_HASH_WIDTH)
      before(n, o) == n[1] < o[1] \/ (n[1] = o[1] /\ n[2] < o[2])
  IN  {o[1] : o \in {o \in occurrences :
                       \A n \in occurrences : before(n, o) => left(n) # left(o) /\ right(n) # right(o)}}

\* Windows that collide make a context be missed, but none is counted that the
\* texts do not show; characters above 127 aside.
NeverOvercounted ==
  phase = "programs" =>
    \A x \in Intervals :
      (\A k \in DOMAIN read[x] : \A c \in ToSet(read[x][k]) : c >= 0) =>
        \A word \in DOMAIN word_count[x] :
          word_count[x][word].contexts <= Cardinality(TrueContexts(x, word))

\* A longest run of letters that is long enough, with no character above 127
\* beside it, is one of the words, where it stands; and every word is such a
\* run unless a character above 127 is in it or beside it.
TokensAreWords ==
  phase = "words" /\ Len(tokens) = Len(tokenize(text)) =>
    LET isLetter(k) == text[k] \in Letters
        isRun(j, k) == /\ \A n \in j..k : isLetter(n)
                       /\ (j > 1 => ~isLetter(j - 1)) /\ (k < N => ~isLetter(k + 1))
        runs == {r \in (1..N) \X (1..N) : r[1] + MinSize <= r[2] /\ isRun(r[1], r[2])}
        isPlain(r) == \A n \in (r[1] - 1)..(r[2] + 1) \cap DOMAIN text : text[n] >= 0
        token(r) == [word |-> SubSeq(text, r[1], r[2]), at |-> r[1] - 1]
    IN  /\ \A r \in runs : isPlain(r) => token(r) \in ToSet(tokens)
        /\ \A t \in ToSet(tokens) :
             \/ \E r \in runs : token(r) = t
             \/ \E n \in t.at..(t.at + Len(t.word) + 1) : n \in DOMAIN text /\ text[n] < 0
=============================================================================
