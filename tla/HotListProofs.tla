--------------------------- MODULE HotListProofs ----------------------------
(***************************************************************************)
(* hot_list, for all texts, alphabets and widths.  What holds however      *)
(* hashes collide: words have contexts, the words found are the runs of    *)
(* letters, and new words are new.  What the hasher computes: the formula, *)
(* by congruences mod M.  And from these: no context is counted that the   *)
(* texts do not show.                                                      *)
(***************************************************************************)
EXTENDS HotList, SequenceTheorems, FiniteLemmas, TLAPS

Words(x) == DOMAIN word_count[x]

TypeInv ==
  /\ interval \in Intervals
  /\ DOMAIN word_count = Intervals
  /\ \A x \in Intervals : \A word \in Words(x) :
       /\ word_count[x][word].contexts \in Nat
       /\ word_count[x][word].programs \in Nat
       /\ word_count[x][word].total \in Nat

Nested(count) ==
  1 <= count.contexts /\ count.contexts <= count.programs /\ count.programs <= count.total

AllNested == \A x \in Intervals : \A word \in Words(x) : Nested(word_count[x][word])

\* A hash in the tables is that of a word that has been counted, so that the
\* first occurrence of a word is a context.
TablesOfCounted ==
  \A word : word \notin Words(interval) =>
    \A h : <<word, h>> \notin left_word_hashes /\ <<word, h>> \notin right_word_hashes

\* Within a program: a word counted in it that has no context in it yet leaves
\* room for one.
RoomForContext ==
  phase \in {"load", "words"} =>
    /\ program_added \subseteq program_words
    /\ program_words \subseteq Words(interval)
    /\ \A word \in program_words \ program_added :
         word_count[interval][word].contexts + 1 <= word_count[interval][word].programs

Inv == TypeInv /\ AllNested /\ TablesOfCounted /\ RoomForContext

LEMMA InitInv == HotInit => Inv
  BY DEF HotInit, Inv, TypeInv, Words, AllNested, TablesOfCounted, RoomForContext, Intervals

LEMMA SameInv ==
  ASSUME Inv, UNCHANGED <<interval, left_word_hashes, right_word_hashes, word_count>>,
         \/ UNCHANGED <<program_added, program_words>> /\ (phase' \in {"load", "words"} => phase \in {"load", "words"})
         \/ program_added' = {} /\ program_words' = {}
  PROVE  Inv'
  BY DEF Inv, TypeInv, Words, AllNested, TablesOfCounted, RoomForContext

LEMMA NextWordInv == Inv /\ NextWord => Inv'
<1> SUFFICES ASSUME Inv, NextWord PROVE Inv'
  OBVIOUS
<1> DEFINE word == Head(tokens).word
           left == <<word, hash(Head(tokens).at - LEFT_HASH_WIDTH, Head(tokens).at)>>
           right == <<word, hash(Head(tokens).at, Head(tokens).at + RIGHT_HASH_WIDTH)>>
           isContext == IsContext(word, left, right)
           was == Counted(interval, word)
           is == [contexts |-> was.contexts + One(isContext),
                  programs |-> was.programs + One(word \notin program_words),
                  total |-> was.total + 1]
<1>1. /\ left_word_hashes' = left_word_hashes \cup {left}
      /\ right_word_hashes' = right_word_hashes \cup {right}
      /\ program_added' = IF isContext THEN program_added \cup {word} ELSE program_added
      /\ program_words' = program_words \cup {word}
      /\ word_count' = [word_count EXCEPT ![interval] =
                          [x \in DOMAIN @ \cup {word} |-> IF x = word THEN is ELSE @[x]]]
      /\ interval' = interval /\ phase' = phase /\ phase = "words"
  BY DEF NextWord, CountWord
<1>2. isContext \in BOOLEAN /\ (word \notin program_words) \in BOOLEAN
  BY DEF IsContext
<1>3. isContext => word \notin program_added
  BY DEF IsContext
<1>4. word \notin Words(interval) => isContext
  BY <1>1 DEF Inv, TablesOfCounted, RoomForContext, IsContext
<1>5. \A w, h : left = <<w, h>> \/ right = <<w, h>> => w = word
  OBVIOUS
<1> HIDE DEF word, left, right, isContext
<1>6. /\ was.contexts \in Nat /\ was.programs \in Nat /\ was.total \in Nat
      /\ word \in Words(interval) => was = word_count[interval][word]
      /\ word \notin Words(interval) => was.contexts = 0 /\ was.programs = 0 /\ was.total = 0
  BY DEF Inv, TypeInv, Counted, Words
<1> HIDE DEF was
<1>7. /\ is.contexts \in Nat /\ is.programs \in Nat /\ is.total \in Nat
      /\ is.contexts = IF isContext THEN was.contexts + 1 ELSE was.contexts
      /\ is.programs = IF word \notin program_words THEN was.programs + 1 ELSE was.programs
      /\ is.total = was.total + 1
  <2>1. /\ is.contexts = was.contexts + One(isContext)
        /\ is.programs = was.programs + One(word \notin program_words)
        /\ is.total = was.total + 1
    OBVIOUS
  <2> HIDE DEF is
  <2> QED  BY <1>2, <1>6, <2>1 DEF One
<1> HIDE DEF is
<1>8. /\ DOMAIN word_count' = Intervals
      /\ Words(interval)' = Words(interval) \cup {word}
      /\ word_count'[interval][word] = is
      /\ \A w \in Words(interval) \ {word} : word_count'[interval][w] = word_count[interval][w]
      /\ \A x \in Intervals \ {interval} : word_count'[x] = word_count[x]
  BY <1>1 DEF Inv, TypeInv, Words
<1>9. Nested(is)
  <2>1. CASE word \in Words(interval)
    <3>1. was = word_count[interval][word] /\ Nested(was)
      BY <1>6, <2>1 DEF Inv, TypeInv, AllNested
    <3>2. isContext /\ word \in program_words => was.contexts + 1 <= was.programs
      BY <1>1, <1>3, <3>1 DEF Inv, RoomForContext
    <3> QED  BY <1>6, <1>7, <3>1, <3>2 DEF Nested
  <2>2. CASE word \notin Words(interval)
    BY <1>1, <1>4, <1>6, <1>7, <2>2 DEF Inv, RoomForContext, Nested
  <2> QED  BY <2>1, <2>2
<1>10. TypeInv'
  BY <1>1, <1>7, <1>8 DEF Inv, TypeInv, Words
<1>11. AllNested'
  BY <1>1, <1>8, <1>9 DEF Inv, TypeInv, AllNested, Words
<1>12. TablesOfCounted'
  BY <1>1, <1>5, <1>8 DEF Inv, TablesOfCounted
<1>13. RoomForContext'
  <2>1. program_added' \subseteq program_words' /\ program_words' \subseteq Words(interval)'
    BY <1>1, <1>8 DEF Inv, RoomForContext
  <2>2. \A w \in program_words' \ program_added' :
          word_count'[interval][w].contexts + 1 <= word_count'[interval][w].programs
    <3> TAKE w \in program_words' \ program_added'
    <3>1. CASE w # word
      BY <1>1, <1>8, <3>1 DEF Inv, RoomForContext
    <3>2. CASE w = word
      <4>1. ~isContext /\ word \in Words(interval) /\ word \notin program_added
        BY <1>1, <1>4, <3>2
      <4>2. was.contexts <= was.programs /\ was = word_count[interval][word]
        BY <1>6, <4>1 DEF Inv, TypeInv, AllNested, Nested
      <4> QED  BY <1>1, <1>6, <1>7, <1>8, <3>2, <4>1, <4>2 DEF Inv, RoomForContext
    <3> QED  BY <3>1, <3>2
  <2> QED  BY <1>1, <2>1, <2>2 DEF RoomForContext
<1> QED  BY <1>10, <1>11, <1>12, <1>13 DEF Inv

LEMMA SecondIntervalInv == Inv /\ SecondInterval => Inv'
  BY DEF Inv, SecondInterval, TypeInv, Words, AllNested, TablesOfCounted, RoomForContext, Intervals

\* What the counts, the tables and the words of a program say of one another.
THEOREM InvCorrect == HotSpec => []Inv
<1>1. ASSUME Inv, [HotNext]_hotVars PROVE Inv'
  <2> USE DEF programVars, tableVars, hotVars
  <2>1. ASSUME NEW t \in Texts, NextProgram(t) PROVE Inv'
    BY <1>1, <2>1, SameInv DEF NextProgram
  <2>2. CASE LoadStep
    BY <1>1, <2>2, SameInv DEF LoadStep
  <2>3. CASE Tokenize
    BY <1>1, <2>3, SameInv DEF Tokenize
  <2>4. CASE NextWord
    BY <1>1, <2>4, NextWordInv
  <2>5. CASE EndOfProgram
    BY <1>1, <2>5, SameInv DEF EndOfProgram
  <2>6. CASE SecondInterval
    BY <1>1, <2>6, SecondIntervalInv
  <2>7. CASE Compare
    BY <1>1, <2>7, SameInv DEF Compare
  <2>8. CASE UNCHANGED hotVars
    BY <1>1, <2>8, SameInv
  <2> QED  BY <1>1, <2>1, <2>2, <2>3, <2>4, <2>5, <2>6, <2>7, <2>8 DEF HotNext
<1> QED  BY <1>1, InitInv, PTL DEF HotSpec

\* compare_word_counts divides by no 0: for all texts, and however hashes
\* collide, a word that is counted has a context, and its contexts are at most
\* its programs, those at most its occurrences.
THEOREM WordsHaveContexts == HotSpec => []WordCountsNested
<1>1. Inv => WordCountsNested
  BY DEF Inv, AllNested, Nested, Words, WordCountsNested
<1> QED  BY <1>1, InvCorrect, PTL
------------------------------------------------------------------------------
(* The words of a text, whatever stands in front of char_types.            *)

Token == [word : Seq(Int), at : Int]
Acc == [word : Seq(Int), start : Int, tokens : Seq(Token)]

LEMMA EndWordIs ==
  ASSUME NEW acc \in Acc
  PROVE  /\ EndWord(acc) \in Acc
         /\ EndWord(acc).word = <<>>
         /\ EndWord(acc).start = acc.start
         /\ EndWord(acc).tokens = IF Len(acc.word) > MinSize
                                  THEN Append(acc.tokens, [word |-> acc.word, at |-> acc.start])
                                  ELSE acc.tokens
<1> DEFINE u == [word |-> acc.word, at |-> acc.start]
           longer == IF Len(acc.word) > MinSize THEN Append(acc.tokens, u) ELSE acc.tokens
<1>1. acc.word \in Seq(Int) /\ acc.start \in Int /\ acc.tokens \in Seq(Token)
  BY DEF Acc
<1>2. u \in Token
  BY <1>1 DEF Token
<1>3. longer \in Seq(Token)
  <2> HIDE DEF u
  <2> QED  BY <1>1, <1>2, AppendProperties
<1>4. EndWord(acc) = [word |-> <<>>, start |-> acc.start, tokens |-> longer]
  <2>1. DOMAIN acc = {"word", "start", "tokens"}
    BY DEF Acc
  <2>2. acc = [word |-> acc.word, start |-> acc.start, tokens |-> acc.tokens]
    BY DEF Acc
  <2> HIDE DEF longer
  <2>3. EndWord(acc) = [acc EXCEPT !.word = <<>>, !.tokens = longer]
    BY DEF EndWord, longer
  <2> QED  BY <2>2, <2>3
<1> HIDE DEF longer
<1>5. <<>> \in Seq(Int)
  OBVIOUS
<1> QED  BY <1>1, <1>3, <1>4, <1>5 DEF Acc, longer

LEMMA AddLetterIs ==
  ASSUME NEW acc \in Acc, NEW k \in Int, NEW c \in Int
  PROVE  /\ AddLetter(acc, k, c) \in Acc
         /\ AddLetter(acc, k, c).word = Append(acc.word, c)
         /\ AddLetter(acc, k, c).start = IF acc.word = <<>> THEN k - 1 ELSE acc.start
         /\ AddLetter(acc, k, c).tokens = acc.tokens
<1> DEFINE longer == Append(acc.word, c)
           start == IF acc.word = <<>> THEN k - 1 ELSE acc.start
<1>1. acc.word \in Seq(Int) /\ acc.start \in Int /\ acc.tokens \in Seq(Token)
  BY DEF Acc
<1>2. longer \in Seq(Int) /\ start \in Int
  BY <1>1, AppendProperties
<1>3. acc = [word |-> acc.word, start |-> acc.start, tokens |-> acc.tokens]
  BY DEF Acc
<1>4. AddLetter(acc, k, c) = [word |-> longer, start |-> start, tokens |-> acc.tokens]
  <2> HIDE DEF longer, start
  <2>1. AddLetter(acc, k, c) = [acc EXCEPT !.word = longer, !.start = start]
    BY <1>3 DEF AddLetter, longer, start
  <2> QED  BY <1>3, <2>1
<1> HIDE DEF longer, start
<1> QED  BY <1>1, <1>2, <1>4 DEF Acc, longer, start

LEMMA NoWordIs ==
  NoWord \in Acc /\ NoWord.word = <<>> /\ NoWord.tokens = <<>>
<1>1. <<>> \in Seq(Int) /\ <<>> \in Seq(Token) /\ -1 \in Int
  OBVIOUS
<1> QED  BY <1>1 DEF NoWord, Acc

LEMMA AddCharacterIs ==
  ASSUME NEW acc \in Acc, NEW k \in Int, NEW c \in Int, NEW type
  PROVE  AddCharacterOfType(acc, k, c, type) \in Acc
BY EndWordIs, AddLetterIs DEF AddCharacterOfType

\* g holds what tokenize has found after each of the characters of t.
Scans(g, t, other) ==
  /\ g \in [0..Len(t) -> Acc]
  /\ g[0] = NoWord
  /\ \A k \in 1..Len(t) :
       g[k] = AddCharacterOfType(g[k - 1], k, t[k], CharType(t[k], other))

LEMMA ScanExists ==
  ASSUME NEW t \in Seq(Int), NEW other
  PROVE  \E g : Scans(g, t, other)
<1> DEFINE n == Len(t)
           Is(g, m) == g[0] = NoWord /\ \A k \in 1..m :
                         g[k] = AddCharacterOfType(g[k - 1], k, t[k], CharType(t[k], other))
           Bad == {m \in 0..n : ~\E g \in [0..m -> Acc] : Is(g, m)}
<1>0. n \in Nat /\ \A k \in 1..n : t[k] \in Int
  BY LenProperties, ElementOfSeq
<1> SUFFICES ASSUME n \in Bad PROVE FALSE
  BY <1>0 DEF Scans
<1>1. PICK m \in Bad : \A k \in Bad : m <= k
  <2>1. Bad \subseteq Nat
    OBVIOUS
  <2>2. Bad # {}
    OBVIOUS
  <2> HIDE DEF Bad
  <2> QED  BY <2>1, <2>2, LeastNumber
<1>2. m \in 0..n /\ ~\E g \in [0..m -> Acc] : Is(g, m)
  BY <1>1
<1>3. CASE m = 0
  <2> DEFINE g == [k \in 0..0 |-> NoWord]
  <2>1. g \in [0..m -> Acc] /\ g[0] = NoWord /\ 1..m = {}
    BY <1>3, NoWordIs
  <2> QED  BY <1>2, <2>1
<1>4. CASE m # 0
  <2>0. m - 1 \in 0..(m - 1) /\ m \in 1..n /\ m \in Int
    BY <1>0, <1>2, <1>4
  <2>1. m - 1 \in 0..n /\ m - 1 \notin Bad
    <3>1. m - 1 \in 0..n /\ ~(m <= m - 1)
      BY <1>0, <1>2, <1>4
    <3> HIDE DEF Bad
    <3> QED  BY <1>1, <3>1
  <2>2. PICK h \in [0..(m - 1) -> Acc] : Is(h, m - 1)
    BY <2>1
  <2> DEFINE next == AddCharacterOfType(h[m - 1], m, t[m], CharType(t[m], other))
             g == [k \in 0..m |-> IF k = m THEN next ELSE h[k]]
  <2>3. ASSUME NEW k \in 0..m PROVE k = m \/ k \in 0..(m - 1)
    BY <1>0, <1>2
  <2>4. next \in Acc
    <3>1. h[m - 1] \in Acc /\ t[m] \in Int
      BY <1>0, <2>0, <2>2
    <3> QED  BY <2>0, <3>1, AddCharacterIs
  <2>5. g \in [0..m -> Acc]
    <3> HIDE DEF next
    <3> QED  BY <2>2, <2>3, <2>4
  <2>6. g[0] = NoWord
    BY <1>0, <1>2, <1>4, <2>2
  <2>7. ASSUME NEW k \in 1..m
        PROVE  g[k] = AddCharacterOfType(g[k - 1], k, t[k], CharType(t[k], other))
    <3>1. g[k - 1] = h[k - 1]
      BY <1>0, <1>2, <1>4
    <3>2. CASE k = m
      <4>1. g[m] = next
        BY <1>0, <1>2, <1>4
      <4> HIDE DEF g
      <4> QED  BY <3>1, <3>2, <4>1
    <3>3. CASE k # m
      <4>1. k \in 1..(m - 1) /\ g[k] = h[k]
        BY <1>0, <1>2, <3>3
      <4> HIDE DEF g
      <4> QED  BY <2>2, <3>1, <4>1
    <3> QED  BY <3>2, <3>3
  <2> HIDE DEF g
  <2> QED  BY <1>2, <2>5, <2>6, <2>7
<1> QED  BY <1>3, <1>4

LEMMA TokensAre ==
  ASSUME NEW t \in Seq(Int), NEW other, NEW g, Scans(g, t, other)
  PROVE  Tokens(t, other) = EndWord(g[Len(t)]).tokens
<1> DEFINE n == Len(t)
           Is(f) == f = [k \in 0..n |->
                           IF k = 0 THEN NoWord
                           ELSE AddCharacterOfType(f[k - 1], k, t[k], CharType(t[k], other))]
           scan == CHOOSE f : Is(f)
<1>0. n \in Nat
  OBVIOUS
<1>1. Tokens(t, other) = EndWord(scan[n]).tokens
  BY DEF Tokens
<1>2. Is(g)
  <2>1. g = [k \in 0..n |-> g[k]]
    BY DEF Scans
  <2>2. ASSUME NEW k \in 0..n
        PROVE  g[k] = IF k = 0 THEN NoWord
                      ELSE AddCharacterOfType(g[k - 1], k, t[k], CharType(t[k], other))
    BY <1>0 DEF Scans
  <2> HIDE DEF n
  <2> QED  BY <2>1, <2>2
<1>3. Is(scan)
  <2> HIDE DEF Is
  <2> QED  BY <1>2
<1>4. \A k \in 0..n : scan[k] = IF k = 0 THEN NoWord
                      ELSE AddCharacterOfType(scan[k - 1], k, t[k], CharType(t[k], other))
  <2> HIDE DEF scan
  <2> QED  BY <1>3, Zenon
<1> HIDE DEF scan, Is
<1> DEFINE Bad == {k \in 0..n : scan[k] # g[k]}
<1>5. CASE Bad = {}
  BY <1>0, <1>1, <1>5
<1>6. CASE Bad # {}
  <2>1. Bad \subseteq Nat
    OBVIOUS
  <2>2. PICK k \in Bad : \A j \in Bad : k <= j
    <3> HIDE DEF Bad
    <3> QED  BY <1>6, <2>1, LeastNumber
  <2>3. k # 0 /\ k \in 1..n
    BY <1>0, <1>4, <2>2 DEF Scans
  <2>4. k - 1 \in 0..n /\ ~(k <= k - 1)
    BY <1>0, <2>3
  <2>5. scan[k - 1] = g[k - 1]
    BY <2>2, <2>4
  <2> QED  BY <1>4, <2>2, <2>3, <2>5 DEF Scans
<1> QED  BY <1>5, <1>6

------------------------------------------------------------------------------
(* What has been found after k characters of t, of the longest runs of     *)
(* letters in it.                                                          *)

IsRun(t, r) ==
  /\ \A n \in r[1]..r[2] : t[n] \in Letters
  /\ r[1] > 1 => t[r[1] - 1] \notin Letters
  /\ r[2] < Len(t) => t[r[2] + 1] \notin Letters

Runs(t) == {r \in (1..Len(t)) \X (1..Len(t)) : r[1] + MinSize <= r[2] /\ IsRun(t, r)}

IsPlain(t, r) == \A n \in (r[1] - 1)..(r[2] + 1) \cap DOMAIN t : t[n] >= 0

Written(t, r) == [word |-> SubSeq(t, r[1], r[2]), at |-> r[1] - 1]

Blurred(t, u) == \E n \in u.at..(u.at + Len(u.word) + 1) : n \in DOMAIN t /\ t[n] < 0

Complete(t, acc, k) ==
  \A r \in Runs(t) : r[2] < k /\ IsPlain(t, r) => Written(t, r) \in ToSet(acc.tokens)

Sound(t, acc) ==
  \A u \in ToSet(acc.tokens) : (\E r \in Runs(t) : Written(t, r) = u) \/ Blurred(t, u)

\* The word that is being read, in a run that is plain.
Growing(t, acc, k) ==
  \A r \in Runs(t) : r[1] <= k /\ k <= r[2] /\ IsPlain(t, r) =>
    acc.word = SubSeq(t, r[1], k) /\ acc.start = r[1] - 1

Between(t, acc, k) ==
  /\ k = 0 \/ (t[k] >= 0 /\ t[k] \notin Letters) => acc.word = <<>>
  /\ k # 0 /\ t[k] \in Letters => acc.word # <<>>

StartsRun(t, acc, k) ==
  /\ acc.start \in 0..(k - 1) /\ acc.start + Len(acc.word) = k
  /\ acc.word = SubSeq(t, acc.start + 1, k)
  /\ \A n \in (acc.start + 1)..k : t[n] \in Letters
  /\ acc.start > 0 => t[acc.start] \notin Letters

WordBlurred(t, acc) ==
  \E n \in DOMAIN t : acc.start <= n /\ n <= acc.start + Len(acc.word) + 1 /\ t[n] < 0

WordSound(t, acc, k) == acc.word # <<>> => StartsRun(t, acc, k) \/ WordBlurred(t, acc)

HasRead(t, acc, k) ==
  /\ Complete(t, acc, k) /\ Sound(t, acc)
  /\ Growing(t, acc, k) /\ Between(t, acc, k) /\ WordSound(t, acc, k)

LEMMA TokenAppended ==
  ASSUME NEW x \in Seq(Token), NEW u \in Token
  PROVE  ToSet(Append(x, u)) = ToSet(x) \cup {u}
<1>1. /\ Append(x, u) \in Seq(Token) /\ Len(Append(x, u)) = Len(x) + 1 /\ Len(x) \in Nat
      /\ \A n \in 1..Len(x) : Append(x, u)[n] = x[n]
      /\ Append(x, u)[Len(x) + 1] = u
  BY AppendProperties
<1>2. DOMAIN Append(x, u) = 1..(Len(x) + 1) /\ DOMAIN x = 1..Len(x)
  BY <1>1, LenProperties
<1> DEFINE y == Append(x, u)
<1> HIDE DEF y
<1>3. ToSet(y) = {y[n] : n \in 1..(Len(x) + 1)} /\ ToSet(x) = {x[n] : n \in 1..Len(x)}
  BY <1>2 DEF ToSet, y
<1>4. 1..(Len(x) + 1) = 1..Len(x) \cup {Len(x) + 1}
  BY <1>1
<1>5. ToSet(y) = ToSet(x) \cup {u}
  BY <1>1, <1>3, <1>4 DEF y
<1> QED  BY <1>5 DEF y

LEMMA OneLonger ==
  ASSUME NEW t \in Seq(Int), NEW j \in Int, NEW k \in Int, 1 <= j, j <= k + 1, k < Len(t)
  PROVE  /\ SubSeq(t, j, k + 1) = Append(SubSeq(t, j, k), t[k + 1])
         /\ SubSeq(t, j, k) \in Seq(Int)
         /\ Len(SubSeq(t, j, k)) = k - j + 1
         /\ j = k + 1 => SubSeq(t, j, k) = <<>>
<1>1. Len(t) \in Nat /\ \A n \in 1..Len(t) : t[n] \in Int
  BY ElementOfSeq, LenProperties
<1>2. \A n \in j..k : t[n] \in Int
  BY <1>1
<1>3. \A n \in j..(k + 1) : t[n] \in Int
  BY <1>1
<1>4. k + 1 \in Int /\ t[k + 1] \in Int
  BY <1>1
<1> DEFINE x == SubSeq(t, j, k)
           y == SubSeq(t, j, k + 1)
           z == Append(x, t[k + 1])
<1>5. x \in Seq(Int) /\ Len(x) = k - j + 1 /\ \A n \in 1..(k - j + 1) : x[n] = t[j + n - 1]
  <2>1. /\ x \in Seq(Int) /\ Len(x) = (IF j <= k THEN k - j + 1 ELSE 0)
        /\ \A n \in 1..(k - j + 1) : x[n] = t[j + n - 1]
    BY <1>2, SubSeqProperties
  <2> HIDE DEF x
  <2> QED  BY <2>1
<1>6. y \in Seq(Int) /\ Len(y) = k - j + 2 /\ \A n \in 1..(k - j + 2) : y[n] = t[j + n - 1]
  <2>1. /\ y \in Seq(Int) /\ Len(y) = (IF j <= k + 1 THEN k + 1 - j + 1 ELSE 0)
        /\ \A n \in 1..(k + 1 - j + 1) : y[n] = t[j + n - 1]
    BY <1>3, <1>4, SubSeqProperties, SMTT(30)
  <2>2. k + 1 - j + 1 = k - j + 2
    OBVIOUS
  <2> HIDE DEF y
  <2> QED  BY <2>1, <2>2
<1>7. /\ z \in Seq(Int) /\ Len(z) = Len(x) + 1
      /\ (\A n \in 1..Len(x) : z[n] = x[n]) /\ z[Len(x) + 1] = t[k + 1]
  <2> DEFINE c == t[k + 1]
  <2>1. c \in Int /\ x \in Seq(Int)
    BY <1>4, <1>5
  <2> HIDE DEF x, c
  <2>2. /\ Append(x, c) \in Seq(Int) /\ Len(Append(x, c)) = Len(x) + 1
        /\ (\A n \in 1..Len(x) : Append(x, c)[n] = x[n]) /\ Append(x, c)[Len(x) + 1] = c
    BY <2>1, AppendProperties
  <2> QED  BY <2>2 DEF c
<1> HIDE DEF x, y, z
<1>8. ASSUME NEW n \in 1..Len(y) PROVE y[n] = z[n]
  <2>1. y[n] = t[j + n - 1]
    BY <1>6
  <2>2. CASE n = k - j + 2
    <3>1. j + n - 1 = k + 1 /\ n = Len(x) + 1
      BY <1>5, <2>2
    <3> QED  BY <1>7, <2>1, <3>1
  <2>3. CASE n # k - j + 2
    <3>1. n \in 1..(k - j + 1) /\ n \in 1..Len(x)
      BY <1>5, <1>6, <2>3
    <3> QED  BY <1>5, <1>7, <2>1, <3>1
  <2> QED  BY <2>2, <2>3
<1>9. Len(y) = Len(z)
  BY <1>5, <1>6, <1>7
<1>10. y = z
  BY <1>6, <1>7, <1>8, <1>9, SeqEqual
<1>11. j = k + 1 => x = <<>>
  BY <1>5, EmptySeq
<1> QED  BY <1>5, <1>10, <1>11 DEF x, y, z

LEMMA WordEnds ==
  ASSUME NEW t \in Seq(Int), NEW k \in 0..Len(t), NEW acc \in Acc, HasRead(t, acc, k),
         k < Len(t) => t[k + 1] \notin Letters
  PROVE  Complete(t, EndWord(acc), k + 1) /\ Sound(t, EndWord(acc))
<1> DEFINE u == [word |-> acc.word, at |-> acc.start]
           b == EndWord(acc)
<1>1. /\ acc.word \in Seq(Int) /\ acc.start \in Int /\ acc.tokens \in Seq(Token) /\ u \in Token
      /\ Len(acc.word) \in Nat /\ Len(t) \in Nat /\ k \in Int
      /\ MinSize \in Nat
  BY HotListAssumption DEF Acc, Token
<1>2. IF Len(acc.word) > MinSize THEN ToSet(b.tokens) = ToSet(acc.tokens) \cup {u}
      ELSE b.tokens = acc.tokens
  <2> HIDE DEF u
  <2>1. b.tokens = IF Len(acc.word) > MinSize THEN Append(acc.tokens, u) ELSE acc.tokens
    BY EndWordIs DEF u
  <2> HIDE DEF b
  <2> QED  BY <1>1, <2>1, TokenAppended
<1> HIDE DEF b
<1>3. ToSet(acc.tokens) \subseteq ToSet(b.tokens)
  BY <1>2
<1>4. ASSUME NEW r \in Runs(t), r[2] < k + 1, IsPlain(t, r)
      PROVE  Written(t, r) \in ToSet(b.tokens)
  <2>1. r[1] \in 1..Len(t) /\ r[2] \in 1..Len(t) /\ r[1] + MinSize <= r[2]
    BY DEF Runs
  <2>2. CASE r[2] < k
    BY <1>3, <1>4, <2>2 DEF HasRead, Complete
  <2>3. CASE ~(r[2] < k)
    <3>1. r[2] = k /\ r[1] <= k /\ k <= r[2] /\ k \in 1..Len(t)
      BY <1>1, <1>4, <2>1, <2>3, SMTT(30)
    <3>2. acc.word = SubSeq(t, r[1], r[2]) /\ acc.start = r[1] - 1
      BY <1>4, <3>1 DEF HasRead, Growing
    <3>3. Len(SubSeq(t, r[1], r[2])) = r[2] - r[1] + 1
      <4>1. \A n \in r[1]..r[2] : t[n] \in Int
        BY <1>1, <2>1, ElementOfSeq
      <4>2. r[1] <= r[2] /\ r[1] \in Int /\ r[2] \in Int
        BY <1>1, <2>1
      <4> QED  BY <4>1, <4>2, SubSeqProperties
    <3>4. Len(acc.word) > MinSize
      BY <1>1, <2>1, <3>2, <3>3, SMTT(30)
    <3>5. u = Written(t, r)
      BY <3>2 DEF Written
    <3> QED  BY <1>2, <3>4, <3>5
  <2> QED  BY <2>2, <2>3
<1>5. ASSUME Len(acc.word) > MinSize
      PROVE  (\E r \in Runs(t) : Written(t, r) = u) \/ Blurred(t, u)
  <2>1. acc.word # <<>>
    BY <1>1, <1>5
  <2>2. CASE WordBlurred(t, acc)
    <3>1. PICK n \in DOMAIN t : acc.start <= n /\ n <= acc.start + Len(acc.word) + 1 /\ t[n] < 0
      BY <2>2 DEF WordBlurred
    <3>2. n \in Int
      BY LenProperties
    <3>3. n \in acc.start..(acc.start + Len(acc.word) + 1)
      BY <1>1, <3>1, <3>2
    <3>4. u.at = acc.start /\ u.word = acc.word
      OBVIOUS
    <3> HIDE DEF u
    <3> QED  BY <3>1, <3>3, <3>4 DEF Blurred
  <2>3. CASE StartsRun(t, acc, k)
    <3> DEFINE r == <<acc.start + 1, k>>
    <3>1. /\ acc.start \in 0..(k - 1) /\ acc.start + Len(acc.word) = k
          /\ acc.word = SubSeq(t, acc.start + 1, k)
          /\ (\A n \in (acc.start + 1)..k : t[n] \in Letters)
          /\ (acc.start > 0 => t[acc.start] \notin Letters)
      BY <2>3 DEF StartsRun
    <3>2. r[1] = acc.start + 1 /\ r[2] = k /\ r[1] - 1 = acc.start
      BY <1>1
    <3>3. r \in (1..Len(t)) \X (1..Len(t)) /\ r[1] + MinSize <= r[2]
      <4>1. acc.start + 1 \in 1..Len(t) /\ k \in 1..Len(t) /\ acc.start + 1 + MinSize <= k
        <5> DEFINE s == acc.start
                   l == Len(acc.word)
        <5>1. s \in Int /\ l \in Nat /\ 0 <= s /\ s + l = k /\ l > MinSize /\ k <= Len(t)
          BY <1>1, <1>5, <3>1
        <5> HIDE DEF s, l
        <5>2. s + 1 \in 1..Len(t) /\ k \in 1..Len(t) /\ s + 1 + MinSize <= k
          BY <1>1, <5>1
        <5> QED  BY <5>2 DEF s
      <4> QED  BY <4>1
    <3> HIDE DEF r
    <3>4. IsRun(t, r)
      <4>1. \A n \in r[1]..r[2] : t[n] \in Letters
        BY <3>1, <3>2
      <4>2. r[1] > 1 => t[r[1] - 1] \notin Letters
        <5>1. r[1] > 1 => acc.start > 0
          BY <1>1, <3>2
        <5> QED  BY <3>1, <3>2, <5>1
      <4> QED  BY <3>2, <4>1, <4>2 DEF IsRun
    <3>5. r \in Runs(t)
      BY <3>3, <3>4 DEF Runs
    <3>6. Written(t, r) = u
      BY <3>1, <3>2 DEF Written
    <3> QED  BY <3>5, <3>6
  <2> QED  BY <2>1, <2>2, <2>3 DEF HasRead, WordSound
<1>6. Complete(t, b, k + 1)
  BY <1>4 DEF Complete
<1>7. Sound(t, b)
  <2> HIDE DEF u
  <2> QED  BY <1>2, <1>5 DEF HasRead, Sound
<1> QED  BY <1>6, <1>7 DEF b

LEMMA NothingRead ==
  ASSUME NEW t \in Seq(Int)
  PROVE  HasRead(t, NoWord, 0)
<1>1. \A r \in Runs(t) : ~(r[2] < 0) /\ ~(r[1] <= 0)
  BY DEF Runs
<1>2. ToSet(<<>>) = {}
  BY DEF ToSet
<1> QED
  BY <1>1, <1>2, NoWordIs DEF HasRead, Complete, Sound, Growing, Between, WordSound

\* A letter is read, or a character that is taken for one.
LEMMA LetterRead ==
  ASSUME NEW t \in Seq(Int), NEW k \in Nat, k < Len(t), NEW acc \in Acc, HasRead(t, acc, k),
         t[k + 1] \in Letters \/ t[k + 1] < 0
  PROVE  HasRead(t, AddLetter(acc, k + 1, t[k + 1]), k + 1)
<1> DEFINE c == t[k + 1]
           b == AddLetter(acc, k + 1, c)
<1>1. /\ Len(t) \in Nat /\ k + 1 \in 1..Len(t) /\ c \in Int /\ k + 1 \in DOMAIN t
      /\ k \in 0..Len(t) /\ k + 1 - 1 = k /\ k + 1 \in Int
      /\ \A n \in Letters : n \in Nat
  BY ElementOfSeq, LenProperties, HotListAssumption
<1>2. acc.word \in Seq(Int) /\ acc.start \in Int /\ Len(acc.word) \in Nat
  BY DEF Acc
<1>3. /\ b.word = Append(acc.word, c) /\ b.tokens = acc.tokens
      /\ b.start = IF acc.word = <<>> THEN k ELSE acc.start
  <2> HIDE DEF c
  <2> QED  BY <1>1, AddLetterIs
<1>4. b.word # <<>> /\ Len(b.word) = Len(acc.word) + 1
  <2> DEFINE w == acc.word
  <2>1. c \in Int /\ w \in Seq(Int) /\ b.word = Append(w, c)
    BY <1>1, <1>2, <1>3
  <2> HIDE DEF c, b, w
  <2>2. Append(w, c) # <<>> /\ Len(Append(w, c)) = Len(w) + 1
    BY <2>1, AppendProperties, SMTT(30)
  <2> QED  BY <2>1, <2>2 DEF w
<1>5. c \in Letters \/ c < 0
  OBVIOUS
<1> HIDE DEF b
<1>6. ASSUME NEW r \in Runs(t), r[2] < k + 1, IsPlain(t, r)
      PROVE  Written(t, r) \in ToSet(b.tokens)
  <2>1. r[1] \in 1..Len(t) /\ r[2] \in 1..Len(t) /\ r[1] + MinSize <= r[2] /\ IsRun(t, r)
    BY DEF Runs
  <2>2. r[2] # k
    <3> SUFFICES ASSUME r[2] = k PROVE FALSE
      OBVIOUS
    <3>1. c \notin Letters
      BY <2>1 DEF IsRun
    <3>2. k + 1 \in (r[1] - 1)..(r[2] + 1)
      BY <1>1, <2>1, HotListAssumption, SMTT(30)
    <3>3. c >= 0
      BY <1>1, <1>6, <3>2 DEF IsPlain
    <3> QED  BY <1>1, <1>5, <3>1, <3>3
  <2>3. r[2] < k
    BY <1>1, <1>6, <2>1, <2>2
  <2> QED  BY <1>3, <1>6, <2>3 DEF HasRead, Complete
<1>7. ASSUME NEW r \in Runs(t), r[1] <= k + 1, k + 1 <= r[2], IsPlain(t, r)
      PROVE  b.word = SubSeq(t, r[1], k + 1) /\ b.start = r[1] - 1
  <2>1. r[1] \in 1..Len(t) /\ r[2] \in 1..Len(t) /\ IsRun(t, r)
    BY DEF Runs
  <2> DEFINE j == r[1]
  <2>2. j \in Int /\ 1 <= j /\ j <= k + 1 /\ r[2] \in Int
    BY <1>7, <2>1
  <2> HIDE DEF j
  <2>3. /\ SubSeq(t, j, k + 1) = Append(SubSeq(t, j, k), c)
        /\ SubSeq(t, j, k) \in Seq(Int) /\ Len(SubSeq(t, j, k)) = k - j + 1
        /\ (j = k + 1 => SubSeq(t, j, k) = <<>>)
    BY <2>2, OneLonger
  <2>4. CASE j <= k
    <3>1. acc.word = SubSeq(t, j, k) /\ acc.start = j - 1
      BY <1>7, <2>2, <2>4 DEF HasRead, Growing, j
    <3>2. acc.word # <<>>
      <4>1. Len(acc.word) # 0
        BY <2>2, <2>3, <2>4, <3>1
      <4> QED  BY <4>1, EmptySeq
    <3> QED  BY <1>3, <2>3, <3>1, <3>2 DEF j
  <2>5. CASE ~(j <= k)
    <3>1. j = k + 1
      BY <2>2, <2>5
    <3>2. k = 0 \/ (t[k] >= 0 /\ t[k] \notin Letters)
      <4> SUFFICES ASSUME k # 0 PROVE t[k] >= 0 /\ t[k] \notin Letters
        OBVIOUS
      <4>1. j > 1 /\ j - 1 = k /\ k \in (r[1] - 1)..(r[2] + 1) /\ k \in DOMAIN t
        BY <1>1, <1>7, <2>2, <3>1 DEF j
      <4>2. t[k] >= 0
        BY <1>7, <4>1 DEF IsPlain
      <4> QED  BY <2>1, <4>1, <4>2 DEF IsRun, j
    <3>3. acc.word = <<>>
      BY <3>2 DEF HasRead, Between
    <3> QED  BY <1>1, <1>3, <2>3, <3>1, <3>3 DEF j
  <2> QED  BY <2>4, <2>5
<1>8. Between(t, b, k + 1)
  BY <1>1, <1>4, <1>5 DEF Between
<1>9. WordSound(t, b, k + 1)
  <2>1. CASE c < 0
    <3>1. \/ b.start <= k + 1 /\ k + 1 <= b.start + Len(b.word) + 1
          \/ WordBlurred(t, acc) /\ acc.word # <<>>
      <4>1. CASE acc.word = <<>>
        <5>1. b.start = k /\ Len(b.word) = 1
          BY <1>2, <1>3, <1>4, <4>1
        <5> QED  BY <5>1
      <4>2. CASE acc.word # <<>> /\ StartsRun(t, acc, k)
        <5>1. acc.start \in Int /\ acc.start <= k /\ acc.start + Len(acc.word) = k /\ b.start = acc.start
          BY <1>3, <4>2, SMTT(30) DEF StartsRun
        <5> QED  BY <1>2, <1>4, <5>1, SMTT(30)
      <4> QED  BY <4>1, <4>2 DEF HasRead, WordSound
    <3>2. WordBlurred(t, b)
      <4>1. CASE b.start <= k + 1 /\ k + 1 <= b.start + Len(b.word) + 1
        BY <1>1, <2>1, <4>1 DEF WordBlurred
      <4>2. CASE WordBlurred(t, acc) /\ acc.word # <<>>
        <5>1. PICK n \in DOMAIN t : acc.start <= n /\ n <= acc.start + Len(acc.word) + 1 /\ t[n] < 0
          BY <4>2 DEF WordBlurred
        <5>2. n \in Int /\ b.start = acc.start
          BY <1>3, <4>2, LenProperties
        <5>3. n <= b.start + Len(b.word) + 1
          BY <1>2, <1>4, <5>1, <5>2
        <5> QED  BY <5>1, <5>2, <5>3 DEF WordBlurred
      <4> QED  BY <3>1, <4>1, <4>2
    <3> QED  BY <3>2 DEF WordSound
  <2>2. CASE c \in Letters
    <3>1. CASE acc.word = <<>>
      <4>1. b.start = k /\ Len(b.word) = 1 /\ b.word = Append(<<>>, c)
        BY <1>2, <1>3, <1>4, <3>1
      <4>2. SubSeq(t, k + 1, k + 1) = Append(<<>>, c)
        <5> DEFINE j == k + 1
        <5>1. j \in Int /\ 1 <= j /\ j <= k + 1 /\ j = k + 1 /\ k \in Int
          BY <1>1
        <5> HIDE DEF j
        <5>2. SubSeq(t, j, k + 1) = Append(SubSeq(t, j, k), c) /\ SubSeq(t, j, k) = <<>>
          BY <5>1, OneLonger
        <5> QED  BY <5>2 DEF j
      <4>3. k > 0 => t[k] \notin Letters
        BY <3>1 DEF HasRead, Between
      <4>4. \A n \in (k + 1)..(k + 1) : t[n] \in Letters
        <5>1. \A n \in (k + 1)..(k + 1) : n = k + 1
          BY <1>1
        <5> QED  BY <2>2, <5>1
      <4>5. k \in 0..(k + 1 - 1)
        OBVIOUS
      <4>6. StartsRun(t, b, k + 1)
        BY <4>1, <4>2, <4>3, <4>4, <4>5 DEF StartsRun
      <4> QED  BY <4>6 DEF WordSound
    <3>2. CASE acc.word # <<>> /\ StartsRun(t, acc, k)
      <4> DEFINE s == acc.start
      <4>1. /\ s \in 0..(k - 1) /\ s + Len(acc.word) = k /\ acc.word = SubSeq(t, s + 1, k)
            /\ (\A n \in (s + 1)..k : t[n] \in Letters) /\ (s > 0 => t[s] \notin Letters)
        BY <3>2 DEF StartsRun
      <4>2. b.start = s
        BY <1>3, <3>2
      <4> HIDE DEF s
      <4>3. SubSeq(t, s + 1, k + 1) = Append(SubSeq(t, s + 1, k), c)
        <5> DEFINE j == s + 1
        <5>1. j \in Int /\ 1 <= j /\ j <= k + 1 /\ k \in Int
          BY <1>1, <4>1
        <5> HIDE DEF j
        <5>2. SubSeq(t, j, k + 1) = Append(SubSeq(t, j, k), c)
          BY <5>1, OneLonger
        <5> QED  BY <5>2 DEF j
      <4>4. \A n \in (s + 1)..(k + 1) : t[n] \in Letters
        <5>1. (s + 1)..(k + 1) = (s + 1)..k \cup {k + 1}
          BY <4>1
        <5> QED  BY <2>2, <4>1, <5>1
      <4>5. s \in 0..(k + 1 - 1) /\ s + Len(b.word) = k + 1
        BY <1>2, <1>4, <4>1
      <4>6. b.word = SubSeq(t, s + 1, k + 1)
        BY <1>3, <4>1, <4>3
      <4>7. /\ b.start \in 0..(k + 1 - 1) /\ b.start + Len(b.word) = k + 1
            /\ b.word = SubSeq(t, b.start + 1, k + 1)
            /\ \A n \in (b.start + 1)..(k + 1) : t[n] \in Letters
            /\ b.start > 0 => t[b.start] \notin Letters
        BY <4>1, <4>2, <4>4, <4>5, <4>6
      <4>8. StartsRun(t, b, k + 1)
        BY <4>7 DEF StartsRun
      <4> QED  BY <4>8 DEF WordSound
    <3>3. CASE acc.word # <<>> /\ WordBlurred(t, acc)
      <4>1. PICK n \in DOMAIN t : acc.start <= n /\ n <= acc.start + Len(acc.word) + 1 /\ t[n] < 0
        BY <3>3 DEF WordBlurred
      <4>2. n \in Int /\ b.start = acc.start
        BY <1>3, <3>3, LenProperties
      <4>3. n <= b.start + Len(b.word) + 1
        BY <1>2, <1>4, <4>1, <4>2
      <4>4. WordBlurred(t, b)
        BY <4>1, <4>2, <4>3 DEF WordBlurred
      <4> QED  BY <4>4 DEF WordSound
    <3> QED  BY <3>1, <3>2, <3>3 DEF HasRead, WordSound
  <2> QED  BY <1>5, <2>1, <2>2
<1>10. Complete(t, b, k + 1)
  BY <1>6 DEF Complete
<1>11. Sound(t, b)
  BY <1>3 DEF HasRead, Sound
<1>12. Growing(t, b, k + 1)
  BY <1>7 DEF Growing
<1> QED  BY <1>8, <1>9, <1>10, <1>11, <1>12 DEF HasRead, b

\* A word ends.
LEMMA EndRead ==
  ASSUME NEW t \in Seq(Int), NEW k \in Nat, k < Len(t), NEW acc \in Acc, HasRead(t, acc, k),
         t[k + 1] \notin Letters
  PROVE  HasRead(t, EndWord(acc), k + 1)
<1>1. k \in 0..Len(t) /\ k + 1 # 0
  BY LenProperties
<1>2. Complete(t, EndWord(acc), k + 1) /\ Sound(t, EndWord(acc))
  BY <1>1, WordEnds
<1>3. EndWord(acc).word = <<>>
  BY EndWordIs
<1>4. Growing(t, EndWord(acc), k + 1)
  <2>1. ASSUME NEW r \in Runs(t), r[1] <= k + 1, k + 1 <= r[2] PROVE FALSE
    <3>1. r[1] \in 1..Len(t) /\ r[2] \in 1..Len(t) /\ IsRun(t, r)
      BY DEF Runs
    <3>2. k + 1 \in r[1]..r[2]
      BY <2>1, <3>1
    <3> QED  BY <3>1, <3>2 DEF IsRun
  <2> QED  BY <2>1 DEF Growing
<1> QED  BY <1>1, <1>2, <1>3, <1>4 DEF HasRead, Between, WordSound

\* A character is passed over.
LEMMA PassedOver ==
  ASSUME NEW t \in Seq(Int), NEW k \in Nat, k < Len(t), NEW acc \in Acc, HasRead(t, acc, k),
         t[k + 1] < 0
  PROVE  HasRead(t, acc, k + 1)
<1>1. /\ Len(t) \in Nat /\ k + 1 \in DOMAIN t /\ t[k + 1] \in Int /\ k + 1 # 0
      /\ \A n \in Letters : n \in Nat
  BY ElementOfSeq, LenProperties, HotListAssumption
<1>2. t[k + 1] \notin Letters /\ ~(t[k + 1] >= 0)
  BY <1>1
<1>3. ASSUME NEW r \in Runs(t), r[2] < k + 1, IsPlain(t, r) PROVE r[2] < k
  <2>1. r[1] \in 1..Len(t) /\ r[2] \in 1..Len(t) /\ r[1] + MinSize <= r[2]
    BY DEF Runs
  <2> SUFFICES ASSUME r[2] = k PROVE FALSE
    BY <1>3, <2>1
  <2>2. k + 1 \in (r[1] - 1)..(r[2] + 1)
    BY <2>1, HotListAssumption, SMTT(30)
  <2> QED  BY <1>1, <1>2, <1>3, <2>2, SMTT(30) DEF IsPlain
<1>4. ASSUME NEW r \in Runs(t), r[1] <= k + 1, k + 1 <= r[2] PROVE FALSE
  <2>1. r[1] \in 1..Len(t) /\ r[2] \in 1..Len(t) /\ IsRun(t, r)
    BY DEF Runs
  <2>2. k + 1 \in r[1]..r[2]
    BY <1>4, <2>1
  <2> QED  BY <1>2, <2>1, <2>2 DEF IsRun
<1>5. ASSUME StartsRun(t, acc, k) PROVE WordBlurred(t, acc)
  <2>1. acc.start \in Int /\ acc.start <= k /\ acc.start + Len(acc.word) = k /\ Len(acc.word) \in Nat
    <3>1. acc.word \in Seq(Int) /\ acc.start \in Int
      BY DEF Acc
    <3>2. acc.start \in 0..(k - 1) /\ acc.start + Len(acc.word) = k
      BY <1>5 DEF StartsRun
    <3> QED  BY <3>1, <3>2
  <2>2. acc.start <= k + 1 /\ k + 1 <= acc.start + Len(acc.word) + 1
    BY <2>1
  <2> QED  BY <1>1, <2>2 DEF WordBlurred
<1>6. Complete(t, acc, k + 1)
  BY <1>3 DEF HasRead, Complete
<1>7. Growing(t, acc, k + 1)
  BY <1>4 DEF Growing
<1>8. Between(t, acc, k + 1)
  BY <1>1, <1>2 DEF Between
<1>9. WordSound(t, acc, k + 1)
  BY <1>5 DEF HasRead, WordSound
<1> QED  BY <1>6, <1>7, <1>8, <1>9 DEF HasRead

LEMMA CharacterRead ==
  ASSUME NEW t \in Seq(Int), NEW k \in Nat, k < Len(t), NEW acc \in Acc, HasRead(t, acc, k),
         NEW other
  PROVE  HasRead(t, AddCharacterOfType(acc, k + 1, t[k + 1], CharType(t[k + 1], other)), k + 1)
<1> DEFINE c == t[k + 1]
           type == CharType(c, other)
<1>1. c \in Int /\ \A n \in Letters : n \in Nat
  BY ElementOfSeq, LenProperties, HotListAssumption
<1>2. CASE type = "letter"
  <2>1. c \in Letters \/ c < 0
    BY <1>1, <1>2 DEF CharType
  <2>2. AddCharacterOfType(acc, k + 1, c, type) = AddLetter(acc, k + 1, c)
    BY <1>2 DEF AddCharacterOfType
  <2> QED  BY <2>1, <2>2, LetterRead
<1>3. CASE type \in {"space", "break"}
  <2>1. c \notin Letters
    <3>1. c \in Letters => ~(c < 0) /\ c \notin Spaces
      BY <1>1, HotListAssumption
    <3>2. c \in Letters => type = "letter"
      BY <3>1 DEF CharType
    <3> QED  BY <1>3, <3>2
  <2>2. AddCharacterOfType(acc, k + 1, c, type) = EndWord(acc)
    BY <1>3 DEF AddCharacterOfType
  <2> QED  BY <2>1, <2>2, EndRead
<1>4. CASE type \notin {"letter", "space", "break"}
  <2>1. c < 0
    BY <1>1, <1>4 DEF CharType
  <2>2. AddCharacterOfType(acc, k + 1, c, type) = acc
    BY <1>4 DEF AddCharacterOfType
  <2> QED  BY <2>1, <2>2, PassedOver
<1> QED  BY <1>2, <1>3, <1>4

\* The words of a text: all plain runs are among them, and each is a run or has
\* a character above 127 in it or beside it.
LEMMA TokensFound ==
  ASSUME NEW t \in Seq(Int), NEW other
  PROVE  /\ Tokens(t, other) \in Seq(Token)
         /\ \A r \in Runs(t) : IsPlain(t, r) => Written(t, r) \in ToSet(Tokens(t, other))
         /\ \A u \in ToSet(Tokens(t, other)) :
              (\E r \in Runs(t) : Written(t, r) = u) \/ Blurred(t, u)
<1> DEFINE n == Len(t)
<1>0. n \in Nat
  OBVIOUS
<1>1. PICK g : Scans(g, t, other)
  BY ScanExists
<1>2. /\ g \in [0..n -> Acc] /\ g[0] = NoWord
      /\ \A k \in 1..n : g[k] = AddCharacterOfType(g[k - 1], k, t[k], CharType(t[k], other))
  BY <1>1 DEF Scans
<1> DEFINE Bad == {k \in 0..n : ~HasRead(t, g[k], k)}
<1>3. Bad = {}
  <2> SUFFICES ASSUME Bad # {} PROVE FALSE
    OBVIOUS
  <2>1. Bad \subseteq Nat
    OBVIOUS
  <2>2. PICK k \in Bad : \A j \in Bad : k <= j
    <3> HIDE DEF Bad
    <3> QED  BY <2>1, LeastNumber
  <2>3. k # 0 /\ k \in 1..n
    BY <1>0, <1>2, <2>2, NothingRead
  <2> DEFINE m == k - 1
             a == g[m]
  <2>4. m \in 0..n /\ m \in Nat /\ m < n /\ m + 1 = k /\ ~(k <= m)
    BY <1>0, <2>3
  <2>5. HasRead(t, a, m) /\ a \in Acc
    BY <1>2, <2>2, <2>4
  <2>6. g[k] = AddCharacterOfType(a, k, t[k], CharType(t[k], other)) /\ ~HasRead(t, g[k], k)
    BY <1>2, <2>2, <2>3
  <2> HIDE DEF m, a
  <2>7. HasRead(t, AddCharacterOfType(a, m + 1, t[m + 1], CharType(t[m + 1], other)), m + 1)
    BY <2>4, <2>5, CharacterRead
  <2> QED  BY <2>4, <2>6, <2>7
<1> DEFINE a == g[n]
<1>4. a \in Acc /\ HasRead(t, a, n) /\ n \in 0..Len(t) /\ ~(n < Len(t))
  BY <1>0, <1>2, <1>3
<1> HIDE DEF a
<1>5. Complete(t, EndWord(a), n + 1) /\ Sound(t, EndWord(a))
  BY <1>4, WordEnds
<1>6. EndWord(a).tokens \in Seq(Token)
  BY <1>4, EndWordIs DEF Acc
<1>7. Tokens(t, other) = EndWord(a).tokens
  BY <1>1, TokensAre DEF a
<1>8. \A r \in Runs(t) : r[2] < n + 1
  BY <1>0 DEF Runs
<1> QED  BY <1>5, <1>6, <1>7, <1>8 DEF Complete, Sound

\* The words not yet counted are those of the text from some word on; only
\* their number is needed here.
WordsInv ==
  /\ text \in Seq(Int) /\ N = Len(text)
  /\ tokens \in Seq(Token)
  /\ phase = "words" =>
       Len(tokens) <= Len(tokenize(text)) /\ (Len(tokens) = Len(tokenize(text)) => tokens = tokenize(text))

LEMMA TokenizeIs == ASSUME NEW t \in Seq(Int) PROVE tokenize(t) \in Seq(Token)
BY TokensFound DEF tokenize

\* The words hot_list still has to count are some of those tokenize found.
THEOREM WordsInvCorrect == HotSpec => []WordsInv
<1>1. HotInit => WordsInv
  BY DEF HotInit, Init, WordsInv
<1>2. ASSUME WordsInv, [HotNext]_hotVars PROVE WordsInv'
  <2> USE DEF programVars, tableVars, hotVars
  <2>0. text \in Seq(Int) /\ N = Len(text) /\ tokens \in Seq(Token)
    BY <1>2 DEF WordsInv
  <2>1. ASSUME NEW t \in Texts, NextProgram(t) PROVE WordsInv'
    BY <1>2, <2>1, TextsAssumption DEF NextProgram, LoadText, WordsInv
  <2>2. CASE LoadStep
    BY <1>2, <2>2 DEF LoadStep, AddCharacter, Loaded, WordsInv
  <2>3. CASE Tokenize
    <3>1. tokens' = tokenize(text) /\ text' = text /\ N' = N /\ outside' = outside
      BY <2>3 DEF Tokenize, vars
    <3>2. tokenize(text)' = tokenize(text)
      BY <3>1 DEF tokenize
    <3>3. tokens' \in Seq(Token)
      BY <2>0, <3>1, TokenizeIs
    <3> QED  BY <2>0, <3>1, <3>2, <3>3, LenProperties DEF WordsInv
  <2>4. CASE NextWord
    <3>1. /\ tokens' = Tail(tokens) /\ text' = text /\ N' = N /\ outside' = outside
          /\ tokens # <<>> /\ phase = "words" /\ phase' = "words"
      BY <2>4 DEF NextWord, CountWord, vars
    <3>2. tokenize(text)' = tokenize(text)
      BY <3>1 DEF tokenize
    <3>3. tokens' \in Seq(Token) /\ Len(tokens') = Len(tokens) - 1 /\ Len(tokens) \in Nat
      BY <2>0, <3>1, HeadTailProperties, LenProperties
    <3>4. Len(tokenize(text)) \in Nat
      BY <2>0, TokenizeIs, LenProperties
    <3>5. Len(tokens) <= Len(tokenize(text))
      BY <1>2, <3>1 DEF WordsInv
    <3>6. Len(tokens') <= Len(tokenize(text)) /\ Len(tokens') # Len(tokenize(text))
      BY <3>3, <3>4, <3>5
    <3> QED  BY <2>0, <3>1, <3>2, <3>3, <3>6 DEF WordsInv
  <2>5. CASE EndOfProgram
    BY <1>2, <2>5 DEF EndOfProgram, WordsInv, vars
  <2>6. CASE SecondInterval
    BY <1>2, <2>6 DEF SecondInterval, WordsInv, vars
  <2>7. CASE Compare
    BY <1>2, <2>7 DEF Compare, WordsInv, vars
  <2>8. CASE UNCHANGED hotVars
    <3>1. text' = text /\ N' = N /\ tokens' = tokens /\ phase' = phase /\ outside' = outside
      BY <2>8 DEF vars
    <3>2. tokenize(text)' = tokenize(text)
      BY <3>1 DEF tokenize
    <3>3. text' \in Seq(Int) /\ N' = Len(text') /\ tokens' \in Seq(Token)
      BY <2>0, <3>1
    <3>4. phase = "words" => Len(tokens) <= Len(tokenize(text)) /\
                             (Len(tokens) = Len(tokenize(text)) => tokens = tokenize(text))
      BY <1>2 DEF WordsInv
    <3> QED  BY <3>1, <3>2, <3>3, <3>4 DEF WordsInv
  <2> QED  BY <1>2, <2>1, <2>2, <2>3, <2>4, <2>5, <2>6, <2>7, <2>8 DEF HotNext
<1> QED  BY <1>1, <1>2, PTL DEF HotSpec

\* tokenize finds the words, for texts of any length and alphabet, whatever
\* stands in front of char_types: a run of letters with no character above 127
\* beside it is a word, where it stands, and a word that is no such run has a
\* character above 127 in it or beside it.
THEOREM WordsAreFound == HotSpec => []TokensAreWords
<1>1. WordsInv => TokensAreWords
  <2> SUFFICES ASSUME WordsInv, phase = "words", Len(tokens) = Len(tokenize(text))
               PROVE  TokensAreWords
    BY DEF TokensAreWords
  <2>1. text \in Seq(Int) /\ N = Len(text) /\ tokens = Tokens(text, outside)
    BY DEF WordsInv, tokenize
  <2>2. \A r \in Runs(text) : IsPlain(text, r) => Written(text, r) \in ToSet(tokens)
    BY <2>1, TokensFound
  <2>3. \A u \in ToSet(tokens) : (\E r \in Runs(text) : Written(text, r) = u) \/ Blurred(text, u)
    BY <2>1, TokensFound
  <2> QED  BY <2>1, <2>2, <2>3, Zenon DEF TokensAreWords, Runs, IsRun, IsPlain, Written, Blurred
<1> QED  BY <1>1, WordsInvCorrect, PTL
------------------------------------------------------------------------------
(* The words of the programs are the words that are counted.               *)

WordsOf(x) == {x[j].word : j \in DOMAIN x}

WordsIn(programs, other) ==
  UNION {WordsOf(Tokens(programs[k], other)) : k \in DOMAIN programs}

Unread == CASE phase = "load"  -> WordsOf(Tokens(text, outside))
            [] phase = "words" -> WordsOf(tokens)
            [] OTHER           -> {}

CountInv ==
  /\ interval \in Intervals /\ DOMAIN word_count = Intervals
  /\ tokens \in Seq(Token)
  /\ read \in [Intervals -> Seq(Texts)]
  /\ Words(interval) \cup Unread = WordsIn(read[interval], outside)
  /\ \A x \in Intervals \ {interval} : Words(x) = WordsIn(read[x], outside)
  /\ \A word \in DOMAIN hot_list : hot_list[word][1] = Counted("a", word).contexts
  /\ hot_list # <<>> => phase = "done"
  /\ phase = "done" => interval = "b"

LEMMA WordsInMore ==
  ASSUME NEW programs \in Seq(Texts), NEW t \in Texts, NEW other
  PROVE  /\ Append(programs, t) \in Seq(Texts)
         /\ WordsIn(Append(programs, t), other) =
              WordsIn(programs, other) \cup WordsOf(Tokens(t, other))
<1> DEFINE n == Len(programs)
           more == Append(programs, t)
<1>1. /\ more \in Seq(Texts) /\ Len(more) = n + 1 /\ n \in Nat
      /\ (\A k \in 1..n : more[k] = programs[k]) /\ more[n + 1] = t
  BY AppendProperties
<1>2. DOMAIN more = 1..(n + 1) /\ DOMAIN programs = 1..n
  BY <1>1, LenProperties
<1>3. 1..(n + 1) = 1..n \cup {n + 1}
  BY <1>1
<1> HIDE DEF more, n
<1>4. WordsIn(more, other) = WordsIn(programs, other) \cup WordsOf(Tokens(t, other))
  BY <1>1, <1>2, <1>3 DEF WordsIn
<1> QED  BY <1>1, <1>4 DEF more

LEMMA WordsOfTail ==
  ASSUME NEW x \in Seq(Token), x # <<>>
  PROVE  Tail(x) \in Seq(Token) /\ WordsOf(x) = WordsOf(Tail(x)) \cup {Head(x).word}
<1> DEFINE n == Len(x)
           y == Tail(x)
<1>1. /\ y \in Seq(Token) /\ Len(y) = n - 1 /\ \A j \in 1..(n - 1) : y[j] = x[j + 1]
      /\ n \in Nat \ {0} /\ Head(x) = x[1]
  BY HeadTailProperties, EmptySeq
<1>2. DOMAIN x = 1..n /\ DOMAIN y = 1..(n - 1)
  BY <1>1, LenProperties
<1> HIDE DEF n, y
<1>3. \A j \in 1..n : j = 1 \/ (j - 1 \in 1..(n - 1) /\ y[j - 1] = x[j])
  BY <1>1
<1>4. \A j \in 1..(n - 1) : j + 1 \in 1..n
  BY <1>1
<1>5. 1 \in 1..n
  BY <1>1
<1>6. WordsOf(x) \subseteq WordsOf(y) \cup {x[1].word}
  BY <1>2, <1>3 DEF WordsOf
<1>7. WordsOf(y) \cup {x[1].word} \subseteq WordsOf(x)
  BY <1>1, <1>2, <1>4, <1>5 DEF WordsOf
<1> QED  BY <1>1, <1>6, <1>7 DEF y

LEMMA WordCounted ==
  ASSUME NextWord, interval \in Intervals, DOMAIN word_count = Intervals
  PROVE  /\ DOMAIN word_count' = Intervals
         /\ DOMAIN word_count'[interval] = DOMAIN word_count[interval] \cup {Head(tokens).word}
         /\ \A x \in Intervals \ {interval} : word_count'[x] = word_count[x]
<1> DEFINE word == Head(tokens).word
<1>1. PICK is : word_count' = [word_count EXCEPT ![interval] =
                    [x \in DOMAIN @ \cup {word} |-> IF x = word THEN is ELSE @[x]]]
  BY DEF NextWord, CountWord
<1> HIDE DEF word
<1> QED  BY <1>1 DEF word

\* The words counted, and those still to be counted, are the words of the programs
\* read; a word is in hot_list with its contexts in the first interval.
THEOREM CountInvCorrect == HotSpec => []CountInv
<1>1. HotInit => CountInv
  <2> SUFFICES ASSUME HotInit PROVE CountInv
    OBVIOUS
  <2>1. DOMAIN <<>> = {}
    OBVIOUS
  <2>2. \A x : WordsIn(<<>>, x) = {}
    BY <2>1 DEF WordsIn
  <2>3. <<>> \in Seq(Token) /\ <<>> \in Seq(Texts)
    OBVIOUS
  <2>4. Unread = {}
    BY DEF HotInit, Unread
  <2> QED  BY <2>1, <2>2, <2>3, <2>4 DEF HotInit, CountInv, Words, Intervals
<1>2. ASSUME WordsInv, WordsInv', CountInv, [HotNext]_hotVars PROVE CountInv'
  <2> USE DEF programVars, tableVars, hotVars
  <2>0. interval \in Intervals /\ DOMAIN word_count = Intervals /\ text \in Seq(Int)
    BY <1>2 DEF CountInv, WordsInv
  <2>t. tokens' \in Seq(Token)
    BY <1>2 DEF WordsInv
  <2>1. ASSUME NEW t \in Texts, NextProgram(t) PROVE CountInv'
    <3>1. /\ text' = t /\ outside' = outside /\ interval' = interval /\ word_count' = word_count
          /\ hot_list' = hot_list /\ phase = "programs" /\ phase' = "load"
          /\ read' = [read EXCEPT ![interval] = Append(@, t)]
      BY <2>1 DEF NextProgram, LoadText
    <3>2. read \in [Intervals -> Seq(Texts)] /\ read[interval] \in Seq(Texts)
      BY <1>2 DEF CountInv
    <3>3. /\ Append(read[interval], t) \in Seq(Texts)
          /\ WordsIn(Append(read[interval], t), outside) =
               WordsIn(read[interval], outside) \cup WordsOf(Tokens(t, outside))
      BY <3>2, WordsInMore
    <3>4. /\ read' \in [Intervals -> Seq(Texts)] /\ read'[interval] = Append(read[interval], t)
          /\ \A x \in Intervals \ {interval} : read'[x] = read[x]
      BY <2>0, <3>1, <3>2, <3>3
    <3>5. Unread = {} /\ Unread' = WordsOf(Tokens(t, outside))
      BY <3>1 DEF Unread
    <3>6. Words(interval)' \cup Unread' = WordsIn(read'[interval], outside)
      BY <1>2, <3>1, <3>3, <3>4, <3>5 DEF CountInv, Words
    <3>7. \A x \in Intervals \ {interval} : DOMAIN word_count[x] = WordsIn(read'[x], outside)
      BY <1>2, <3>4 DEF CountInv, Words
    <3> QED  BY <1>2, <2>t, <3>1, <3>4, <3>6, <3>7 DEF CountInv, Words, Counted
  <2>2. ASSUME UNCHANGED <<interval, word_count, read, hot_list, outside>>, Unread' = Unread,
               hot_list # <<>> => phase' = "done", phase' = "done" => interval = "b"
        PROVE  CountInv'
    BY <1>2, <2>t, <2>2 DEF CountInv, Words, Counted
  <2>3. CASE LoadStep
    <3>1. /\ UNCHANGED <<interval, word_count, read, hot_list, outside, text, phase>>
          /\ phase = "load"
      BY <2>3 DEF LoadStep, AddCharacter, Loaded
    <3>2. Unread' = Unread
      BY <3>1 DEF Unread
    <3> QED  BY <1>2, <2>2, <3>1, <3>2 DEF CountInv
  <2>4. CASE Tokenize
    <3>1. /\ UNCHANGED <<interval, word_count, read, hot_list, outside, text>>
          /\ tokens' = Tokens(text, outside) /\ phase = "load" /\ phase' = "words"
      BY <2>4 DEF Tokenize, vars, tokenize
    <3>2. Unread' = Unread
      BY <3>1 DEF Unread
    <3> QED  BY <1>2, <2>2, <3>1, <3>2 DEF CountInv
  <2>5. CASE NextWord
    <3> DEFINE word == Head(tokens).word
    <3>1. /\ UNCHANGED <<interval, read, hot_list, outside, phase>>
          /\ phase = "words" /\ tokens # <<>> /\ tokens' = Tail(tokens)
      BY <2>5 DEF NextWord, CountWord
    <3>2. /\ DOMAIN word_count' = Intervals
          /\ DOMAIN word_count'[interval] = DOMAIN word_count[interval] \cup {word}
          /\ \A x \in Intervals \ {interval} : word_count'[x] = word_count[x]
      BY <2>0, <2>5, WordCounted
    <3>3. WordsOf(tokens) = WordsOf(Tail(tokens)) \cup {word}
      BY <1>2, <3>1, WordsOfTail DEF WordsInv
    <3> HIDE DEF word
    <3>4. Unread = WordsOf(tokens) /\ Unread' = WordsOf(Tail(tokens))
      BY <3>1 DEF Unread
    <3>5. DOMAIN word_count'[interval] \cup Unread' = DOMAIN word_count[interval] \cup Unread
      BY <3>2, <3>3, <3>4
    <3>6. hot_list = <<>> /\ DOMAIN <<>> = {}
      BY <1>2, <3>1 DEF CountInv
    <3> QED  BY <1>2, <2>0, <2>t, <3>1, <3>2, <3>5, <3>6 DEF CountInv, Words
  <2>6. CASE EndOfProgram
    <3>1. /\ UNCHANGED <<interval, word_count, read, hot_list, outside>>
          /\ phase = "words" /\ tokens = <<>> /\ phase' = "programs"
      BY <2>6 DEF EndOfProgram
    <3>2. Unread' = {} /\ Unread = WordsOf(<<>>)
      BY <3>1 DEF Unread
    <3>3. WordsOf(<<>>) = {}
      BY DEF WordsOf
    <3>4. hot_list = <<>>
      BY <1>2, <3>1 DEF CountInv
    <3> QED  BY <2>2, <3>1, <3>2, <3>3, <3>4
  <2>7. CASE SecondInterval
    <3>1. /\ UNCHANGED <<word_count, read, hot_list, outside, phase>>
          /\ phase = "programs" /\ interval = "a" /\ interval' = "b"
      BY <2>7 DEF SecondInterval
    <3>2. Unread' = {} /\ Unread = {}
      BY <3>1 DEF Unread
    <3>3. \A x \in Intervals : Words(x) = WordsIn(read[x], outside)
      BY <1>2, <3>2 DEF CountInv
    <3> QED  BY <1>2, <2>t, <3>1, <3>2, <3>3 DEF CountInv, Words, Counted, Intervals
  <2>8. CASE Compare
    <3>1. /\ UNCHANGED <<interval, word_count, read, outside>>
          /\ phase = "programs" /\ interval = "b" /\ phase' = "done"
          /\ \A word \in DOMAIN hot_list' : hot_list'[word][1] = Counted("a", word).contexts
      BY <2>8 DEF Compare
    <3>2. Unread' = {} /\ Unread = {}
      BY <3>1 DEF Unread
    <3> QED  BY <1>2, <2>t, <3>1, <3>2 DEF CountInv, Words, Counted
  <2>9. CASE UNCHANGED hotVars
    <3>1. UNCHANGED <<interval, word_count, read, hot_list, outside, text, phase, tokens>>
      BY <2>9 DEF vars
    <3>2. Unread' = Unread
      BY <3>1 DEF Unread
    <3> QED  BY <1>2, <2>2, <3>1, <3>2 DEF CountInv
  <2> QED  BY <1>2, <2>1, <2>3, <2>4, <2>5, <2>6, <2>7, <2>8, <2>9 DEF HotNext
<1> QED  BY <1>1, <1>2, WordsInvCorrect, PTL DEF HotSpec

\* A word that is shown as new in the second interval is in no program of the
\* first, and the other way round: every word that tokenize finds is counted,
\* and every word that is counted has a context, however hashes collide.
THEOREM NewWordsAreNew == HotSpec => []EveryWordHasAContext
<1>1. Inv /\ CountInv => EveryWordHasAContext
  <2> SUFFICES ASSUME Inv, CountInv PROVE EveryWordHasAContext
    OBVIOUS
  <2>1. WordCountsNested
    BY DEF Inv, AllNested, Nested, Words, WordCountsNested
  <2>2. ASSUME NEW word \in DOMAIN hot_list
        PROVE  hot_list[word][1] = 0 <=>
                 \A k \in DOMAIN read["a"] : \A j \in DOMAIN tokenize(read["a"][k]) :
                   tokenize(read["a"][k])[j].word # word
    <3>1. hot_list # <<>>
      <4>1. DOMAIN <<>> = {}
        OBVIOUS
      <4> QED  BY <4>1
    <3>2. interval = "b"
      BY <3>1 DEF CountInv
    <3>3. Words("a") = WordsIn(read["a"], outside)
      BY <3>2 DEF CountInv, Intervals
    <3>4. hot_list[word][1] = 0 <=> word \notin Words("a")
      <4>1. hot_list[word][1] = Counted("a", word).contexts
        BY DEF CountInv
      <4>2. CASE word \in Words("a")
        <5>1. 1 <= word_count["a"][word].contexts /\ word_count["a"][word].contexts \in Nat
          BY <4>2 DEF Inv, AllNested, Nested, TypeInv, Intervals
        <5> QED  BY <4>1, <4>2, <5>1 DEF Counted, Words
      <4>3. CASE word \notin Words("a")
        BY <4>1, <4>3 DEF Counted, Words
      <4> QED  BY <4>2, <4>3
    <3>5. word \notin WordsIn(read["a"], outside) <=>
            \A k \in DOMAIN read["a"] : \A j \in DOMAIN Tokens(read["a"][k], outside) :
              Tokens(read["a"][k], outside)[j].word # word
      <4> DEFINE programs == read["a"]
      <4> HIDE DEF programs
      <4>1. \A k : word \notin WordsOf(Tokens(programs[k], outside)) <=>
                    \A j \in DOMAIN Tokens(programs[k], outside) : Tokens(programs[k], outside)[j].word # word
        BY DEF WordsOf
      <4>2. word \notin WordsIn(programs, outside) <=>
              \A k \in DOMAIN programs : word \notin WordsOf(Tokens(programs[k], outside))
        BY DEF WordsIn
      <4> QED  BY <4>1, <4>2 DEF programs
    <3> QED  BY <3>3, <3>4, <3>5 DEF tokenize
  <2> QED  BY <2>1, <2>2 DEF EveryWordHasAContext
<1> QED  BY <1>1, InvCorrect, CountInvCorrect, PTL
------------------------------------------------------------------------------
(* The hash of a stretch.  What the powers of A come to is not needed, only *)
(* that the table of inverses takes back one factor after the other.        *)

inverse(k) == modular_inverses[k % (M - 1)]

LEMMA InversesAre ==
  /\ modular_inverses \in [0..(M - 2) -> 0..(M - 1)]
  /\ modular_inverses[M - 2] = A
  /\ \A k \in 0..(M - 3) : modular_inverses[k] = Unsigned(modular_inverses[k + 1] * A) % M
<1> DEFINE Is(f) == f = [k \in 0..(M - 2) |->
                           IF k = M - 2 THEN A ELSE Unsigned(f[k + 1] * A) % M]
           Table == [0..(M - 2) -> 0..(M - 1)]
           Right(g, m) == \A k \in (M - 2 - m)..(M - 2) :
                            g[k] = IF k = M - 2 THEN A ELSE Unsigned(g[k + 1] * A) % M
           Bad == {m \in 0..(M - 2) : ~\E g \in Table : Right(g, m)}
<1>0. M \in Nat /\ M - 2 \in Nat /\ A \in 1..(M - 1) /\ Width \in Nat \ {0} /\ A \in 0..(M - 1)
  <2>1. M \in Nat \ {0, 1} /\ M * M <= Width /\ M * M > 0 /\ Width \in Nat /\ A \in 1..(M - 1)
    BY ModulusAssumption
  <2> QED  BY <2>1
<1>1. \A x \in Int : Unsigned(x) % M \in 0..(M - 1)
  <2> TAKE x \in Int
  <2>1. x % Width \in 0..(Width - 1)
    BY <1>0, RemainderIs
  <2>2. x % Width \in Int /\ M \in Nat \ {0}
    BY <1>0, <2>1
  <2> QED  BY <2>2, RemainderIs DEF Unsigned
<1>2. Bad = {}
  <2> SUFFICES ASSUME Bad # {} PROVE FALSE
    OBVIOUS
  <2>1. Bad \subseteq Nat
    OBVIOUS
  <2>2. PICK m \in Bad : \A n \in Bad : m <= n
    <3> HIDE DEF Bad
    <3> QED  BY <2>1, LeastNumber
  <2>3. m \in 0..(M - 2) /\ ~\E g \in Table : Right(g, m)
    BY <2>2
  <2>4. CASE m = 0
    <3> DEFINE g == [k \in 0..(M - 2) |-> A]
    <3>1. g \in Table /\ g[M - 2] = A /\ (M - 2 - 0)..(M - 2) = {M - 2}
      BY <1>0
    <3>2. Right(g, m)
      BY <1>0, <2>4, <3>1
    <3> QED  BY <2>3, <3>1, <3>2
  <2>5. CASE m # 0
    <3>1. m - 1 \in 0..(M - 2) /\ m - 1 \notin Bad
      <4>1. m - 1 \in 0..(M - 2) /\ ~(m <= m - 1)
        BY <1>0, <2>3, <2>5
      <4> HIDE DEF Bad
      <4> QED  BY <2>2, <4>1
    <3>2. PICK h \in Table : Right(h, m - 1)
      BY <3>1
    <3> DEFINE j == M - 2 - m
               next == Unsigned(h[j + 1] * A) % M
               g == [k \in 0..(M - 2) |-> IF k = j THEN next ELSE h[k]]
    <3>3. j \in 0..(M - 2) /\ j # M - 2 /\ j + 1 \in 0..(M - 2) /\ M - 2 - (m - 1) = j + 1
      BY <1>0, <2>3, <2>5
    <3>4. h[j + 1] \in 0..(M - 1) /\ \A k \in 0..(M - 2) : h[k] \in 0..(M - 1)
      BY <3>3
    <3>5. next \in 0..(M - 1)
      <4>1. h[j + 1] * A \in Int
        BY <1>0, <3>4
      <4> QED  BY <1>1, <4>1
    <3> HIDE DEF j, next
    <3>6. g \in Table
      BY <3>4, <3>5
    <3>7. ASSUME NEW k \in j..(M - 2)
          PROVE  g[k] = IF k = M - 2 THEN A ELSE Unsigned(g[k + 1] * A) % M
      <4>1. CASE k = j
        <5>1. g[k] = next /\ g[k + 1] = h[j + 1]
          BY <1>0, <3>3, <4>1
        <5> HIDE DEF g
        <5> QED  BY <3>3, <4>1, <5>1 DEF next
      <4>2. CASE k # j
        <5>1. k \in (j + 1)..(M - 2) /\ g[k] = h[k] /\ (k # M - 2 => g[k + 1] = h[k + 1])
          BY <1>0, <3>3, <4>2
        <5> HIDE DEF g
        <5> QED  BY <3>2, <3>3, <5>1
      <4> QED  BY <4>1, <4>2
    <3>8. Right(g, m)
      BY <3>7 DEF j
    <3> QED  BY <2>3, <3>6, <3>8
  <2> QED  BY <2>4, <2>5
<1>3. PICK g \in Table : Right(g, M - 2)
  <2>1. M - 2 \in 0..(M - 2)
    BY <1>0
  <2>2. \A m \in 0..(M - 2) : \E g \in Table : Right(g, m)
    BY <1>2
  <2> HIDE DEF Right
  <2> QED  BY <2>1, <2>2
<1>4. \A k \in 0..(M - 2) : g[k] = IF k = M - 2 THEN A ELSE Unsigned(g[k + 1] * A) % M
  <2>1. M - 2 - (M - 2) = 0
    BY <1>0
  <2> QED  BY <1>3, <2>1
<1>5. Is(g)
  <2>1. g = [k \in 0..(M - 2) |-> g[k]]
    OBVIOUS
  <2> QED  BY <1>4, <2>1
<1>6. Is(modular_inverses)
  <2>1. modular_inverses = CHOOSE f : Is(f)
    BY DEF modular_inverses
  <2> HIDE DEF Is
  <2> QED  BY <1>5, <2>1
<1> DEFINE f == modular_inverses
<1>7. DOMAIN f = 0..(M - 2) /\ \A k \in 0..(M - 2) :
        f[k] = IF k = M - 2 THEN A ELSE Unsigned(f[k + 1] * A) % M
  <2> HIDE DEF f
  <2>1. f = [k \in 0..(M - 2) |-> IF k = M - 2 THEN A ELSE Unsigned(f[k + 1] * A) % M]
    BY <1>6 DEF f
  <2> QED  BY <2>1, Zenon
<1> HIDE DEF f, Is
<1>8. \A k \in 0..(M - 2) : f[k] = g[k]
  <2> DEFINE Off == {m \in 0..(M - 2) : f[M - 2 - m] # g[M - 2 - m]}
  <2>1. Off = {}
    <3> SUFFICES ASSUME Off # {} PROVE FALSE
      OBVIOUS
    <3>1. Off \subseteq Nat
      OBVIOUS
    <3>2. PICK m \in Off : \A n \in Off : m <= n
      <4> HIDE DEF Off
      <4> QED  BY <3>1, LeastNumber
    <3> DEFINE k == M - 2 - m
    <3>3. k \in 0..(M - 2) /\ f[k] # g[k]
      BY <1>0, <3>2
    <3>4. k # M - 2
      BY <1>4, <1>7, <3>3
    <3>5. m - 1 \in 0..(M - 2) /\ ~(m <= m - 1) /\ M - 2 - (m - 1) = k + 1
      BY <1>0, <3>2, <3>4
    <3>6. f[k + 1] = g[k + 1]
      BY <3>2, <3>5
    <3> HIDE DEF k
    <3> QED  BY <1>4, <1>7, <3>3, <3>4, <3>6
  <2>2. \A k \in 0..(M - 2) : M - 2 - k \in 0..(M - 2) /\ M - 2 - (M - 2 - k) = k
    BY <1>0
  <2> QED  BY <2>1, <2>2
<1>9. f \in Table
  <2>1. \A k \in 0..(M - 2) : f[k] \in 0..(M - 1)
    BY <1>8
  <2>2. f = [k \in 0..(M - 2) |-> f[k]]
    BY <1>6, <1>7 DEF f, Is
  <2> QED  BY <2>1, <2>2
<1>10. \A k \in 0..(M - 3) : k \in 0..(M - 2) /\ k # M - 2
  BY <1>0
<1>11. M - 2 \in 0..(M - 2)
  BY <1>0
<1> QED  BY <1>7, <1>9, <1>10, <1>11 DEF f

LEMMA Constants ==
  /\ M \in Nat \ {0} /\ M - 1 \in Nat \ {0} /\ M \in Nat /\ M \in Int /\ M >= 2
  /\ A \in 0..(M - 1) /\ A \in Int
  /\ Width \in Nat \ {0} /\ M * M <= Width /\ M <= Width
  /\ \A x \in 0..(M - 1) : \A y \in 0..(M - 1) :
       /\ x * y \in 0..(Width - 1)
       /\ \A z \in 0..(M - 1) : z + x * y \in 0..(Width - 1)
<1>1. M \in Nat \ {0, 1} /\ A \in 1..(M - 1) /\ Width \in Nat /\ M * M <= Width
  BY ModulusAssumption
<1>2. M <= M * M /\ M * M \in Nat /\ M \in Nat \ {0}
  BY <1>1
<1>3. ASSUME NEW x \in 0..(M - 1), NEW y \in 0..(M - 1), NEW z \in 0..(M - 1)
      PROVE  x * y \in 0..(Width - 1) /\ z + x * y \in 0..(Width - 1)
  <2>1. x * y \in 0..((M - 1) * (M - 1)) /\ (M - 1) * (M - 1) + (M - 1) < M * M
    BY <1>2, ProductOfSmall
  <2> DEFINE p == x * y
             q == (M - 1) * (M - 1)
             n == M * M
  <2>2. p \in 0..q /\ q + (M - 1) < n /\ n <= Width /\ q \in Int
    BY <1>1, <2>1
  <2> HIDE DEF p, q, n
  <2>3. p \in 0..(Width - 1) /\ z + p \in 0..(Width - 1)
    <3>1. n \in Int
      BY <1>2 DEF n
    <3> QED  BY <1>1, <2>2, <3>1
  <2> QED  BY <2>3 DEF p
<1>4. 0 \in 0..(M - 1)
  BY <1>1
<1> QED  BY <1>1, <1>2, <1>3, <1>4

LEMMA UnsignedOfSmall ==
  ASSUME NEW x \in 0..(Width - 1)
  PROVE  Unsigned(x) = x
BY Constants, RemainderOfSmall DEF Unsigned

LEMMA InverseIs ==
  /\ inverse(0) = 1
  /\ \A k \in Nat : inverse(k) \in 0..(M - 1) /\ Congruent(M, A * inverse(k + 1), inverse(k))
<1>1. modular_inverses[0] = 1
  BY FermatAssumption
<1>2. inverse(0) = 1
  <2>1. 0 \in 0..(M - 1 - 1)
    BY Constants
  <2>2. 0 % (M - 1) = 0
    BY <2>1, Constants, RemainderOfSmall
  <2> QED  BY <1>1, <2>2 DEF inverse
<1>3. ASSUME NEW k \in Nat
      PROVE  inverse(k) \in 0..(M - 1) /\ Congruent(M, A * inverse(k + 1), inverse(k))
  <2> DEFINE m == M - 1
             r == k % m
             s == (k + 1) % m
             f == modular_inverses
  <2>1. m \in Nat \ {0} /\ m = M - 1 /\ M - 2 = m - 1 /\ M - 3 = m - 2
    BY Constants
  <2>2. inverse(k) = f[r] /\ inverse(k + 1) = f[s]
    BY DEF inverse
  <2> HIDE DEF m, f
  <2>3. r \in 0..(m - 1) /\ s = IF r = m - 1 THEN 0 ELSE r + 1
    <3>1. r \in 0..(m - 1)
      <4>1. k \in Int /\ m \in Nat \ {0}
        BY <2>1
      <4>2. (k % m) \in 0..(m - 1)
        BY <4>1
      <4> QED  BY <4>2
    <3>2. s = IF r = m - 1 THEN 0 ELSE (k % m) + 1
      BY <2>1, NextRemainder
    <3> QED  BY <3>1, <3>2
  <2>4. /\ f \in [0..(m - 1) -> 0..(M - 1)] /\ f[m - 1] = A /\ f[0] = 1
        /\ \A j \in 0..(m - 2) : f[j] = Unsigned(f[j + 1] * A) % M
    BY <1>1, <2>1, InversesAre DEF f
  <2> HIDE DEF r, s
  <2>5. f[r] \in 0..(M - 1)
    BY <2>3, <2>4
  <2>6. CASE r = m - 1
    <3>1. f[r] = A /\ f[s] = 1 /\ A * 1 = A
      BY <2>3, <2>4, <2>6, Constants
    <3> QED  BY <2>2, <2>5, <3>1, Constants, CongruentSame
  <2>7. CASE r # m - 1
    <3>1. r \in 0..(m - 2) /\ s = r + 1 /\ s \in 0..(m - 1)
      BY <2>1, <2>3, <2>7
    <3> DEFINE x == f[s]
               p == A * x
    <3>2. x \in 0..(M - 1) /\ f[r] = Unsigned(x * A) % M
      BY <2>4, <3>1
    <3> HIDE DEF x
    <3>3. x * A = p /\ p \in 0..(Width - 1) /\ p \in Int
      BY <3>2, Constants
    <3> HIDE DEF p
    <3>4. f[r] = p % M
      BY <3>2, <3>3, UnsignedOfSmall
    <3>5. Congruent(M, f[r], p)
      BY <3>3, <3>4, RemainderIs, Constants
    <3>6. Congruent(M, p, f[r])
      <4>1. f[r] \in Int
        BY <2>5, Constants
      <4> QED  BY <3>3, <3>5, <4>1, CongruentBack, Constants
    <3> QED  BY <2>2, <2>5, <3>6 DEF p, x
  <2> QED  BY <2>6, <2>7
<1> QED  BY <1>2, <1>3

Previous(h, k) == IF k = 0 THEN 0 ELSE h[k - 1]

\* The first n of the sums of a text, each by what its character adds.
Sums(h, t, n) ==
  \A k \in 0..(n - 1) :
    h[k] \in 0..(M - 1) /\ Congruent(M, (h[k] - Previous(h, k)) * inverse(k), t[k + 1])

IsPlainText(t) == \A k \in 1..Len(t) : t[k] >= 0

HashInv ==
  /\ text \in Seq(Int) /\ N = Len(text) /\ \A k \in 1..Len(text) : text[k] < M
  /\ H \in [DOMAIN H -> Int] /\ 0..(N - 1) \subseteq DOMAIN H
  /\ pc = "load" => i \in 1..N /\ ALL \in 0..(M - 1) /\ Congruent(M, ALL * inverse(i), 1)
  /\ IsPlainText(text) => Sums(H, text, IF pc = "load" THEN i ELSE N)

LEMMA LoadTextInv ==
  ASSUME HashInv, NEW t \in Texts, LoadText(t)
  PROVE  HashInv'
<1>1. t \in Seq(Int) /\ Len(t) \in Nat /\ (\A k \in 1..Len(t) : t[k] \in Int /\ t[k] < M)
  BY TextsAssumption, ElementOfSeq, LenProperties
<1>2. text' = t /\ N' = Len(t) /\ pc = "ready"
  BY DEF LoadText
<1>3. CASE t = <<>>
  <2>1. Len(t) = 0
    BY <1>3, EmptySeq
  <2>2. H' = H /\ pc' = pc
    BY <1>3 DEF LoadText
  <2>3. 0..(0 - 1) = {}
    OBVIOUS
  <2>4. pc' # "load"
    BY <1>2, <2>2
  <2>5. Sums(H, t, 0)
    BY <2>3 DEF Sums
  <2> QED  BY <1>1, <1>2, <2>1, <2>2, <2>3, <2>4, <2>5 DEF HashInv
<1>4. CASE t # <<>>
  <2>1. /\ H' = [k \in Resized(N') |->
                   IF k = 0 THEN Unsigned(t[1]) ELSE IF k \in DOMAIN H THEN H[k] ELSE 0]
        /\ i' = 1 /\ ALL' = A /\ pc' = "load"
    BY <1>4 DEF LoadText
  <2>2. Len(t) >= 1 /\ t[1] \in Int /\ t[1] < M
    BY <1>1, <1>4, EmptySeq
  <2>3. Unsigned(t[1]) \in Int
    <3> DEFINE v == t[1]
    <3>1. v \in Int
      BY <2>2
    <3> HIDE DEF v
    <3>2. (v % Width) \in 0..(Width - 1)
      BY <3>1, Constants
    <3>3. (v % Width) \in Int
      BY <3>2, Constants
    <3> QED  BY <3>3 DEF v, Unsigned
  <2> DEFINE h == H'
  <2>4. h \in [DOMAIN h -> Int] /\ DOMAIN h = Resized(N')
    <3>1. \A k \in DOMAIN H : H[k] \in Int
      BY DEF HashInv
    <3> QED  BY <2>1, <2>3, <3>1
  <2>5. 0..(N' - 1) \subseteq DOMAIN h /\ 0 \in DOMAIN h
    BY <1>2, <2>2, <2>4 DEF Resized
  <2>6. h[0] = Unsigned(t[1])
    BY <2>1, <2>4, <2>5
  <2> HIDE DEF h
  <2>7. IsPlainText(t) => Sums(h, t, 1)
    <3> SUFFICES ASSUME IsPlainText(t) PROVE Sums(h, t, 1)
      OBVIOUS
    <3>1. t[1] \in 0..(M - 1) /\ t[1] \in 0..(Width - 1)
      BY <2>2, Constants DEF IsPlainText
    <3>2. h[0] = t[1]
      BY <2>6, <3>1, UnsignedOfSmall
    <3>3. (h[0] - Previous(h, 0)) * inverse(0) = t[1]
      <4>1. Previous(h, 0) = 0
        BY DEF Previous
      <4>2. inverse(0) = 1
        BY InverseIs
      <4> DEFINE v == t[1]
      <4>3. v \in Int /\ h[0] = v
        BY <2>2, <3>2
      <4> HIDE DEF v
      <4>4. (v - 0) * 1 = v
        BY <4>3
      <4> QED  BY <4>1, <4>2, <4>3, <4>4 DEF v
    <3>4. Congruent(M, t[1], t[1])
      BY <2>2, Constants, CongruentSame
    <3>5. \A k \in 0..(1 - 1) : k = 0 /\ k + 1 = 1
      OBVIOUS
    <3> QED  BY <3>1, <3>2, <3>3, <3>4, <3>5 DEF Sums
  <2>8. 1 \in 1..N' /\ A \in 0..(M - 1) /\ Congruent(M, A * inverse(1), 1)
    <3>1. Congruent(M, A * inverse(0 + 1), inverse(0))
      BY InverseIs
    <3>2. 0 + 1 = 1
      OBVIOUS
    <3> QED  BY <1>2, <2>2, <3>1, <3>2, Constants, InverseIs
  <2>9. /\ H' \in [DOMAIN H' -> Int] /\ 0..(N' - 1) \subseteq DOMAIN H'
        /\ IsPlainText(t) => Sums(H', t, 1)
    BY <2>4, <2>5, <2>7 DEF h
  <2>10. IsPlainText(text)' = IsPlainText(t) /\ Sums(H, text, IF pc = "load" THEN i ELSE N)' = Sums(H', t, 1)
    BY <1>2, <2>1 DEF IsPlainText, Sums, Previous
  <2> QED  BY <1>1, <1>2, <2>1, <2>8, <2>9, <2>10 DEF HashInv
<1> QED  BY <1>3, <1>4

\* The character before one before i.
LEMMA IndexBefore ==
  ASSUME NEW n \in Nat, NEW j \in 0..(n - 1), NEW k \in 0..(j - 1), k # 0
  PROVE  k - 1 \in 0..(n - 1) /\ k - 1 # j
OBVIOUS

LEMMA AddCharacterInv ==
  ASSUME HashInv, AddCharacter
  PROVE  HashInv'
<1> DEFINE c == text[i + 1]
           was == H[i - 1]
           sum == Unsigned(was + ALL * Unsigned(c)) % M
           x == inverse(i)
           y == inverse(i + 1)
<1>1. /\ pc = "load" /\ pc' = "load" /\ i < N /\ i' = i + 1
      /\ text' = text /\ N' = N
      /\ H' = [H EXCEPT ![i] = sum]
      /\ ALL' = Unsigned(ALL * A) % M
  BY DEF AddCharacter
<1>2. /\ text \in Seq(Int) /\ N = Len(text) /\ N \in Nat /\ (\A k \in 1..N : text[k] < M /\ text[k] \in Int)
      /\ H \in [DOMAIN H -> Int] /\ 0..(N - 1) \subseteq DOMAIN H
      /\ i \in 1..N /\ ALL \in 0..(M - 1) /\ Congruent(M, ALL * inverse(i), 1)
  BY <1>1, ElementOfSeq, LenProperties DEF HashInv
<1>3. /\ i \in 1..(N - 1) /\ i \in Nat /\ i - 1 \in 0..(N - 1) /\ i \in 0..(N - 1) /\ i + 1 \in 1..N
      /\ i \in DOMAIN H /\ i - 1 \in DOMAIN H /\ i # i - 1 /\ i # 0
  BY <1>1, <1>2, SMTT(30)
<1>4. c \in Int /\ c < M /\ was \in Int
  BY <1>2, <1>3
<1>5. x \in 0..(M - 1) /\ y \in 0..(M - 1) /\ Congruent(M, A * y, x)
  <2>1. i + 1 \in Nat
    BY <1>3
  <2> QED  BY <1>3, <2>1, InverseIs
<1>6. Congruent(M, ALL * x, 1)
  BY <1>2
<1> HIDE DEF c, was, x, y
<1>7. \A n \in Int : Unsigned(n) \in Int /\ Unsigned(n) % M \in 0..(M - 1)
  <2> TAKE n \in Int
  <2>1. n % Width \in Int
    BY Constants, RemainderIs
  <2> QED  BY <2>1, Constants, RemainderIs DEF Unsigned
<1>8. sum \in 0..(M - 1)
  <2>1. Unsigned(c) \in Int /\ ALL \in Int
    BY <1>2, <1>4, <1>7, Constants
  <2>2. was + ALL * Unsigned(c) \in Int
    BY <1>4, <2>1
  <2> QED  BY <1>7, <2>2
<1>9. ALL' \in 0..(M - 1) /\ Congruent(M, ALL' * y, 1)
  <2> DEFINE p == ALL * A
  <2>1. p \in 0..(Width - 1) /\ p \in Int
    BY <1>2, Constants
  <2>2. ALL' = p % M
    BY <1>1, <2>1, UnsignedOfSmall
  <2> HIDE DEF p
  <2>3. ALL' \in 0..(M - 1) /\ Congruent(M, ALL', p)
    BY <2>1, <2>2, Constants, RemainderIs
  <2> DEFINE q == A * y
             a == ALL'
  <2>4. y \in Int /\ x \in Int /\ q \in Int /\ a \in Int /\ ALL \in Int
    BY <1>2, <1>5, <2>3, Constants
  <2>5. Congruent(M, a * y, p * y)
    BY <2>1, <2>3, <2>4, Constants, CongruentTimes
  <2>6. p * y = q * ALL /\ x * ALL = ALL * x
    BY <2>4, Constants DEF p
  <2> HIDE DEF q, a
  <2>7. Congruent(M, q, x)
    BY <1>5 DEF q
  <2>8. Congruent(M, q * ALL, x * ALL)
    BY <2>4, <2>7, Constants, CongruentTimes
  <2>9. Congruent(M, a * y, q * ALL) /\ Congruent(M, x * ALL, 1)
    BY <1>6, <2>5, <2>6
  <2>10. a * y \in Int /\ q * ALL \in Int /\ x * ALL \in Int /\ 1 \in Int
    BY <2>4
  <2>11. Congruent(M, a * y, x * ALL)
    BY <2>8, <2>9, <2>10, Constants, CongruentThrough
  <2>12. Congruent(M, a * y, 1)
    BY <2>9, <2>10, <2>11, Constants, CongruentThrough
  <2> QED  BY <2>3, <2>12 DEF a
<1> DEFINE h == H'
<1>10. /\ h \in [DOMAIN H -> Int] /\ DOMAIN h = DOMAIN H /\ h[i] = sum
       /\ \A k \in DOMAIN H \ {i} : h[k] = H[k]
  <2>1. sum \in Int
    BY <1>8, Constants
  <2> HIDE DEF sum
  <2> QED  BY <1>1, <1>2, <1>3, <2>1
<1> HIDE DEF h
<1>11. ASSUME IsPlainText(text) PROVE Sums(h, text, i + 1)
  <2>1. Sums(H, text, i)
    BY <1>1, <1>11 DEF HashInv
  <2>2. was \in 0..(M - 1)
    <3>1. i - 1 \in 0..(i - 1)
      BY <1>3
    <3> QED  BY <2>1, <3>1 DEF Sums, was
  <2>3. c \in 0..(M - 1)
    <3>1. c >= 0
      BY <1>2, <1>3, <1>11 DEF IsPlainText, c
    <3> QED  BY <1>4, <3>1, Constants
  <2> DEFINE p == was + ALL * c
  <2>4. Unsigned(c) = c /\ p \in 0..(Width - 1)
    <3>1. c \in 0..(Width - 1)
      BY <2>3, Constants
    <3> QED  BY <1>2, <2>2, <2>3, <3>1, Constants, UnsignedOfSmall
  <2>5. sum = p % M
    BY <2>4, UnsignedOfSmall
  <2> HIDE DEF p, sum
  <2>6. Congruent(M, sum, p)
    <3>1. p \in Int
      BY <2>4, Constants
    <3> QED  BY <2>5, <3>1, Constants, RemainderIs
  <2>7. Congruent(M, (sum - was) * x, c)
    <3> DEFINE d == sum - was
               e == ALL * c
               f == ALL * x
    <3>1. /\ sum \in Int /\ was \in Int /\ x \in Int /\ c \in Int /\ p \in Int /\ ALL \in Int
          /\ e \in Int /\ d \in Int /\ -was \in Int /\ f \in Int /\ M \in Nat
      <4>1. /\ sum \in Int /\ was \in Int /\ x \in Int /\ c \in Int /\ p \in Int /\ ALL \in Int
            /\ M \in Nat
        <5>1. M \in Nat /\ M - 1 \in Int /\ Width - 1 \in Int
          BY Constants
        <5>2. sum \in Int
          BY <1>8, <5>1 DEF sum
        <5> QED  BY <1>2, <1>5, <2>2, <2>3, <2>4, <5>1, <5>2
      <4> QED  BY <4>1
    <3>2. Congruent(M, sum + (-was), p + (-was))
      <4> DEFINE u == -was
      <4>1. u \in Int
        BY <3>1
      <4> HIDE DEF u
      <4>2. Congruent(M, u, u)
        BY <3>1, <4>1, CongruentSame
      <4>3. Congruent(M, sum + u, p + u)
        BY <2>6, <3>1, <4>1, <4>2, CongruentSum
      <4> QED  BY <4>3 DEF u
    <3>3. sum + (-was) = d /\ p + (-was) = e
      BY <3>1 DEF p
    <3>4. e * x = f * c /\ 1 * c = c
      BY <3>1
    <3>5. Congruent(M, f, 1)
      BY <1>6
    <3> HIDE DEF d, e, f
    <3>6. Congruent(M, d, e)
      BY <3>2, <3>3
    <3>7. Congruent(M, d * x, e * x)
      BY <3>1, <3>6, CongruentTimes
    <3>8. Congruent(M, f * c, 1 * c)
      <4> DEFINE one == 1
      <4>1. one \in Int /\ Congruent(M, f, one)
        BY <3>5
      <4> HIDE DEF one
      <4>2. Congruent(M, f * c, one * c)
        BY <3>1, <4>1, CongruentTimes
      <4> QED  BY <4>2 DEF one
    <3>9. d * x \in Int /\ f * c \in Int
      BY <3>1
    <3>10. Congruent(M, d * x, f * c) /\ Congruent(M, f * c, c)
      BY <3>4, <3>7, <3>8
    <3>11. Congruent(M, d * x, c)
      BY <3>1, <3>9, <3>10, CongruentThrough
    <3> QED  BY <3>11 DEF d
  <2> DEFINE n == i + 1
  <2>8. ASSUME NEW k \in 0..(n - 1)
        PROVE  h[k] \in 0..(M - 1) /\ Congruent(M, (h[k] - Previous(h, k)) * inverse(k), text[k + 1])
    <3>1. CASE k = i
      <4>1. h[k] = sum /\ Previous(h, k) = was
        BY <1>3, <1>10, <3>1 DEF Previous, was
      <4> QED  BY <1>8, <2>7, <3>1, <4>1 DEF sum, x, c
    <3>2. CASE k # i
      <4>1. k \in 0..(i - 1) /\ k \in DOMAIN H \ {i}
        BY <1>2, <1>3, <3>2, SMTT(30)
      <4>2. k # 0 => k - 1 \in DOMAIN H \ {i}
        <5>1. k # 0 => k - 1 \in 0..(N - 1) /\ k - 1 # i
          BY <1>2, <1>3, <4>1, IndexBefore
        <5> QED  BY <1>2, <5>1
      <4>3. h[k] = H[k] /\ Previous(h, k) = Previous(H, k)
        BY <1>10, <4>1, <4>2 DEF Previous
      <4> QED  BY <2>1, <4>1, <4>3 DEF Sums
    <3> QED  BY <3>1, <3>2
  <2> HIDE DEF n
  <2>9. Sums(h, text, n)
    BY <2>8 DEF Sums
  <2> QED  BY <2>9 DEF n
<1>12. H' \in [DOMAIN H' -> Int] /\ 0..(N - 1) \subseteq DOMAIN H' /\ (IsPlainText(text) => Sums(H', text, i + 1))
  BY <1>2, <1>10, <1>11 DEF h
<1>13. IsPlainText(text)' = IsPlainText(text) /\ Sums(H, text, IF pc = "load" THEN i ELSE N)' = Sums(H', text, i + 1)
  BY <1>1 DEF IsPlainText, Sums, Previous
<1>14. i + 1 \in 1..N /\ Congruent(M, ALL' * inverse(i'), 1)
  BY <1>1, <1>3, <1>9 DEF y
<1> QED  BY <1>1, <1>2, <1>9, <1>12, <1>13, <1>14 DEF HashInv

\* load_text goes through the text with the hashes of its beginnings, from each to
\* the next.
THEOREM HashInvCorrect == HotSpec => []HashInv
<1>1. HotInit => HashInv
  <2> SUFFICES ASSUME HotInit PROVE HashInv
    OBVIOUS
  <2>1. <<>> \in Seq(Int) /\ Len(<<>>) = 0 /\ 1..0 = {} /\ 0..(0 - 1) = {}
    OBVIOUS
  <2>2. text = <<>> /\ N = 0 /\ pc = "ready" /\ H = [k \in {} |-> 0]
    BY DEF HotInit, Init
  <2>3. Sums(H, <<>>, 0)
    BY <2>1 DEF Sums
  <2> QED  BY <2>1, <2>2, <2>3 DEF HashInv
<1>2. ASSUME HashInv, UNCHANGED vars PROVE HashInv'
  BY <1>2 DEF HashInv, vars, IsPlainText, Sums, Previous
<1>3. ASSUME HashInv, [HotNext]_hotVars PROVE HashInv'
  <2>1. ASSUME NEW t \in Texts, NextProgram(t) PROVE HashInv'
    BY <1>3, <2>1, LoadTextInv DEF NextProgram
  <2>2. CASE LoadStep
    <3>1. CASE AddCharacter
      BY <1>3, <3>1, AddCharacterInv
    <3>2. CASE Loaded
      <4>1. UNCHANGED <<text, N, H, i, ALL>> /\ pc = "load" /\ i = N /\ pc' = "ready"
        BY <3>2 DEF Loaded
      <4>2. Sums(H, text, N)' = Sums(H, text, N) /\ IsPlainText(text)' = IsPlainText(text)
        BY <4>1 DEF Sums, Previous, IsPlainText
      <4> QED  BY <1>3, <4>1, <4>2 DEF HashInv
    <3> QED  BY <2>2, <3>1, <3>2 DEF LoadStep
  <2>3. CASE Tokenize \/ NextWord \/ EndOfProgram \/ SecondInterval \/ Compare \/ UNCHANGED hotVars
    <3>1. UNCHANGED vars
      BY <2>3 DEF Tokenize, NextWord, EndOfProgram, SecondInterval, Compare, hotVars
    <3> QED  BY <1>2, <1>3, <3>1
  <2> QED  BY <1>3, <2>1, <2>2, <2>3 DEF HotNext
<1> QED  BY <1>1, <1>3, PTL DEF HotSpec

\* The hash of a stretch is the formula, when all sums are there.
LEMMA HashIs ==
  ASSUME NEW j \in Int, NEW k \in Int, From(j) <= To(k),
         text \in Seq(Int), N = Len(text), \A n \in 1..Len(text) : text[n] < M,
         IsPlainText(text), Sums(H, text, N)
  PROVE  hash(j, k) = Formula(SubSeq(text, From(j) + 1, To(k) + 1))
<1> DEFINE from == From(j)
           to == To(k)
           s == SubSeq(text, from + 1, to + 1)
           n == to - from + 1
           last == H[to]
           Rest(f) == (last - Previous(H, f)) * inverse(f)
<1>1. N \in Nat /\ \A m \in 1..N : text[m] \in 0..(M - 1)
  <2>1. Len(text) \in Nat /\ \A m \in 1..N : text[m] \in Int
    BY ElementOfSeq, LenProperties
  <2> QED  BY <2>1, Constants DEF IsPlainText
<1>2. from \in 0..to /\ to \in 0..(N - 1) /\ from \in Nat /\ to \in Nat /\ n \in Nat /\ to + 1 \in Nat
  <2>1. From(j) \in Nat /\ To(k) \in Int /\ To(k) <= N - 1
    BY <1>1 DEF From, To
  <2> QED  BY <1>1, <2>1
<1> HIDE DEF from, to
<1>3. s \in Seq(Int) /\ Len(s) = n /\ \A m \in 1..n : s[m] = text[from + m]
  <2>1. \A m \in (from + 1)..(to + 1) : text[m] \in Int
    <3>1. \A m \in (from + 1)..(to + 1) : m \in 1..N
      BY <1>2
    <3>2. \A m \in 0..(M - 1) : m \in Int
      BY Constants
    <3> QED  BY <1>1, <3>1, <3>2
  <2> DEFINE a == from + 1
             b == to + 1
  <2>2. a \in Int /\ b \in Int /\ a <= b + 1
    BY <1>2
  <2>3. \A m \in a..b : text[m] \in Int
    BY <2>1
  <2> HIDE DEF a, b
  <2>4. /\ SubSeq(text, a, b) \in Seq(Int)
        /\ Len(SubSeq(text, a, b)) = IF a <= b THEN b - a + 1 ELSE 0
        /\ \A m \in 1..(b - a + 1) : SubSeq(text, a, b)[m] = text[a + m - 1]
    BY <2>2, <2>3, SubSeqProperties
  <2>5. b - a + 1 = n /\ (IF a <= b THEN b - a + 1 ELSE 0) = n
    BY <1>2 DEF a, b
  <2>6. \A m \in 1..n : a + m - 1 = from + m
    BY <1>2 DEF a
  <2> QED  BY <2>4, <2>5, <2>6 DEF a, b
<1> HIDE DEF s, n
<1>4. ASSUME NEW f \in 0..to
      PROVE  /\ H[f] \in Int /\ Previous(H, f) \in 0..(M - 1) /\ H[f] \in 0..(M - 1)
             /\ Congruent(M, (H[f] - Previous(H, f)) * inverse(f), text[f + 1])
             /\ Previous(H, f + 1) = H[f]
  <2>1. f \in 0..(N - 1) /\ (f # 0 => f - 1 \in 0..(N - 1)) /\ f + 1 # 0 /\ f + 1 - 1 = f
    BY <1>2
  <2>2. H[f] \in 0..(M - 1) /\ (f # 0 => H[f - 1] \in 0..(M - 1))
    BY <2>1 DEF Sums
  <2>3. 0 \in 0..(M - 1) /\ \A m \in 0..(M - 1) : m \in Int
    BY Constants
  <2> QED  BY <2>1, <2>2, <2>3 DEF Sums, Previous
<1>5. last \in 0..(M - 1) /\ last \in Int
  <2>1. to \in 0..to
    BY <1>2
  <2> QED  BY <1>4, <2>1
<1> HIDE DEF last
\* The horner of Formula is there, and has no other values.
<1> DEFINE Is(h) == h = [m \in 0..Len(s) |->
                           IF m = 0 THEN 0 ELSE (s[Len(s) - m + 1] + A * h[m - 1]) % M]
           horner == CHOOSE h : Is(h)
<1>6. Formula(s) = horner[n]
  BY <1>3 DEF Formula
<1>7. Is(horner)
  <2> DEFINE Right(g, m) == \A l \in 0..m :
                              g[l] = IF l = 0 THEN 0 ELSE (s[n - l + 1] + A * g[l - 1]) % M
             Bad == {m \in 0..n : ~\E g \in [0..m -> 0..(M - 1)] : Right(g, m)}
  <2>1. Bad = {}
    <3> SUFFICES ASSUME Bad # {} PROVE FALSE
      OBVIOUS
    <3>1. Bad \subseteq Nat
      OBVIOUS
    <3>2. PICK m \in Bad : \A l \in Bad : m <= l
      <4> HIDE DEF Bad
      <4> QED  BY <3>1, LeastNumber
    <3>3. m \in 0..n /\ ~\E g \in [0..m -> 0..(M - 1)] : Right(g, m)
      BY <3>2
    <3>4. CASE m = 0
      <4> DEFINE g == [l \in 0..0 |-> 0]
      <4>1. g \in [0..m -> 0..(M - 1)] /\ g[0] = 0 /\ \A l \in 0..m : l = 0
        BY <3>4, Constants
      <4> HIDE DEF g
      <4>2. Right(g, m)
        BY <4>1
      <4> QED  BY <3>3, <4>1, <4>2
    <3>5. CASE m # 0
      <4>1. m - 1 \in 0..n /\ m - 1 \notin Bad
        <5>1. m - 1 \in 0..n /\ ~(m <= m - 1)
          BY <1>2, <3>3, <3>5
        <5> HIDE DEF Bad
        <5> QED  BY <3>2, <5>1
      <4>2. PICK h \in [0..(m - 1) -> 0..(M - 1)] : Right(h, m - 1)
        BY <4>1
      <4> DEFINE next == (s[n - m + 1] + A * h[m - 1]) % M
                 g == [l \in 0..m |-> IF l = m THEN next ELSE h[l]]
      <4>3. next \in 0..(M - 1)
        <5> DEFINE d == s[n - m + 1]
                   e == h[m - 1]
        <5>1. d \in Int
          <6>1. n - m + 1 \in 1..n
            BY <1>2, <3>3, <3>5
          <6> QED  BY <1>3, <6>1, ElementOfSeq
        <5>2. e \in Int
          <6>1. e \in 0..(M - 1)
            BY <3>3, <3>5, <1>2
          <6> QED  BY <6>1, Constants
        <5> HIDE DEF d, e
        <5>3. d + A * e \in Int
          BY <5>1, <5>2, Constants
        <5>4. (d + A * e) % M \in 0..(M - 1)
          BY <5>3, Constants, RemainderIs
        <5> QED  BY <5>4 DEF d, e
      <4> HIDE DEF next
      <4>4. \A l \in 0..m : l = m \/ (l \in 0..(m - 1) /\ h[l] \in 0..(M - 1))
        BY <1>2, <3>3
      <4>5. g \in [0..m -> 0..(M - 1)]
        BY <4>3, <4>4
      <4>6. ASSUME NEW l \in 0..m
            PROVE  g[l] = IF l = 0 THEN 0 ELSE (s[n - l + 1] + A * g[l - 1]) % M
        <5>1. CASE l = m
          <6>1. g[l] = next /\ g[l - 1] = h[m - 1]
            BY <1>2, <3>3, <3>5, <5>1
          <6> HIDE DEF g
          <6> QED  BY <3>5, <5>1, <6>1 DEF next
        <5>2. CASE l # m
          <6>1. l \in 0..(m - 1) /\ g[l] = h[l] /\ (l # 0 => g[l - 1] = h[l - 1])
            BY <1>2, <3>3, <5>2
          <6> HIDE DEF g
          <6> QED  BY <4>2, <6>1
        <5> QED  BY <5>1, <5>2
      <4> HIDE DEF g
      <4>7. Right(g, m)
        BY <4>6
      <4> QED  BY <3>3, <4>5, <4>7
    <3> QED  BY <3>4, <3>5
  <2>2. PICK g \in [0..n -> 0..(M - 1)] : Right(g, n)
    <3>1. n \in 0..n
      BY <1>2
    <3>2. \A m \in 0..n : \E g \in [0..m -> 0..(M - 1)] : Right(g, m)
      BY <2>1
    <3> HIDE DEF Right
    <3> QED  BY <3>1, <3>2
  <2>3. Is(g)
    <3>1. g = [l \in 0..n |-> g[l]]
      OBVIOUS
    <3> QED  BY <1>3, <2>2, <3>1
  <2> HIDE DEF Is
  <2> QED  BY <2>3
<1>8. \A m \in 0..n : horner[m] = IF m = 0 THEN 0 ELSE (s[n - m + 1] + A * horner[m - 1]) % M
  <2> DEFINE h == horner
  <2>1. h = [m \in 0..n |-> IF m = 0 THEN 0 ELSE (s[n - m + 1] + A * h[m - 1]) % M]
    BY <1>3, <1>7
  <2> HIDE DEF horner, h
  <2> QED  BY <2>1, Zenon DEF h
<1> HIDE DEF horner, Is
\* From the end of the stretch on, the formula is what is left of the sums.
<1>9. \A m \in 0..n : horner[m] \in 0..(M - 1) /\ Congruent(M, horner[m], Rest(to + 1 - m))
  <2> DEFINE Off == {m \in 0..n : ~(horner[m] \in 0..(M - 1) /\ Congruent(M, horner[m], Rest(to + 1 - m)))}
  <2> SUFFICES ASSUME Off # {} PROVE FALSE
    OBVIOUS
  <2>1. Off \subseteq Nat
    OBVIOUS
  <2>2. PICK m \in Off : \A l \in Off : m <= l
    <3> HIDE DEF Off
    <3> QED  BY <2>1, LeastNumber
  <2>3. m \in 0..n /\ ~(horner[m] \in 0..(M - 1) /\ Congruent(M, horner[m], Rest(to + 1 - m)))
    BY <2>2
  <2>4. CASE m = 0
    <3>1. horner[m] = 0 /\ 0 \in 0..(M - 1) /\ to + 1 - m = to + 1
      BY <1>2, <1>8, <2>3, <2>4, Constants
    <3>2. Previous(H, to + 1) = last
      <4>1. to \in 0..to
        BY <1>2
      <4> QED  BY <1>4, <4>1 DEF last
    <3>3. Rest(to + 1) = 0
      <4> DEFINE x == inverse(to + 1)
      <4>1. x \in Int
        BY <1>2, InverseIs, Constants
      <4> HIDE DEF x
      <4>2. (last - last) * x = 0
        BY <1>5, <4>1
      <4> QED  BY <3>2, <4>2 DEF x
    <3>4. Congruent(M, 0, 0)
      BY Constants, CongruentSame
    <3> HIDE DEF Rest
    <3> QED  BY <2>3, <3>1, <3>3, <3>4
  <2>5. CASE m # 0
    <3> DEFINE f == to + 1 - m
               c == text[f + 1]
               e == horner[m - 1]
               x == inverse(f)
               y == inverse(f + 1)
               p == Previous(H, f)
               q == H[f]
    <3>1. m - 1 \in 0..n /\ ~(m <= m - 1) /\ to + 1 - (m - 1) = f + 1
      BY <1>2, <2>3, <2>5
    <3>2. e \in 0..(M - 1) /\ Congruent(M, e, Rest(f + 1))
      <4>1. m - 1 \notin Off
        <5> HIDE DEF Off, f
        <5> QED  BY <2>2, <3>1
      <4> HIDE DEF Rest, f
      <4> QED  BY <3>1, <4>1
    <3>3. f \in 0..to /\ f \in Nat /\ n - m + 1 \in 1..n /\ from + (n - m + 1) = f + 1 /\ f + 1 \in 1..N
      BY <1>2, <2>3, <2>5 DEF n
    <3>4. s[n - m + 1] = c /\ c \in 0..(M - 1)
      <4> HIDE DEF f
      <4> QED  BY <1>1, <1>3, <3>3
    <3>5. horner[m] = (c + A * e) % M
      BY <1>8, <2>3, <2>5, <3>4
    <3> HIDE DEF f
    <3>6. /\ q \in 0..(M - 1) /\ p \in 0..(M - 1) /\ Congruent(M, (q - p) * x, c)
          /\ Previous(H, f + 1) = q
      BY <1>4, <3>3
    <3>7. x \in 0..(M - 1) /\ y \in 0..(M - 1) /\ Congruent(M, A * y, x)
      <4>1. f + 1 \in Nat
        BY <3>3
      <4> QED  BY <3>3, <4>1, InverseIs
    <3>8. Rest(f + 1) = (last - q) * y /\ Rest(f) = (last - p) * x
      BY <3>6
    <3>9. horner[m] \notin 0..(M - 1) \/ ~Congruent(M, horner[m], (last - p) * x)
      <4>1. to + 1 - m = f
        BY DEF f
      <4> HIDE DEF Rest
      <4> QED  BY <2>3, <3>8, <4>1
    <3>10. Congruent(M, e, (last - q) * y)
      <4> HIDE DEF Rest
      <4> QED  BY <3>2, <3>8
    <3> DEFINE z == horner[m]
               b == last - q
               d == q - p
    <3>11. /\ c \in Int /\ e \in Int /\ x \in Int /\ y \in Int /\ p \in Int /\ q \in Int
           /\ b \in Int /\ d \in Int
      <4>1. c \in 0..(M - 1) /\ e \in 0..(M - 1) /\ x \in 0..(M - 1) /\ y \in 0..(M - 1) /\ p \in 0..(M - 1) /\ q \in 0..(M - 1)
        BY <3>2, <3>4, <3>6, <3>7
      <4> HIDE DEF c, e, x, y, p, q
      <4>2. \A v \in 0..(M - 1) : v \in Int
        BY Constants
      <4>3. c \in Int /\ e \in Int /\ x \in Int /\ y \in Int /\ p \in Int /\ q \in Int
        BY <4>1, <4>2
      <4> QED  BY <1>5, <4>3
    <3> HIDE DEF c, e, x, y, p, q
    <3>12. (last - p) * x = b * x + d * x
      BY <1>5, <3>11
    <3>13. Congruent(M, e, b * y) /\ Congruent(M, d * x, c)
      BY <3>6, <3>10
    <3>14. z = (c + A * e) % M
      BY <3>5
    <3> HIDE DEF z, b, d
    <3>15. c + A * e \in Int /\ b * y \in Int /\ d * x \in Int /\ b * x \in Int /\ A * e \in Int /\ M \in Nat
      BY <3>11, Constants
    <3>16. z \in 0..(M - 1) /\ Congruent(M, z, c + A * e) /\ z \in Int
      <4> DEFINE u == c + A * e
      <4>1. u \in Int
        BY <3>15
      <4> HIDE DEF u
      <4>2. (u % M) \in 0..(M - 1) /\ Congruent(M, u % M, u)
        BY <4>1, Constants, RemainderIs
      <4>3. z = u % M
        BY <3>14 DEF u
      <4>4. (u % M) \in Int
        BY <4>2, Constants
      <4> QED  BY <4>2, <4>3, <4>4 DEF u
    <3>17. Congruent(M, A * e, b * x)
      <4> DEFINE u == b * y
                 v == A * y
      <4>1. u \in Int /\ v \in Int /\ Congruent(M, e, u) /\ Congruent(M, v, x)
        <5>1. Congruent(M, A * y, x)
          BY <3>7
        <5> QED  BY <3>11, <3>13, <3>15, <5>1, Constants
      <4>2. u * A = v * b /\ e * A = A * e /\ x * b = b * x
        BY <3>11, Constants
      <4> HIDE DEF u, v
      <4>3. Congruent(M, e * A, u * A) /\ Congruent(M, v * b, x * b)
        BY <3>11, <4>1, Constants, CongruentTimes
      <4>4. u * A \in Int /\ A * e \in Int /\ b * x \in Int
        BY <3>15, <4>1, Constants
      <4>5. Congruent(M, A * e, u * A) /\ Congruent(M, u * A, b * x)
        BY <4>2, <4>3
      <4> QED  BY <3>15, <4>4, <4>5, CongruentThrough
    <3>18. Congruent(M, c, d * x)
      BY <3>11, <3>13, <3>15, CongruentBack
    <3>19. Congruent(M, c + A * e, d * x + b * x)
      BY <3>11, <3>15, <3>17, <3>18, CongruentSum
    <3>20. d * x + b * x = b * x + d * x /\ d * x + b * x \in Int
      BY <3>15
    <3>21. Congruent(M, z, d * x + b * x)
      BY <3>15, <3>16, <3>19, <3>20, CongruentThrough
    <3> QED  BY <3>9, <3>12, <3>16, <3>20, <3>21 DEF z, p, x
  <2> QED  BY <2>4, <2>5
<1>10. Formula(s) \in 0..(M - 1) /\ Congruent(M, Formula(s), Rest(from))
  <2>1. n \in 0..n /\ to + 1 - n = from
    BY <1>2 DEF n
  <2> HIDE DEF Rest
  <2> QED  BY <1>6, <1>9, <2>1
\* hash computes it.
<1> DEFINE p == Previous(H, from)
           x == inverse(from)
           carried == IF from > 0 /\ H[to] < H[from - 1] THEN M ELSE 0
           d == last + carried - p
<1>11. hash(j, k) = Unsigned(Unsigned(d) * x) % M
  BY <1>2 DEF hash, from, to, last, Previous, inverse
<1>12. p \in 0..(M - 1) /\ x \in 0..(M - 1) /\ p \in Int /\ x \in Int /\ (from > 0 => p = H[from - 1]) /\ (from = 0 => p = 0)
  <2>1. from # 0 <=> from > 0
    BY <1>2
  <2>2. from \in 0..to
    BY <1>2
  <2>3. p \in 0..(M - 1)
    BY <1>4, <2>2
  <2>4. x \in 0..(M - 1)
    BY <1>2, InverseIs
  <2>5. (from > 0 => p = H[from - 1]) /\ (from = 0 => p = 0)
    BY <2>1 DEF Previous
  <2> HIDE DEF p, x
  <2> QED  BY <2>3, <2>4, <2>5, Constants
<1>13. d \in 0..(M - 1) /\ (d = last - p \/ d = last - p + M)
  <2>1. CASE from > 0
    BY <1>5, <1>12, <2>1, Constants, SMTT(30) DEF last
  <2>2. CASE ~(from > 0)
    <3>1. p = 0 /\ carried = 0
      BY <1>2, <1>12, <2>2
    <3> QED  BY <1>5, <3>1
  <2> QED  BY <2>1, <2>2
<1> HIDE DEF d, p, x
<1> DEFINE g == d * x
           r == (last - p) * x
<1>14. Unsigned(d) = d /\ Unsigned(g) = g /\ g \in Int
  <2>1. d \in 0..(Width - 1) /\ g \in 0..(Width - 1)
    BY <1>12, <1>13, Constants
  <2> QED  BY <2>1, Constants, UnsignedOfSmall
<1>15. hash(j, k) = g % M
  BY <1>11, <1>14
<1>16. r \in Int /\ Congruent(M, g, r)
  <2>1. CASE d = last - p
    <3>1. g = r /\ r \in Int
      BY <1>5, <1>12, <2>1
    <3> QED  BY <3>1, Constants, CongruentSame
  <2>2. CASE d = last - p + M
    <3>1. g - r = x * M /\ r \in Int
      BY <1>5, <1>12, <2>2, Constants
    <3> QED  BY <1>12, <3>1 DEF Congruent
  <2> QED  BY <1>13, <2>1, <2>2
<1>17. Rest(from) = r
  BY DEF p, x
<1> HIDE DEF g, r, Rest
<1>18. (g % M) \in 0..(M - 1) /\ Congruent(M, g % M, g)
  BY <1>14, Constants, RemainderIs
<1> DEFINE u == g % M
           v == Formula(s)
<1>19. u \in 0..(M - 1) /\ v \in 0..(M - 1) /\ Congruent(M, u, g) /\ Congruent(M, v, r)
  BY <1>10, <1>17, <1>18
<1> HIDE DEF u, v
<1>20. Congruent(M, u, v)
  <2>1. u \in Int /\ v \in Int /\ M \in Nat
    BY <1>19, Constants
  <2>2. Congruent(M, u, r)
    BY <1>14, <1>16, <1>19, <2>1, CongruentThrough
  <2>3. Congruent(M, r, v)
    BY <1>16, <1>19, <2>1, CongruentBack
  <2> QED  BY <1>16, <2>1, <2>2, <2>3, CongruentThrough
<1>21. u = v
  BY <1>19, <1>20, Constants, CongruentEqual
<1> QED  BY <1>15, <1>21 DEF u, v, s, from, to

\* StringHasher: the hash of a stretch of a text is the formula over its
\* characters alone, wherever the stretch stands, whatever texts were loaded
\* before and however long: for every prime M at most sqrt(UINT_MAX) that is
\* greater than all characters, and every A.
THEOREM HashesAreTheFormula == HotSpec => []HashIsTheFormula
<1>1. HashInv => HashIsTheFormula
  <2> SUFFICES ASSUME HashInv, pc = "ready", \A k \in DOMAIN text : text[k] >= 0,
                      NEW s \in Stretches
               PROVE  hash(s[1], s[2]) = Formula(Stretch(s[1], s[2]))
    BY DEF HashIsTheFormula
  <2>1. /\ text \in Seq(Int) /\ N = Len(text) /\ \A n \in 1..Len(text) : text[n] < M
        /\ IsPlainText(text) /\ Sums(H, text, N)
    BY LenProperties DEF HashInv, IsPlainText
  <2>2. s[1] \in Int /\ s[2] \in Int /\ From(s[1]) <= To(s[2])
    BY DEF Stretches
  <2> DEFINE j == s[1]
             k == s[2]
  <2>3. j \in Int /\ k \in Int /\ From(j) <= To(k)
    BY <2>2
  <2> HIDE DEF j, k
  <2>4. hash(j, k) = Formula(SubSeq(text, From(j) + 1, To(k) + 1))
    BY <2>1, <2>3, HashIs
  <2> QED  BY <2>4 DEF j, k, Stretch
<1> QED  BY <1>1, HashInvCorrect, PTL

------------------------------------------------------------------------------
(* The contexts that are counted are contexts.  An occurrence is a pair of *)
(* the program it is in and its place among the words of the program.      *)

TokenOf(p, other, o) == Tokens(p[o[1]], other)[o[2]]

Occurrences(p, other, word) ==
  {o \in UNION {{k} \X DOMAIN Tokens(p[k], other) : k \in DOMAIN p} : TokenOf(p, other, o).word = word}

LeftText(p, other, o) ==
  Window(p[o[1]], TokenOf(p, other, o).at - LEFT_HASH_WIDTH, TokenOf(p, other, o).at)

RightText(p, other, o) ==
  Window(p[o[1]], TokenOf(p, other, o).at, TokenOf(p, other, o).at + RIGHT_HASH_WIDTH)

Earlier(n, o) == n[1] < o[1] \/ (n[1] = o[1] /\ n[2] < o[2])

HasNewText(p, other, word, o) ==
  \A n \in Occurrences(p, other, word) : Earlier(n, o) =>
    LeftText(p, other, n) # LeftText(p, other, o) /\ RightText(p, other, n) # RightText(p, other, o)

ContextsIn(p, other, word) ==
  {o[1] : o \in {o \in Occurrences(p, other, word) : HasNewText(p, other, word, o)}}

LEMMA TrueContextsAre ==
  \A x, word : TrueContexts(x, word) = ContextsIn(read[x], outside, word)
BY DEF TrueContexts, ContextsIn, Occurrences, HasNewText, Earlier, LeftText, RightText, TokenOf,
       tokenize

LEMMA OccurrencesAre ==
  ASSUME NEW p \in Seq(Texts), NEW other, NEW word, NEW o
  PROVE  o \in Occurrences(p, other, word) <=>
           \E k \in 1..Len(p) : \E j \in 1..Len(Tokens(p[k], other)) :
             o = <<k, j>> /\ Tokens(p[k], other)[j].word = word
<1>1. DOMAIN p = 1..Len(p) /\ \A k \in 1..Len(p) : p[k] \in Texts
  BY LenProperties, ElementOfSeq
<1>2. ASSUME NEW k \in 1..Len(p)
      PROVE  DOMAIN Tokens(p[k], other) = 1..Len(Tokens(p[k], other))
  <2>1. p[k] \in Seq(Int)
    BY <1>1, TextsAssumption
  <2>2. Tokens(p[k], other) \in Seq(Token)
    BY <2>1, TokensFound
  <2> QED  BY <2>2, LenProperties
<1>3. o \in UNION {{k} \X DOMAIN Tokens(p[k], other) : k \in DOMAIN p} <=>
        \E k \in 1..Len(p) : \E j \in 1..Len(Tokens(p[k], other)) : o = <<k, j>>
  BY <1>1, <1>2
<1>4. \A k, j : o = <<k, j>> => TokenOf(p, other, o) = Tokens(p[k], other)[j]
  BY DEF TokenOf
<1> QED  BY <1>3, <1>4 DEF Occurrences

LEMMA ContextsInAre ==
  ASSUME NEW p \in Seq(Texts), NEW other, NEW word
  PROVE  ContextsIn(p, other, word) \subseteq 1..Len(p) /\ Len(p) \in Nat
<1>1. ASSUME NEW o \in Occurrences(p, other, word) PROVE o[1] \in 1..Len(p)
  <2>1. PICK k \in 1..Len(p) : \E j \in 1..Len(Tokens(p[k], other)) : o = <<k, j>>
    BY OccurrencesAre
  <2> QED  BY <2>1
<1> QED  BY <1>1, LenProperties DEF ContextsIn

\* Where the words of a program begin that has no character above 127.
LEMMA TokenInside ==
  ASSUME NEW t \in Seq(Int), IsPlainText(t), NEW other, NEW j \in 1..Len(Tokens(t, other))
  PROVE  /\ Tokens(t, other)[j].at \in 0..(Len(t) - 1)
         /\ Tokens(t, other) \in Seq(Token)
<1> DEFINE tk == Tokens(t, other)
           u == tk[j]
<1>1. tk \in Seq(Token) /\ DOMAIN tk = 1..Len(tk)
  BY TokensFound, LenProperties
<1>2. u \in ToSet(tk)
  BY <1>1 DEF ToSet
<1>3. ~Blurred(t, u)
  <2>1. DOMAIN t = 1..Len(t) /\ \A n \in 1..Len(t) : t[n] \in Int /\ t[n] >= 0
    BY LenProperties, ElementOfSeq DEF IsPlainText
  <2> HIDE DEF u
  <2> QED  BY <2>1 DEF Blurred
<1>4. PICK r \in Runs(t) : Written(t, r) = u
  BY <1>2, <1>3, TokensFound
<1>5. r[1] \in 1..Len(t) /\ u.at = r[1] - 1
  BY <1>4 DEF Runs, Written
<1> HIDE DEF u
<1>6. u.at \in 0..(Len(t) - 1)
  BY <1>5, LenProperties
<1> QED  BY <1>1, <1>6 DEF u

LEMMA WindowIs ==
  ASSUME NEW t \in Seq(Int), N = Len(t), NEW j \in Int, NEW k \in Int
  PROVE  SubSeq(t, From(j) + 1, To(k) + 1) = Window(t, j, k)
<1>1. From(j) + 1 = IF j < 0 THEN 1 ELSE j + 1
  BY DEF From
<1>2. To(k) + 1 = IF k >= Len(t) THEN Len(t) ELSE k + 1
  BY LenProperties DEF To
<1> DEFINE a == From(j) + 1
           b == To(k) + 1
<1>3. Window(t, j, k) = SubSeq(t, a, b)
  BY <1>1, <1>2 DEF Window
<1> QED  BY <1>3

\* The hashes beside a word are those of the texts beside it.
LEMMA HashesBeside ==
  ASSUME HashInv, pc = "ready", IsPlainText(text), NEW at \in 0..(Len(text) - 1)
  PROVE  /\ hash(at - LEFT_HASH_WIDTH, at) = Formula(Window(text, at - LEFT_HASH_WIDTH, at))
         /\ hash(at, at + RIGHT_HASH_WIDTH) = Formula(Window(text, at, at + RIGHT_HASH_WIDTH))
<1>1. /\ text \in Seq(Int) /\ N = Len(text) /\ \A n \in 1..Len(text) : text[n] < M
      /\ IsPlainText(text) /\ Sums(H, text, N)
  BY DEF HashInv
<1>2. N \in Nat /\ LEFT_HASH_WIDTH \in Nat /\ RIGHT_HASH_WIDTH \in Nat /\ at \in 0..(N - 1)
  BY <1>1, LenProperties, HotListAssumption
<1> DEFINE a == at - LEFT_HASH_WIDTH
           b == at + RIGHT_HASH_WIDTH
<1>3. a \in Int /\ b \in Int /\ at \in Int /\ From(a) <= To(at) /\ From(at) <= To(b)
  BY <1>2 DEF From, To
<1> HIDE DEF a, b
<1>4. hash(a, at) = Formula(SubSeq(text, From(a) + 1, To(at) + 1))
  BY <1>1, <1>3, HashIs
<1>5. hash(at, b) = Formula(SubSeq(text, From(at) + 1, To(b) + 1))
  BY <1>1, <1>3, HashIs
<1>6. SubSeq(text, From(a) + 1, To(at) + 1) = Window(text, a, at)
  BY <1>1, <1>3, WindowIs
<1>7. SubSeq(text, From(at) + 1, To(b) + 1) = Window(text, at, b)
  BY <1>1, <1>3, WindowIs
<1> QED  BY <1>4, <1>5, <1>6, <1>7 DEF a, b

\* A program that is read later changes nothing of the programs before it.
LEMMA MoreRead ==
  ASSUME NEW p \in Seq(Texts), NEW t \in Texts, NEW other, NEW word
  PROVE  LET q == Append(p, t)
         IN  /\ q \in Seq(Texts) /\ Len(q) = Len(p) + 1 /\ q[Len(p) + 1] = t
             /\ \A k \in 1..Len(p) : q[k] = p[k]
             /\ \A o : o \in Occurrences(p, other, word) <=>
                         o \in Occurrences(q, other, word) /\ o[1] # Len(p) + 1
             /\ \A o \in Occurrences(p, other, word) :
                  /\ LeftText(q, other, o) = LeftText(p, other, o)
                  /\ RightText(q, other, o) = RightText(p, other, o)
             /\ \A k \in 1..Len(p) : k \in ContextsIn(q, other, word) <=> k \in ContextsIn(p, other, word)
<1> DEFINE q == Append(p, t)
           n == Len(p)
<1>1. /\ q \in Seq(Texts) /\ Len(q) = n + 1 /\ q[n + 1] = t /\ n \in Nat
      /\ \A k \in 1..n : q[k] = p[k]
  BY AppendProperties
<1> HIDE DEF q, n
<1>2. ASSUME NEW o
      PROVE  o \in Occurrences(p, other, word) <=> o \in Occurrences(q, other, word) /\ o[1] # n + 1
  <2>1. ASSUME o \in Occurrences(p, other, word)
        PROVE  o \in Occurrences(q, other, word) /\ o[1] # n + 1
    <3>1. PICK k \in 1..n : \E j \in 1..Len(Tokens(p[k], other)) :
                              o = <<k, j>> /\ Tokens(p[k], other)[j].word = word
      BY <2>1, OccurrencesAre DEF n
    <3>2. q[k] = p[k] /\ k \in 1..Len(q) /\ k # n + 1
      BY <1>1
    <3>3. o \in Occurrences(q, other, word)
      <4>1. Tokens(q[k], other) = Tokens(p[k], other)
        BY <3>2
      <4>2. \E l \in 1..Len(q) : \E j \in 1..Len(Tokens(q[l], other)) :
              o = <<l, j>> /\ Tokens(q[l], other)[j].word = word
        BY <3>1, <3>2, <4>1, Zenon
      <4> QED  BY <1>1, <4>2, OccurrencesAre, Zenon
    <3> QED  BY <3>1, <3>2, <3>3
  <2>2. ASSUME o \in Occurrences(q, other, word), o[1] # n + 1
        PROVE  o \in Occurrences(p, other, word)
    <3>1. PICK k \in 1..Len(q) : \E j \in 1..Len(Tokens(q[k], other)) :
                              o = <<k, j>> /\ Tokens(q[k], other)[j].word = word
      BY <1>1, <2>2, OccurrencesAre
    <3>2. k \in 1..n /\ q[k] = p[k]
      <4>1. k # n + 1
        BY <2>2, <3>1
      <4> QED  BY <1>1, <4>1
    <3> QED  BY <3>1, <3>2, OccurrencesAre DEF n
  <2> QED  BY <2>1, <2>2
<1>3. ASSUME NEW o \in Occurrences(p, other, word)
      PROVE  /\ o[1] \in 1..n
             /\ LeftText(q, other, o) = LeftText(p, other, o)
             /\ RightText(q, other, o) = RightText(p, other, o)
  <2>1. o[1] \in 1..n
    <3>1. PICK k \in 1..n : \E j \in 1..Len(Tokens(p[k], other)) : o = <<k, j>>
      BY OccurrencesAre DEF n
    <3> QED  BY <3>1
  <2>2. q[o[1]] = p[o[1]]
    BY <1>1, <2>1
  <2> QED  BY <2>1, <2>2 DEF LeftText, RightText, TokenOf
<1>4. ASSUME NEW o \in Occurrences(p, other, word)
      PROVE  HasNewText(q, other, word, o) <=> HasNewText(p, other, word, o)
  <2>1. ASSUME NEW m \in Occurrences(q, other, word), Earlier(m, o)
        PROVE  m \in Occurrences(p, other, word)
    <3>1. PICK k \in 1..Len(q) : \E j \in 1..Len(Tokens(q[k], other)) : m = <<k, j>>
      BY <1>1, OccurrencesAre
    <3>2. m[1] \in 1..(n + 1)
      BY <1>1, <3>1
    <3>3. m[1] # n + 1
      BY <1>1, <1>3, <2>1, <3>2 DEF Earlier
    <3> QED  BY <1>2, <3>3
  <2>2. \A m \in Occurrences(p, other, word) : m \in Occurrences(q, other, word)
    BY <1>2
  <2> QED  BY <1>3, <2>1, <2>2 DEF HasNewText
<1>5. ASSUME NEW k \in 1..n
      PROVE  k \in ContextsIn(q, other, word) <=> k \in ContextsIn(p, other, word)
  <2>1. k # n + 1
    BY <1>1
  <2> QED  BY <1>2, <1>4, <2>1 DEF ContextsIn
<1> QED  BY <1>1, <1>2, <1>3, <1>5 DEF q, n

AllPlain(p) == \A k \in 1..Len(p) : IsPlainText(p[k])

\* The words in front of place c of program n are counted.
IsCounted(o, n, c) == o[1] < n \/ (o[1] = n /\ o[2] <= c)

TablesHold(left, right, p, other, n, c) ==
  \A word : \A o \in Occurrences(p, other, word) : IsCounted(o, n, c) =>
    /\ <<word, Formula(LeftText(p, other, o))>> \in left
    /\ <<word, Formula(RightText(p, other, o))>> \in right

\* The contexts of a word in the programs before n, and in n if it is added.
Reached(p, other, word, added, n) ==
  ContextsIn(p, other, word) \cap (1..(n - 1) \cup IF word \in added THEN {n} ELSE {})

CountsHold(counts, added, left, right, p, other, n, c) ==
  AllPlain(p) =>
    /\ TablesHold(left, right, p, other, n, c)
    /\ \A word \in added : n <= Len(p) => n \in ContextsIn(p, other, word)
    /\ \A word \in DOMAIN counts :
         counts[word].contexts <= Cardinality(Reached(p, other, word, added, n))

LEMMA ReachedFinite ==
  ASSUME NEW p \in Seq(Texts), NEW other, NEW word, NEW added, NEW n
  PROVE  /\ IsFiniteSet(Reached(p, other, word, added, n))
         /\ Cardinality(Reached(p, other, word, added, n)) \in Nat
<1>1. ContextsIn(p, other, word) \subseteq 1..Len(p) /\ Len(p) \in Nat
  BY ContextsInAre
<1>2. IsFiniteSet(1..Len(p))
  BY <1>1, FS_Interval
<1>3. Reached(p, other, word, added, n) \subseteq 1..Len(p)
  BY <1>1 DEF Reached
<1>4. IsFiniteSet(Reached(p, other, word, added, n))
  BY <1>2, <1>3, FS_Subset
<1> QED  BY <1>4, FS_CardinalityType

\* The next program is read.
LEMMA ProgramRead ==
  ASSUME NEW p \in Seq(Texts), NEW t \in Texts, NEW other, NEW counts, NEW added, NEW left, NEW right,
         CountsHold(counts, added, left, right, p, other, Len(p) + 1, 0)
  PROVE  CountsHold(counts, {}, left, right, Append(p, t), other, Len(p) + 1, 0)
<1> DEFINE q == Append(p, t)
           n == Len(p) + 1
<1>0. n \in Nat /\ n - 1 = Len(p)
  BY LenProperties
<1>1. /\ q \in Seq(Texts) /\ Len(q) = n /\ \A k \in 1..(n - 1) : q[k] = p[k]
  BY <1>0, MoreRead
<1>2. /\ \A word : \A o : o \in Occurrences(p, other, word) <=>
                            o \in Occurrences(q, other, word) /\ o[1] # n
      /\ \A word : \A o \in Occurrences(p, other, word) :
           /\ LeftText(q, other, o) = LeftText(p, other, o)
           /\ RightText(q, other, o) = RightText(p, other, o)
      /\ \A word : \A k \in 1..(n - 1) :
           k \in ContextsIn(q, other, word) <=> k \in ContextsIn(p, other, word)
  BY <1>0, MoreRead
<1> HIDE DEF q, n
<1> SUFFICES ASSUME AllPlain(q)
             PROVE  /\ TablesHold(left, right, q, other, n, 0)
                    /\ \A word \in DOMAIN counts :
                         counts[word].contexts <= Cardinality(Reached(q, other, word, {}, n))
  BY DEF CountsHold, q, n
<1>3. AllPlain(p)
  BY <1>0, <1>1 DEF AllPlain
<1>4. /\ TablesHold(left, right, p, other, n, 0)
      /\ \A word \in DOMAIN counts :
           counts[word].contexts <= Cardinality(Reached(p, other, word, added, n))
  BY <1>3 DEF CountsHold, n
<1>5. ASSUME NEW word, NEW o \in Occurrences(q, other, word), IsCounted(o, n, 0)
      PROVE  o \in Occurrences(p, other, word)
  <2>1. PICK k \in 1..n : \E j \in 1..Len(Tokens(q[k], other)) : o = <<k, j>>
    BY <1>1, OccurrencesAre
  <2>2. o[1] # n
    BY <1>5, <2>1 DEF IsCounted
  <2> QED  BY <1>2, <2>2
<1>6. TablesHold(left, right, q, other, n, 0)
  BY <1>2, <1>4, <1>5 DEF TablesHold
<1>7. ASSUME NEW word PROVE Reached(q, other, word, {}, n) = Reached(p, other, word, added, n)
  <2>1. ContextsIn(p, other, word) \subseteq 1..(n - 1)
    BY <1>0, ContextsInAre
  <2>2. n \notin 1..(n - 1)
    BY <1>0
  <2> QED  BY <1>2, <2>1, <2>2 DEF Reached
<1> QED  BY <1>4, <1>6, <1>7

\* The last word of a program is counted.
LEMMA ProgramCounted ==
  ASSUME NEW p \in Seq(Texts), Len(p) >= 1, NEW other, NEW counts, NEW added, NEW left, NEW right,
         \A word \in DOMAIN counts : counts[word].contexts \in Nat,
         CountsHold(counts, added, left, right, p, other, Len(p), Len(Tokens(p[Len(p)], other)))
  PROVE  CountsHold(counts, added, left, right, p, other, Len(p) + 1, 0)
<1> DEFINE n == Len(p)
           c == Len(Tokens(p[n], other))
<1>0. n \in Nat /\ n + 1 - 1 = n
  BY LenProperties
<1> SUFFICES ASSUME AllPlain(p)
             PROVE  /\ TablesHold(left, right, p, other, n + 1, 0)
                    /\ \A word \in DOMAIN counts :
                         counts[word].contexts <= Cardinality(Reached(p, other, word, added, n + 1))
  BY <1>0 DEF CountsHold
<1>1. /\ TablesHold(left, right, p, other, n, c)
      /\ \A word \in DOMAIN counts :
           counts[word].contexts <= Cardinality(Reached(p, other, word, added, n))
  BY DEF CountsHold
<1>2. ASSUME NEW word, NEW o \in Occurrences(p, other, word) PROVE IsCounted(o, n, c)
  <2>1. PICK k \in 1..n : \E j \in 1..Len(Tokens(p[k], other)) : o = <<k, j>>
    BY OccurrencesAre
  <2>2. PICK j \in 1..Len(Tokens(p[k], other)) : o = <<k, j>>
    BY <2>1
  <2>3. o[1] = k /\ o[2] = j
    BY <2>2
  <2>4. CASE k = n
    <3>1. j <= c
      <4>1. p[n] \in Seq(Int)
        BY <2>4, TextsAssumption, ElementOfSeq
      <4>2. c \in Nat
        BY <4>1, TokensFound, LenProperties
      <4>3. j \in 1..c
        BY <2>4
      <4> HIDE DEF c
      <4> QED  BY <4>2, <4>3
    <3> HIDE DEF c
    <3> QED  BY <2>3, <2>4, <3>1 DEF IsCounted
  <2>5. CASE k # n
    <3>1. k \in 1..n
      BY <2>1
    <3> HIDE DEF n, c
    <3>2. k < n
      BY <1>0, <2>5, <3>1
    <3> QED  BY <2>3, <3>2 DEF IsCounted
  <2> QED  BY <2>4, <2>5
<1> HIDE DEF c
<1>3. TablesHold(left, right, p, other, n + 1, 0)
  BY <1>1, <1>2 DEF TablesHold
<1>4. ASSUME NEW word \in DOMAIN counts
      PROVE  counts[word].contexts <= Cardinality(Reached(p, other, word, added, n + 1))
  <2> DEFINE R == Reached(p, other, word, added, n)
             S == Reached(p, other, word, added, n + 1)
  <2>1. R \subseteq S
    <3>1. 1..(n - 1) \subseteq 1..n /\ n \in 1..n
      BY <1>0
    <3> QED  BY <1>0, <3>1 DEF Reached
  <2>2. IsFiniteSet(S) /\ Cardinality(S) \in Nat /\ Cardinality(R) \in Nat
    BY ReachedFinite
  <2> HIDE DEF R, S
  <2>3. Cardinality(R) <= Cardinality(S)
    BY <2>1, <2>2, FS_Subset
  <2>4. counts[word].contexts <= Cardinality(R)
    BY <1>1 DEF R
  <2>5. counts[word].contexts <= Cardinality(S)
    BY <2>2, <2>3, <2>4
  <2> QED  BY <2>5 DEF S
<1> QED  BY <1>3, <1>4

\* Word c1 of program n is counted.
WordCounting(p, n, other, c, c1, word, counts, counts1, added, added1,
             left, right, left1, right1, l1, r1, new) ==
  /\ p \in Seq(Texts) /\ n \in Nat /\ n = Len(p) /\ n >= 1
  /\ c \in Nat /\ c1 = c + 1 /\ c < Len(Tokens(p[n], other)) /\ word = Tokens(p[n], other)[c1].word
  /\ left1 = Formula(LeftText(p, other, <<n, c1>>)) /\ l1 = left \cup {<<word, left1>>}
  /\ right1 = Formula(RightText(p, other, <<n, c1>>)) /\ r1 = right \cup {<<word, right1>>}
  /\ new \in {0, 1}
  /\ new = 1 <=> <<word, left1>> \notin left /\ <<word, right1>> \notin right /\ word \notin added
  /\ added1 = IF new = 1 THEN added \cup {word} ELSE added
  /\ \A w \in DOMAIN counts : counts[w].contexts \in Nat
  /\ DOMAIN counts1 = DOMAIN counts \cup {word}
  /\ \A w \in DOMAIN counts \ {word} : counts1[w] = counts[w]
  /\ counts1[word].contexts = (IF word \in DOMAIN counts THEN counts[word].contexts ELSE 0) + new

LEMMA WordIsCounted ==
  ASSUME NEW p, NEW n, NEW other, NEW c, NEW c1, NEW word, NEW counts, NEW counts1, NEW added,
         NEW added1, NEW left, NEW right, NEW left1, NEW right1, NEW l1, NEW r1, NEW new,
         WordCounting(p, n, other, c, c1, word, counts, counts1, added, added1,
                      left, right, left1, right1, l1, r1, new),
         CountsHold(counts, added, left, right, p, other, n, c)
  PROVE  CountsHold(counts1, added1, l1, r1, p, other, n, c1)
<1> USE DEF WordCounting
<1> DEFINE o1 == <<n, c1>>
<1> SUFFICES ASSUME AllPlain(p)
             PROVE  /\ TablesHold(l1, r1, p, other, n, c1)
                    /\ \A w \in added1 : n <= Len(p) => n \in ContextsIn(p, other, w)
                    /\ \A w \in DOMAIN counts1 :
                         counts1[w].contexts <= Cardinality(Reached(p, other, w, added1, n))
  BY DEF CountsHold
<1>1. /\ TablesHold(left, right, p, other, n, c)
      /\ \A w \in added : n \in ContextsIn(p, other, w)
      /\ \A w \in DOMAIN counts :
           counts[w].contexts <= Cardinality(Reached(p, other, w, added, n))
  BY DEF CountsHold
<1>2. o1[1] = n /\ o1[2] = c1 /\ o1 \in Occurrences(p, other, word)
  <2>1. n \in 1..Len(p) /\ c1 \in 1..Len(Tokens(p[n], other))
    <3>1. p[n] \in Seq(Int)
      BY TextsAssumption, ElementOfSeq
    <3>2. Len(Tokens(p[n], other)) \in Nat
      BY <3>1, TokensFound, LenProperties
    <3> QED  BY <3>2
  <2> QED  BY <2>1, OccurrencesAre
<1>3. ASSUME NEW w, NEW o \in Occurrences(p, other, w)
      PROVE  /\ o = <<o[1], o[2]>> /\ o[1] \in Nat /\ o[2] \in Nat
             /\ TokenOf(p, other, o).word = w
  <2>1. PICK k \in 1..Len(p) : \E j \in 1..Len(Tokens(p[k], other)) : o = <<k, j>>
    BY OccurrencesAre
  <2>2. PICK j \in 1..Len(Tokens(p[k], other)) : o = <<k, j>>
    BY <2>1
  <2>3. TokenOf(p, other, o).word = w
    BY DEF Occurrences
  <2> QED  BY <2>2, <2>3
<1>4. ASSUME NEW w, NEW o \in Occurrences(p, other, w), IsCounted(o, n, c1)
      PROVE  IsCounted(o, n, c) \/ (o = o1 /\ w = word)
  <2>1. o[1] < n \/ (o[1] = n /\ o[2] <= c1)
    BY <1>4 DEF IsCounted
  <2>2. CASE o[1] = n /\ o[2] = c1
    <3>1. o = o1
      BY <1>3, <2>2
    <3>2. TokenOf(p, other, o1).word = word
      BY <1>2, <1>3
    <3> QED  BY <1>3, <3>1, <3>2
  <2>3. CASE ~(o[1] = n /\ o[2] = c1)
    BY <1>3, <2>1, <2>3 DEF IsCounted
  <2> QED  BY <2>2, <2>3
<1> HIDE DEF o1
<1>5. TablesHold(l1, r1, p, other, n, c1)
  <2> SUFFICES ASSUME NEW w, NEW o \in Occurrences(p, other, w), IsCounted(o, n, c1)
               PROVE  /\ <<w, Formula(LeftText(p, other, o))>> \in l1
                      /\ <<w, Formula(RightText(p, other, o))>> \in r1
    BY DEF TablesHold
  <2>1. CASE IsCounted(o, n, c)
    BY <1>1, <2>1 DEF TablesHold
  <2>2. CASE o = o1 /\ w = word
    BY <2>2 DEF o1
  <2> QED  BY <1>4, <2>1, <2>2
<1>6. new = 1 => n \in ContextsIn(p, other, word)
  <2> SUFFICES ASSUME new = 1 PROVE n \in ContextsIn(p, other, word)
    OBVIOUS
  <2>1. ASSUME NEW m \in Occurrences(p, other, word), Earlier(m, o1)
        PROVE  /\ LeftText(p, other, m) # LeftText(p, other, o1)
               /\ RightText(p, other, m) # RightText(p, other, o1)
    <3>1. IsCounted(m, n, c)
      <4>1. m[1] < n \/ (m[1] = n /\ m[2] < c1)
        BY <1>2, <2>1 DEF Earlier
      <4> QED  BY <1>3, <4>1 DEF IsCounted
    <3>2. /\ <<word, Formula(LeftText(p, other, m))>> \in left
          /\ <<word, Formula(RightText(p, other, m))>> \in right
      BY <1>1, <3>1 DEF TablesHold
    <3>3. <<word, left1>> \notin left /\ <<word, right1>> \notin right
      OBVIOUS
    <3>4. left1 = Formula(LeftText(p, other, o1)) /\ right1 = Formula(RightText(p, other, o1))
      BY DEF o1
    <3> QED  BY <3>2, <3>3, <3>4
  <2>2. HasNewText(p, other, word, o1)
    BY <2>1 DEF HasNewText
  <2> QED  BY <1>2, <2>2 DEF ContextsIn
<1>7. \A w \in added1 : n \in ContextsIn(p, other, w)
  BY <1>1, <1>6
<1>8. ASSUME NEW w \in DOMAIN counts1
      PROVE  counts1[w].contexts <= Cardinality(Reached(p, other, w, added1, n))
  <2>1. CASE w # word
    <3>1. counts1[w] = counts[w] /\ w \in DOMAIN counts
      BY <2>1
    <3>2. Reached(p, other, w, added1, n) = Reached(p, other, w, added, n)
      BY <2>1 DEF Reached
    <3> QED  BY <1>1, <3>1, <3>2
  <2>2. CASE w = word
    <3> DEFINE was == IF word \in DOMAIN counts THEN counts[word].contexts ELSE 0
               R == Reached(p, other, word, added, n)
               S == Reached(p, other, word, added1, n)
    <3>1. IsFiniteSet(R) /\ Cardinality(R) \in Nat
      BY ReachedFinite
    <3>2. was \in Nat /\ was <= Cardinality(R)
      BY <1>1, <3>1
    <3>3. counts1[word].contexts = was + new
      BY SMTT(30)
    <3> HIDE DEF was
    <3>4. CASE new = 1
      <4>1. n \in ContextsIn(p, other, word) /\ word \notin added /\ word \in added1
        BY <1>6, <3>4
      <4>2. S = R \cup {n} /\ n \notin R
        <5>1. n \notin 1..(n - 1)
          OBVIOUS
        <5> QED  BY <4>1, <5>1 DEF Reached
      <4> HIDE DEF R, S
      <4>3. Cardinality(S) = Cardinality(R) + 1
        BY <3>1, <4>2, FS_AddElement
      <4>4. counts1[word].contexts = was + 1
        BY <3>3, <3>4
      <4>5. counts1[word].contexts <= Cardinality(S)
        BY <3>1, <3>2, <4>3, <4>4
      <4> QED  BY <2>2, <4>5 DEF S
    <3>5. CASE new = 0
      <4>1. S = R
        BY <3>5
      <4>2. counts1[word].contexts = was
        BY <3>2, <3>3, <3>5
      <4> QED  BY <2>2, <3>2, <4>1, <4>2
    <3> QED  BY <3>4, <3>5
  <2> QED  BY <2>1, <2>2
<1> QED  BY <1>5, <1>7, <1>8

\* Which program is being counted, and which of its words is the next: the
\* words not yet counted are the last ones of the text.
PlaceInv ==
  /\ phase \in {"load", "words"} =>
       read[interval] # <<>> /\ text = read[interval][Len(read[interval])]
  /\ phase = "words" =>
       LET all == Tokens(text, outside)
       IN  /\ pc = "ready"
           /\ Len(tokens) <= Len(all)
           /\ \A j \in 1..Len(tokens) : tokens[j] = all[Len(all) - Len(tokens) + j]
  /\ interval = "a" => read["b"] = <<>>

\* add_program goes through the words of the program last read, from the first on.
THEOREM PlaceInvCorrect == HotSpec => []PlaceInv
<1>1. HotInit => PlaceInv
  BY DEF HotInit, PlaceInv, Intervals
<1>2. ASSUME WordsInv, CountInv, PlaceInv, [HotNext]_hotVars PROVE PlaceInv'
  <2> USE DEF programVars, tableVars, hotVars
  <2>0. /\ interval \in Intervals /\ read \in [Intervals -> Seq(Texts)]
        /\ text \in Seq(Int) /\ tokens \in Seq(Token)
    BY <1>2 DEF CountInv, WordsInv
  <2>a. ASSUME UNCHANGED <<read, text, interval>>,
               phase' \in {"load", "words"} => phase \in {"load", "words"}, phase' # "words"
        PROVE  PlaceInv'
    BY <1>2, <2>a DEF PlaceInv
  <2>1. ASSUME NEW t \in Texts, NextProgram(t) PROVE PlaceInv'
    <3>1. /\ text' = t /\ interval' = interval /\ phase' = "load"
          /\ read' = [read EXCEPT ![interval] = Append(@, t)]
      BY <2>1 DEF NextProgram, LoadText
    <3> DEFINE p == read[interval]
    <3>2. p \in Seq(Texts)
      BY <2>0
    <3>3. /\ read'[interval] = Append(p, t)
          /\ interval = "a" => read'["b"] = read["b"]
      BY <2>0, <3>1 DEF Intervals
    <3> HIDE DEF p
    <3>4. Append(p, t) # <<>> /\ t = Append(p, t)[Len(Append(p, t))]
      BY <3>2, AppendProperties, LenProperties
    <3> QED  BY <1>2, <3>1, <3>3, <3>4 DEF PlaceInv
  <2>2. CASE LoadStep
    BY <1>2, <2>2, <2>a DEF LoadStep, AddCharacter, Loaded
  <2>3. CASE Tokenize
    <3>1. /\ UNCHANGED <<read, text, interval, outside, pc>>
          /\ tokens' = Tokens(text, outside) /\ phase = "load" /\ phase' = "words" /\ pc = "ready"
      BY <2>3 DEF Tokenize, vars, tokenize
    <3> DEFINE tk == Tokens(text, outside)
    <3>2. Len(tk) \in Nat
      BY <2>0, TokensFound, LenProperties
    <3>3. tokens' = tk /\ Tokens(text', outside') = tk
      BY <3>1
    <3> HIDE DEF tk
    <3>4. Len(tk) <= Len(tk) /\ \A j \in 1..Len(tk) : tk[j] = tk[Len(tk) - Len(tk) + j]
      BY <3>2
    <3> QED  BY <1>2, <3>1, <3>3, <3>4 DEF PlaceInv
  <2>4. CASE NextWord
    <3>1. /\ UNCHANGED <<read, text, interval, outside, pc, phase>>
          /\ phase = "words" /\ tokens # <<>> /\ tokens' = Tail(tokens)
      BY <2>4 DEF NextWord, CountWord, vars
    <3> DEFINE tk == Tokens(text, outside)
    <3>2. Len(tk) \in Nat /\ Len(tokens) \in Nat /\ Len(tokens') = Len(tokens) - 1
          /\ \A j \in 1..(Len(tokens) - 1) : tokens'[j] = tokens[j + 1]
      BY <2>0, <3>1, TokensFound, LenProperties, HeadTailProperties
    <3>3. /\ pc = "ready" /\ Len(tokens) <= Len(tk)
          /\ \A j \in 1..Len(tokens) : tokens[j] = tk[Len(tk) - Len(tokens) + j]
      BY <1>2, <3>1 DEF PlaceInv
    <3>4. Tokens(text', outside') = tk
      BY <3>1
    <3> HIDE DEF tk
    <3>5. ASSUME NEW j \in 1..Len(tokens') PROVE tokens'[j] = tk[Len(tk) - Len(tokens') + j]
      <4>1. /\ j \in 1..(Len(tokens) - 1) /\ j + 1 \in 1..Len(tokens)
            /\ Len(tk) - Len(tokens) + (j + 1) = Len(tk) - Len(tokens') + j
        BY <3>2
      <4> QED  BY <3>2, <3>3, <4>1
    <3>6. Len(tokens') <= Len(tk)
      BY <3>2, <3>3
    <3> QED  BY <1>2, <3>1, <3>3, <3>4, <3>5, <3>6 DEF PlaceInv
  <2>5. CASE EndOfProgram
    BY <2>5, <2>a DEF EndOfProgram, vars
  <2>6. CASE SecondInterval
    BY <2>6 DEF SecondInterval, PlaceInv
  <2>7. CASE Compare
    BY <2>7, <2>a DEF Compare, vars
  <2>8. CASE UNCHANGED hotVars
    <3>1. UNCHANGED <<read, text, interval, outside, pc, phase, tokens>>
      BY <2>8 DEF vars
    <3>2. Tokens(text', outside') = Tokens(text, outside)
      BY <3>1
    <3> QED  BY <1>2, <3>1, <3>2 DEF PlaceInv
  <2> QED  BY <1>2, <2>1, <2>2, <2>3, <2>4, <2>5, <2>6, <2>7, <2>8 DEF HotNext
<1> QED  BY <1>1, <1>2, WordsInvCorrect, CountInvCorrect, PTL DEF HotSpec

Current(programs, now) ==
  IF now \in {"load", "words"} THEN Len(programs) ELSE Len(programs) + 1

Place(t, other, rest, now) == IF now = "words" THEN Len(Tokens(t, other)) - Len(rest) ELSE 0

\* The tables have the hashes beside the words counted so far; the contexts of
\* a word are at most the programs so far in which it has new text.
ContextInv ==
  /\ CountsHold(word_count[interval], program_added, left_word_hashes, right_word_hashes,
                read[interval], outside, Current(read[interval], phase),
                Place(text, outside, tokens, phase))
  /\ \A x \in Intervals \ {interval} : AllPlain(read[x]) =>
       \A word \in Words(x) :
         word_count[x][word].contexts <= Cardinality(ContextsIn(read[x], outside, word))

\* Before the first program nothing is counted.
LEMMA NothingCounted ==
  ASSUME NEW added, NEW counts, DOMAIN counts = {}, NEW other
  PROVE  CountsHold(counts, added, {}, {}, <<>>, other, 1, 0)
<1>1. <<>> \in Seq(Texts) /\ Len(<<>>) = 0 /\ 1..0 = {}
  OBVIOUS
<1>2. \A word : Occurrences(<<>>, other, word) = {}
  BY <1>1, OccurrencesAre
<1> QED  BY <1>1, <1>2 DEF CountsHold, TablesHold

\* The next word of the program, as WordIsCounted has it.
LEMMA NextWordCounts ==
  ASSUME Inv, WordsInv, CountInv, HashInv, PlaceInv, ContextInv, NextWord
  PROVE  CountsHold(word_count'[interval], program_added', left_word_hashes', right_word_hashes',
                    read[interval], outside, Len(read[interval]),
                    Len(Tokens(text, outside)) - Len(tokens'))
<1> DEFINE p == read[interval]
           n == Len(p)
           tk == Tokens(text, outside)
           c == Len(tk) - Len(tokens)
           word == Head(tokens).word
           at == Head(tokens).at
           left1 == hash(at - LEFT_HASH_WIDTH, at)
           right1 == hash(at, at + RIGHT_HASH_WIDTH)
           isContext == IsContext(word, <<word, left1>>, <<word, right1>>)
           counts == word_count[interval]
           was == Counted(interval, word)
           is == [contexts |-> was.contexts + One(isContext),
                  programs |-> was.programs + One(word \notin program_words),
                  total |-> was.total + 1]
<1>0. /\ interval \in Intervals /\ p \in Seq(Texts) /\ n \in Nat
      /\ text \in Seq(Int) /\ tokens \in Seq(Token) /\ DOMAIN word_count = Intervals
      /\ \A w \in DOMAIN counts : counts[w].contexts \in Nat
  BY LenProperties DEF Inv, TypeInv, Words, CountInv, WordsInv
<1>1. /\ left_word_hashes' = left_word_hashes \cup {<<word, left1>>}
      /\ right_word_hashes' = right_word_hashes \cup {<<word, right1>>}
      /\ program_added' = IF isContext THEN program_added \cup {word} ELSE program_added
      /\ word_count' = [word_count EXCEPT ![interval] =
                          [x \in DOMAIN @ \cup {word} |-> IF x = word THEN is ELSE @[x]]]
      /\ phase = "words" /\ tokens # <<>> /\ tokens' = Tail(tokens)
  BY DEF NextWord, CountWord
<1>2. /\ p # <<>> /\ text = p[n] /\ pc = "ready" /\ Len(tokens) <= Len(tk)
      /\ \A j \in 1..Len(tokens) : tokens[j] = tk[Len(tk) - Len(tokens) + j]
  BY <1>1 DEF PlaceInv
<1>3. /\ Len(tk) \in Nat /\ Len(tokens) \in Nat /\ Len(tokens) >= 1
      /\ Len(tokens') = Len(tokens) - 1 /\ Head(tokens) = tokens[1]
  BY <1>0, <1>1, TokensFound, LenProperties, HeadTailProperties
<1>4. n >= 1
  BY <1>0, <1>2, EmptySeq, LenProperties
<1>5. /\ c \in Nat /\ c < Len(tk) /\ c + 1 \in 1..Len(tk) /\ Head(tokens) = tk[c + 1]
      /\ Len(tk) - Len(tokens') = c + 1
  <2>1. /\ c \in Nat /\ c < Len(tk) /\ c + 1 \in 1..Len(tk) /\ Len(tk) - Len(tokens') = c + 1
        /\ 1 \in 1..Len(tokens)
    BY <1>2, <1>3
  <2> HIDE DEF tk
  <2> QED  BY <1>2, <1>3, <2>1
<1>6. DOMAIN counts \cup {word} = DOMAIN word_count'[interval]
      /\ word_count'[interval][word] = is
      /\ \A w \in DOMAIN counts \ {word} : word_count'[interval][w] = counts[w]
  <2> HIDE DEF is, word
  <2> QED  BY <1>0, <1>1
<1>7. was.contexts = IF word \in DOMAIN counts THEN counts[word].contexts ELSE 0
  BY DEF Counted
<1> DEFINE new == One(isContext)
<1>8. is.contexts = was.contexts + new
  OBVIOUS
<1>9. /\ new \in {0, 1}
      /\ isContext <=> new = 1
      /\ new = 1 <=> <<word, left1>> \notin left_word_hashes
                       /\ <<word, right1>> \notin right_word_hashes /\ word \notin program_added
  BY DEF IsContext, One
<1>10. CountsHold(counts, program_added, left_word_hashes, right_word_hashes, p, outside, n, c)
  BY <1>1 DEF ContextInv, Current, Place
<1>11. CASE ~AllPlain(p)
  BY <1>11 DEF CountsHold
<1>12. CASE AllPlain(p)
  <2>1. IsPlainText(text)
    BY <1>0, <1>2, <1>4, <1>12 DEF AllPlain
  <2>2. at \in 0..(Len(text) - 1)
    BY <1>0, <1>5, <2>1, TokenInside
  <2>3. /\ left1 = Formula(Window(text, at - LEFT_HASH_WIDTH, at))
        /\ right1 = Formula(Window(text, at, at + RIGHT_HASH_WIDTH))
    <3> HIDE DEF at
    <3> QED  BY <1>2, <2>1, <2>2, HashesBeside
  <2>4. /\ LeftText(p, outside, <<n, c + 1>>) = Window(text, at - LEFT_HASH_WIDTH, at)
        /\ RightText(p, outside, <<n, c + 1>>) = Window(text, at, at + RIGHT_HASH_WIDTH)
        /\ Tokens(p[n], outside)[c + 1] = Head(tokens)
    <3>1. TokenOf(p, outside, <<n, c + 1>>) = Head(tokens)
      BY <1>2, <1>5 DEF TokenOf
    <3> HIDE DEF n, c
    <3> QED  BY <1>2, <1>5, <3>1 DEF LeftText, RightText, TokenOf
  <2>5. word = Tokens(p[n], outside)[c + 1].word /\ c < Len(Tokens(p[n], outside))
    BY <1>2, <1>5, <2>4
  <2> DEFINE counts1 == word_count'[interval]
  <2>6. counts1[word].contexts = (IF word \in DOMAIN counts THEN counts[word].contexts ELSE 0)
                                 + new
    <3> HIDE DEF is, was, new, isContext, word
    <3> QED  BY <1>6, <1>7, <1>8
  <2>7. left1 = Formula(LeftText(p, outside, <<n, c + 1>>))
        /\ right1 = Formula(RightText(p, outside, <<n, c + 1>>))
    BY <2>3, <2>4
  <2> DEFINE added1 == program_added'
             left == left_word_hashes
             right == right_word_hashes
             l1 == left \cup {<<word, left1>>}
             r1 == right \cup {<<word, right1>>}
             c1 == c + 1
  <2>8. /\ p \in Seq(Texts) /\ n \in Nat /\ n = Len(p) /\ n >= 1 /\ c \in Nat /\ c1 = c + 1
        /\ c < Len(Tokens(p[n], outside)) /\ word = Tokens(p[n], outside)[c1].word
    BY <1>0, <1>4, <1>5, <2>5
  <2>9. /\ left1 = Formula(LeftText(p, outside, <<n, c1>>)) /\ l1 = left \cup {<<word, left1>>}
        /\ right1 = Formula(RightText(p, outside, <<n, c1>>)) /\ r1 = right \cup {<<word, right1>>}
    BY <2>7
  <2>10. /\ new \in {0, 1}
         /\ new = 1 <=> <<word, left1>> \notin left /\ <<word, right1>> \notin right
                        /\ word \notin program_added
         /\ added1 = IF new = 1 THEN program_added \cup {word} ELSE program_added
    <3>1. added1 = IF isContext THEN program_added \cup {word} ELSE program_added
      BY <1>1
    <3>2. left = left_word_hashes /\ right = right_word_hashes
      OBVIOUS
    <3> HIDE DEF new, isContext, word, left1, right1, left, right, added1
    <3> QED  BY <1>9, <3>1, <3>2
  <2>11. /\ \A w \in DOMAIN counts : counts[w].contexts \in Nat
         /\ DOMAIN counts1 = DOMAIN counts \cup {word}
         /\ \A w \in DOMAIN counts \ {word} : counts1[w] = counts[w]
    BY <1>0, <1>6
  <2>12. CountsHold(counts, program_added, left, right, p, outside, n, c)
    BY <1>10
  <2>13. left_word_hashes' = l1 /\ right_word_hashes' = r1
    BY <1>1
  <2> HIDE DEF p, n, c, c1, word, left, right, left1, right1, l1, r1, isContext, new, counts,
               counts1, added1, tk
  <2>14. WordCounting(p, n, outside, c, c1, word, counts, counts1, program_added, added1,
                      left, right, left1, right1, l1, r1, new)
    BY <2>6, <2>8, <2>9, <2>10, <2>11 DEF WordCounting
  <2>15. CountsHold(counts1, added1, l1, r1, p, outside, n, c1)
    BY <2>12, <2>14, WordIsCounted
  <2> QED  BY <1>5, <2>13, <2>15 DEF p, n, c1, tk, counts1, added1
<1> QED  BY <1>11, <1>12

\* No context of an interval is counted that its programs do not have.
LEMMA ReachedContexts ==
  ASSUME NEW p \in Seq(Texts), NEW other, NEW counts, NEW added, NEW left, NEW right, NEW n, NEW c,
         \A word \in DOMAIN counts : counts[word].contexts \in Nat, AllPlain(p),
         CountsHold(counts, added, left, right, p, other, n, c), NEW word \in DOMAIN counts
  PROVE  counts[word].contexts <= Cardinality(ContextsIn(p, other, word))
<1> DEFINE R == Reached(p, other, word, added, n)
           S == ContextsIn(p, other, word)
<1>1. S \subseteq 1..Len(p) /\ Len(p) \in Nat
  BY ContextsInAre
<1>2. IsFiniteSet(S) /\ R \subseteq S
  <2>1. IsFiniteSet(1..Len(p))
    BY <1>1, FS_Interval
  <2> QED  BY <1>1, <2>1, FS_Subset DEF Reached
<1>3. counts[word].contexts <= Cardinality(R)
  BY DEF CountsHold
<1> HIDE DEF R, S
<1>4. Cardinality(R) <= Cardinality(S) /\ Cardinality(R) \in Nat /\ Cardinality(S) \in Nat
  BY <1>2, FS_Subset, FS_CardinalityType
<1>5. counts[word].contexts <= Cardinality(S)
  BY <1>3, <1>4
<1> QED  BY <1>5 DEF S

\* At every word the tables hold the hashes beside the words counted, and no word
\* has more contexts than programs with new text beside it.
THEOREM ContextInvCorrect == HotSpec => []ContextInv
<1>1. HotInit => ContextInv
  <2> SUFFICES ASSUME HotInit PROVE ContextInv
    OBVIOUS
  <2>1. /\ interval = "a" /\ word_count = [x \in Intervals |-> <<>>] /\ read = [x \in Intervals |-> <<>>]
        /\ program_added = {} /\ left_word_hashes = {} /\ right_word_hashes = {}
        /\ phase = "programs"
    BY DEF HotInit
  <2>2. DOMAIN <<>> = {} /\ Len(<<>>) = 0
    OBVIOUS
  <2>3. CountsHold(<<>>, {}, {}, {}, <<>>, outside, 1, 0)
    BY <2>2, NothingCounted
  <2>4. \A x \in Intervals : word_count[x] = <<>> /\ read[x] = <<>>
    BY <2>1
  <2>5. Current(<<>>, phase) = 1 /\ Place(text, outside, tokens, phase) = 0
    BY <2>1, <2>2 DEF Current, Place
  <2> QED  BY <2>1, <2>2, <2>3, <2>4, <2>5 DEF ContextInv, Words, Intervals
<1>2. ASSUME Inv, Inv', WordsInv, CountInv, HashInv, PlaceInv, ContextInv, [HotNext]_hotVars
      PROVE  ContextInv'
  <2> USE DEF programVars, tableVars, hotVars
  <2>0. /\ interval \in Intervals /\ read \in [Intervals -> Seq(Texts)] /\ DOMAIN word_count = Intervals
        /\ \A x \in Intervals : \A word \in DOMAIN word_count[x] : word_count[x][word].contexts \in Nat
        /\ text \in Seq(Int) /\ tokens \in Seq(Token)
    BY <1>2 DEF Inv, TypeInv, Words, CountInv, WordsInv
  <2> DEFINE p == read[interval]
             counts == word_count[interval]
  <2>p. p \in Seq(Texts) /\ Len(p) \in Nat
    BY <2>0, LenProperties
  <2>c. /\ CountsHold(counts, program_added, left_word_hashes, right_word_hashes, p, outside,
                      Current(p, phase), Place(text, outside, tokens, phase))
        /\ \A x \in Intervals \ {interval} : AllPlain(read[x]) =>
             \A word \in DOMAIN word_count[x] :
               word_count[x][word].contexts <= Cardinality(ContextsIn(read[x], outside, word))
    BY <1>2 DEF ContextInv, Words
  <2>a. ASSUME UNCHANGED <<interval, word_count, read, program_added, left_word_hashes,
                           right_word_hashes, outside>>,
               Current(p, phase') = Current(p, phase),
               Place(text', outside, tokens', phase') = Place(text, outside, tokens, phase)
        PROVE  ContextInv'
    BY <2>c, <2>a DEF ContextInv, Words
  <2>1. ASSUME NEW t \in Texts, NextProgram(t) PROVE ContextInv'
    <3>1. /\ UNCHANGED <<interval, outside, word_count, left_word_hashes, right_word_hashes>>
          /\ read' = [read EXCEPT ![interval] = Append(@, t)]
          /\ program_added' = {} /\ phase = "programs" /\ phase' = "load"
      BY <2>1 DEF NextProgram
    <3> DEFINE q == Append(p, t)
    <3>2. read'[interval] = q /\ \A x \in Intervals \ {interval} : read'[x] = read[x]
      BY <2>0, <3>1
    <3>3. CountsHold(counts, program_added, left_word_hashes, right_word_hashes, p, outside, Len(p) + 1, 0)
      BY <2>c, <3>1 DEF Current, Place
    <3>4. CountsHold(counts, {}, left_word_hashes, right_word_hashes, q, outside, Len(p) + 1, 0)
      <4> HIDE DEF p, counts
      <4> QED  BY <2>p, <3>3, ProgramRead
    <3>5. Len(q) = Len(p) + 1
      BY <2>p, AppendProperties
    <3>6. Current(q, phase') = Len(p) + 1 /\ Place(text', outside, tokens', phase') = 0
      BY <3>1, <3>5 DEF Current, Place
    <3> HIDE DEF q, p
    <3> QED  BY <2>c, <3>1, <3>2, <3>4, <3>6 DEF ContextInv, Words
  <2>2. CASE LoadStep
    BY <2>2, <2>a DEF LoadStep, AddCharacter, Loaded, Place
  <2>3. CASE Tokenize
    <3>1. /\ UNCHANGED <<interval, word_count, read, program_added, left_word_hashes,
                         right_word_hashes, outside, text>>
          /\ tokens' = Tokens(text, outside) /\ phase = "load" /\ phase' = "words"
      BY <2>3 DEF Tokenize, vars, tokenize
    <3>2. Len(Tokens(text, outside)) \in Nat
      BY <2>0, TokensFound, LenProperties
    <3>3. Place(text', outside, tokens', phase') = 0 /\ Place(text, outside, tokens, phase) = 0
      BY <3>1, <3>2 DEF Place
    <3>4. Current(p, phase') = Current(p, phase)
      BY <3>1 DEF Current
    <3> QED  BY <2>a, <3>1, <3>3, <3>4
  <2>4. CASE NextWord
    <3>1. /\ UNCHANGED <<interval, outside, read, phase, text>> /\ phase = "words"
      BY <2>4 DEF NextWord, vars
    <3>2. CountsHold(word_count'[interval], program_added', left_word_hashes', right_word_hashes',
                     p, outside, Len(p), Len(Tokens(text, outside)) - Len(tokens'))
      BY <1>2, <2>4, NextWordCounts
    <3>3. /\ Current(p, phase') = Len(p)
          /\ Place(text', outside, tokens', phase') = Len(Tokens(text, outside)) - Len(tokens')
      BY <3>1 DEF Current, Place
    <3>4. \A x \in Intervals \ {interval} : word_count'[x] = word_count[x]
      BY <2>0, <2>4 DEF NextWord, CountWord
    <3> QED  BY <2>c, <3>1, <3>2, <3>3, <3>4 DEF ContextInv, Words
  <2>5. CASE EndOfProgram
    <3>1. /\ UNCHANGED <<interval, word_count, read, program_added, left_word_hashes,
                         right_word_hashes, outside>>
          /\ tokens = <<>> /\ phase = "words" /\ phase' = "programs"
      BY <2>5 DEF EndOfProgram
    <3>2. p # <<>> /\ text = p[Len(p)]
      BY <1>2, <3>1 DEF PlaceInv
    <3>3. Len(p) >= 1
      BY <2>p, <3>2, EmptySeq, LenProperties
    <3>4. Len(Tokens(text, outside)) \in Nat
      BY <2>0, TokensFound, LenProperties
    <3>5. Current(p, phase) = Len(p) /\ Place(text, outside, tokens, phase) = Len(Tokens(text, outside))
      BY <3>1, <3>4 DEF Current, Place
    <3>6. CountsHold(counts, program_added, left_word_hashes, right_word_hashes, p, outside,
                     Len(p), Len(Tokens(p[Len(p)], outside)))
      BY <2>c, <3>2, <3>5
    <3>7. \A word \in DOMAIN counts : counts[word].contexts \in Nat
      BY <2>0
    <3> HIDE DEF p, counts
    <3>8. CountsHold(counts, program_added, left_word_hashes, right_word_hashes, p, outside, Len(p) + 1, 0)
      BY <2>p, <3>3, <3>6, <3>7, ProgramCounted
    <3>9. Current(p, phase') = Len(p) + 1 /\ Place(text', outside, tokens', phase') = 0
      BY <3>1 DEF Current, Place
    <3> QED  BY <2>c, <3>1, <3>8, <3>9 DEF ContextInv, Words, p, counts
  <2>6. CASE SecondInterval
    <3>1. /\ UNCHANGED <<word_count, read, program_added, outside, phase>>
          /\ phase = "programs" /\ interval = "a" /\ interval' = "b"
          /\ left_word_hashes' = {} /\ right_word_hashes' = {}
      BY <2>6 DEF SecondInterval
    <3>2. read["b"] = <<>> /\ DOMAIN word_count["b"] = {} /\ Len(<<>>) = 0
      <4>1. read["b"] = <<>>
        BY <1>2, <3>1 DEF PlaceInv
      <4>2. DOMAIN word_count["b"] = WordsIn(read["b"], outside)
        BY <1>2, <3>1 DEF CountInv, Words, Intervals
      <4> QED  BY <4>1, <4>2 DEF WordsIn
    <3>3. CountsHold(word_count["b"], program_added, {}, {}, <<>>, outside, 1, 0)
      BY <3>2, NothingCounted
    <3>4. Current(<<>>, phase') = 1 /\ Place(text', outside, tokens', phase') = 0
      BY <3>1, <3>2 DEF Current, Place
    <3>5. ASSUME AllPlain(p), NEW word \in DOMAIN counts
          PROVE  counts[word].contexts <= Cardinality(ContextsIn(p, outside, word))
      <4>1. \A w \in DOMAIN counts : counts[w].contexts \in Nat
        BY <2>0
      <4> HIDE DEF p, counts
      <4> QED  BY <2>c, <2>p, <3>5, <4>1, ReachedContexts
    <3>6. p = read["a"] /\ counts = word_count["a"]
      BY <3>1
    <3> HIDE DEF p, counts
    <3>7. ASSUME AllPlain(read["a"]), NEW word \in DOMAIN word_count["a"]
          PROVE  word_count["a"][word].contexts <= Cardinality(ContextsIn(read["a"], outside, word))
      BY <3>5, <3>6, <3>7
    <3> QED  BY <3>1, <3>2, <3>3, <3>4, <3>7 DEF ContextInv, Words, Intervals
  <2>7. CASE Compare
    BY <2>7, <2>a DEF Compare, vars, Current, Place
  <2>8. CASE UNCHANGED hotVars
    BY <2>8, <2>a DEF vars
  <2> QED  BY <1>2, <2>1, <2>2, <2>3, <2>4, <2>5, <2>6, <2>7, <2>8 DEF HotNext
<1> QED  BY <1>1, <1>2, InvCorrect, WordsInvCorrect, CountInvCorrect, HashInvCorrect, PlaceInvCorrect,
            PTL DEF HotSpec

\* However hashes collide, no more contexts of a word are counted than there
\* are programs of the interval in which the texts beside it are new, for
\* programs of characters up to 127: what is missing from the counts of a word
\* are collisions, and nothing is in them that should not be.
THEOREM ContextsAreNotOvercounted == HotSpec => []NeverOvercounted
<1>1. Inv /\ CountInv /\ ContextInv => NeverOvercounted
  <2> SUFFICES ASSUME Inv, CountInv, ContextInv, phase = "programs", NEW x \in Intervals,
                      \A k \in DOMAIN read[x] : \A c \in ToSet(read[x][k]) : c >= 0,
                      NEW word \in DOMAIN word_count[x]
               PROVE  word_count[x][word].contexts <= Cardinality(ContextsIn(read[x], outside, word))
    BY TrueContextsAre DEF NeverOvercounted
  <2>0. /\ \A y \in Intervals : read[y] \in Seq(Texts)
        /\ \A y \in Intervals : \A w \in DOMAIN word_count[y] : word_count[y][w].contexts \in Nat
    BY DEF CountInv, Inv, TypeInv, Words
  <2>1. AllPlain(read[x])
    <3> DEFINE p == read[x]
    <3>1. p \in Seq(Texts) /\ \A k \in DOMAIN p : \A c \in ToSet(p[k]) : c >= 0
      BY <2>0
    <3> HIDE DEF p
    <3>2. ASSUME NEW k \in 1..Len(p) PROVE IsPlainText(p[k])
      <4>1. p[k] \in Seq(Int) /\ k \in DOMAIN p
        BY <3>1, TextsAssumption, ElementOfSeq, LenProperties
      <4>2. DOMAIN p[k] = 1..Len(p[k]) /\ \A c \in ToSet(p[k]) : c >= 0
        BY <3>1, <4>1, LenProperties
      <4> QED  BY <4>2 DEF IsPlainText, ToSet
    <3> QED  BY <3>2 DEF AllPlain, p
  <2>2. CASE x # interval
    BY <2>1, <2>2 DEF ContextInv, Words
  <2>3. CASE x = interval
    <3> DEFINE p == read[x]
               counts == word_count[x]
               n == Current(p, phase)
               c == Place(text, outside, tokens, phase)
    <3>1. /\ CountsHold(counts, program_added, left_word_hashes, right_word_hashes, p, outside, n, c)
          /\ p \in Seq(Texts) /\ AllPlain(p) /\ word \in DOMAIN counts
          /\ \A w \in DOMAIN counts : counts[w].contexts \in Nat
      BY <2>0, <2>1, <2>3 DEF ContextInv
    <3> HIDE DEF p, counts, n, c
    <3>2. counts[word].contexts <= Cardinality(ContextsIn(p, outside, word))
      BY <3>1, ReachedContexts
    <3> QED  BY <3>2 DEF p, counts
  <2> QED  BY <2>2, <2>3
<1> QED  BY <1>1, InvCorrect, CountInvCorrect, ContextInvCorrect, PTL

=============================================================================
