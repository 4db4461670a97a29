------------------------------ MODULE Excerpt ------------------------------
(***************************************************************************)
(* The excerpts of the searches: around a match that find reported, text   *)
(* is cut out of a program, and every pattern of the search is highlighted *)
(* in it, one after the other.  highlight_word looks for its word in a     *)
(* copy of the text, markup of earlier words included, and inserts markup  *)
(* into the text itself at the positions of the copy plus an offset.       *)
(*                                                                         *)
(* Positions are the code's, from 0.                                       *)
(***************************************************************************)
EXTENDS Find, SequencesExt

CONSTANTS
  excerpt_size,  (* The text on either side of a match.              *)
  Open, Close    (* The markup: sequences of characters.             *)

TagBegin == Open[1]
TagEnd == Last(Open)

ASSUME ExcerptAssumption == excerpt_size \in Nat

\* There are two tags, and each has "<" in front and ">" at the end only.
ASSUME TagsAssumption ==
  /\ Open # Close
  /\ \A tag \in {Open, Close} :
       /\ tag \in Seq(Range(tag)) \ {<<>>}
       /\ \A k \in 1..Len(tag) : (tag[k] = TagBegin <=> k = 1) /\ (tag[k] = TagEnd <=> k = Len(tag))
  /\ {TagBegin, TagEnd} \subseteq Separators

\* Captions are text: there is no markup in them before.
ASSUME CaptionsAssumption ==
  \A t \in Texts : \A tag \in {Open, Close} :
    \A k \in 1..(Len(t) - Len(tag) + 1) : SubSeq(t, k, k + Len(tag) - 1) # tag

VARIABLES
  from,         (* Where in the text of the program the excerpt begins. *)
  raw_text,     (* What was cut out.                                    *)
  text,         (* The same with markup.                                *)
  lower_text,   (* The text as it was when the word was begun.          *)
  w,            (* The index of the pattern at hand.                    *)
  current_pos, offset,
  state         (* "none", "words", "search" or "done".                 *)

excerptVars == <<from, raw_text, text, lower_text, w, current_pos, offset, state>>
allVars == <<vars, excerptVars>>

left_shift == Len(Open)

\* Mutant: the shift counts one character too few.
right_shift_short == Len(Close) - 1
right_shift == Len(Close)

\* The position at which str occurs next in t, or None.
Next_in(t, str, pos) ==
  LET hits == {i \in pos..(Len(t) - Len(str)) : SubSeq(t, i + 1, i + Len(str)) = str}
  IN  IF hits = {} THEN None ELSE Min(hits)

Insert(t, pos, str) == SubSeq(t, 1, pos) \o str \o SubSeq(t, pos + 1, Len(t))

w_trimmed(pattern) ==
  LET kept == {k \in 1..Len(pattern) : pattern[k] # "*"}
  IN  IF kept = {} THEN <<>> ELSE SubSeq(pattern, Min(kept), Max(kept))

ExcerptInit ==
  /\ Init
  /\ from = 0 /\ raw_text = <<>> /\ text = <<>> /\ lower_text = <<>>
  /\ w = 1 /\ current_pos = 0 /\ offset = 0
  /\ state = "none"

FindStep == Next /\ UNCHANGED excerptVars

\* An Excerpt is made for the match at i.  When its beginning is moved to 0 its
\* length is kept.
Construct(i) ==
  /\ pc = "done" /\ state = "none"
  /\ from' = Max({0, i - excerpt_size})
  /\ raw_text' = SubSeq(s, from' + 1, Min({from' + 2 * excerpt_size, Len(s)}))
  /\ text' = raw_text'
  /\ state' = "words"
  /\ UNCHANGED <<vars, lower_text, w, current_pos, offset>>

\* highlight_word begins.  It would return at once for a pattern of one or two
\* stars, but find comes to no end for these, and no excerpt is made.
BeginWord ==
  /\ state = "words"
  /\ w <= Len(patterns)
  /\ patterns[w] \notin {<<"*">>, <<"*", "*">>}
  /\ lower_text' = text
  /\ current_pos' = Next_in(text, w_trimmed(patterns[w]), 0)
  /\ offset' = 0
  /\ state' = "search"
  /\ UNCHANGED <<vars, from, raw_text, text, w>>

\* Mutant: the wildcards are looked for in the word without its stars.
IsHighlightedWholeWord(pattern) ==
  LET after == current_pos + Len(w_trimmed(pattern))
  IN  /\ current_pos = 0 \/ lower_text[current_pos] \in Separators
      /\ after = Len(lower_text) \/ lower_text[after + 1] \in Separators

IsHighlighted(pattern) ==
  LET after == current_pos + Len(w_trimmed(pattern))
  IN  /\ current_pos = 0 \/ WildcardInFront(pattern) \/ lower_text[current_pos] \in Separators
      /\ \/ after = Len(lower_text) \/ WildcardBehind(pattern)
         \/ lower_text[after + 1] \in Separators

\* One round of the loop.
Highlight ==
  LET pattern == patterns[w]
      word == w_trimmed(pattern)
      opened == Insert(text, current_pos + offset, Open)
  IN  /\ state = "search"
      /\ current_pos # None
      /\ IF IsHighlighted(pattern)
         THEN /\ text' = Insert(opened, current_pos + Len(word) + offset + left_shift, Close)
              /\ offset' = offset + left_shift + right_shift
         ELSE UNCHANGED <<text, offset>>
      /\ current_pos' = Next_in(lower_text, word, current_pos + Len(word))
      /\ UNCHANGED <<vars, from, raw_text, lower_text, w, state>>

EndOfWord ==
  /\ state = "search"
  /\ current_pos = None
  /\ w' = w + 1
  /\ state' = "words"
  /\ UNCHANGED <<vars, from, raw_text, text, lower_text, current_pos, offset>>

Finish ==
  /\ state = "words"
  /\ w > Len(patterns)
  /\ state' = "done"
  /\ UNCHANGED <<vars, from, raw_text, text, lower_text, w, current_pos, offset>>

MatchPositions == UNION {ToSet(match_positions[x]) : x \in PatternSet}

ExcerptNext ==
  \/ FindStep \/ \E i \in MatchPositions : Construct(i)
  \/ BeginWord \/ Highlight \/ EndOfWord \/ Finish

ExcerptSpec == ExcerptInit /\ [][ExcerptNext]_allVars /\ WF_allVars(ExcerptNext)
------------------------------------------------------------------------------
\* The reader's view: where the tags of a kind begin, the positions of text
\* outside of tags, and whether one of them is red.
Tags(tag) == {k \in 1..(Len(text) - Len(tag) + 1) : SubSeq(text, k, k + Len(tag) - 1) = tag}
InTags(tag) == UNION {k..(k + Len(tag) - 1) : k \in Tags(tag)}
Visible == DOMAIN text \ (InTags(Open) \cup InTags(Close))
TagsBefore(tag, k) == Cardinality({t \in Tags(tag) : t < k})
Red(k) == TagsBefore(Open, k) > TagsBefore(Close, k)

\* The place in the excerpt of what is visible at k.
Place(k) == Cardinality({j \in Visible : j <= k})

InMarkup(str) == Next_in(Open, str, 0) # None \/ Next_in(Close, str, 0) # None

\* Only a word that is looked for in text with markup, and may be found in a
\* tag or across the end of one, can damage it.
MarkupSafe ==
  \A k \in 2..Len(patterns) :
    LET word == w_trimmed(patterns[k])
    IN  ~InMarkup(word) /\ {TagBegin, TagEnd} \cap Range(word) = {}

\* Between two words the text without its markup is what was cut out, and
\* every tag that is opened is closed, not before it is opened: the offset keeps
\* pace with the markup that is inserted, and words are found beside and around
\* earlier markup.
MarkupReadsBack ==
  state \in {"words", "done"} /\ MarkupSafe =>
    /\ Cardinality(Visible) = Len(raw_text)
    /\ \A k \in Visible : text[k] = raw_text[Place(k)]
    /\ \A k \in 1..Len(text) : TagsBefore(Close, k) <= TagsBefore(Open, k)
    /\ Cardinality(Tags(Close)) = Cardinality(Tags(Open))

\* The positions, from 1, in the excerpt of the match of x at i, if it is there
\* in full.
PlaceOf(x, i) ==
  LET first == i - from + 1
      last == i - from + Len(w_trimmed(x))
  IN  IF first >= 1 /\ last <= Len(raw_text) THEN first..last ELSE {}

\* What find reported is what is red: each match of a one-word pattern that is
\* in the excerpt, after its turn, unless a tag of an earlier word splits it.
\* Find takes one star off each end of the pattern and highlight_word all.
MatchesAreRed ==
  state = "words" /\ MarkupSafe /\ w > 1 =>
    LET x == patterns[w - 1]
    IN  OneWord(x) /\ w_trimmed(x) = search_string(x) =>
          \A i \in ToSet(match_positions[x]) :
            LET match == {k \in Visible : Place(k) \in PlaceOf(x, i)}
            IN  \/ \A k \in match : Red(k)
                \/ \E j, k \in match : Place(k) = Place(j) + 1 /\ k # j + 1

\* The search returns, and so does the highlighting: each round of either moves
\* its position on.
ExcerptTermination == <>(state = "done" \/ (pc = "done" /\ MatchPositions = {}))
=============================================================================
