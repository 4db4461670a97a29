# The snapstream searches in TLA+

The repository is a set of CGI programs that search the closed captions of
television programs, one file per day. This directory holds TLA+ modules that
follow its C++ code, TLC configurations that check them on small instances, and
proofs that TLAPS checks for all values of the constants.

    tlc -workers 2 -config MCNearScan.cfg MCNearScan     # any of the MC*.cfg
    tlapm PairSearchProofs.tla                           # any of the *Proofs.tla

## 1. The system

A form (html/index.html) posts a query to one of the programs. Each program is
a process of its own that decodes the query, lists the files of the range of
dates, reads one file after the other, searches every program (a television
broadcast) in it, and writes a page and some CSV or JSON files. Within a process
nothing runs concurrently. What is hard about the programs is therefore not
scheduling but state that survives from one step of a long loop to the next:
pointers that are never moved back, hash tables with three different lifetimes,
maps that look-ups write to, stacks whose depth only an earlier check
guarantees, a date that is counted along.

Between processes the output directory is shared. Searches write files into it
whose names they draw at random, daily jobs in node fetch such a file over the web
and copy it in the background, and a page looks for the newest copy. This is
the one place where the interleaving of steps, and a process that dies between
two of them, matter.

| component | state | operations | what makes it correct |
|---|---|---|---|
| `Expression` (Expression.cpp) | stack of brackets, tokens, operator stack, RPN queue | `tokenize`, `convert_to_rpn` | an expression is accepted and grouped to the left; what the check of the characters saw of the brackets holds of the tokens |
| `evaluate_expression` (snap.cpp) | operand stack, lists of inner expressions | one step per token | the list an expression means; ascending lists |
| `orv`, `andv`, `notandv`, `nearv`, `notnearv` (snap.cpp) | two iterators, the list built | one scan | the elements with some (no) partner |
| `snap::find` (snap.cpp) | priority queue of candidates | one round per candidate | all and only matches at word borders, in order, and an end |
| `snap::near` (snap.cpp) | two pointers, two lists | scan, run forward | all and only the hits, on both sides |
| `filter_program_list`, `is_program_selected` (snap.cpp) | list of names | filter once, search per title | selected iff some name entered is a prefix |
| `StringHasher` | table of prefix sums, its size | `load_text`, `hash` | the documented formula, whatever was loaded before |
| `parse_programs` (snap_io.cpp) | input stream, list of programs | one round per program | the programs as written, or an exception |
| `Program` | text, lower-case text | constructor, `strip_timestamps` | text without its timestamps and nothing less |
| `CoOccurrenceMatrix` | counts, hash tables, keys per program | `add_program` | totals, programs and contexts of every pair |
| `simple_search` | tables of day and range, rows, excerpts | loop over files, programs, matches | rows, totals and excerpts agree |
| `multiple_search` | the same per search string | the same, and over strings | strings do not disturb one another |
| `pair_search`, `distance` | matrix, results, heap of top keys | loop over files, `remove_zero_keys`, `filter_top` | the graph shows the counts of the top keys |
| `near_search` | date, counts of day and range, rows | loop over files around `near` | each row has the date of its file; totals count near pairs |
| `hot_list`, `snap_word` | words of a program, hash tables, word counts of two ranges | `tokenize`, `get_word_count`, `compare_word_counts` | words whose contexts rose, no division by 0 |
| `Excerpt` | text with markup, a copy, an offset | cut, `highlight_word` | markup around the matches, text unchanged |
| jobs/republican_candidates.js, html/current-time-series.html | files of searches and of days, current.js, mail | daily: post, fetch, mail, copy; page: ask for the newest file | what is published is the whole result of the job's own search |
| `snap_date`, `snap_web`, `process_file` | none | dates, percent codes, HTML, JSON | conversions |
| legacy | the C programs replaced | | |

How they interact: `parse_programs` turns a file into programs. The four searches call `snap::find` once per program with all
patterns, `evaluate_expression` per search string on its result, and
`StringHasher::hash` for the text left and right of each match. Two matches with
the same text on either side are the same *context* (a commercial, say, that is
broadcast again). simple_search, multiple_search and hot_list count contexts
with a pair of tables; `CoOccurrenceMatrix` with two per expression and four per
oriented pair. pair_search post-processes the matrix. An `Excerpt` highlights the
patterns of the search around a match that `find` reported.

The behaviours that are hard to test are listed, each at its line, as "hazards"
in PROJECT.json.

## 2. The modules

Every module models one component, in the code's names; each action's comment
says which step of the code it is. Positions are the code's, from 0; iterators
are indices of TLA+ sequences, from 1, so `Len + 1` is `end()`.

**ProximityFilter** is the abstract promise of `@` and `!@`: one element of the
first list at a time is kept if some (no) element of the second is within
distance. **NearScan** is the scan of `nearv` (snap.cpp:61) and `notnearv`
(snap.cpp:74), **NearSearch** that of `snap::near` (snap.cpp:209). Both instantiate
ProximityFilter with a refinement mapping: `next` is the outer iterator, `c` the
list built; moving the inner iterator is a stutter.

**NearSearchProgram** extends NearSearch with the loop of near_search.cpp: a file
that is missing, corrupt or parsed, a call of `near` per program (`Call` sets the
iterators, `NearStep` is a step of NearSearch), the counts of the day and of the
range, and `current_date`, which is counted along on three paths. `same` says
that both search strings are equal, so that the map of results has one entry.
What the totals should be is said by sums over programs and days
(`MeasuredPrograms`, `MeasuredDays`).

**Tokenizer** is `tokenize`, both its loops over the characters of an expression:
the bracket check (`OpenBracket`, `CloseBracket`, `MismatchedBracket`), and the
loop that splits the text, one action per kind of token. The two do not see the
same brackets. A pattern ends at the first "}" and may hold "{" and "(", an
operator ends at a space, "{" or "(" and may hold ")". A text is a sequence of
symbols: the characters the loops look at, and what stands between them, a name
or an operator with its number, as one symbol.

**Loci** holds the five list operators as functions: a sorted list puts each element
at its rank, and `@` and `!@` are the promise that NearScan is proved to keep.
**Evaluator** extends Tokenizer and Loci with the shunting yard and the stack
machine. An operator is recognised by how it begins (`Symbol`), as in the code, so
`@5)` and `@x` are taken for `@`. Outcomes are `done`; `syntax_error`;
`invalid_argument`, the exception of `stoi` that nobody catches; and `undefined`,
where the code takes an element from an empty stack or reads behind the end of
the text.

**Find** is `snap::find`: `Initialize` fills the queue, `Examine` is one round.
A text is a sequence of characters, a pattern too, with `*` at an end for a
wildcard. **Excerpt** extends it: when the search is over an excerpt is cut around any
match reported, and `Highlight` is one round of `highlight_word`, in a copy
`lower_text` of the text with the markup of the patterns before. The markup
`<span ...>` and `</span>` are two constants, in the run two short tags.

**StripTimestamps** is the loop of `Program::strip_timestamps` on a text of five
symbols, which the constructor sets. `substr` with a negative count takes the rest of the text, as
`std::string` does after conversion to an unsigned count. **ProgramFile** extends it
with `parse_programs` and the constructor of `Program`, and has the specification of
both: `getline` with its three
ways to fail, a stream position of -1, and the line of equals signs (`"rule"`)
that ends the header. A program begins behind a byte BF and ends at a byte C3.

**StringHasher** keeps `H` (the table that never shrinks) and `N` in unsigned
arithmetic of `Width` bits and signed characters; `LoadText` and `AddCharacter`
are `load_text`, `hash` is an operator with the branch on negative differences.
**HotList** extends it with `tokenize`, `get_word_count` (a program, its words, one
word: three nested loops, three phases) and `compare_word_counts`. The hasher is
one for both intervals, the tables are made anew by `SecondInterval`. `outside` is
what happens to stand in front of the array `char_types`, at the place of each
character above 127.

**ProgramFilter** is the loop of `filter_program_list` after its sort, and
`is_program_selected` as an operator.

**Contexts** is what the searches share: a table pair, whether a match is new to
it, and as a reference the set of programs with a context.
**SimpleSearch** and **MultipleSearch** are the main loops of the two programs,
from the list of files to the totals. A program is what the components above
make of it: the windows (the texts left and right) of each of its matches, and
for SimpleSearch its title. Both keep the programs they have read in `read`, which
no step looks at: the properties compare the counts with it. SimpleSearch takes the steps of ProgramFilter first
(`FilterStep`) and asks its `is_program_selected` for every title.

**Sums** is the sum of a sequence of numbers, written as a recursive function so that
proofs can unfold it.

**CoOccurrence** is `CoOccurrenceMatrix`. `AddProgram` starts a call of
`add_program` on a sorted list of matches; `SameMatch`, `DifferentMatches` and
`SameExpression` are the branches of the inner loop, `NextMatch` is the step of
the outer one. **PairSearch** extends it with the main loop of pair_search
around it, the copy of the counts, `remove_zero_keys`, `filter_top` and
`output_visualization`. It models the map of maps by the set of entries it
has, since look-ups with `[]` create entries and `remove_zero_keys` erases some.

**DailyJob** composes processes: the job of every day, the search each posts,
searches of visitors, the page, and a clock in seconds. `OpenFile` is the end of
multiple_search.cpp from `srand(time(NULL))` on (the number drawn is a function
of the second), `WritePart`, `PrintLink` and `PrintVisualization` the rest of it: the
two links are flushed one after the other, and a search may die between them.
`Post`, `ResponseEnds`, `GetData`, and `Mail` or `MailUnstored` are the callbacks of
the job's waterfall. Without the second link, or without the folder, nothing is
copied and the mail is sent all the same (`MailUnstored`). `OpenCopy`,
`CopyPart` and `EndCopy` the pipe it starts and does not wait for. `SearchDies`
and `JobDies` may come at any step; nothing in the repository starts a search
or a job again. `AskDayBefore` is the page's answer to status 404; `there` is, for
the properties only, what files there were when the page was opened.

Abstractions, all named in the modules:

- Hashes are compared, never read. In Contexts and CoOccurrence a window stands
  for its hash, so there are no collisions (one in 65071 per pair of windows in
  the code). HotList has the hashes themselves, mod 5, hence with collisions:
  `NeverOvercounted` shows that their effect is a smaller count.
- A key of `evaluate_expression` is the sequence of tokens it spells, so no pattern has
  the name of a key, as `{(a & b)}` in the code does beside `{a} & {b}`.
- Of an expression, a maximal run of characters no loop looks at is one symbol. What
  `stoi` makes of it is the function `Number`, not defined where it throws; its values
  are natural numbers, so a distance with a sign is left out.
- Counts in the hash tables are only compared with 0: sets.
- Formatting, HTML and the wording of messages are left out. Floating point is
  left out; of the correlations PairSearch keeps the sums they are divided by.
- A file that cannot be read (`CorruptFile`) may be any file at any time; this
  includes a file that disappears between the test and the open. When
  `parse_programs` reports one is ProgramFile.
- A file of a search is a number of parts, each of which says who wrote it.
- Undefined behaviour is an outcome of its own (`undefined`, `crashed`) that a
  property confines to the inputs that lead to it.

## 3. What TLC checks

| run | question | bounds |
|---|---|---|
| NearScan | Is an element of b that was passed never needed again, and is the result the promise? | lists of up to 3 of the positions 0..4, with repetitions; distances 0..2 |
| NearSearch | The same for the pointer that runs forward and is not moved back, in every call of a run; are all neighbours in the second list? Do dates and totals keep pace with the files? | one program with lists as above; ranges of 2 days, missing and corrupt ones included, of up to 2 of 4 programs |
| Evaluator | Does every expression get its meaning, and every text an end? Do the brackets that the check saw match in the tokens? | expressions of up to 3 operands with all operators and parentheses; all texts of up to 5 pieces (a pattern, an operator, each bracket by itself); two position maps |
| Find | Are all matches found once, in order? Does an excerpt around any of them keep its text, with well-formed markup, and the matches in red? Do both loops end? | all texts of up to 5 of "i", "n" and space; one or two patterns, a phrase and equal ones included, every combination of wildcards; excerpts of 2 characters on either side, tags in which "i" occurs |
| FindWildcard | finding, below | one pattern |
| PairSearch | Do the counts mean what the comment above `add_program` says? Do removal of keys and the choice of the top keys keep them? Is nothing divided by 0? | up to 2 programs of up to 3 matches at positions 0..2, distance 1, 3 expressions, 2 windows on either side; 0 or 2 keys asked for |
| SimpleSearch | Do rows, totals, contexts and excerpts agree, in date order and shuffled, with files missing and corrupt? Is a title selected exactly if a name entered is its prefix? | 2 dates, files of up to 2 programs with up to 2 matches, one of them not selected, 2 windows on either side, one excerpt asked for; all lists of up to 3 names of up to 2 of two characters |
| MultipleSearch | Is every string counted as if searched alone, one entered twice included? Does the total line add up? Do excerpts show contexts? | 2 dates, files of up to 2 programs with up to 2 matches, for the lists of strings 1; 1,1; 1,2; 1,1,2 |
| ProgramFile | Do the programs come out as written, without their timestamps and nothing less, is a file corrupt only if it does not fit, and does the loop end? | all files of up to 5 symbols; files as long as the buffer (10) give or take some; programs of all texts of up to 7 symbols with separated timestamps |
| StripTimestampsAdjacent | finding, below | all texts, adjacent timestamps included |
| HotList | Is every hash the formula after any earlier text? Are contexts never overcounted, never 0 (they are divided by), at most the programs? Are tokens words? | 2 programs in one interval or one in each; texts of up to 3 of two letters and a space, eight longer ones with a full stop or characters above 127; M = 5 |
| DailyJob | Is what a job publishes the whole result of its own search, whatever runs beside it or dies? Does the page show the newest file there was, or a newer one, and the whole of it? Does the mailed link work in the end, and does every job end? | 2 days, the second 2 seconds long; 1 visitor with the same first date; files of 2 parts |

Why these bounds are enough for the interesting cases. In a scan the
second pointer must be able to pass an element, stand on one and still have one
ahead: three. The tables of the searches have three lifetimes (program, day,
range); two programs, two days and two windows give a match that is new to the
program only, to the day only, to all, or on one side only. In the matrix a
cooccurrence can repeat one in the same program, in an earlier one, in the other
order, on any of the four combinations of sides; three matches with
distance 1 give a match out of reach. Three keys let the last replace one of
two, and any one be without contexts. Two days give a date that was advanced on
any of the three paths and is used after it. M = 5 is small enough for all
residues, for negative differences and for collisions. Two seconds let two
searches open their files in one second or in two, and two parts let a file be
read or copied when half of it is written. A buffer of 10 lets a program fit, fit
exactly, and not fit. Symmetry is used for windows only, which are only
compared.

`MCPairSearch` bounds the programs by definitions rather than by a constraint:
longest programs alternate between two expressions, the third expression stands
in short programs. `CountsMeanWhatTheySay` is conditional on one match per
position (`OneMatchPerPosition`): see the hazard at CoOccurrenceMatrix.cpp:82.
`MarkupReadsBack` and `MatchesAreRed` are conditional on `MarkupSafe`, that no
later pattern occurs in the markup or holds its "<" or ">": see the hazard at
Excerpt.cpp:46. `ParenthesesMatched` is conditional on `BracesApart`, that no pattern
holds a "{", and for its second half on `ParenthesesApart`, that no operator holds a
")": see the hazard at Expression.cpp:107. `MailedLinkWorks` excepts a
search that died between its two links: see multiple_search.cpp:284. Every property
of DailyJob that is about whose data it is excepts a clash (`Clash`).

No run checks that variables have their types: where types matter for a proof
they are part of its invariant.

Fairness: Evaluator, Find with Excerpt, and ProgramFile check termination under
weak fairness of the next-state relation, that is, the process goes on running.
They are single threaded and their loops call nothing that blocks. DailyJob
assumes weak fairness of the next step of every search and every job: the
server runs a search to its end, node its callbacks. It assumes nothing of
visitors, of the clock, of the time at which cron starts a job, or that anything
dies or does not. The loops of the searches are over lists that are fixed
before, so they have no liveness property of their own.

Deadlock checking is off in all configurations because every module models a
program or a call that ends.

Each property of a passing run has a mutant in PROJECT.json: a definition of the
module with a plausible slip ("Mutant:" in the modules) under which TLC
finds the property violated.

### Findings

1. `FindWildcard`. After a candidate `find` goes on behind the word it ends in
   (snap.cpp:189), also when the candidate fails the test of its borders. A
   pattern with a wildcard in front only, `{*in}`, therefore misses "inin", and
   `{*ing}` misses "singing". html/index.html:16 promises wildcards at the
   beginning. `EveryDescribedWordOnce` shows that all other patterns are found.
2. `StripTimestampsAdjacent`. When only line breaks stand between two
   timestamps, the count of the second `substr` (Program.cpp:38) is negative and
   the rest of the text is added a second time, although the comment there says
   that the text before the timestamp is added. `TimestampsStripped` shows that
   texts with separated timestamps are right.

Met while modelling, without a run of their own:

- A search for `{*}` never ends, since its search string is empty: its candidate stays in
  the queue for ever (`EmptyNeverEnds` in QueryProofs). A search for `{***}` does end,
  for its search string is `*`, but `highlight_word`, which turns `*` and `**` away, trims
  it to nothing and does not. The run that checks termination leaves out exactly these.
- `({a} @5) {b}` passes the bracket check and is split into `(`, a, `@5)` and b. The
  `(` is never closed, `evaluate_expression` takes it for an operator and pops a stack
  that has run out. `{({a})}` passes too and leaves a `)` for which `convert_to_rpn`
  reads the top of an empty stack. `ParenthesesMatched` is about texts without these.
- `{a} &`, with the operator at the end of the text, is read on behind the end
  (`RunPastEnd`); `{a} @x {b}` ends in an exception of `stoi` (`NumberMissing`).
  `ExpressionGetsItsMeaning` shows that no expression of the grammar is among them.
- A later pattern that occurs in the markup, "span" or "style" say, is highlighted
  inside the tags of an earlier one (`MarkupSafe` leaves these out, and patterns that
  hold "<" or ">", which may match across the end of a tag).
- Any byte C3 ends a program, so a program is cut at its first accented letter;
  an empty file gives one empty program (`ProgramsAsWritten` says both).
- A text with a character above 127 hashes to values that depend on the
  position, because `char` is signed. `HashIsTheFormula` is about texts without
  one. The same character reads in front of `char_types`: what `tokenize` makes
  of it is left open, and `TokensAreWords` confines it to the words beside it.
- Matches of two expressions at one character are counted as one match, which
  the comment at CoOccurrenceMatrix.cpp:83 does not foresee.
- simple_search dies in `search_results.front()` when no file of the range can
  be read (`RowsAccountForTheRange` confines it to that case).
- pair_search has undefined behaviour when no key is asked for or none is left
  (`GraphShowsTheTop`); the sum S of `correlate_sum` is never initialised.
- multiple_search counts the programs and matches of a string entered twice
  twice (`CountedAsIfAlone`).
- Two searches that come to write in one second with the same first date write
  into one file, whatever they were asked for (`Clash`); what either publishes then
  may be the other's. The properties of DailyJob confine it to that case.
- A job whose search dies between its two links mails a link to a file that is never
  made, and comes to its end without an error (`MailUnstored`).
- A job whose search dies before its links goes on to fetch ".../undefined" and ends, without a
  second attempt (`ResponseEnds`).

## 4. What is proved

The theorems hold for all values of the constants that satisfy the named
assumptions of the modules. Of the 40 properties the passing runs check, 35 are stated
by a theorem. The proofs are in seven modules, the lemmas they share in an eighth.

The assumptions, and why the code justifies them:

- `InputsAssumption`, `RangesAssumption`: the lists `evaluate_expression` returns are
  ascending lists of numbers. `ListsAreAscending` proves that they are if those of the
  patterns are, which is `LocationsAssumption`; that `find` returns such lists is
  `FoundListsAscend`.
- `PatternsAssumption` (Find): no pattern is empty. Nothing rejects `{}`; of that
  pattern `pattern_to_search_string` reads the first and last character, which do not
  exist. `TextsAssumption` (Find): texts are sequences of characters.
- `TagsAssumption` (Excerpt): the two tags of `highlight_word` begin with "<" and end
  with ">", have these characters nowhere else, and both are punctuation, at which a
  word may end. `CaptionsAssumption`: no tag stands in the text of a program before it
  is highlighted, since captions are text; "<" alone may. `ExcerptAssumption`: the size
  of an excerpt is a natural number.
- `ExpressionTextsAssumption` (Tokenizer): a text is a sequence of symbols, and no word
  is one of the marks. That no pattern is a parenthesis, since `{(}` and `{)}` do not
  pass the bracket check, needs no assumption: tokens carry their type.
  `DistanceAssumption`: `@` and `!@` alone have no number, and no sign stands in front
  of a distance.
- `FilesAssumption` (ProgramFile): a file is a sequence of the symbols.
  `ReadSizeAssumption`: the buffer has room for a character and the null that ends it.
- `ProgramsAssumption` (CoOccurrence): `std::sort` has ordered the matches of a program
  by position, then by expression. `ExpressionsAssumption`: there are finitely many
  expressions, ordered like integers, as the keys of a `std::map` are.
- `SearchListsAssumption`: the strings of multiple_search are sorted, there is one at
  least, and only their order counts. `NamesAssumption`: characters are ordered like
  integers.
- `ModulusAssumption`: A is a residue mod M and M * M fits an `unsigned`, so no product
  of two residues wraps. `TextsAssumption` (StringHasher): all characters are below M (a
  `char` is at most 127, M is 65071). `FermatAssumption`: `modular_inverses[0]` is 1;
  this is A^(M-1) mod M as the constructor computes it, which is 1 for a prime M by
  Fermat's little theorem. TLC evaluates it for the M of the run.
- `HotListAssumption`: no letter is a space.
- `DayOfAssumption`, `PartsAssumption`: the clock does not go back, a file has a part.

Induction over data is not available to the provers. Where a proof needs it, for
sums, cardinalities, runs of letters, sequences of tokens, functions defined by
recursion and bijections between lists, it takes a smallest counterexample, which the
library's well-foundedness of the natural numbers and of finite sets provides.
`FiniteLemmas` has what several proofs share: least elements, sums and how they grow,
shrink and are rearranged, congruences mod m, and the contexts of a list of programs:
`Holds` says that tables hold what has been read up to a match, `CountedTo` how many
programs before it have a context, and `MatchSeen`, `ProgramSeen`, `AllCounted` carry
both over the list. SimpleSearch and MultipleSearch use them for the day and for the
range.

- `QueryProofs`, the scans: `ScanTypeCorrect`, `ScanPassedAreOutOfReach`,
  `ScanImplementsFilter` and `ScanResultCorrect`. The scan is correct because what `bit`
  has passed is out of reach of *every* element not decided yet, not only of the one at
  hand; this is inductive because `a` ascends. With `b` ascending, the one comparison
  made for an element then decides whether it has a neighbour at all. That is the step
  to ProximityFilter; the other steps stutter. `ScanReturnsTheList` adds that the list
  built is the one `nearv` and `notnearv` of Loci stand for, so that Evaluator may use
  them.
- `QueryProofs`, `find`: `PositionsAreRight`, `DescribedWordsAreFound`,
  `FoundListsAscend`. The invariant: what is queued are occurrences of the search
  strings (`CandidatesOccur`), none before a match that has been reported
  (`MatchesComeFirst`), and each word passed has its match (`PassedWordsFound`). When
  the list holds a pattern twice, its elements look at the same candidates, none more
  than one ahead of another (`Lockstep`), so a match is reported once for each element
  that has passed it (`ReportedAsOften`). A word that a pattern describes is not jumped
  over, because the search goes on at the end of a word.
- `QueryProofs`, the excerpts: `MarkupIsReadBack`, `FoundIsRed`, for any two tags as
  assumed. The words of a pattern are highlighted up to a position e of the copy, where
  the offset is o (`Kept`): behind e the text is the copy moved by o, no tag is divided
  at either place, and what was cut out is read in the copy and in the text side by side
  (`SideBySide`), never closer in the text than in the copy. A safe word has no position
  in common with a tag (`SafeWordIsApart`), so a tag is inserted between tags; the
  others stay as they were, moved, and no tag arises of old and new characters, because
  a tag has its "<" in front only (`InsertedTags`). What is read is then unchanged
  (`InsertedReads`), and what is between the two tags is red (`PairInserted`). That a
  match reported by `find` is among the words `highlight_word` comes to needs that no
  occurrence before it overlaps it, in the text (`CandidatesAreFirst`, which is
  inductive because the search goes on at a border) and in the copy (`MatchShines`).
- `QueryProofs`, the brackets: `ParenthesesAreMatched`. Two different loops have to be
  related, one over characters and one that cuts them into tokens. The invariant of the
  check (`CheckedTo`) says of its stack how deep in "(" each character stands
  (`ParenDepth`): never below 0, and, at the "{" and the first "}" behind it, equally
  deep (`StretchesEven`), because the "{" was on top when the "}" came. The loop that
  splits the text keeps the depth of the tokens at least that of the characters
  (`TokensNest`), and equal to it if no operator holds a ")": it passes patterns as
  wholes, where the depth is even if no "{" is inside, and the ")" in an operator make
  the characters shallower. So no prefix of the tokens is below 0, which the operator
  stack, holding the "(" not closed (`Yard`), turns into a "(" for each ")".
- `QueryProofs`, the expression: `EvalTypeCorrect`, `ListsAreAscending`,
  `ExpressionsAreEvaluated`. `ExpressionGetsItsMeaning` compares the machine with the
  meaning that the grammar gives the tokens (`Meaning`): that of their left part, their
  operator and their last operand. The proof reads the operator stack as the parts of
  the expression that have been read (`Parsed`): an operator stands on a `(` or at the
  bottom, and on its left operand, because all operators have one precedence and are
  left associative. The queue is a program on lists, and what it evaluates to are the
  meanings of those parts (`Reading`). That operands and operators alternate
  (`FormedIsAdjacent`) keeps an operator from meeting an empty stack. The machine stores
  lists under keys that spell how they were made. A key tells the operator and the two
  operands (`SpellUnique`), so no list in use is overwritten by another. `WellFormed`
  and `Meaning` are recursive functions and are shown to exist (`RecursionsExist`).
- `NearSearchProgramProofs`, one call: `TypeCorrect`, `NothingNeededIsPassed`,
  `SearchImplementsFilter`, `NeighboursAreComplete`. Here `q` also passes elements that
  later ones do have in reach. The invariant is weaker and still enough: an element
  passed that a later `p` has in reach is replaced by `b[q]`, or one before the hit. For
  the second list `NeighboursInv` adds that what `q` has passed is collected or out of
  reach of all that is to come, and that when `q` stops running, what lies ahead is out
  of reach of the `p` it ran for.
- `NearSearchProgramProofs`, the program: the lemmas are about one step of `near` each,
  so that they hold of the call within a run as well. `NothingNeededInAnyCall`,
  `NeighboursAreCompleteInAnyCall` and `CallsImplementFilter` lift them to all calls of
  all runs. `DatesKeepPace`: the date is the index of the next file, and the days listed
  are those read, ascending. `GrandTotalsAreCorrect`: in a call the first list has one
  entry per element decided that has a neighbour, the second at most one for each of
  these and one for each element `q` ran to (`CallCounts`); the counts of the range are
  about the days before `it`, those of the day about the programs before `prog`
  (`TotalsInv`), and both add up (`PairsAdded`), whether one or two strings were asked
  for.
- `PairSearchProofs`, the matrix: `TypeCorrect`, `BookkeepingCorrect`,
  `CountsAreNested`, `DiagonalIsCovered`. Neither property is inductive. `CountsNested`
  needs that a program whose context is still to come leaves room for it
  (`RoomForContext`, `RoomForProgram`), and, because a match of two expressions at one
  position is counted in a cell below the diagonal under the key of a cell on it, that
  those cells never count programs or contexts (`LowerCellsEmpty`). That in turn needs
  that a match is counted on the diagonal before it is met again as the earlier match of
  a pair (`VisitedAreSeen`, which rests on `Ordered`). `DiagonalCovers` follows from
  `Covered` and `SeenHaveContext`: what a pair is made of has been seen, and the first
  occurrence seen is a context. It is why `correlate_sum` divides by no 0.
- `PairSearchProofs`, the counts: `CountsMeanOccurrences`, and
  `CountsMeanOccurrencesInSearch` for the program. Each count of the matrix is the
  number of occurrences of its pair in the programs read, of programs with one, and of
  their contexts, as the comment above `add_program` says. The tables of a cell are
  those of the occurrences met (`Before` is the order the two loops meet them in); what
  is counted is the newest of them; the inner loop leaves out nothing in reach because
  the list is sorted; and an occurrence is new on a side exactly if none met before has
  its hash there, whichever way round the pair stood. One match per position
  (`OneMatchPerPosition`) is a condition of the property and used once: matches of two
  expressions at one character are not met as a pair.
- `PairSearchProofs`, the program: `MatrixIsImplemented` shows that pair_search
  implements CoOccurrence, so that its theorems carry over (`CountsAreNestedInSearch`,
  `DiagonalIsCoveredInSearch`). `ReportIsCorrect` is the invariant of what follows the
  loop: the copy shows the counts of the matrix (`ResultsInv`), keys still to be removed
  have no context, and the queue holds, of the keys looked at, as many as are asked for,
  all of them above the others (`TopInv`). `ZeroKeysAreRemoved` and `GraphIsOfTheTop`
  follow; the second uses `DiagonalCovers`.
- `SimpleSearchProofs`: `ExcerptsAreAllNew`: excerpts are unlike one another because the
  tables of the range hold both sides of each (`Entered`); they are as many as contexts
  because one is kept whenever a context is counted; what is written is a beginning of
  them (`FirstOf`), kept up along the way in random order and drawn after the shuffle in
  date order. `FilterSelectsByPrefix`: a name that was dropped has a name kept as its
  prefix, the names kept are in order and none is a prefix of a later one (`FilterInv`),
  so the one name before the title decides. `RangeIsAccountedFor`: the files passed are
  rows, missing and corrupt, each in one of the three, and each column is the sum of the
  rows (`RangeInv`); sorting the rows changes no sum (`SumArranged`).
  `CountsAreOfContexts`: the tables of day and range hold what was read of either
  (`ReadInv`).
- `MultipleSearchProofs`: `ExcerptsShowAllContexts`, the same per search string.
  `TotalLineIsTheSum`: rows and the counts of the open file add up to those of the range
  (`SumInv`). `StringsCountAsIfAlone`: for each string the tables hold what the string
  found in the programs read, and in the program at hand if the loop has passed the
  first of its copies; a further copy finds nothing new, since the text of every match
  has been entered (`ReadAgain`), and adds its programs and matches again.
- `HotListProofs`: `WordsHaveContexts`, for any functions `tokenize` and `hash`: a hash
  in a table is that of a word already counted (`TablesOfCounted`), so that the first
  occurrence of a word is a context; a word counted in a program that has no context in
  it yet leaves room for one (`RoomForContext`). `NewWordsAreNew`: every word of a
  program read is counted or still to come (`CountInv`). `WordsAreFound`: after k
  characters the words found are the runs that have ended, and the word that grows is
  the run at k (`HasRead`). `HashesAreTheFormula`: each entry of `H` is congruent to the
  sum over the characters before it, and `ALL` times the inverse looked up for it to 1
  (`HashInv`); the branch on a negative difference keeps the residue.
  `ContextsAreNotOvercounted` puts the three together: an occurrence that is counted has
  hashes unlike those of all earlier ones, so its texts are unlike theirs.
- `FileProofs`, the jobs: `OnlyOwnDataIsPublished`, `CopyIsABeginning` and
  `PageIsShownNewestFile`. The invariant goes from the file to what is made of it: the
  file of a search holds the parts it has written and no other (`FileInv`), a search
  with a link has written them all (`SearchInv`), a job goes on only with the link and
  copies from the front (`JobInv`). Each part has the escape `Clash`, and a clash lasts:
  the second of a search and its first date never change. A page that has gone back
  past a day has seen no file of that day, so none was there when it was opened, for
  files of days are never removed (`PageInv`).
- `FileProofs`, a file of programs: `OnlyOversizedIsCorrupt`, `ProgramsAreAsWritten`.
  Between two programs the stream stands behind a byte C3, at the front or at the end,
  and the programs made are one for each mark before it; in a program it has passed the
  header lines and no C3 (`StreamIsRead`). `getline` fails without a character read only
  at the end of the file, and otherwise only on a stretch longer than the buffer, which
  is what an oversized program, header or line means.
- `FileProofs`, the timestamps: `TimestampsAreStripped`, for texts that are separated
  and closed as in the run. The scan stands inside no timestamp (`BetweenTimestamps`)
  and beside a symbol that stays (`Edge`), so the newlines before a timestamp ahead do
  not reach back over it, and what is stripped behind it does not depend on what is
  ahead. `stripped_text` is therefore the text kept of what is behind, at the end of all
  of it. The recursive function that names the text kept is shown to exist
  (`KeptExists`).

Only model-checked, and why:

- `Termination`, `ExcerptTermination`, `ProgramTermination`, `EveryJobEnds`,
  `MailedLinkWorks`: liveness under fairness is out of the prover's reach.

All other properties of the passing runs, the invariants and the step and refinement
properties, are proved.

## 5. What is not modelled

- Conversions without state: dates (snap_date), percent codes, HTML and JSON
  (snap_web), the conversion of an uploaded matrix (process_file). The header fields
  of a program.
- `generate_file_names` and `read_dictionary` in snap_io, and parsing of forms:
  the modules begin with the list of files and of search strings. simple_search
  trims the names entered (simple_search.cpp:71-82): SimpleSearch begins behind that.
- The second branch of StringHasher (for a large M) and `mod_exp`, used by no
  program; `count_words` in snap_word, likewise; `snap::pair`, used by tests only.
- Floating point: correlations, distances and sizes of distance.cpp.
- The other jobs (hot_list.js, top_weekly_countries.js): the pattern of
  republican_candidates.js without the copy and the page. Deployment scripts and
  the browser's forms and charts.
- legacy holds the C programs that were replaced; boost, gtest and d3 are
  vendored. They are by far the largest part of the source tree.

## 6. Plan

Done, in this order: ProximityFilter, NearScan, NearSearch with proofs; Loci and
Evaluator; Find; CoOccurrence with proofs; SimpleSearch; ProgramFilter;
StripTimestamps; StringHasher; Contexts and MultipleSearch; PairSearch; then
NearSearchProgram with proofs, Excerpt on Find, ProgramFile on StripTimestamps,
HotList on StringHasher, ProgramFilter in SimpleSearch, DailyJob with proofs; then
proofs for SimpleSearch, MultipleSearch and HotList.

Then, by proof: the report of pair_search and its refinement of CoOccurrence; the
filter, the sums and the contexts of simple_search and multiple_search; words, hashes and
contexts of hot_list; the second list and the grand totals of near_search; the
page of DailyJob.

Then, by proof: `find`, the evaluator and the lists it works on; the excerpts; what the
counts of the matrix mean; programs as written and the timestamps of a text.

Last: Tokenizer in front of Evaluator, with the proof that carries the bracket check over
to the tokens; the two links of a search and the newest file of the page in DailyJob.

No safety property is left to prove. What could be added is listed in section 5: the
conversions, and the jobs that follow the pattern of the one modelled.
