----------------------------- MODULE PairSearch -----------------------------
(***************************************************************************)
(* pair_search (Matrix Search): one run of the CGI program.  Its loop over *)
(* the files feeds every program to a CoOccurrenceMatrix; the counts of    *)
(* contexts are copied into results, the keys without any context removed, *)
(* and the top_filter keys with the most contexts drawn as a graph.        *)
(*                                                                         *)
(* results is a map of maps: a function on the pairs that have an entry.   *)
(* Looking an entry up with [] creates it.  Of the three counts of an      *)
(* entry only the contexts are used after the copy, and only they are      *)
(* kept.  Correlations are floating point and left out but for the sums    *)
(* they are divided by.                                                    *)
(***************************************************************************)
EXTENDS CoOccurrence, FiniteSetsExt

CONSTANTS
  NumFiles,    (* The number of dates of the range.      *)
  TopFilters   (* The numbers of keys that may be asked. *)

ASSUME FilesAssumption == NumFiles \in Nat
ASSUME TopFiltersAssumption == TopFilters \subseteq Nat

VARIABLES
  it,             (* The file at hand.                                       *)
  missing_files, corrupt_files,
  results,        (* The entries and their contexts.                         *)
  zero_keys,      (* The keys still to be removed.                           *)
  topFilter,
  keys,           (* The keys filter_top has still to look at.               *)
  top,            (* top_n_queue                                             *)
  occurences,     (* The counts written beside the links of the graph.       *)
  phase           (* "files", "programs", "matrix", "zero keys", "top",      *)
                  (* "graph", "done" or "undefined" behaviour.               *)

matrix == vars
report == <<results, zero_keys, topFilter, keys, top, occurences>>
main == <<it, missing_files, corrupt_files, report, phase>>
pairVars == <<matrix, main>>

Entry(e, f) == IF e <= f THEN <<e, f>> ELSE <<f, e>>
UpperHalf == {p \in Pairs : p[1] <= p[2]}
RowKeys == {p[1] : p \in DOMAIN results}

PairInit ==
  /\ Init
  /\ it = 1
  /\ missing_files = <<>>
  /\ corrupt_files = <<>>
  /\ results = <<>>
  /\ zero_keys = {}
  /\ topFilter = 0
  /\ keys = {}
  /\ top = {}
  /\ occurences = <<>>
  /\ phase = "files"

NextFile == phase = "files" /\ it <= NumFiles

MissingFile ==
  /\ NextFile
  /\ missing_files' = Append(missing_files, it)
  /\ it' = it + 1
  /\ UNCHANGED <<matrix, corrupt_files, report, phase>>

CorruptFile ==
  /\ NextFile
  /\ corrupt_files' = Append(corrupt_files, it)
  /\ it' = it + 1
  /\ UNCHANGED <<matrix, missing_files, report, phase>>

\* What programs the file holds is seen when each of them is added.
OpenFile ==
  /\ NextFile
  /\ phase' = "programs"
  /\ UNCHANGED <<matrix, it, missing_files, corrupt_files, report>>

\* The next program of the file.
NextProgram(program) ==
  /\ phase = "programs"
  /\ AddProgram(program)
  /\ UNCHANGED main

\* One step within add_program.
MatrixStep ==
  /\ phase = "programs"
  /\ SameMatch \/ DifferentMatches \/ SameExpression \/ NextMatch \/ Return
  /\ UNCHANGED main

EndOfFile ==
  /\ phase = "programs"
  /\ pc = "idle"
  /\ it' = it + 1
  /\ phase' = "files"
  /\ UNCHANGED <<matrix, missing_files, corrupt_files, report>>

CopyResults ==
  /\ phase = "files"
  /\ it > NumFiles
  /\ results' = [p \in UpperHalf |-> contexts[p]]
  /\ phase' = "matrix"
  /\ UNCHANGED <<matrix, it, missing_files, corrupt_files, zero_keys>>
  /\ UNCHANGED <<topFilter, keys, top, occurences>>

\* The entries a look-up creates hold zeros.
WithEntries(new) ==
  [p \in DOMAIN results \cup new |-> IF p \in DOMAIN results THEN results[p] ELSE 0]

IsZero(e, f) == results[Entry(e, f)] = 0

\* Mutant: all_zero is not set back from one key to the next.
FindZeroKeysOnce ==
  /\ phase = "matrix"
  /\ zero_keys' = {e \in RowKeys : \A d, f \in RowKeys : d <= e => IsZero(d, f)}
  /\ phase' = "zero keys"
  /\ UNCHANGED <<matrix, it, missing_files, corrupt_files, results>>
  /\ UNCHANGED <<topFilter, keys, top, occurences>>

\* The first loop of remove_zero_keys.  Until it meets a context it looks up
\* the pairs of a key in both orders, the one below the diagonal in vain.
FindZeroKeys ==
  /\ phase = "matrix"
  /\ zero_keys' = {e \in RowKeys : \A f \in RowKeys : IsZero(e, f)}
  /\ results' = WithEntries({p \in RowKeys \X RowKeys :
       p[2] < p[1] /\ \A f \in RowKeys : f <= p[1] => IsZero(p[2], f)})
  /\ phase' = "zero keys"
  /\ UNCHANGED <<matrix, it, missing_files, corrupt_files, topFilter, keys, top, occurences>>

\* The second loop: a key goes from the rows behind its own, then its row.
EraseZeroKey ==
  /\ phase = "zero keys"
  /\ zero_keys # {}
  /\ LET key == Min(zero_keys)
     IN  /\ results' = [p \in {q \in DOMAIN results :
                                 q[1] # key /\ ~(q[1] > key /\ q[2] = key)} |-> results[p]]
         /\ zero_keys' = zero_keys \ {key}
  /\ UNCHANGED <<matrix, it, missing_files, corrupt_files, topFilter, keys, top, occurences, phase>>

\* filter_top is called.
FilterTop(n) ==
  /\ phase = "zero keys"
  /\ zero_keys = {}
  /\ topFilter' = n
  /\ keys' = RowKeys
  /\ phase' = "top"
  /\ UNCHANGED <<matrix, it, missing_files, corrupt_files, results, zero_keys, top, occurences>>

Size(e) == results[<<e, e>>]

\* e is drawn rather than f: it has more contexts, or as many and the lesser name.
Above(e, f) == Size(e) > Size(f) \/ (Size(e) = Size(f) /\ e < f)

\* Mutant: the order of the queue the wrong way round.
FirstOf(queue) == CHOOSE e \in queue : \A f \in queue \ {e} : Above(e, f)

\* top_n_queue.top(), the next to give way.
LastOf(queue) == CHOOSE e \in queue : \A f \in queue \ {e} : Above(f, e)

FilterKey ==
  /\ phase = "top"
  /\ keys # {}
  /\ topFilter > 0
  /\ LET key == Min(keys)
     IN  /\ top' = IF Cardinality(top) < topFilter THEN top \cup {key}
                   ELSE IF Above(key, LastOf(top)) THEN (top \ {LastOf(top)}) \cup {key}
                   ELSE top
         /\ keys' = keys \ {key}
  /\ UNCHANGED <<matrix, it, missing_files, corrupt_files, results, zero_keys>>
  /\ UNCHANGED <<topFilter, occurences, phase>>

\* top() of an empty queue.
FilterNone ==
  /\ phase = "top"
  /\ keys # {}
  /\ topFilter = 0
  /\ phase' = "undefined"
  /\ UNCHANGED <<matrix, it, missing_files, corrupt_files, report>>

\* The rest of output_visualization.  The counts beside the links are looked
\* up in results in both orders; then the title is taken from the first key.
Visualize ==
  /\ phase = "top"
  /\ keys = {}
  /\ results' = WithEntries(top \X top)
  /\ occurences' = [p \in top \X top |-> results'[p]]
  /\ phase' = IF top = {} THEN "undefined" ELSE "done"
  /\ UNCHANGED <<matrix, it, missing_files, corrupt_files, zero_keys, topFilter, keys, top>>

PairNext ==
  \/ MissingFile \/ CorruptFile \/ OpenFile
  \/ (\E program \in Programs : NextProgram(program)) \/ MatrixStep \/ EndOfFile
  \/ CopyResults \/ FindZeroKeys \/ EraseZeroKey
  \/ (\E n \in TopFilters : FilterTop(n)) \/ FilterKey \/ FilterNone \/ Visualize

PairSpec == PairInit /\ [][PairNext]_pairVars
------------------------------------------------------------------------------
\* The sum of the values of w, taken from the least argument on.  (A function
\* of its own, where MapThenSumSet would do, because it is reasoned about.)
SumOver(w) ==
  LET sum[T \in SUBSET DOMAIN w] == IF T = {} THEN 0 ELSE sum[T \ {Min(T)}] + w[Min(T)]
  IN  sum[DOMAIN w]

\* R and C of correlate_sum, which are equal.
SumOf(e) == Size(e) + SumOver([f \in top \ {e} |-> results[Entry(e, f)]])

\* Once remove_zero_keys is done, the keys are those some program gave a
\* context; a key removed had none with any other; and the counts of the keys
\* that are left are those of the matrix, however many entries the look-ups
\* have created and the erasures left behind.
ZeroKeysRemoved ==
  phase \in {"top", "done"} \/ (phase = "zero keys" /\ zero_keys = {}) =>
    /\ RowKeys = {e \in Expressions : contexts[<<e, e>>] > 0}
    /\ \A e \in Expressions \ RowKeys, f \in Expressions : contexts[Entry(e, f)] = 0
    /\ \A e, f \in RowKeys : e <= f =>
         <<e, f>> \in DOMAIN results /\ results[<<e, f>>] = contexts[<<e, f>>]

\* The graph shows the keys with the most contexts, as many as were asked for
\* or as there are; no correlation is divided by 0; the count beside a link,
\* read with the lesser key first as the page does, is that of the matrix; and
\* there is no graph only if none was asked for or no program had a match.
GraphShowsTheTop ==
  /\ phase = "done" =>
       /\ Cardinality(top) = IF topFilter < Cardinality(RowKeys) THEN topFilter
                             ELSE Cardinality(RowKeys)
       /\ \A e \in top, f \in RowKeys \ top : Above(e, f)
       /\ \A e \in top : SumOf(e) > 0
       /\ \A e, f \in top : e <= f => occurences[<<e, f>>] = contexts[<<e, f>>]
  /\ phase = "undefined" => topFilter = 0 \/ \A k \in DOMAIN added : added[k] = <<>>
==============================================================================
