------------------------- MODULE SimpleSearchProofs -------------------------
(***************************************************************************)
(* simple_search for all ranges of files, in any order, lists of names,    *)
(* windows and numbers of excerpts asked for: excerpts show what is new,   *)
(* the filter selects by prefix, rows and totals account for every file,   *)
(* and what they count are contexts.                                       *)
(***************************************************************************)
EXTENDS SimpleSearch, SequenceTheorems, FiniteLemmas

Program == [title : Titles, matches : Seq(Matches)]
AtEnd == pc \in {"output", "done", "crashed"}

\* The loops stand on a program and a match that are there.
TypeInv ==
  /\ random \in BOOLEAN
  /\ programs \in Seq(Program)
  /\ p \in Nat \ {0} /\ m \in Nat \ {0}
  /\ pc \in {"filter", "files", "programs", "matches", "output", "done", "crashed"}
  /\ pc = "matches" => p <= Len(programs)
  /\ excerpts \in Seq(Matches) /\ random_excerpts \in Seq(Matches)
  /\ "contexts" \in DOMAIN sum /\ sum.contexts \in Nat

\* Every side of an excerpt is in the tables.
Entered(kept, tables_) ==
  \A k \in DOMAIN kept : kept[k].left \in tables_.left /\ kept[k].right \in tables_.right

\* What is written are the first excerpts, as many as were asked for.
FirstOf(written, kept) ==
  /\ Len(written) = Fewer(Len(kept))
  /\ \A k \in 1..Len(written) : written[k] = kept[k]

ExcerptInv ==
  /\ Entered(excerpts, total)
  /\ AllUnlike(excerpts)
  /\ sum.contexts <= Len(excerpts)
  /\ random \/ AtEnd => FirstOf(random_excerpts, excerpts)

Inv == TypeInv /\ ExcerptInv

LEMMA InitInv == Init => Inv
<1> SUFFICES ASSUME Init PROVE Inv
  OBVIOUS
<1>0. /\ random \in BOOLEAN /\ programs = <<>> /\ p = 1 /\ m = 1 /\ sum = Zero
      /\ excerpts = <<>> /\ random_excerpts = <<>> /\ pc = "filter"
  BY Zenon DEF Init
<1>1. TypeInv
  BY <1>0, EmptySeq DEF TypeInv, Zero
<1>2. ExcerptInv
  BY <1>0, NumExcerptsAssumption DEF ExcerptInv, Entered, AllUnlike, FirstOf, AtEnd, Fewer, Zero
<1> QED  BY <1>1, <1>2 DEF Inv

LEMMA MatchAtHand ==
  ASSUME TypeInv, pc = "matches", m <= Len(programs[p].matches)
  PROVE  programs[p].matches[m] \in Matches
<1>1. programs[p] \in Program
  BY ElementOfSeq DEF TypeInv
<1>2. programs[p].matches \in Seq(Matches)
  BY <1>1 DEF Program
<1> HIDE DEF Matches
<1> QED  BY <1>2, ElementOfSeq DEF TypeInv

LEMMA AppendFacts ==
  ASSUME NEW S, NEW s \in Seq(S), NEW x \in S
  PROVE  /\ Append(s, x) \in Seq(S)
         /\ Len(s) \in Nat /\ DOMAIN s = 1..Len(s)
         /\ Len(Append(s, x)) = Len(s) + 1 /\ DOMAIN Append(s, x) = 1..(Len(s) + 1)
         /\ \A k \in 1..Len(s) : Append(s, x)[k] = s[k]
         /\ Append(s, x)[Len(s) + 1] = x
  BY AppendProperties

\* A match that is new to the tables is unlike every excerpt that is in them.
LEMMA AppendUnlike ==
  ASSUME NEW kept \in Seq(Matches), NEW match \in Matches, NEW t,
         AllUnlike(kept), IsNew(match, t), Entered(kept, t)
  PROVE  AllUnlike(Append(kept, match)) /\ Entered(Append(kept, match), Enter(match, t))
<1> HIDE DEF Matches
<1>1. AllUnlike(Append(kept, match))
  BY AppendFacts DEF AllUnlike, IsNew, Entered
<1>2. Entered(Append(kept, match), Enter(match, t))
  BY AppendFacts DEF Entered, Enter
<1> QED  BY <1>1, <1>2

\* As long as excerpts are missing, each one kept is written, and none after.
LEMMA AppendFirst ==
  ASSUME NEW kept \in Seq(Matches), NEW written \in Seq(Matches), NEW match \in Matches,
         FirstOf(written, kept)
  PROVE  FirstOf(IF Len(kept) < num_excerpts THEN Append(written, match) ELSE written,
                 Append(kept, match))
<1> HIDE DEF Matches
<1>1. CASE Len(kept) < num_excerpts
  BY <1>1, AppendFacts, NumExcerptsAssumption DEF FirstOf, Fewer
<1>2. CASE ~(Len(kept) < num_excerpts)
  BY <1>2, AppendFacts, NumExcerptsAssumption DEF FirstOf, Fewer
<1> QED  BY <1>1, <1>2

LEMMA ShuffleFacts ==
  ASSUME NEW kept \in Seq(Matches), NEW shuffled \in Filter!Arrangements(kept)
  PROVE  /\ shuffled \in Seq(Matches)
         /\ Len(shuffled) = Len(kept)
         /\ \A t : Entered(kept, t) => Entered(shuffled, t)
         /\ AllUnlike(kept) => AllUnlike(shuffled)
         /\ SubSeq(shuffled, 1, Fewer(Len(kept))) \in Seq(Matches)
         /\ FirstOf(SubSeq(shuffled, 1, Fewer(Len(kept))), shuffled)
<1> HIDE DEF Matches
<1>1. PICK f \in [DOMAIN kept -> DOMAIN kept] :
        /\ \A j, k \in DOMAIN kept : f[j] = f[k] => j = k
        /\ shuffled = [k \in DOMAIN kept |-> kept[f[k]]]
  BY DEF Filter!Arrangements, Filter!Bijection, Filter!Injection, Filter!IsInjective
<1>2. DOMAIN kept = 1..Len(kept) /\ Len(kept) \in Nat /\ \A k \in 1..Len(kept) : kept[k] \in Matches
  BY ElementOfSeq
<1>3. /\ shuffled \in [1..Len(kept) -> Matches]
      /\ \A j, k \in 1..Len(kept) : f[j] = f[k] => j = k
  BY <1>1, <1>2 
<1>4. shuffled \in Seq(Matches) /\ Len(shuffled) = Len(kept) /\ DOMAIN shuffled = 1..Len(kept)
  BY <1>2, <1>3, IsASeq, LenProperties
<1>5. \A t : Entered(kept, t) => Entered(shuffled, t)
  BY <1>1, <1>2, <1>4 DEF Entered
<1>6. AllUnlike(kept) => AllUnlike(shuffled)
  BY <1>1, <1>2, <1>3, <1>4 DEF AllUnlike
<1>7. Fewer(Len(kept)) \in 0..Len(kept)
  BY <1>2, NumExcerptsAssumption DEF Fewer
<1>8. /\ SubSeq(shuffled, 1, Fewer(Len(kept))) \in Seq(Matches)
      /\ Len(SubSeq(shuffled, 1, Fewer(Len(kept)))) = Fewer(Len(kept))
      /\ \A k \in 1..Fewer(Len(kept)) : SubSeq(shuffled, 1, Fewer(Len(kept)))[k] = shuffled[k]
  BY <1>2, <1>4, <1>7, SubSeqProperties
<1> QED  BY <1>4, <1>5, <1>6, <1>8 DEF FirstOf

\* Only Examine keeps excerpts, and only Finish changes them.
LEMMA TypeStep ==
  ASSUME TypeInv, [Next]_vars
  PROVE  TypeInv'
<1> USE DEF filter, files, tables, vars
<1>1. CASE FilterStep
  BY <1>1 DEF TypeInv, FilterStep
<1>2. CASE MissingFile \/ CorruptFile
  BY <1>2 DEF TypeInv, MissingFile, CorruptFile, NextFile
<1>3. ASSUME NEW content \in Files, OpenFile(content) PROVE TypeInv'
  <2>1. content \in Seq(Program)
    BY <1>3, FilesAssumption DEF Program
  <2>2. /\ UNCHANGED <<random, m, excerpts, random_excerpts, sum>>
        /\ programs' = content /\ p' = 1 /\ pc' = "programs"
    BY <1>3 DEF OpenFile
  <2> QED  BY <2>1, <2>2 DEF TypeInv
<1>4. CASE SkipProgram \/ ProgramWithoutMatch
  <2>1. /\ UNCHANGED <<random, programs, m, excerpts, random_excerpts, sum, pc>>
        /\ pc = "programs" /\ p' = p + 1
    BY <1>4 DEF SkipProgram, ProgramWithoutMatch, NextProgram
  <2> QED  BY <2>1 DEF TypeInv
<1>5. CASE ProgramWithMatches
  <2>1. /\ UNCHANGED <<random, programs, p, excerpts, random_excerpts, sum>>
        /\ p <= Len(programs) /\ m' = 1 /\ pc' = "matches"
    BY <1>5 DEF ProgramWithMatches, NextProgram
  <2> QED  BY <2>1 DEF TypeInv
<1>6. CASE Examine
  <2> DEFINE match == programs[p].matches[m]
  <2>1. match \in Matches
    BY <1>6, MatchAtHand DEF Examine
  <2> HIDE DEF Matches, match
  <2>2. /\ excerpts' \in {excerpts, Append(excerpts, match)}
        /\ random_excerpts' \in {random_excerpts, Append(random_excerpts, match)}
        /\ sum' \in {sum, [sum EXCEPT !.contexts = @ + 1]}
    BY <1>6 DEF Examine, match
  <2>3. /\ excerpts' \in Seq(Matches) /\ random_excerpts' \in Seq(Matches)
        /\ "contexts" \in DOMAIN sum' /\ sum'.contexts \in Nat
    <3>1. excerpts \in Seq(Matches) /\ random_excerpts \in Seq(Matches)
      BY DEF TypeInv
    <3>2. excerpts' \in Seq(Matches) /\ random_excerpts' \in Seq(Matches)
      <4>1. Append(excerpts, match) \in Seq(Matches) /\ Append(random_excerpts, match) \in Seq(Matches)
        BY <2>1, <3>1, AppendFacts
      <4> QED  BY <2>2, <3>1, <4>1
    <3>3. "contexts" \in DOMAIN sum' /\ sum'.contexts \in Nat
      BY <2>2 DEF TypeInv
    <3> QED  BY <3>2, <3>3
  <2>4. random' = random /\ programs' = programs /\ p' = p /\ m' = m + 1 /\ pc' = pc
    BY <1>6 DEF Examine
  <2> QED  BY <2>3, <2>4 DEF TypeInv
<1>7. CASE EndOfProgram
  BY <1>7 DEF TypeInv, EndOfProgram
<1>8. CASE EndOfFile
  <2>1. /\ UNCHANGED <<random, p, m, excerpts, random_excerpts>>
        /\ programs' = <<>> /\ pc' = "files"
        /\ sum' = [f \in DOMAIN sum |-> IF f = "contexts" THEN sum[f] ELSE sum[f] + cnt[f]]
    BY <1>8 DEF EndOfFile
  <2>2. "contexts" \in DOMAIN sum' /\ sum'.contexts = sum.contexts
    BY <2>1 DEF TypeInv
  <2> QED  BY <2>1, <2>2 DEF TypeInv
<1>9. CASE Finish
  <2>1. /\ UNCHANGED <<random, programs, p, m, sum>>
        /\ pc' = "output"
        /\ \/ UNCHANGED <<excerpts, random_excerpts>>
           \/ /\ excerpts' \in Filter!Arrangements(excerpts)
              /\ random_excerpts' = SubSeq(excerpts', 1, Fewer(Len(excerpts)))
    BY <1>9, Zenon DEF Finish
  <2>2. excerpts' \in Seq(Matches) /\ random_excerpts' \in Seq(Matches)
    BY <2>1, ShuffleFacts DEF TypeInv
  <2> QED  BY <2>1, <2>2 DEF TypeInv
<1>10. CASE Output
  BY <1>10 DEF TypeInv, Output
<1>11. CASE UNCHANGED vars
  BY <1>11 DEF TypeInv
<1> QED
  BY <1>1, <1>2, <1>3, <1>4, <1>5, <1>6, <1>7, <1>8, <1>9, <1>10, <1>11 DEF Next

LEMMA ExcerptStep ==
  ASSUME Inv, [Next]_vars
  PROVE  ExcerptInv'
<1> USE DEF filter, files, tables, vars
<1>1. CASE Examine
  <2> DEFINE match == programs[p].matches[m]
             isNew == IsNew(match, total)
  <2>1. match \in Matches
    BY <1>1, MatchAtHand DEF Examine, Inv
  <2> HIDE DEF Matches, match
  <2>2. /\ UNCHANGED <<random, pc>> /\ ~AtEnd
        /\ total' = Enter(match, total)
        /\ \/ UNCHANGED <<sum, excerpts, random_excerpts>>
           \/ /\ isNew
              /\ sum' \in {sum, [sum EXCEPT !.contexts = @ + 1]}
              /\ excerpts' = Append(excerpts, match)
              /\ random_excerpts' = IF random /\ Len(excerpts) < num_excerpts
                                    THEN Append(random_excerpts, match) ELSE random_excerpts
    BY <1>1 DEF Examine, WritesExcerpt, AtEnd, match
  <2>3. excerpts \in Seq(Matches) /\ random_excerpts \in Seq(Matches)
    BY DEF Inv, TypeInv
  <2>4. CASE UNCHANGED <<sum, excerpts, random_excerpts>>
    BY <2>2, <2>4 DEF Inv, ExcerptInv, AtEnd, Entered, Enter
  <2>5. CASE /\ isNew
             /\ sum' \in {sum, [sum EXCEPT !.contexts = @ + 1]}
             /\ excerpts' = Append(excerpts, match)
             /\ random_excerpts' = IF random /\ Len(excerpts) < num_excerpts
                                   THEN Append(random_excerpts, match) ELSE random_excerpts
    <3>1. AllUnlike(excerpts') /\ Entered(excerpts', total')
      BY <2>1, <2>2, <2>3, <2>5, AppendUnlike DEF Inv, ExcerptInv
    <3>2. sum'.contexts <= Len(excerpts')
      BY <2>1, <2>3, <2>5, AppendFacts DEF Inv, TypeInv, ExcerptInv
    <3>3. random => FirstOf(random_excerpts', excerpts')
      BY <2>1, <2>3, <2>5, AppendFirst DEF Inv, ExcerptInv
    <3> QED  BY <2>2, <3>1, <3>2, <3>3 DEF ExcerptInv, AtEnd
  <2> QED  BY <2>2, <2>4, <2>5
<1>2. CASE Finish
  <2>1. /\ UNCHANGED <<random, total, sum>>
        /\ \/ random /\ UNCHANGED <<excerpts, random_excerpts>>
           \/ /\ excerpts' \in Filter!Arrangements(excerpts)
              /\ random_excerpts' = SubSeq(excerpts', 1, Fewer(Len(excerpts)))
    BY <1>2, Zenon DEF Finish
  <2>2. CASE random /\ UNCHANGED <<excerpts, random_excerpts>>
    BY <2>1, <2>2 DEF Inv, ExcerptInv
  <2>3. CASE /\ excerpts' \in Filter!Arrangements(excerpts)
             /\ random_excerpts' = SubSeq(excerpts', 1, Fewer(Len(excerpts)))
    BY <2>1, <2>3, ShuffleFacts DEF Inv, TypeInv, ExcerptInv
  <2> QED  BY <2>1, <2>2, <2>3
<1>3. CASE EndOfFile
  <2>1. /\ UNCHANGED <<random, total, excerpts, random_excerpts>>
        /\ pc = "programs" /\ pc' = "files"
        /\ sum' = [f \in DOMAIN sum |-> IF f = "contexts" THEN sum[f] ELSE sum[f] + cnt[f]]
    BY <1>3 DEF EndOfFile
  <2>2. sum'.contexts = sum.contexts
    BY <2>1 DEF Inv, TypeInv
  <2> QED  BY <2>1, <2>2 DEF Inv, ExcerptInv, AtEnd
<1>4. ASSUME UNCHANGED <<random, total, sum, excerpts, random_excerpts>>, AtEnd' => AtEnd
      PROVE  ExcerptInv'
  BY <1>4 DEF Inv, ExcerptInv
<1>5. \/ Examine \/ Finish \/ EndOfFile
      \/ UNCHANGED <<random, total, sum, excerpts, random_excerpts>> /\ (AtEnd' => AtEnd)
  BY DEF Next, FilterStep, MissingFile, CorruptFile, OpenFile, SkipProgram, ProgramWithoutMatch,
         ProgramWithMatches, EndOfProgram, Output, AtEnd
<1> QED  BY <1>1, <1>2, <1>3, <1>4, <1>5

\* Types, and what tables, counts and files of excerpts say of one another.
THEOREM InvCorrect == Spec => []Inv
<1>1. Inv /\ [Next]_vars => Inv'
  BY TypeStep, ExcerptStep DEF Inv
<1> QED  BY <1>1, InitInv, PTL DEF Spec

\* "only add excerpts with new completely new hashes": for all ranges of files,
\* in date order or shuffled, no two excerpts share a side, there are at least
\* as many as contexts, and those written are as many as asked for, none twice.
THEOREM ExcerptsAreAllNew == Spec => []ExcerptsAreNew
<1>1. ASSUME Inv PROVE ExcerptsAreNew
  <2>1. /\ excerpts \in Seq(Matches) /\ random_excerpts \in Seq(Matches)
        /\ AllUnlike(excerpts) /\ sum.contexts <= Len(excerpts)
    BY <1>1 DEF Inv, TypeInv, ExcerptInv
  <2>2. ASSUME pc \in {"output", "done"}
        PROVE  /\ Len(random_excerpts) = Fewer(Len(excerpts))
               /\ ToSet(random_excerpts) \subseteq ToSet(excerpts)
               /\ IsInjective(random_excerpts)
    <3> HIDE DEF Matches
    <3>1. FirstOf(random_excerpts, excerpts)
      BY <1>1, <2>2 DEF Inv, ExcerptInv, AtEnd
    <3>2. /\ DOMAIN random_excerpts = 1..Len(random_excerpts) /\ DOMAIN excerpts = 1..Len(excerpts)
          /\ Len(random_excerpts) \in Nat /\ Len(excerpts) \in Nat
          /\ Len(random_excerpts) <= Len(excerpts)
      BY <2>1, <3>1, NumExcerptsAssumption DEF FirstOf, Fewer
    <3>3. \A k \in DOMAIN random_excerpts : k \in DOMAIN excerpts /\ random_excerpts[k] = excerpts[k]
      BY <3>1, <3>2 DEF FirstOf
    <3>4. ToSet(random_excerpts) \subseteq ToSet(excerpts)
      BY <3>3 DEF ToSet
    <3>5. IsInjective(random_excerpts)
      BY <2>1, <3>3 DEF AllUnlike, IsInjective
    <3> QED  BY <3>1, <3>4, <3>5 DEF FirstOf
  <2> QED  BY <2>1, <2>2 DEF ExcerptsAreNew
<1> QED  BY <1>1, InvCorrect, PTL

------------------------------------------------------------------------------
(* The program filter. *)

\* A name or a title.
Name == Seq(Int)

LEMMA NameFacts ==
  ASSUME NEW s \in Name
  PROVE  Len(s) \in Nat /\ DOMAIN s = 1..Len(s) /\ \A k \in 1..Len(s) : s[k] \in Int
<1>1. Len(s) \in Nat /\ DOMAIN s = 1..Len(s) /\ s \in [1..Len(s) -> Int]
  BY LenProperties DEF Name
<1> QED  BY <1>1

LEMMA SameName ==
  ASSUME NEW s \in Name, NEW t \in Name, Len(s) = Len(t), \A k \in 1..Len(s) : s[k] = t[k]
  PROVE  s = t
BY SeqEqual DEF Name

LEMMA PrefixMeans ==
  ASSUME NEW s \in Name, NEW t \in Name
  PROVE  Filter!IsPrefix(s, t) <=> Len(s) <= Len(t) /\ \A k \in 1..Len(s) : s[k] = t[k]
<1>1. Len(s) \in Nat /\ Len(t) \in Nat /\ \A k \in 1..Len(s) : s[k] \in Int
  BY NameFacts
<1>2. CASE Len(s) <= Len(t)
  <2> DEFINE n == Len(s)
             S == SubSeq(s, 1, n)
             T == SubSeq(t, 1, n)
  <2>1. \A k \in 1..n : s[k] \in Int /\ t[k] \in Int
    BY <1>1, <1>2, NameFacts
  <2>2. n \in Int /\ 1 \in Int /\ (IF 1 <= n THEN n - 1 + 1 ELSE 0) = n /\ n - 1 + 1 = n
    BY <1>1
  <2>a. \A k \in 1..n : 1 + k - 1 = k
    BY <1>1
  <2> HIDE DEF n
  <2>3. S \in Name /\ Len(S) = n /\ \A k \in 1..n : S[k] = s[k]
    BY <2>1, <2>2, <2>a, SubSeqProperties DEF Name
  <2>4. T \in Name /\ Len(T) = n /\ \A k \in 1..n : T[k] = t[k]
    BY <2>1, <2>2, <2>a, SubSeqProperties DEF Name
  <2> HIDE DEF S, T
  <2>5. S = T <=> \A k \in 1..n : s[k] = t[k]
    BY <2>3, <2>4, SameName
  <2> QED  BY <1>2, <2>5 DEF Filter!IsPrefix, n, S, T
<1>3. CASE ~(Len(s) <= Len(t))
  BY <1>3 DEF Filter!IsPrefix
<1> QED  BY <1>2, <1>3

\* A name is not above the names and titles that begin with it.
LEMMA NotLessThanPrefix ==
  ASSUME NEW s \in Name, NEW t \in Name, Filter!IsPrefix(s, t)
  PROVE  ~Filter!Less(t, s)
<1>1. /\ Len(s) \in Nat /\ Len(t) \in Nat /\ DOMAIN s = 1..Len(s) /\ DOMAIN t = 1..Len(t)
      /\ \A k \in 1..Len(s) : s[k] \in Int
  BY NameFacts
<1>2. Len(s) <= Len(t) /\ \A k \in 1..Len(s) : s[k] = t[k]
  BY PrefixMeans
<1>3. ~Filter!IsStrictPrefix(t, s)
  <2> SUFFICES ASSUME Filter!IsPrefix(t, s) PROVE s = t
    BY DEF Filter!IsStrictPrefix
  <2>1. Len(t) <= Len(s)
    BY PrefixMeans
  <2> QED  BY <1>1, <1>2, <2>1, SameName
<1>4. ASSUME NEW k \in DOMAIN t \cap DOMAIN s PROVE ~(t[k] < s[k])
  <2>1. s[k] = t[k] /\ s[k] \in Int
    BY <1>1, <1>2
  <2> QED  BY <2>1
<1> QED  BY <1>3, <1>4 DEF Filter!Less

\* The names that begin with s stand one behind the other.
LEMMA PrefixesAreTogether ==
  ASSUME NEW s \in Name, NEW b \in Name, NEW t \in Name,
         ~Filter!Less(b, s), ~Filter!Less(t, b), Filter!IsPrefix(s, t)
  PROVE  Filter!IsPrefix(s, b)
<1>1. /\ Len(s) \in Nat /\ DOMAIN s = 1..Len(s)
      /\ Len(b) \in Nat /\ DOMAIN b = 1..Len(b)
      /\ Len(t) \in Nat /\ DOMAIN t = 1..Len(t)
      /\ (\A k \in 1..Len(s) : s[k] \in Int) /\ \A k \in 1..Len(b) : b[k] \in Int
  BY NameFacts
<1>2. Len(s) <= Len(t) /\ \A k \in 1..Len(s) : s[k] = t[k]
  BY PrefixMeans
<1> DEFINE D == {k \in DOMAIN s \cap DOMAIN b : s[k] # b[k]}
<1>3. CASE D = {}
  <2>1. \A k \in DOMAIN s \cap DOMAIN b : s[k] = b[k]
    BY <1>3
  <2>2. CASE Len(s) <= Len(b)
    BY <1>1, <2>1, <2>2, PrefixMeans
  <2>3. CASE Len(b) < Len(s)
    <3>0. \A k \in 1..Len(b) : b[k] = s[k]
      BY <1>1, <2>1, <2>3
    <3>1. Filter!IsPrefix(b, s)
      BY <1>1, <2>3, <3>0, PrefixMeans
    <3>2. Filter!IsStrictPrefix(b, s)
      BY <2>3, <3>1, <1>1 DEF Filter!IsStrictPrefix
    <3> QED  BY <3>2 DEF Filter!Less
  <2> QED  BY <1>1, <2>2, <2>3
<1>4. CASE D # {}
  <2>1. PICK d \in D : \A k \in D : d <= k
    <3>1. D \subseteq Nat
      BY <1>1
    <3> HIDE DEF D
    <3> QED  BY <1>4, <3>1, LeastNumber
  <2>2. d \in DOMAIN s /\ d \in DOMAIN b /\ d \in DOMAIN t /\ s[d] # b[d] /\ d \in Nat
    BY <1>1, <1>2
  <2>3. s[d] \in Int /\ b[d] \in Int /\ t[d] = s[d]
    BY <1>1, <1>2, <2>2
  <2>4. ASSUME NEW j \in 1..(d - 1) PROVE b[j] = s[j] /\ t[j] = b[j]
    <3>1. j \in DOMAIN s /\ j \in DOMAIN b /\ ~(d <= j)
      BY <1>1, <2>2
    <3>2. b[j] = s[j]
      BY <2>1, <3>1
    <3> QED  BY <1>1, <1>2, <3>1, <3>2
  <2>5. ~(b[d] < s[d])
    BY <2>2, <2>4 DEF Filter!Less
  <2>6. ~(t[d] < b[d])
    BY <2>2, <2>4 DEF Filter!Less
  <2> QED  BY <2>2, <2>3, <2>5, <2>6
<1> QED  BY <1>3, <1>4

------------------------------------------------------------------------------
(* The list of names is sorted, and each name before i begins with one that *)
(* was kept; of the names kept, none begins with another.                   *)

Listed == DOMAIN program_list
Kept == DOMAIN filtered_program_list

FilterInv ==
  /\ entered \in Seq(Name) /\ program_list \in Seq(Name) /\ filtered_program_list \in Seq(Name)
  /\ i \in Nat \ {0}
  /\ filter_pc \in {"start", "loop", "done"}
  /\ \A k \in Listed : \E j \in DOMAIN entered : program_list[k] = entered[j]
  /\ \A j \in DOMAIN entered : \E k \in Listed : program_list[k] = entered[j]
  /\ filter_pc = "start" => filtered_program_list = <<>> /\ i = 1
  /\ filter_pc # "start" => \A j, k \in Listed : j < k => ~Filter!Less(program_list[k], program_list[j])
  /\ filter_pc = "loop" => program_list # <<>> /\ filtered_program_list # <<>>
  /\ filter_pc = "done" => i > Len(program_list)
  /\ \A k \in Kept : \E j \in Listed : j < i /\ filtered_program_list[k] = program_list[j]
  /\ \A j \in Listed : j < i =>
       \E k \in Kept : Filter!IsPrefix(filtered_program_list[k], program_list[j])
  /\ \A j, k \in Kept : j < k =>
       /\ ~Filter!Less(filtered_program_list[k], filtered_program_list[j])
       /\ ~Filter!IsPrefix(filtered_program_list[j], filtered_program_list[k])

LEMMA FilterInit == Init => FilterInv
<1> SUFFICES ASSUME Init PROVE FilterInv
  OBVIOUS
<1>1. /\ query \in Queries /\ entered = query.names /\ program_list = entered /\ i = 1
      /\ filtered_program_list = <<>> /\ filter_pc = "start"
  BY Zenon DEF Init, Filter!Init
<1>2. entered \in Seq(Name)
  BY <1>1, NamesAssumption DEF Name
<1>3. DOMAIN entered = 1..Len(entered) /\ Len(entered) \in Nat
  BY <1>2, LenProperties
<1>4. <<>> \in Seq(Name) /\ DOMAIN <<>> = {}
  OBVIOUS
<1> QED  BY <1>1, <1>2, <1>3, <1>4 DEF FilterInv, Listed, Kept

LEMMA SortedFacts ==
  ASSUME NEW s \in Seq(Name), NEW t \in Filter!Sorted(s)
  PROVE  /\ t \in Seq(Name) /\ Len(t) = Len(s)
         /\ \A k \in DOMAIN t : \E j \in DOMAIN s : t[k] = s[j]
         /\ \A j \in DOMAIN s : \E k \in DOMAIN t : t[k] = s[j]
         /\ \A j, k \in DOMAIN t : j < k => ~Filter!Less(t[k], t[j])
<1>1. PICK f \in [DOMAIN s -> DOMAIN s] :
        /\ \A j \in DOMAIN s : \E k \in DOMAIN s : f[k] = j
        /\ t = [k \in DOMAIN s |-> s[f[k]]]
  BY DEF Filter!Sorted, Filter!Arrangements, Filter!Bijection, Filter!Surjection
<1>2. DOMAIN s = 1..Len(s) /\ Len(s) \in Nat /\ s \in [1..Len(s) -> Name]
  BY LenProperties
<1>3. t \in [1..Len(s) -> Name]
  BY <1>1, <1>2
<1>4. t \in Seq(Name) /\ Len(t) = Len(s)
  BY <1>2, <1>3
<1> QED  BY <1>1, <1>4 DEF Filter!Sorted

LEMMA KeepFrontStep ==
  ASSUME FilterInv, Filter!KeepFront
  PROVE  FilterInv'
<1>1. /\ filter_pc = "start" /\ program_list # <<>> /\ program_list' \in Filter!Sorted(program_list)
      /\ filtered_program_list' = <<Head(program_list')>> /\ i' = 2 /\ filter_pc' = "loop"
      /\ entered' = entered
  BY DEF Filter!KeepFront
<1>2. /\ program_list' \in Seq(Name) /\ Len(program_list') = Len(program_list)
      /\ \A k \in Listed' : \E j \in Listed : program_list'[k] = program_list[j]
      /\ \A j \in Listed : \E k \in Listed' : program_list'[k] = program_list[j]
      /\ \A j, k \in Listed' : j < k => ~Filter!Less(program_list'[k], program_list'[j])
  BY <1>1, SortedFacts DEF FilterInv, Listed
<1>3. Len(program_list') \in Nat \ {0} /\ program_list' # <<>>
  BY <1>1, <1>2, EmptySeq DEF FilterInv
<1>4. Listed' = 1..Len(program_list')
  BY <1>2, LenProperties DEF Listed
<1>5. 1 \in Listed' /\ Head(program_list') = program_list'[1] /\ program_list'[1] \in Name
  BY <1>2, <1>3, <1>4, ElementOfSeq, HeadTailProperties
<1>6. /\ filtered_program_list' \in Seq(Name) /\ filtered_program_list' # <<>>
      /\ Kept' = {1} /\ filtered_program_list'[1] = program_list'[1]
  BY <1>1, <1>5 DEF Kept
<1>7. Filter!IsPrefix(program_list'[1], program_list'[1])
  <2>1. Len(program_list'[1]) \in Nat
    BY <1>5, NameFacts
  <2> QED  BY <1>5, <2>1, PrefixMeans
<1>8. \A j \in Listed' : j < i' => j = 1
  BY <1>1, <1>4
<1>9. /\ \A k \in Listed' : \E j \in DOMAIN entered' : program_list'[k] = entered'[j]
      /\ \A j \in DOMAIN entered' : \E k \in Listed' : program_list'[k] = entered'[j]
  <2>1. ASSUME NEW k \in Listed' PROVE \E j \in DOMAIN entered : program_list'[k] = entered[j]
    <3>1. PICK n \in Listed : program_list'[k] = program_list[n]
      BY <1>2
    <3> QED  BY <3>1 DEF FilterInv
  <2>2. ASSUME NEW j \in DOMAIN entered PROVE \E k \in Listed' : program_list'[k] = entered[j]
    <3>1. PICK n \in Listed : program_list[n] = entered[j]
      BY DEF FilterInv
    <3>2. PICK k \in Listed' : program_list'[k] = program_list[n]
      BY <1>2
    <3> QED  BY <3>1, <3>2
  <2> QED  BY <1>1, <2>1, <2>2
<1>10. \A k \in Kept' : \E j \in Listed' : j < i' /\ filtered_program_list'[k] = program_list'[j]
  BY <1>1, <1>5, <1>6
<1>11. \A j \in Listed' : j < i' =>
         \E k \in Kept' : Filter!IsPrefix(filtered_program_list'[k], program_list'[j])
  BY <1>6, <1>7, <1>8
<1>12. \A j, k \in Kept' : ~(j < k)
  BY <1>6
<1>13. entered' \in Seq(Name) /\ i' \in Nat \ {0}
  BY <1>1 DEF FilterInv
<1> QED  BY <1>1, <1>2, <1>3, <1>6, <1>9, <1>10, <1>11, <1>12, <1>13 DEF FilterInv

LEMMA NextNameStep ==
  ASSUME FilterInv, Filter!Keep \/ Filter!Drop
  PROVE  FilterInv'
<1> DEFINE f == filtered_program_list
           x == program_list[i]
<1>1. /\ filter_pc = "loop" /\ i <= Len(program_list) /\ i' = i + 1
      /\ UNCHANGED <<entered, program_list, filter_pc>>
      /\ \/ ~Filter!IsPrefix(f[Len(f)], x) /\ f' = Append(f, x)
         \/ Filter!IsPrefix(f[Len(f)], x) /\ f' = f
  BY DEF Filter!Keep, Filter!Drop, Filter!NextName, Filter!BeginsWithLastKept, Filter!Last
<1>2. /\ f \in Seq(Name) /\ Len(f) \in Nat \ {0} /\ Kept = 1..Len(f)
      /\ program_list \in Seq(Name) /\ Listed = 1..Len(program_list) /\ Len(program_list) \in Nat
      /\ i \in Nat \ {0} /\ i \in Listed
  BY <1>1, EmptySeq, LenProperties DEF FilterInv, Kept, Listed
<1>3. /\ x \in Name /\ \A k \in Kept : f[k] \in Name
      /\ Len(f) \in Kept
  BY <1>2, ElementOfSeq
<1>4. ASSUME NEW k \in Kept PROVE ~Filter!Less(x, f[k])
  <2>1. PICK j \in Listed : j < i /\ f[k] = program_list[j]
    BY DEF FilterInv
  <2> QED  BY <1>1, <1>2, <2>1 DEF FilterInv
<1>5. \A k \in Listed : k < i' <=> k < i \/ k = i
  BY <1>1, <1>2
<1> HIDE DEF x
<1>6. CASE ~Filter!IsPrefix(f[Len(f)], x) /\ f' = Append(f, x)
  <2>1. /\ f' \in Seq(Name) /\ f' # <<>> /\ Len(f') = Len(f) + 1 /\ Kept' = 1..(Len(f) + 1)
        /\ f'[Len(f) + 1] = x /\ \A k \in Kept : f'[k] = f[k]
    <3>1. Append(f, x) \in Seq(Name) /\ Append(f, x) # <<>> /\ Len(Append(f, x)) = Len(f) + 1
          /\ Append(f, x)[Len(f) + 1] = x /\ \A k \in Kept : Append(f, x)[k] = f[k]
      BY <1>2, <1>3, AppendProperties
    <3>2. DOMAIN Append(f, x) = 1..(Len(f) + 1)
      BY <3>1, LenProperties
    <3> QED  BY <1>6, <3>1, <3>2 DEF Kept
  <2>2. Kept' = Kept \cup {Len(f) + 1} /\ \A k \in Kept : k < Len(f) + 1
    BY <1>2, <2>1
  <2>3. ASSUME NEW j \in Kept PROVE ~Filter!IsPrefix(f[j], x)
    <3>1. CASE j = Len(f)
      BY <1>6, <3>1
    <3>2. CASE j < Len(f)
      <4>1. ~Filter!Less(f[Len(f)], f[j]) /\ ~Filter!IsPrefix(f[j], f[Len(f)])
        BY <1>3, <3>2 DEF FilterInv
      <4> QED  BY <1>3, <1>4, <4>1, PrefixesAreTogether
    <3> QED  BY <1>2, <3>1, <3>2
  <2>4. \A k \in Kept' : \E j \in Listed : j < i' /\ f'[k] = program_list[j]
    <3>1. ASSUME NEW k \in Kept PROVE \E j \in Listed : j < i' /\ f'[k] = program_list[j]
      BY <1>5, <2>1 DEF FilterInv
    <3>2. i < i' /\ f'[Len(f) + 1] = program_list[i]
      BY <1>1, <1>2, <2>1 DEF x
    <3> QED  BY <1>2, <2>2, <3>1, <3>2
  <2>5. \A j \in Listed : j < i' => \E k \in Kept' : Filter!IsPrefix(f'[k], program_list[j])
    <3>1. ASSUME NEW j \in Listed, j < i
          PROVE  \E k \in Kept' : Filter!IsPrefix(f'[k], program_list[j])
      BY <2>1, <2>2, <3>1 DEF FilterInv
    <3>2. Filter!IsPrefix(x, x)
      <4>1. Len(x) \in Nat
        BY <1>3, NameFacts
      <4> QED  BY <1>3, <4>1, PrefixMeans
    <3>3. Len(f) + 1 \in Kept' /\ Filter!IsPrefix(f'[Len(f) + 1], program_list[i])
      BY <2>1, <2>2, <3>2 DEF x
    <3> QED  BY <1>5, <3>1, <3>3
  <2>6. ASSUME NEW j \in Kept', NEW k \in Kept', j < k
        PROVE  ~Filter!Less(f'[k], f'[j]) /\ ~Filter!IsPrefix(f'[j], f'[k])
    <3>1. j \in Kept
      BY <1>2, <2>1, <2>6
    <3>2. CASE k \in Kept
      BY <2>1, <2>6, <3>1, <3>2 DEF FilterInv
    <3>3. CASE k = Len(f) + 1
      BY <1>4, <2>1, <2>3, <3>1, <3>3
    <3> QED  BY <2>2, <3>2, <3>3
  <2>7. Listed' = Listed /\ i' \in Nat \ {0} /\ filter_pc' = "loop"
    BY <1>1, <1>2 DEF Listed
  <2> QED  BY <1>1, <2>1, <2>4, <2>5, <2>6, <2>7 DEF FilterInv
<1>7. CASE Filter!IsPrefix(f[Len(f)], x) /\ f' = f
  <2>1. Listed' = Listed /\ Kept' = Kept /\ i' \in Nat \ {0} /\ filter_pc' = "loop"
    BY <1>1, <1>2, <1>7 DEF Listed, Kept
  <2>2. \A k \in Kept : \E j \in Listed : j < i' /\ f'[k] = program_list[j]
    BY <1>5, <1>7 DEF FilterInv
  <2>3. \A j \in Listed : j < i' => \E k \in Kept : Filter!IsPrefix(f'[k], program_list[j])
    BY <1>3, <1>5, <1>7 DEF FilterInv, x
  <2> QED  BY <1>1, <1>7, <2>1, <2>2, <2>3 DEF FilterInv
<1> QED  BY <1>1, <1>6, <1>7 DEF x

LEMMA FilterStepKeeps ==
  ASSUME FilterInv, [Next]_vars
  PROVE  FilterInv'
<1>1. CASE FilterStep
  <2>1. CASE Filter!EmptyList
    <3>1. /\ filter_pc = "start" /\ program_list = <<>> /\ filter_pc' = "done"
          /\ UNCHANGED <<entered, program_list, i, filtered_program_list>>
      BY <2>1 DEF Filter!EmptyList
    <3>2. i = 1 /\ Len(program_list) = 0 /\ Listed = {}
      BY <3>1 DEF FilterInv, Listed
    <3> QED  BY <3>1, <3>2 DEF FilterInv, Listed, Kept
  <2>2. CASE Filter!Return
    BY <2>2 DEF Filter!Return, FilterInv, Listed, Kept
  <2> QED  BY <1>1, <2>1, <2>2, KeepFrontStep, NextNameStep DEF FilterStep, Filter!Next
<1>2. CASE UNCHANGED <<entered, program_list, i, filtered_program_list, filter_pc>>
  BY <1>2 DEF FilterInv, Listed, Kept
<1> QED
  BY <1>1, <1>2 DEF Next, MissingFile, CorruptFile, OpenFile, SkipProgram, ProgramWithoutMatch,
     ProgramWithMatches, Examine, EndOfProgram, EndOfFile, Finish, Output, filter, vars

\* A title is selected if and only if it begins with a name of the list.
THEOREM FilterSelectsByPrefix == Spec => []SelectsByPrefix
<1>1. ASSUME FilterInv PROVE SelectsByPrefix
  <2> SUFFICES ASSUME filter_pc = "done", NEW title \in Titles
               PROVE  Filter!is_program_selected(title) <=>
                        \E n \in Filter!ToSet(entered) : Filter!IsPrefix(n, title)
    BY DEF SelectsByPrefix, Filter!SelectsByPrefix
  <2> DEFINE f == filtered_program_list
  <2>1. title \in Name
    BY NamesAssumption DEF Name
  <2>2. /\ f \in Seq(Name) /\ Kept = 1..Len(f) /\ Len(f) \in Nat /\ Kept = DOMAIN f
        /\ program_list \in Seq(Name) /\ Listed = 1..Len(program_list) /\ Len(program_list) \in Nat
    BY <1>1, LenProperties DEF FilterInv, Kept, Listed
  <2>3. (\A k \in Kept : f[k] \in Name) /\ \A j \in Listed : program_list[j] \in Name /\ j < i
    <3>1. i \in Nat /\ i > Len(program_list)
      BY <1>1 DEF FilterInv
    <3>2. \A j \in Listed : j < i
      BY <2>2, <3>1
    <3> QED  BY <2>2, <3>2, ElementOfSeq
  <2>4. ASSUME Filter!is_program_selected(title)
        PROVE  \E n \in Filter!ToSet(entered) : Filter!IsPrefix(n, title)
    <3>1. PICK k \in Kept : Filter!IsPrefix(f[k], title)
      BY <2>4 DEF Filter!is_program_selected, Kept
    <3>2. PICK j \in Listed : f[k] = program_list[j]
      BY <1>1 DEF FilterInv
    <3>3. \E n \in DOMAIN entered : f[k] = entered[n]
      BY <1>1, <3>2 DEF FilterInv
    <3> QED  BY <3>1, <3>3 DEF Filter!ToSet
  <2>5. ASSUME NEW n \in Filter!ToSet(entered), Filter!IsPrefix(n, title)
        PROVE  Filter!is_program_selected(title)
    <3>1. PICK j \in Listed : program_list[j] = n
      BY <1>1 DEF FilterInv, Filter!ToSet
    <3>2. PICK k \in Kept : Filter!IsPrefix(f[k], n)
      BY <1>1, <2>3, <3>1 DEF FilterInv
    <3>3. Filter!IsPrefix(f[k], title)
      <4>1. n \in Name /\ f[k] \in Name
        BY <2>3, <3>1
      <4>2. Len(f[k]) \in Nat /\ Len(n) \in Nat /\ Len(title) \in Nat
        BY <2>1, <4>1, NameFacts
      <4>3. Len(f[k]) <= Len(n) /\ \A a \in 1..Len(f[k]) : f[k][a] = n[a]
        BY <3>2, <4>1, PrefixMeans
      <4>4. Len(n) <= Len(title) /\ \A a \in 1..Len(n) : n[a] = title[a]
        BY <2>1, <2>5, <4>1, PrefixMeans
      <4>5. Len(f[k]) <= Len(title) /\ \A a \in 1..Len(f[k]) : f[k][a] = title[a]
        BY <4>2, <4>3, <4>4
      <4> QED  BY <2>1, <4>1, <4>5, PrefixMeans
    <3> DEFINE notGreater == {l \in Kept : ~Filter!Less(title, f[l])}
    <3>4. k \in notGreater
      BY <2>1, <2>3, <3>3, NotLessThanPrefix
    <3>5. PICK l \in notGreater : \A g \in notGreater : g <= l
      <4>1. notGreater \in SUBSET (1..Len(f)) /\ notGreater # {}
        BY <2>2, <3>4
      <4> HIDE DEF notGreater
      <4> QED  BY <2>2, <4>1, GreatestNumber
    <3>6. k = l
      <4> SUFFICES ASSUME k # l PROVE FALSE
        OBVIOUS
      <4>1. k < l
        BY <2>2, <3>4, <3>5
      <4>2. ~Filter!Less(f[l], f[k]) /\ ~Filter!IsPrefix(f[k], f[l])
        BY <1>1, <3>5, <4>1 DEF FilterInv
      <4> QED  BY <2>1, <2>3, <3>3, <3>5, <4>2, PrefixesAreTogether
    <3> QED  BY <3>3, <3>4, <3>5, <3>6 DEF Filter!is_program_selected, Kept
  <2> QED  BY <2>4, <2>5
<1>2. FilterInv /\ [Next]_vars => FilterInv'
  BY FilterStepKeeps
<1> QED  BY <1>1, <1>2, FilterInit, PTL DEF Spec

------------------------------------------------------------------------------
(* That the rows account for the range.                                    *)

Counts == [contexts : Nat, programs : Nat, matches : Nat, selected : Nat, total : Nat]
Rows == [dt : Int, cnt : Counts]

FileIsOpen == pc \in {"programs", "matches"}

SumTypes ==
  /\ file_list \in Seq(Int) /\ it \in 1..(Len(file_list) + 1)
  /\ missing_files \in Seq(Int) /\ corrupt_files \in Seq(Int)
  /\ search_results \in Seq(Rows)
  /\ cnt \in Counts /\ sum \in Counts
  /\ context_added \in BOOLEAN /\ total_context_added \in BOOLEAN
  /\ FileIsOpen => it <= Len(file_list)

\* The files are the dates of the range, each once; at the end all are read.
FilesOfTheRange ==
  /\ IsInjective(file_list) /\ ToSet(file_list) = query.dates
  /\ AtEnd => it = Len(file_list) + 1
  /\ pc \in {"output", "done"} => Ascending(DatesOf(search_results))
  /\ pc = "crashed" => search_results = <<>>

\* The three lists hold different files, together all those passed.
Apart(a, b, c, all) ==
  /\ IsInjective(a) /\ IsInjective(b) /\ IsInjective(c)
  /\ ToSet(a) \cap ToSet(b) = {} /\ ToSet(a) \cap ToSet(c) = {} /\ ToSet(b) \cap ToSet(c) = {}
  /\ ToSet(a) \cup ToSet(b) \cup ToSet(c) = all
Passed(n) == {file_list[k] : k \in 1..(n - 1)}
ListsApart == Apart(DatesOf(search_results), missing_files, corrupt_files, Passed(it))

\* A day is added to the total when it is over.
CountsAddUp ==
  \A f \in {"programs", "matches", "selected", "total"} : sum[f] = Column(search_results, f)

\* While a file is open its contexts are in no row yet, and the program at hand
\* may count in the day and not yet in the range.
DayContexts ==
  Column(search_results, "contexts") + IF FileIsOpen THEN cnt.contexts ELSE 0
OnlyInDay == pc = "matches" /\ context_added /\ ~total_context_added

\* The tables of the range have an entry only after the first context.
ContextsAddUp ==
  /\ sum.contexts + (IF OnlyInDay THEN 1 ELSE 0) <= DayContexts
  /\ sum.contexts = 0 => total.left = {} /\ total.right = {} /\ DayContexts = 0
  /\ day.left \subseteq total.left /\ day.right \subseteq total.right
  /\ pc = "matches" /\ total_context_added => sum.contexts > 0 /\ context_added

RangeInv == SumTypes /\ FilesOfTheRange /\ ListsApart /\ CountsAddUp /\ ContextsAddUp

\* One element more in a list of different ones.
LEMMA AppendApart ==
  ASSUME NEW s \in Seq(Int), NEW x \in Int
  PROVE  /\ Append(s, x) \in Seq(Int)
         /\ ToSet(Append(s, x)) = ToSet(s) \cup {x}
         /\ IsInjective(s) /\ x \notin ToSet(s) => IsInjective(Append(s, x))
<1>1. /\ Append(s, x) \in Seq(Int)
      /\ Len(s) \in Nat /\ DOMAIN s = 1..Len(s) /\ DOMAIN Append(s, x) = 1..(Len(s) + 1)
      /\ \A k \in 1..Len(s) : Append(s, x)[k] = s[k]
      /\ Append(s, x)[Len(s) + 1] = x
  BY AppendFacts
<1>2. 1..(Len(s) + 1) = 1..Len(s) \cup {Len(s) + 1}
  BY <1>1
<1>3. ToSet(Append(s, x)) = ToSet(s) \cup {x}
  BY <1>1, <1>2 DEF ToSet
<1>4. ASSUME IsInjective(s), x \notin ToSet(s) PROVE IsInjective(Append(s, x))
  BY <1>1, <1>2, <1>4 DEF IsInjective, ToSet
<1> QED  BY <1>1, <1>3, <1>4

\* Two lists of different elements without a common one, put together.
LEMMA ConcatApart ==
  ASSUME NEW s \in Seq(Int), NEW t \in Seq(Int)
  PROVE  /\ s \o t \in Seq(Int)
         /\ ToSet(s \o t) = ToSet(s) \cup ToSet(t)
         /\ IsInjective(s) /\ IsInjective(t) /\ ToSet(s) \cap ToSet(t) = {} => IsInjective(s \o t)
<1>1. /\ s \o t \in Seq(Int) /\ Len(s) \in Nat /\ Len(t) \in Nat
      /\ DOMAIN s = 1..Len(s) /\ DOMAIN t = 1..Len(t) /\ DOMAIN (s \o t) = 1..(Len(s) + Len(t))
      /\ \A k \in 1..(Len(s) + Len(t)) : (s \o t)[k] = IF k <= Len(s) THEN s[k] ELSE t[k - Len(s)]
  BY ConcatProperties, LenProperties
<1> DEFINE u == s \o t
           n == Len(s)
<1> HIDE DEF u, n
<1>2. /\ n \in Nat /\ Len(t) \in Nat /\ DOMAIN s = 1..n /\ DOMAIN t = 1..Len(t) /\ DOMAIN u = 1..(n + Len(t))
      /\ \A k \in 1..(n + Len(t)) : u[k] = IF k <= n THEN s[k] ELSE t[k - n]
  BY <1>1 DEF u, n
<1>3. \A k \in 1..n : k \in DOMAIN u /\ u[k] = s[k]
  BY <1>2
<1>4. \A k \in 1..Len(t) : n + k \in DOMAIN u /\ u[n + k] = t[k]
  <2> SUFFICES ASSUME NEW k \in 1..Len(t) PROVE n + k \in DOMAIN u /\ u[n + k] = t[k]
    OBVIOUS
  <2>1. n + k \in 1..(n + Len(t)) /\ ~(n + k <= n) /\ n + k - n = k
    BY <1>2
  <2> QED  BY <1>2, <2>1
<1>5. \A k \in DOMAIN u : k \in 1..n \/ \E j \in 1..Len(t) : k = n + j
  <2> SUFFICES ASSUME NEW k \in DOMAIN u, k \notin 1..n PROVE \E j \in 1..Len(t) : k = n + j
    OBVIOUS
  <2>1. k - n \in 1..Len(t) /\ k = n + (k - n)
    BY <1>2
  <2> QED  BY <2>1
<1>6. ToSet(u) = ToSet(s) \cup ToSet(t)
  <2>1. ToSet(s) \subseteq ToSet(u)
    BY <1>2, <1>3 DEF ToSet
  <2>2. ToSet(t) \subseteq ToSet(u)
    BY <1>2, <1>4, ZenonT(30) DEF ToSet
  <2>3. ASSUME NEW k \in DOMAIN u PROVE u[k] \in ToSet(s) \cup ToSet(t)
    <3>1. CASE k \in 1..n
      BY <1>2, <1>3, <3>1 DEF ToSet
    <3>2. CASE k \notin 1..n
      <4>1. PICK j \in 1..Len(t) : k = n + j
        BY <1>5, <3>2
      <4> QED  BY <1>2, <1>4, <4>1 DEF ToSet
    <3> QED  BY <3>1, <3>2
  <2>4. ToSet(u) \subseteq ToSet(s) \cup ToSet(t)
    BY <2>3 DEF ToSet
  <2> QED  BY <2>1, <2>2, <2>4
<1>7. ASSUME IsInjective(s), IsInjective(t), ToSet(s) \cap ToSet(t) = {} PROVE IsInjective(u)
  <2> SUFFICES ASSUME NEW j \in DOMAIN u, NEW k \in DOMAIN u, u[j] = u[k] PROVE j = k
    BY DEF IsInjective
  <2>1. \A h \in 1..n, l \in 1..Len(t) : s[h] # t[l]
    BY <1>2, <1>7 DEF ToSet
  <2>2. CASE j \in 1..n /\ k \in 1..n
    BY <1>2, <1>3, <1>7, <2>2 DEF IsInjective
  <2>3. CASE j \in 1..n /\ k \notin 1..n
    <3>1. PICK l \in 1..Len(t) : k = n + l
      BY <1>5, <2>3
    <3> QED  BY <1>3, <1>4, <2>1, <2>3, <3>1
  <2>4. CASE j \notin 1..n /\ k \in 1..n
    <3>1. PICK l \in 1..Len(t) : j = n + l
      BY <1>5, <2>4
    <3> QED  BY <1>3, <1>4, <2>1, <2>4, <3>1
  <2>5. CASE j \notin 1..n /\ k \notin 1..n
    <3>1. PICK l \in 1..Len(t) : j = n + l
      BY <1>5, <2>5
    <3>2. PICK h \in 1..Len(t) : k = n + h
      BY <1>5, <2>5
    <3>3. t[l] = t[h]
      BY <1>4, <3>1, <3>2
    <3> QED  BY <1>2, <1>7, <3>1, <3>2, <3>3 DEF IsInjective
  <2> QED  BY <2>2, <2>3, <2>4, <2>5
<1> QED  BY <1>1, <1>6, <1>7 DEF u

Fields == {"contexts", "programs", "matches", "selected", "total"}

LEMMA RowFacts ==
  ASSUME NEW row \in Rows
  PROVE  row.dt \in Int /\ row.cnt \in Counts /\ \A f \in Fields : row.cnt[f] \in Nat
BY DEF Rows, Counts, Fields

\* The dates and the numbers of a column.
LEMMA RowsFacts ==
  ASSUME NEW rows \in Seq(Rows)
  PROVE  /\ Len(rows) \in Nat /\ DOMAIN rows = 1..Len(rows) /\ \A k \in 1..Len(rows) : rows[k] \in Rows
         /\ DatesOf(rows) \in Seq(Int) /\ Len(DatesOf(rows)) = Len(rows)
         /\ \A k \in 1..Len(rows) : DatesOf(rows)[k] = rows[k].dt
         /\ \A f \in Fields :
              LET x == [k \in DOMAIN rows |-> rows[k].cnt[f]]
              IN  x \in Seq(Int) /\ Len(x) = Len(rows) /\ Column(rows, f) \in Int
<1>1. Len(rows) \in Nat /\ DOMAIN rows = 1..Len(rows) /\ \A k \in 1..Len(rows) : rows[k] \in Rows
  BY ElementOfSeq, LenProperties
<1> HIDE DEF Rows
<1>2. DatesOf(rows) \in [1..Len(rows) -> Int]
  BY <1>1, RowFacts DEF DatesOf
<1>3. DatesOf(rows) \in Seq(Int) /\ Len(DatesOf(rows)) = Len(rows)
  BY <1>1, <1>2
<1>4. \A k \in 1..Len(rows) : DatesOf(rows)[k] = rows[k].dt
  BY <1>1 DEF DatesOf
<1>5. ASSUME NEW f \in Fields
      PROVE  LET x == [k \in DOMAIN rows |-> rows[k].cnt[f]]
             IN  x \in Seq(Int) /\ Len(x) = Len(rows) /\ Column(rows, f) \in Int
  <2> DEFINE x == [k \in DOMAIN rows |-> rows[k].cnt[f]]
  <2>1. \A k \in 1..Len(rows) : rows[k].cnt[f] \in Int
    BY <1>1, RowFacts
  <2>2. x \in [1..Len(rows) -> Int]
    BY <1>1, <2>1
  <2>3. Column(rows, f) = SumSeq(x)
    BY DEF Column
  <2> HIDE DEF x
  <2>4. x \in Seq(Int) /\ Len(x) = Len(rows)
    BY <1>1, <2>2
  <2>5. SumSeq(x) \in Int
    BY <2>4, SumType
  <2> QED  BY <2>3, <2>4, <2>5 DEF x
<1> QED  BY <1>1, <1>3, <1>4, <1>5

\* A row more.
LEMMA RowAppend ==
  ASSUME NEW rows \in Seq(Rows), NEW row \in Rows
  PROVE  /\ Append(rows, row) \in Seq(Rows)
         /\ DatesOf(Append(rows, row)) = Append(DatesOf(rows), row.dt)
         /\ \A f \in Fields : Column(Append(rows, row), f) = Column(rows, f) + row.cnt[f]
<1> DEFINE more == Append(rows, row)
<1>1. /\ more \in Seq(Rows) /\ Len(more) = Len(rows) + 1
      /\ (\A j \in 1..Len(rows) : more[j] = rows[j]) /\ more[Len(rows) + 1] = row
  BY AppendProperties
<1> HIDE DEF more, Rows
<1>2. Len(rows) \in Nat /\ DOMAIN rows = 1..Len(rows) /\ DOMAIN more = 1..Len(more)
  BY <1>1, RowsFacts
<1>3. DatesOf(more) = Append(DatesOf(rows), row.dt)
  <2>1. /\ DatesOf(rows) \in Seq(Int) /\ Len(DatesOf(rows)) = Len(rows)
        /\ \A k \in 1..Len(rows) : DatesOf(rows)[k] = rows[k].dt
    BY RowsFacts
  <2>2. /\ DatesOf(more) \in Seq(Int) /\ Len(DatesOf(more)) = Len(more)
        /\ \A k \in 1..Len(more) : DatesOf(more)[k] = more[k].dt
    BY <1>1, RowsFacts
  <2> DEFINE y == Append(DatesOf(rows), row.dt)
  <2>3. /\ y \in Seq(Int) /\ Len(y) = Len(rows) + 1
        /\ (\A k \in 1..Len(rows) : y[k] = rows[k].dt) /\ y[Len(rows) + 1] = row.dt
    BY <2>1, RowFacts, AppendProperties
  <2> HIDE DEF y
  <2>4. ASSUME NEW k \in 1..Len(y) PROVE DatesOf(more)[k] = y[k]
    <3>1. CASE k = Len(rows) + 1
      BY <1>1, <1>2, <2>2, <2>3, <3>1
    <3>2. CASE k # Len(rows) + 1
      <4>1. k \in 1..Len(rows) /\ k \in 1..Len(more)
        BY <1>1, <1>2, <2>3, <3>2
      <4> QED  BY <1>1, <2>2, <2>3, <4>1
    <3> QED  BY <3>1, <3>2
  <2>5. DatesOf(more) = y
    BY <1>1, <2>2, <2>3, <2>4, SeqEqual
  <2> QED  BY <2>5 DEF y
<1>4. ASSUME NEW f \in Fields PROVE Column(more, f) = Column(rows, f) + row.cnt[f]
  <2> DEFINE x == [k \in DOMAIN rows |-> rows[k].cnt[f]]
             y == [k \in DOMAIN more |-> more[k].cnt[f]]
  <2>1. x \in Seq(Int) /\ Len(x) = Len(rows)
    BY RowsFacts
  <2>2. y \in Seq(Int) /\ Len(y) = Len(more)
    BY <1>1, RowsFacts
  <2>3. (\A j \in 1..Len(rows) : y[j] = x[j]) /\ y[Len(rows) + 1] = row.cnt[f]
    BY <1>1, <1>2
  <2> HIDE DEF x, y
  <2>4. SumSeq(y) = SumSeq(x) + row.cnt[f]
    BY <1>1, <2>1, <2>2, <2>3, SumLonger, ZenonT(30)
  <2> QED  BY <2>4 DEF Column, x, y
<1> QED  BY <1>1, <1>3, <1>4 DEF more

\* The rows in another order.
LEMMA RowsArranged ==
  ASSUME NEW rows \in Seq(Rows), NEW rows2 \in Filter!Arrangements(rows)
  PROVE  /\ rows2 \in Seq(Rows)
         /\ \A f \in Fields : Column(rows2, f) = Column(rows, f)
         /\ ToSet(DatesOf(rows2)) = ToSet(DatesOf(rows))
         /\ IsInjective(DatesOf(rows)) => IsInjective(DatesOf(rows2))
<1> DEFINE n == Len(rows)
<1>1. n \in Nat /\ DOMAIN rows = 1..n /\ \A k \in 1..n : rows[k] \in Rows
  BY RowsFacts
<1> HIDE DEF n, Rows
<1>2. PICK f \in [1..n -> 1..n] :
        /\ \A j, k \in 1..n : f[j] = f[k] => j = k
        /\ \A l \in 1..n : \E j \in 1..n : f[j] = l
        /\ rows2 = [k \in 1..n |-> rows[f[k]]]
  <2>1. PICK f \in Filter!Bijection(DOMAIN rows, DOMAIN rows) : rows2 = [k \in DOMAIN rows |-> rows[f[k]]]
    BY DEF Filter!Arrangements
  <2>2. /\ f \in [DOMAIN rows -> DOMAIN rows]
        /\ \A j, k \in DOMAIN rows : f[j] = f[k] => j = k
        /\ \A l \in DOMAIN rows : \E j \in DOMAIN rows : f[j] = l
    BY DEF Filter!Bijection, Filter!Injection, Filter!Surjection, Filter!IsInjective
  <2> QED  BY <1>1, <2>1, <2>2
<1>3. rows2 \in Seq(Rows) /\ Len(rows2) = n
  <2>1. rows2 \in [1..n -> Rows]
    BY <1>1, <1>2
  <2> QED  BY <1>1, <2>1, IsASeq, LenProperties
<1>4. \A k \in 1..n : rows2[k] = rows[f[k]] /\ f[k] \in 1..n
  BY <1>2
<1>5. ASSUME NEW g \in Fields PROVE Column(rows2, g) = Column(rows, g)
  <2> DEFINE x == [k \in DOMAIN rows |-> rows[k].cnt[g]]
             y == [k \in DOMAIN rows2 |-> rows2[k].cnt[g]]
  <2>1. x \in Seq(Int) /\ Len(x) = n
    BY RowsFacts DEF n
  <2>2. y \in Seq(Int) /\ Len(y) = n /\ DOMAIN rows2 = 1..n
    BY <1>3, RowsFacts
  <2>3. \A j \in 1..n : y[j] = x[f[j]]
    BY <1>1, <1>4, <2>2
  <2> HIDE DEF x, y
  <2>4. Arranges(f, x, y)
    BY <1>2, <2>1, <2>2, <2>3 DEF Arranges
  <2>5. SumSeq(x) = SumSeq(y)
    BY <2>1, <2>2, <2>4, SumArranged
  <2> QED  BY <2>5 DEF Column, x, y
<1>6. /\ DOMAIN DatesOf(rows) = 1..n /\ DOMAIN DatesOf(rows2) = 1..n
      /\ \A k \in 1..n : DatesOf(rows)[k] = rows[k].dt /\ DatesOf(rows2)[k] = rows2[k].dt
  <2>1. DOMAIN rows2 = 1..n
    BY <1>2
  <2> QED  BY <1>1, <2>1 DEF DatesOf
<1>7. \A k \in 1..n : DatesOf(rows2)[k] = DatesOf(rows)[f[k]]
  BY <1>4, <1>6
<1>8. ToSet(DatesOf(rows2)) = ToSet(DatesOf(rows))
  <2>1. ToSet(DatesOf(rows2)) \subseteq ToSet(DatesOf(rows))
    BY <1>4, <1>6, <1>7 DEF ToSet
  <2>2. ASSUME NEW d \in ToSet(DatesOf(rows)) PROVE d \in ToSet(DatesOf(rows2))
    <3>1. PICK l \in 1..n : d = DatesOf(rows)[l]
      BY <1>6 DEF ToSet
    <3>2. PICK j \in 1..n : f[j] = l
      BY <1>2
    <3>3. DatesOf(rows2)[j] = d
      BY <1>7, <3>1, <3>2
    <3> QED  BY <1>6, <3>3 DEF ToSet
  <2> QED  BY <2>1, <2>2
<1>9. ASSUME IsInjective(DatesOf(rows)) PROVE IsInjective(DatesOf(rows2))
  <2> SUFFICES ASSUME NEW j \in 1..n, NEW k \in 1..n, DatesOf(rows2)[j] = DatesOf(rows2)[k] PROVE j = k
    BY <1>6 DEF IsInjective
  <2>1. DatesOf(rows)[f[j]] = DatesOf(rows)[f[k]]
    BY <1>7
  <2>2. f[j] = f[k]
    BY <1>4, <1>6, <1>9, <2>1 DEF IsInjective
  <2> QED  BY <1>2, <2>2
<1> QED  BY <1>3, <1>5, <1>8, <1>9

\* The dates of the range in some order.
LEMMA DatesInOrder ==
  ASSUME NEW S, S \subseteq Int, IsFiniteSet(S), NEW f \in SetToSeqs(S)
  PROVE  f \in Seq(Int) /\ IsInjective(f) /\ ToSet(f) = S
<1>1. Cardinality(S) \in Nat
  BY FS_CardinalityType
<1>2. PICK n \in Nat : n = Cardinality(S)
  BY <1>1
<1>3. f \in [1..n -> S] /\ \A j, k \in 1..n : j # k => f[j] # f[k]
  BY <1>2 DEF SetToSeqs
<1>4. DOMAIN f = 1..n /\ \A k \in 1..n : f[k] \in S
  BY <1>3
<1>5. f \in Injection(1..n, S)
  BY <1>3 DEF Injection, IsInjective
<1>6. IsFiniteSet(1..n) /\ Cardinality(1..n) = n
  BY <1>2, FS_Interval
<1>7. f \in Surjection(1..n, S)
  BY <1>2, <1>5, <1>6, FS_Injection
<1>8. \A x \in S : \E k \in 1..n : f[k] = x
  BY <1>7 DEF Surjection
<1>9. ToSet(f) = S
  <2>1. ToSet(f) = {f[k] : k \in 1..n}
    BY <1>4 DEF ToSet
  <2>2. \A x \in S : x \in {f[k] : k \in 1..n}
    BY <1>8
  <2>3. {f[k] : k \in 1..n} \subseteq S
    BY <1>4
  <2> QED  BY <2>1, <2>2, <2>3
<1>10. IsInjective(f)
  BY <1>3, <1>4 DEF IsInjective
<1>11. f \in Seq(Int)
  <2>1. f \in [1..n -> Int]
    BY <1>3
  <2> QED  BY <2>1, IsASeq
<1> QED  BY <1>9, <1>10, <1>11

LEMMA InitRange == Init => RangeInv
<1> SUFFICES ASSUME Init PROVE RangeInv
  OBVIOUS
<1>1. /\ search_results = <<>> /\ missing_files = <<>> /\ corrupt_files = <<>>
      /\ it = 1 /\ pc = "filter" /\ cnt = Zero /\ sum = Zero /\ day = NoHashes /\ total = NoHashes
      /\ context_added = FALSE /\ total_context_added = FALSE
  BY Zenon DEF Init
<1>2. query \in Queries /\ file_list \in SetToSeqs(query.dates)
  <2>1. query \in Queries /\ file_list \in {s \in SetToSeqs(query.dates) : random \/ Ascending(s)}
    BY Zenon DEF Init
  <2> QED  BY <2>1
<1>3. query.dates \subseteq Int /\ IsFiniteSet(query.dates)
  BY <1>2, QueriesAssumption
<1>4. file_list \in Seq(Int) /\ IsInjective(file_list) /\ ToSet(file_list) = query.dates
  BY <1>2, <1>3, DatesInOrder
<1>5. \A f \in Fields : Column(<<>>, f) = 0
  <2> SUFFICES ASSUME NEW f \in Fields PROVE Column(<<>>, f) = 0
    OBVIOUS
  <2> DEFINE x == [k \in DOMAIN <<>> |-> <<>>[k].cnt[f]]
  <2>1. x = <<>>
    OBVIOUS
  <2> HIDE DEF x
  <2>2. SumSeq(x) = 0
    BY <2>1, SumEmpty
  <2> QED  BY <2>2 DEF Column, x
<1>6. Zero \in Counts /\ \A f \in Fields : Zero[f] = 0
  BY DEF Zero, Counts, Fields
<1>7. ~FileIsOpen /\ ~AtEnd
  BY <1>1 DEF FileIsOpen, AtEnd
<1>8. SumTypes
  <2>1. it \in 1..(Len(file_list) + 1)
    <3>1. Len(file_list) \in Nat
      BY <1>4
    <3> QED  BY <1>1, <3>1
  <2>2. missing_files \in Seq(Int) /\ corrupt_files \in Seq(Int) /\ search_results \in Seq(Rows)
    BY <1>1, EmptySeq
  <2>3. context_added \in BOOLEAN /\ total_context_added \in BOOLEAN
    BY <1>1, Zenon
  <2> QED  BY <1>1, <1>4, <1>6, <1>7, <2>1, <2>2, <2>3 DEF SumTypes
<1>9. FilesOfTheRange
  BY <1>1, <1>4, <1>7 DEF FilesOfTheRange
<1>10. ListsApart
  <2>1. DatesOf(<<>>) = <<>>
    BY DEF DatesOf
  <2>2. ToSet(<<>>) = {} /\ IsInjective(<<>>) /\ 1..0 = {}
    BY DEF ToSet, IsInjective
  <2> QED  BY <1>1, <2>1, <2>2 DEF ListsApart, Apart, Passed
<1>11. CountsAddUp
  BY <1>1, <1>5, <1>6 DEF CountsAddUp, Fields
<1>12. ContextsAddUp
  <2>1. sum.contexts = 0 /\ Column(search_results, "contexts") = 0
    BY <1>1, <1>5 DEF Zero, Fields
  <2>2. DayContexts = 0 /\ ~OnlyInDay
    BY <1>1, <1>7, <2>1 DEF DayContexts, OnlyInDay
  <2> QED  BY <1>1, <2>1, <2>2 DEF ContextsAddUp, NoHashes
<1> QED  BY <1>8, <1>9, <1>10, <1>11, <1>12 DEF RangeInv

\* The row of a day.
LEMMA RowOfDay ==
  ASSUME SumTypes, EndOfFile
  PROVE  /\ search_results' \in Seq(Rows)
         /\ DatesOf(search_results') = Append(DatesOf(search_results), file_list[it])
         /\ \A f \in Fields : /\ Column(search_results', f) = Column(search_results, f) + cnt[f]
                              /\ Column(search_results, f) \in Int /\ cnt[f] \in Nat
         /\ file_list[it] \in Int /\ DatesOf(search_results) \in Seq(Int)
<1> DEFINE row == [dt |-> file_list[it], cnt |-> cnt]
<1>1. it \in 1..Len(file_list) /\ file_list[it] \in Int
  <2>1. it \in 1..Len(file_list)
    BY DEF SumTypes, EndOfFile, FileIsOpen
  <2> QED  BY <2>1, ElementOfSeq DEF SumTypes
<1>2. row \in Rows /\ row.dt = file_list[it] /\ row.cnt = cnt
  BY <1>1 DEF SumTypes, Rows
<1>3. search_results' = Append(search_results, row)
  BY DEF EndOfFile
<1>4. search_results \in Seq(Rows)
  BY DEF SumTypes
<1> HIDE DEF row
<1>5. /\ Append(search_results, row) \in Seq(Rows)
      /\ DatesOf(Append(search_results, row)) = Append(DatesOf(search_results), row.dt)
      /\ \A f \in Fields : Column(Append(search_results, row), f) = Column(search_results, f) + row.cnt[f]
  BY <1>2, <1>4, RowAppend
<1>6. DatesOf(search_results) \in Seq(Int) /\ \A f \in Fields : Column(search_results, f) \in Int
  BY <1>4, RowsFacts
<1>7. \A f \in Fields : cnt[f] \in Nat
  BY DEF SumTypes, Counts, Fields
<1> QED  BY <1>1, <1>2, <1>3, <1>5, <1>6, <1>7

OneContext(c) == [c EXCEPT !.contexts = @ + 1]

\* What examining a match does to counts, tables and flags.
LEMMA MatchCounted ==
  ASSUME TypeInv, SumTypes, Examine
  PROVE  \E isNew, isTotallyNew \in BOOLEAN : \E match \in Matches :
           /\ match = programs[p].matches[m]
           /\ isNew <=> IsNew(match, day)
           /\ isTotallyNew <=> isNew /\ IsNew(match, total)
           /\ day' = Enter(match, day) /\ total' = Enter(match, total)
           /\ context_added' = (context_added \/ isNew)
           /\ total_context_added' = (total_context_added \/ isTotallyNew)
           /\ cnt' \in Counts /\ sum' \in Counts
           /\ cnt'.contexts = cnt.contexts + IF isNew /\ ~context_added THEN 1 ELSE 0
           /\ sum'.contexts = sum.contexts + IF isTotallyNew /\ ~total_context_added THEN 1 ELSE 0
           /\ \A f \in Fields \ {"contexts"} : cnt'[f] = cnt[f] /\ sum'[f] = sum[f]
<1> DEFINE match == programs[p].matches[m]
           isNew == IsNew(match, day)
           isTotallyNew == isNew /\ IsNew(match, total)
<1>1. match \in Matches
  BY MatchAtHand DEF Examine
<1>2. /\ day' = Enter(match, day) /\ total' = Enter(match, total)
      /\ context_added' = (context_added \/ isNew)
      /\ total_context_added' = (total_context_added \/ isTotallyNew)
      /\ cnt' = IF isNew /\ ~context_added THEN [cnt EXCEPT !.contexts = @ + 1] ELSE cnt
      /\ sum' = IF isTotallyNew /\ ~total_context_added THEN [sum EXCEPT !.contexts = @ + 1] ELSE sum
  BY DEF Examine
<1>3. isNew \in BOOLEAN /\ isTotallyNew \in BOOLEAN
  BY DEF IsNew
<1>4. \A c \in Counts : OneContext(c) \in Counts /\ OneContext(c).contexts = c.contexts + 1
                       /\ \A f \in Fields \ {"contexts"} : OneContext(c)[f] = c[f]
  BY DEF OneContext, Counts, Fields
<1>5. cnt \in Counts /\ sum \in Counts
  BY DEF SumTypes
<1>9. \A c \in Counts : c.contexts \in Nat
  BY DEF Counts
<1>10. /\ cnt' = IF isNew /\ ~context_added THEN OneContext(cnt) ELSE cnt
       /\ sum' = IF isTotallyNew /\ ~total_context_added THEN OneContext(sum) ELSE sum
  BY <1>2 DEF OneContext
<1> HIDE DEF match, isNew, isTotallyNew, Counts, Fields
<1>6. /\ cnt' \in Counts /\ cnt'.contexts = cnt.contexts + (IF isNew /\ ~context_added THEN 1 ELSE 0)
      /\ \A f \in Fields \ {"contexts"} : cnt'[f] = cnt[f]
  <2>1. CASE isNew /\ ~context_added
    BY <1>10, <1>4, <1>5, <2>1
  <2>2. CASE ~(isNew /\ ~context_added)
    BY <1>10, <1>5, <1>9, <2>2
  <2> QED  BY <2>1, <2>2
<1>7. /\ sum' \in Counts /\ sum'.contexts = sum.contexts + (IF isTotallyNew /\ ~total_context_added THEN 1 ELSE 0)
      /\ \A f \in Fields \ {"contexts"} : sum'[f] = sum[f]
  <2>1. CASE isTotallyNew /\ ~total_context_added
    BY <1>10, <1>4, <1>5, <2>1
  <2>2. CASE ~(isTotallyNew /\ ~total_context_added)
    BY <1>10, <1>5, <1>9, <2>2
  <2> QED  BY <2>1, <2>2
<1>8. /\ isNew <=> IsNew(match, day)
      /\ isTotallyNew <=> isNew /\ IsNew(match, total)
      /\ match = programs[p].matches[m]
  BY DEF isNew, isTotallyNew, match
<1> QED  BY <1>1, <1>2, <1>3, <1>6, <1>7, <1>8

\* The steps that leave lists, counts and tables alone.
Quiet == FilterStep \/ SkipProgram \/ EndOfProgram \/ Output \/ UNCHANGED vars

LEMMA QuietStep ==
  ASSUME Quiet
  PROVE  /\ UNCHANGED <<query, file_list, it, missing_files, corrupt_files, search_results>>
         /\ UNCHANGED <<cnt, sum, day, total>>
         /\ UNCHANGED context_added /\ UNCHANGED total_context_added
         /\ FileIsOpen' <=> FileIsOpen
         /\ pc' = "matches" => pc = "matches"
         /\ pc' \in {"output", "done"} => pc \in {"output", "done"}
         /\ pc' = "crashed" => pc = "crashed" \/ search_results = <<>>
         /\ AtEnd' <=> AtEnd
<1>1. CASE FilterStep
  BY <1>1 DEF FilterStep, files, tables, FileIsOpen, AtEnd
<1>2. CASE SkipProgram
  BY <1>2 DEF SkipProgram, NextProgram, filter, files, tables, FileIsOpen, AtEnd
<1>3. CASE EndOfProgram
  BY <1>3 DEF EndOfProgram, filter, files, tables, FileIsOpen, AtEnd
<1>4. CASE Output
  BY <1>4 DEF Output, filter, files, tables, FileIsOpen, AtEnd
<1>5. CASE UNCHANGED vars
  BY <1>5 DEF vars, filter, files, tables, FileIsOpen, AtEnd
<1> QED  BY <1>1, <1>2, <1>3, <1>4, <1>5 DEF Quiet

\* One more program of the day.
LEMMA ProgramCounted ==
  ASSUME cnt \in Counts, Inv, ProgramWithoutMatch \/ ProgramWithMatches
  PROVE  cnt' \in Counts /\ cnt'.contexts = cnt.contexts
<1>1. CASE ProgramWithoutMatch
  BY <1>1 DEF ProgramWithoutMatch, Counts
<1>2. CASE ProgramWithMatches
  <2>1. Len(programs[p].matches) \in Nat
    <3>1. programs[p] \in Program
      BY <1>2, ElementOfSeq DEF ProgramWithMatches, NextProgram, Inv, TypeInv
    <3>2. programs[p].matches \in Seq(Matches)
      BY <3>1 DEF Program
    <3> HIDE DEF Matches
    <3> QED  BY <3>2
  <2>2. cnt' = [cnt EXCEPT !.selected = @ + 1, !.programs = @ + 1,
                           !.matches = @ + Len(programs[p].matches)]
    BY <1>2 DEF ProgramWithMatches
  <2>3. PICK n \in Nat : n = Len(programs[p].matches)
    BY <2>1
  <2>4. cnt' = [cnt EXCEPT !.selected = @ + 1, !.programs = @ + 1, !.matches = @ + n]
    BY <2>2, <2>3
  <2>5. cnt' = [contexts |-> cnt.contexts, programs |-> cnt.programs + 1, matches |-> cnt.matches + n,
                selected |-> cnt.selected + 1, total |-> cnt.total]
    BY <2>4 DEF Counts
  <2>6. /\ cnt.contexts \in Nat /\ cnt.programs + 1 \in Nat /\ cnt.matches + n \in Nat
        /\ cnt.selected + 1 \in Nat /\ cnt.total \in Nat
    BY DEF Counts
  <2> QED  BY <2>5, <2>6 DEF Counts
<1> QED  BY <1>1, <1>2

\* The day is added to the range.
LEMMA DayAdded ==
  ASSUME SumTypes, EndOfFile
  PROVE  /\ sum' \in Counts /\ sum'.contexts = sum.contexts
         /\ \A f \in Fields \ {"contexts"} : sum'[f] = sum[f] + cnt[f]
<1>1. cnt \in Counts /\ sum \in Counts
  BY DEF SumTypes
<1>2. DOMAIN sum = Fields /\ \A f \in Fields : sum[f] \in Nat /\ cnt[f] \in Nat
  BY <1>1 DEF Counts, Fields
<1>3. sum' = [f \in Fields |-> IF f = "contexts" THEN sum[f] ELSE sum[f] + cnt[f]]
  BY <1>2 DEF EndOfFile
<1>4. /\ DOMAIN sum' = Fields
      /\ sum'["contexts"] = sum["contexts"]
      /\ \A f \in Fields \ {"contexts"} : sum'[f] = sum[f] + cnt[f]
  BY <1>3 DEF Fields
<1>5. sum' = [contexts |-> sum["contexts"], programs |-> sum["programs"] + cnt["programs"],
              matches |-> sum["matches"] + cnt["matches"], selected |-> sum["selected"] + cnt["selected"],
              total |-> sum["total"] + cnt["total"]]
  BY <1>3 DEF Fields
<1>6. sum' \in Counts
  BY <1>2, <1>5 DEF Counts, Fields
<1> QED  BY <1>4, <1>6

LEMMA RangeTypes ==
  ASSUME Inv, SumTypes, [Next]_vars
  PROVE  SumTypes'
<1>0. Len(file_list) \in Nat /\ \A k \in 1..Len(file_list) : file_list[k] \in Int
  BY ElementOfSeq, LenProperties DEF SumTypes
<1>1. CASE Quiet
  BY <1>1, QuietStep DEF SumTypes
<1>2. CASE MissingFile
  <2>1. file_list[it] \in Int /\ it + 1 \in 1..(Len(file_list) + 1)
    BY <1>0, <1>2 DEF MissingFile, NextFile, SumTypes
  <2>2. missing_files' \in Seq(Int)
    BY <1>2, <2>1, AppendProperties DEF MissingFile, SumTypes
  <2> QED  BY <1>2, <2>1, <2>2 DEF MissingFile, NextFile, SumTypes, tables, FileIsOpen
<1>3. CASE CorruptFile
  <2>1. file_list[it] \in Int /\ it + 1 \in 1..(Len(file_list) + 1)
    BY <1>0, <1>3 DEF CorruptFile, NextFile, SumTypes
  <2>2. corrupt_files' \in Seq(Int)
    BY <1>3, <2>1, AppendProperties DEF CorruptFile, SumTypes
  <2> QED  BY <1>3, <2>1, <2>2 DEF CorruptFile, NextFile, SumTypes, tables, FileIsOpen
<1>4. ASSUME NEW content \in Files, OpenFile(content) PROVE SumTypes'
  <2>1. Len(content) \in Nat
    BY FilesAssumption
  <2>2. cnt' \in Counts
    BY <1>4, <2>1 DEF OpenFile, Zero, Counts
  <2> QED  BY <1>4, <2>2 DEF OpenFile, NextFile, SumTypes, FileIsOpen
<1>5. CASE ProgramWithoutMatch
  <2>1. cnt' \in Counts
    BY <1>5, ProgramCounted DEF SumTypes
  <2> QED  BY <1>5, <2>1 DEF ProgramWithoutMatch, NextProgram, SumTypes, files, tables, FileIsOpen
<1>6. CASE ProgramWithMatches
  <2>1. cnt' \in Counts
    BY <1>6, ProgramCounted DEF SumTypes
  <2>2. context_added' \in BOOLEAN /\ total_context_added' \in BOOLEAN
    BY <1>6, Zenon DEF ProgramWithMatches
  <2> QED  BY <1>6, <2>1, <2>2 DEF ProgramWithMatches, NextProgram, SumTypes, files, FileIsOpen
<1>7. CASE Examine
  <2>1. /\ cnt' \in Counts /\ sum' \in Counts
        /\ \E a, b \in BOOLEAN : /\ context_added' = (context_added \/ a)
                               /\ total_context_added' = (total_context_added \/ b)
    BY <1>7, MatchCounted DEF Inv
  <2>2. context_added' \in BOOLEAN /\ total_context_added' \in BOOLEAN
    BY <2>1, Zenon
  <2> QED  BY <1>7, <2>1, <2>2 DEF Examine, SumTypes, files, FileIsOpen
<1>8. CASE EndOfFile
  <2>1. search_results' \in Seq(Rows)
    BY <1>8, RowOfDay
  <2>2. sum' \in Counts
    BY <1>8, DayAdded
  <2>3. it' \in 1..(Len(file_list) + 1)
    BY <1>0, <1>8 DEF EndOfFile, SumTypes, FileIsOpen
  <2> QED  BY <1>8, <2>1, <2>2, <2>3 DEF EndOfFile, SumTypes, tables, FileIsOpen
<1>9. CASE Finish
  <2>1. search_results' \in Filter!Arrangements(search_results)
    BY <1>9 DEF Finish
  <2>2. search_results' \in Seq(Rows)
    BY <2>1, RowsArranged DEF SumTypes
  <2> QED  BY <1>9, <2>2 DEF Finish, SumTypes, files, FileIsOpen
<1> QED  BY <1>1, <1>2, <1>3, <1>4, <1>5, <1>6, <1>7, <1>8, <1>9 DEF Next, Quiet

LEMMA RangeFiles ==
  ASSUME Inv, SumTypes, FilesOfTheRange, [Next]_vars
  PROVE  FilesOfTheRange'
<1>1. CASE Quiet
  BY <1>1, QuietStep DEF FilesOfTheRange
<1>2. CASE Finish
  <2>1. it = Len(file_list) + 1
    BY <1>2 DEF Finish, SumTypes
  <2>2. /\ Ascending(DatesOf(search_results')) /\ pc' = "output"
        /\ UNCHANGED <<query, file_list, it>>
    BY <1>2 DEF Finish, filter, files
  <2> QED  BY <2>1, <2>2 DEF FilesOfTheRange, Ascending, DatesOf
<1>3. CASE MissingFile \/ CorruptFile \/ \E content \in Files : OpenFile(content)
  BY <1>3 DEF MissingFile, CorruptFile, OpenFile, NextFile, filter, FilesOfTheRange, AtEnd
<1>4. CASE ProgramWithoutMatch \/ ProgramWithMatches \/ Examine \/ EndOfFile
  BY <1>4 DEF ProgramWithoutMatch, ProgramWithMatches, Examine, EndOfFile, NextProgram,
              filter, files, FilesOfTheRange, AtEnd
<1> QED  BY <1>1, <1>2, <1>3, <1>4 DEF Next, Quiet

LEMMA NextIsApart ==
  ASSUME SumTypes, FilesOfTheRange, it <= Len(file_list)
  PROVE  /\ file_list[it] \in Int /\ file_list[it] \notin Passed(it)
         /\ Passed(it + 1) = Passed(it) \cup {file_list[it]}
<1>1. /\ it \in Nat \ {0} /\ Len(file_list) \in Nat
      /\ DOMAIN file_list = 1..Len(file_list) /\ it \in 1..Len(file_list)
  BY DEF SumTypes
<1>2. file_list[it] \in Int
  BY <1>1, ElementOfSeq DEF SumTypes
<1>3. \A k \in 1..(it - 1) : file_list[k] # file_list[it]
  BY <1>1 DEF FilesOfTheRange, IsInjective
<1>4. file_list[it] \notin Passed(it)
  BY <1>3 DEF Passed
<1>5. it + 1 - 1 = it /\ 1..it = 1..(it - 1) \cup {it}
  BY <1>1
<1>6. Passed(it + 1) = {file_list[k] : k \in 1..it}
  BY <1>5 DEF Passed
<1>7. {file_list[k] : k \in 1..(it - 1) \cup {it}} = {file_list[k] : k \in 1..(it - 1)} \cup {file_list[it]}
  OBVIOUS
<1>8. Passed(it + 1) = Passed(it) \cup {file_list[it]}
  BY <1>5, <1>6, <1>7 DEF Passed
<1> QED  BY <1>2, <1>4, <1>8

\* The file at hand may go to any of the three lists.
LEMMA NextFileApart ==
  ASSUME SumTypes, FilesOfTheRange, ListsApart, it <= Len(file_list)
  PROVE  LET a == DatesOf(search_results)
             b == missing_files
             c == corrupt_files
             x == file_list[it]
         IN  /\ Apart(Append(a, x), b, c, Passed(it + 1))
             /\ Apart(a, Append(b, x), c, Passed(it + 1))
             /\ Apart(a, b, Append(c, x), Passed(it + 1))
<1> DEFINE a == DatesOf(search_results)
           b == missing_files
           c == corrupt_files
           x == file_list[it]
           all == Passed(it)
<1>1. a \in Seq(Int) /\ b \in Seq(Int) /\ c \in Seq(Int)
  BY RowsFacts DEF SumTypes
<1>2. x \in Int /\ x \notin all /\ Passed(it + 1) = all \cup {x}
  BY NextIsApart
<1>3. Apart(a, b, c, all)
  BY DEF ListsApart
<1> HIDE DEF a, b, c, x, all
<1>4. x \notin ToSet(a) /\ x \notin ToSet(b) /\ x \notin ToSet(c)
  BY <1>2, <1>3 DEF Apart
<1>5. Apart(Append(a, x), b, c, all \cup {x})
  BY <1>1, <1>2, <1>3, <1>4, AppendApart DEF Apart
<1>6. Apart(a, Append(b, x), c, all \cup {x})
  BY <1>1, <1>2, <1>3, <1>4, AppendApart DEF Apart
<1>7. Apart(a, b, Append(c, x), all \cup {x})
  BY <1>1, <1>2, <1>3, <1>4, AppendApart DEF Apart
<1>8. /\ Apart(Append(a, x), b, c, Passed(it + 1))
      /\ Apart(a, Append(b, x), c, Passed(it + 1))
      /\ Apart(a, b, Append(c, x), Passed(it + 1))
  BY <1>2, <1>5, <1>6, <1>7
<1> QED  BY <1>8 DEF a, b, c, x, all

LEMMA RangeLists ==
  ASSUME Inv, SumTypes, FilesOfTheRange, ListsApart, [Next]_vars
  PROVE  ListsApart'
<1>1. CASE Quiet
  BY <1>1, QuietStep DEF ListsApart, Apart, Passed, DatesOf
<1>2. /\ DatesOf(search_results) \in Seq(Int) /\ missing_files \in Seq(Int) /\ corrupt_files \in Seq(Int)
  BY RowsFacts DEF SumTypes
<1>3. CASE MissingFile
  <2>1. /\ missing_files' = Append(missing_files, file_list[it]) /\ it' = it + 1
        /\ UNCHANGED <<search_results, corrupt_files, file_list>> /\ it <= Len(file_list)
    BY <1>3 DEF MissingFile, NextFile
  <2>2. Apart(DatesOf(search_results), Append(missing_files, file_list[it]), corrupt_files, Passed(it + 1))
    BY <2>1, NextFileApart
  <2> QED  BY <2>1, <2>2 DEF ListsApart, DatesOf, Passed
<1>4. CASE CorruptFile
  <2>1. /\ corrupt_files' = Append(corrupt_files, file_list[it]) /\ it' = it + 1
        /\ UNCHANGED <<search_results, missing_files, file_list>> /\ it <= Len(file_list)
    BY <1>4 DEF CorruptFile, NextFile
  <2>2. Apart(DatesOf(search_results), missing_files, Append(corrupt_files, file_list[it]), Passed(it + 1))
    BY <2>1, NextFileApart
  <2> QED  BY <2>1, <2>2 DEF ListsApart, DatesOf, Passed
<1>5. CASE EndOfFile
  <2>1. /\ it' = it + 1 /\ UNCHANGED <<missing_files, corrupt_files, file_list>> /\ it <= Len(file_list)
    BY <1>5 DEF EndOfFile, SumTypes, FileIsOpen
  <2>2. DatesOf(search_results') = Append(DatesOf(search_results), file_list[it])
    BY <1>5, RowOfDay
  <2>3. Apart(Append(DatesOf(search_results), file_list[it]), missing_files, corrupt_files, Passed(it + 1))
    BY <2>1, NextFileApart
  <2>4. DatesOf(search_results)' = DatesOf(search_results')
    BY DEF DatesOf
  <2> QED  BY <2>1, <2>2, <2>3, <2>4 DEF ListsApart, Passed
<1>6. CASE Finish
  <2>1. /\ search_results' \in Filter!Arrangements(search_results)
        /\ UNCHANGED <<missing_files, corrupt_files, file_list, it>>
    BY <1>6 DEF Finish, files
  <2>2. search_results \in Seq(Rows)
    BY DEF SumTypes
  <2>3. /\ ToSet(DatesOf(search_results')) = ToSet(DatesOf(search_results))
        /\ IsInjective(DatesOf(search_results)) => IsInjective(DatesOf(search_results'))
    BY <2>1, <2>2, RowsArranged
  <2>4. Apart(DatesOf(search_results'), missing_files, corrupt_files, Passed(it))
    BY <2>3 DEF ListsApart, Apart
  <2> QED  BY <2>1, <2>4 DEF ListsApart, Passed, DatesOf
<1>7. CASE \E content \in Files : OpenFile(content)
  BY <1>7 DEF OpenFile, ListsApart, Passed, DatesOf
<1>8. CASE ProgramWithoutMatch \/ ProgramWithMatches \/ Examine
  BY <1>8 DEF ProgramWithoutMatch, ProgramWithMatches, Examine, files, ListsApart, Passed, DatesOf
<1> QED  BY <1>1, <1>3, <1>4, <1>5, <1>6, <1>7, <1>8 DEF Next, Quiet

LEMMA RangeCounts ==
  ASSUME Inv, SumTypes, CountsAddUp, [Next]_vars
  PROVE  CountsAddUp'
<1>0. {"programs", "matches", "selected", "total"} = Fields \ {"contexts"}
  BY DEF Fields
<1>1. ASSUME UNCHANGED search_results, \A f \in Fields \ {"contexts"} : sum'[f] = sum[f]
      PROVE  CountsAddUp'
  BY <1>0, <1>1 DEF CountsAddUp, Column
<1>2. CASE Quiet
  <2>1. UNCHANGED <<sum, search_results>>
    BY <1>2, QuietStep
  <2> QED  BY <1>1, <2>1
<1>3. CASE MissingFile \/ CorruptFile \/ \E content \in Files : OpenFile(content)
  <2>1. UNCHANGED <<sum, search_results>>
    BY <1>3 DEF MissingFile, CorruptFile, OpenFile
  <2> QED  BY <1>1, <2>1
<1>4. CASE ProgramWithoutMatch \/ ProgramWithMatches
  <2>1. UNCHANGED <<sum, search_results>>
    BY <1>4 DEF ProgramWithoutMatch, ProgramWithMatches
  <2> QED  BY <1>1, <2>1
<1>5. CASE Examine
  <2>1. \A f \in Fields \ {"contexts"} : sum'[f] = sum[f]
    BY <1>5, MatchCounted DEF Inv
  <2> QED  BY <1>1, <1>5, <2>1 DEF Examine
<1>6. CASE EndOfFile
  <2> SUFFICES ASSUME NEW f \in Fields \ {"contexts"} PROVE sum'[f] = Column(search_results', f)
    BY <1>0 DEF CountsAddUp, Column
  <2>1. sum'[f] = sum[f] + cnt[f]
    BY <1>6, DayAdded
  <2>2. Column(search_results', f) = Column(search_results, f) + cnt[f]
    BY <1>6, RowOfDay
  <2>3. sum[f] = Column(search_results, f)
    BY <1>0 DEF CountsAddUp
  <2> QED  BY <2>1, <2>2, <2>3
<1>7. CASE Finish
  <2> SUFFICES ASSUME NEW f \in Fields \ {"contexts"} PROVE sum'[f] = Column(search_results', f)
    BY <1>0 DEF CountsAddUp, Column
  <2>1. search_results' \in Filter!Arrangements(search_results) /\ sum' = sum
    BY <1>7 DEF Finish
  <2>2. Column(search_results', f) = Column(search_results, f)
    BY <2>1, RowsArranged DEF SumTypes
  <2> QED  BY <1>0, <2>1, <2>2 DEF CountsAddUp
<1> QED  BY <1>2, <1>3, <1>4, <1>5, <1>6, <1>7 DEF Next, Quiet

\* The numbers ContextsAddUp is about.
LEMMA ContextNumbers ==
  ASSUME SumTypes
  PROVE  /\ Column(search_results, "contexts") \in Int
         /\ cnt.contexts \in Nat /\ sum.contexts \in Nat /\ DayContexts \in Int
<1>1. Column(search_results, "contexts") \in Int
  BY RowsFacts DEF SumTypes, Fields
<1>2. cnt.contexts \in Nat /\ sum.contexts \in Nat
  BY DEF SumTypes, Counts
<1> QED  BY <1>1, <1>2 DEF DayContexts

\* A match.
LEMMA MatchContexts ==
  ASSUME Inv, SumTypes, ContextsAddUp, Examine
  PROVE  ContextsAddUp'
<1>1. PICK isNew, isTotallyNew \in BOOLEAN : \E match \in Matches :
           /\ isNew <=> IsNew(match, day)
           /\ isTotallyNew <=> isNew /\ IsNew(match, total)
           /\ day' = Enter(match, day) /\ total' = Enter(match, total)
           /\ context_added' = (context_added \/ isNew)
           /\ total_context_added' = (total_context_added \/ isTotallyNew)
           /\ cnt' \in Counts /\ sum' \in Counts
           /\ cnt'.contexts = cnt.contexts + IF isNew /\ ~context_added THEN 1 ELSE 0
           /\ sum'.contexts = sum.contexts + IF isTotallyNew /\ ~total_context_added THEN 1 ELSE 0
  BY MatchCounted DEF Inv
<1>2. PICK match \in Matches :
        /\ isNew <=> IsNew(match, day)
        /\ isTotallyNew <=> isNew /\ IsNew(match, total)
        /\ day' = Enter(match, day) /\ total' = Enter(match, total)
  BY <1>1
<1>3. /\ pc = "matches" /\ pc' = "matches" /\ FileIsOpen /\ FileIsOpen'
      /\ search_results' = search_results
  BY DEF Examine, FileIsOpen
<1>4. /\ OnlyInDay <=> context_added /\ ~total_context_added
      /\ OnlyInDay' <=> context_added' /\ ~total_context_added'
  BY <1>3 DEF OnlyInDay
<1>5. PICK D \in Int, S \in Nat : D = DayContexts /\ S = sum.contexts
  BY ContextNumbers
<1>6. DayContexts' = D + IF isNew /\ ~context_added THEN 1 ELSE 0
  <2>1. /\ Column(search_results, "contexts") \in Int /\ cnt.contexts \in Nat
        /\ D = Column(search_results, "contexts") + cnt.contexts
    BY <1>3, <1>5, ContextNumbers DEF DayContexts
  <2>2. DayContexts' = Column(search_results, "contexts") + cnt'.contexts
    BY <1>3 DEF DayContexts
  <2>3. cnt'.contexts = cnt.contexts + IF isNew /\ ~context_added THEN 1 ELSE 0
    BY <1>1
  <2> QED  BY <2>1, <2>2, <2>3
<1>7. sum'.contexts = S + IF isTotallyNew /\ ~total_context_added THEN 1 ELSE 0
  BY <1>1, <1>5
<1>8. /\ S + (IF OnlyInDay THEN 1 ELSE 0) <= D
      /\ S = 0 => total.left = {} /\ total.right = {} /\ D = 0
      /\ day.left \subseteq total.left /\ day.right \subseteq total.right
      /\ total_context_added => S > 0 /\ context_added
  BY <1>3, <1>5 DEF ContextsAddUp
<1>9. isTotallyNew => isNew
  BY <1>2
<1>10. S = 0 => isTotallyNew
  BY <1>2, <1>8 DEF IsNew
<1>11. sum'.contexts + (IF OnlyInDay' THEN 1 ELSE 0) <= DayContexts'
  <2>0. context_added' = (context_added \/ isNew) /\ total_context_added' = (total_context_added \/ isTotallyNew)
    BY <1>1
  <2>1. CASE isTotallyNew /\ ~total_context_added
    <3>1. sum'.contexts = S + 1 /\ ~OnlyInDay'
      BY <1>4, <1>7, <2>0, <2>1
    <3>2. CASE context_added
      BY <1>4, <1>6, <1>8, <2>1, <3>1, <3>2
    <3>3. CASE ~context_added
      BY <1>6, <1>8, <1>9, <2>1, <3>1, <3>3
    <3> QED  BY <3>2, <3>3
  <2>2. CASE ~(isTotallyNew /\ ~total_context_added)
    <3>1. sum'.contexts = S
      BY <1>7, <2>2
    <3>2. CASE isNew /\ ~context_added
      BY <1>6, <1>8, <3>1, <3>2
    <3>3. CASE ~(isNew /\ ~context_added)
      <4>1. OnlyInDay' => OnlyInDay
        BY <1>4, <2>0, <2>2, <3>3
      <4> QED  BY <1>6, <1>8, <3>1, <3>3, <4>1
    <3> QED  BY <3>2, <3>3
  <2> QED  BY <2>1, <2>2
<1>12. sum'.contexts > 0
  <2>1. CASE S = 0
    BY <1>7, <1>8, <1>10, <2>1
  <2>2. CASE S # 0
    BY <1>7, <2>2
  <2> QED  BY <2>1, <2>2
<1>13. day'.left \subseteq total'.left /\ day'.right \subseteq total'.right
  BY <1>2, <1>8 DEF Enter
<1>14. total_context_added' => context_added'
  <2>1. context_added' = (context_added \/ isNew) /\ total_context_added' = (total_context_added \/ isTotallyNew)
    BY <1>1
  <2> QED  BY <1>8, <1>9, <2>1
<1>15. sum'.contexts # 0
  BY <1>12, <1>1, ContextNumbers
<1> QED  BY <1>11, <1>12, <1>13, <1>14, <1>15 DEF ContextsAddUp

LEMMA RangeContexts ==
  ASSUME Inv, SumTypes, ContextsAddUp, [Next]_vars
  PROVE  ContextsAddUp'
<1>1. ASSUME sum'.contexts = sum.contexts, DayContexts' = DayContexts, total' = total,
             day' \in {day, NoHashes}, OnlyInDay' => OnlyInDay,
             pc' = "matches" /\ total_context_added' =>
               pc = "matches" /\ total_context_added /\ (context_added => context_added')
      PROVE  ContextsAddUp'
  <2>1. day'.left \subseteq total.left /\ day'.right \subseteq total.right
    BY <1>1 DEF ContextsAddUp, NoHashes
  <2>2. sum.contexts + (IF OnlyInDay' THEN 1 ELSE 0) <= DayContexts
    BY <1>1, ContextNumbers DEF ContextsAddUp
  <2> QED  BY <1>1, <2>1, <2>2 DEF ContextsAddUp
<1>2. CASE Quiet
  <2>1. /\ UNCHANGED <<search_results, cnt, sum, day, total>>
        /\ UNCHANGED context_added /\ UNCHANGED total_context_added
        /\ FileIsOpen' <=> FileIsOpen
        /\ pc' = "matches" => pc = "matches"
    BY <1>2, QuietStep
  <2>2. DayContexts' = DayContexts
    BY <2>1 DEF DayContexts, Column
  <2>3. OnlyInDay' => OnlyInDay
    BY <2>1 DEF OnlyInDay
  <2> QED  BY <1>1, <2>1, <2>2, <2>3
<1>3. CASE MissingFile \/ CorruptFile
  <2>1. /\ UNCHANGED <<search_results, cnt, sum, day, total>> /\ pc' = pc /\ pc = "files"
    BY <1>3 DEF MissingFile, CorruptFile, NextFile, tables
  <2>2. DayContexts' = DayContexts
    BY <2>1 DEF DayContexts, Column, FileIsOpen
  <2> QED  BY <1>1, <2>1, <2>2 DEF OnlyInDay
<1>4. ASSUME NEW content \in Files, OpenFile(content) PROVE ContextsAddUp'
  <2>1. /\ UNCHANGED <<search_results, sum, total>> /\ pc' = "programs" /\ pc = "files"
        /\ cnt'.contexts = 0 /\ day' = NoHashes
    BY <1>4 DEF OpenFile, NextFile, Zero
  <2>2. DayContexts' = DayContexts
    BY <2>1, ContextNumbers DEF DayContexts, Column, FileIsOpen
  <2> QED  BY <1>1, <2>1, <2>2 DEF OnlyInDay
<1>5. CASE ProgramWithoutMatch
  <2>1. /\ UNCHANGED <<search_results, sum, total, day>> /\ pc' = "programs" /\ pc = "programs"
        /\ cnt'.contexts = cnt.contexts
    BY <1>5, ProgramCounted DEF ProgramWithoutMatch, NextProgram, tables, SumTypes
  <2>2. DayContexts' = DayContexts
    BY <2>1 DEF DayContexts, Column, FileIsOpen
  <2> QED  BY <1>1, <2>1, <2>2 DEF OnlyInDay
<1>6. CASE ProgramWithMatches
  <2>1. /\ UNCHANGED <<search_results, sum, total, day>> /\ pc' = "matches" /\ pc = "programs"
        /\ cnt'.contexts = cnt.contexts /\ ~context_added' /\ ~total_context_added'
    BY <1>6, ProgramCounted DEF ProgramWithMatches, NextProgram, SumTypes
  <2>2. DayContexts' = DayContexts
    BY <2>1 DEF DayContexts, Column, FileIsOpen
  <2> QED  BY <1>1, <2>1, <2>2 DEF OnlyInDay
<1>7. CASE Examine
  BY <1>7, MatchContexts
<1>8. CASE EndOfFile
  <2>1. /\ UNCHANGED <<total, day>> /\ pc' = "files" /\ pc = "programs"
        /\ sum'.contexts = sum.contexts
    BY <1>8, DayAdded DEF EndOfFile, tables
  <2>2. Column(search_results', "contexts") = Column(search_results, "contexts") + cnt.contexts
    BY <1>8, RowOfDay DEF Fields
  <2>3. DayContexts' = DayContexts
    <3>1. DayContexts = Column(search_results, "contexts") + cnt.contexts
      BY <2>1 DEF DayContexts, FileIsOpen
    <3>2. DayContexts' = Column(search_results', "contexts") + 0
      BY <2>1 DEF DayContexts, FileIsOpen, Column
    <3> QED  BY <2>2, <3>1, <3>2, ContextNumbers
  <2> QED  BY <1>1, <2>1, <2>3 DEF OnlyInDay
<1>9. CASE Finish
  <2>1. /\ UNCHANGED <<total, day, sum, cnt>> /\ pc' = "output" /\ pc = "files"
        /\ search_results' \in Filter!Arrangements(search_results)
    BY <1>9 DEF Finish
  <2>2. Column(search_results', "contexts") = Column(search_results, "contexts")
    BY <2>1, RowsArranged DEF Fields, SumTypes
  <2>3. DayContexts' = DayContexts
    <3>1. DayContexts = Column(search_results, "contexts") + 0
      BY <2>1 DEF DayContexts, FileIsOpen
    <3>2. DayContexts' = Column(search_results', "contexts") + 0
      BY <2>1 DEF DayContexts, FileIsOpen, Column
    <3> QED  BY <2>2, <3>1, <3>2
  <2> QED  BY <1>1, <2>1, <2>3 DEF OnlyInDay
<1> QED  BY <1>2, <1>3, <1>4, <1>5, <1>6, <1>7, <1>8, <1>9 DEF Next, Quiet

\* The invariant says it at the end of every file.
LEMMA RangeIsListed ==
  ASSUME RangeInv
  PROVE  RowsAccountForTheRange
<1> DEFINE rows == DatesOf(search_results)
           listed == rows \o missing_files \o corrupt_files
<1>1. SumTypes /\ FilesOfTheRange /\ ListsApart /\ CountsAddUp /\ ContextsAddUp
  BY DEF RangeInv
<1>2. rows \in Seq(Int) /\ missing_files \in Seq(Int) /\ corrupt_files \in Seq(Int)
  BY <1>1, RowsFacts DEF SumTypes
<1>3. Apart(rows, missing_files, corrupt_files, Passed(it))
  BY <1>1 DEF ListsApart
<1>4. /\ IsInjective(listed)
      /\ ToSet(listed) = {file_list[k] : k \in 1..(it - 1)}
  <2> DEFINE two == rows \o missing_files
  <2> HIDE DEF rows
  <2>1. two \in Seq(Int) /\ IsInjective(two) /\ ToSet(two) = ToSet(rows) \cup ToSet(missing_files)
    BY <1>2, <1>3, ConcatApart DEF Apart
  <2>2. ToSet(two) \cap ToSet(corrupt_files) = {}
    BY <1>3, <2>1 DEF Apart
  <2> HIDE DEF two
  <2>3. IsInjective(two \o corrupt_files) /\ ToSet(two \o corrupt_files) = ToSet(two) \cup ToSet(corrupt_files)
    BY <1>2, <1>3, <2>1, <2>2, ConcatApart DEF Apart
  <2>4. ToSet(two \o corrupt_files) = Passed(it)
    BY <1>3, <2>1, <2>3 DEF Apart
  <2> QED  BY <2>3, <2>4 DEF two, Passed
<1>5. \A f \in DOMAIN sum \ {"contexts"} : sum[f] = Column(search_results, f)
  <2>1. DOMAIN sum = Fields
    BY <1>1 DEF SumTypes, Counts, Fields
  <2> QED  BY <1>1, <2>1 DEF CountsAddUp, Fields
<1>6. ASSUME pc \notin {"programs", "matches"}
      PROVE  /\ sum.contexts <= Column(search_results, "contexts")
             /\ Column(search_results, "contexts") > 0 <=> sum.contexts > 0
  <2>1. DayContexts = Column(search_results, "contexts") + 0 /\ ~OnlyInDay
    BY <1>6 DEF DayContexts, FileIsOpen, OnlyInDay
  <2>2. PICK D \in Int, S \in Nat : D = Column(search_results, "contexts") /\ S = sum.contexts
    BY <1>1, ContextNumbers
  <2>3. S <= D /\ (S = 0 => D = 0)
    BY <1>1, <2>1, <2>2 DEF ContextsAddUp
  <2>4. S <= D /\ (D > 0 <=> S > 0)
    BY <2>3
  <2> QED  BY <2>2, <2>4
<1>7. pc \in {"output", "done"} => Ascending(rows)
  BY <1>1 DEF FilesOfTheRange
<1>8. ASSUME pc = "crashed" PROVE ToSet(missing_files) \cup ToSet(corrupt_files) = query.dates
  <2>1. search_results = <<>> /\ it = Len(file_list) + 1 /\ ToSet(file_list) = query.dates
    BY <1>1, <1>8 DEF FilesOfTheRange, AtEnd
  <2>2. ToSet(rows) = {}
    <3>1. rows = <<>>
      BY <2>1 DEF DatesOf
    <3> QED  BY <3>1 DEF ToSet
  <2>3. Len(file_list) \in Nat /\ DOMAIN file_list = 1..Len(file_list)
    BY <1>1 DEF SumTypes
  <2>4. Passed(it) = ToSet(file_list)
    BY <2>1, <2>3 DEF Passed, ToSet
  <2> QED  BY <1>3, <2>1, <2>2, <2>4 DEF Apart
<1> HIDE DEF rows, listed
<1> QED  BY <1>4, <1>5, <1>6, <1>7, <1>8 DEF RowsAccountForTheRange, rows, listed

\* Every file of the range that was passed is a row, missing or corrupt, in one
\* of the three alone; the grand total is the sum of the rows, which come out
\* in the order of the dates; and only a range without a readable file ends in
\* the crash.
THEOREM RangeIsAccountedFor == Spec => []RowsAccountForTheRange
<1>1. RangeInv => RowsAccountForTheRange
  BY RangeIsListed
<1>2. Inv /\ RangeInv /\ [Next]_vars => RangeInv'
  <2> SUFFICES ASSUME Inv, RangeInv, [Next]_vars PROVE RangeInv'
    OBVIOUS
  <2>1. SumTypes' /\ FilesOfTheRange' /\ ListsApart' /\ CountsAddUp' /\ ContextsAddUp'
    BY RangeTypes, RangeFiles, RangeLists, RangeCounts, RangeContexts DEF RangeInv
  <2> QED  BY <2>1 DEF RangeInv
<1>3. Spec => []Inv
  BY InvCorrect
<1> QED  BY <1>1, <1>2, <1>3, InitRange, PTL DEF Spec

------------------------------------------------------------------------------
(* That the counts are those of the contexts in what was read.             *)

Found == FoundIn(read.range)
DayFound == FoundIn(read.day)

\* The program and the match at hand, of all those read and of the day's.
Place == IF FileIsOpen THEN Len(read.range) - Len(programs) + p ELSE Len(read.range) + 1
DayPlace == IF FileIsOpen THEN p ELSE Len(read.day) + 1
At == IF pc = "matches" THEN m ELSE 1

\* The file at hand is what was read last.
Reading ==
  /\ read.range \in Seq(Program) /\ read.day \in Seq(Program)
  /\ FileIsOpen =>
       /\ read.day = programs /\ Len(programs) <= Len(read.range) /\ p <= Len(programs) + 1
       /\ \A k \in 1..Len(programs) : read.range[Len(read.range) - Len(programs) + k] = programs[k]
  /\ pc = "matches" => Selected(programs[p]) /\ m <= Len(programs[p].matches) + 1
  /\ pc = "filter" => read.range = <<>> /\ read.day = <<>>

RangeCounted ==
  /\ Holds(total, Found, Place, At) /\ sum.contexts = CountedTo(Found, Place, At)
  /\ pc = "matches" => (total_context_added <=> HasContext(Found, Place, At))

DayCounted ==
  /\ Holds(day, DayFound, DayPlace, At) /\ cnt.contexts = CountedTo(DayFound, DayPlace, At)
  /\ pc = "matches" => (context_added <=> HasContext(DayFound, DayPlace, At))

LastRow ==
  pc \in {"filter", "files"} /\ search_results # <<>> =>
    search_results[Len(search_results)].cnt.contexts = cnt.contexts

ReadInv == Reading /\ RangeCounted /\ DayCounted /\ LastRow

LEMMA FoundFacts ==
  ASSUME NEW ps \in Seq(Program)
  PROVE  /\ AreLists(FoundIn(ps)) /\ Len(FoundIn(ps)) = Len(ps) /\ Len(ps) \in Nat
         /\ \A k \in 1..Len(ps) :
              /\ ps[k] \in Program /\ ps[k].matches \in Seq(Matches)
              /\ FoundIn(ps)[k] = IF Selected(ps[k]) THEN ps[k].matches ELSE <<>>
<1>1. Len(ps) \in Nat /\ DOMAIN ps = 1..Len(ps) /\ \A k \in 1..Len(ps) : ps[k] \in Program
  BY ElementOfSeq, LenProperties
<1>2. \A k \in 1..Len(ps) : ps[k].matches \in Seq(Matches)
  BY <1>1 DEF Program
<1> HIDE DEF Matches, Program
<1> DEFINE F == FoundIn(ps)
<1>3. /\ DOMAIN F = 1..Len(ps)
      /\ \A k \in 1..Len(ps) : F[k] = IF Selected(ps[k]) THEN ps[k].matches ELSE <<>>
  BY <1>1 DEF FoundIn
<1> HIDE DEF F
<1>4. \A k \in 1..Len(ps) : F[k] \in Seq(Matches)
  BY <1>2, <1>3, EmptySeq
<1>5. F \in [1..Len(ps) -> Seq(Matches)]
  <2>1. F = [k \in 1..Len(ps) |-> IF Selected(ps[k]) THEN ps[k].matches ELSE <<>>]
    BY <1>1 DEF F, FoundIn
  <2> QED  BY <1>2, <2>1, EmptySeq
<1>6. F \in Seq(Seq(Matches)) /\ Len(F) = Len(ps)
  BY <1>1, <1>5, IsASeq, LenProperties
<1>7. AreLists(F)
  BY <1>3, <1>4, <1>6, LenProperties DEF AreLists
<1> QED  BY <1>1, <1>2, <1>3, <1>6, <1>7 DEF F

LEMMA SameSelection ==
  ASSUME UNCHANGED query, UNCHANGED filtered_program_list
  PROVE  \A ps : FoundIn(ps)' = FoundIn(ps)
  BY DEF FoundIn, Selected, Filter!is_program_selected

LEMMA SameFound ==
  ASSUME UNCHANGED query, UNCHANGED filtered_program_list, UNCHANGED read
  PROVE  Found' = Found /\ DayFound' = DayFound
  BY SameSelection DEF Found, DayFound

\* The program at hand, in what was found.
LEMMA HereFound ==
  ASSUME Inv, Reading, FileIsOpen, p <= Len(programs)
  PROVE  /\ AreLists(Found) /\ AreLists(DayFound)
         /\ Place \in 1..Len(Found) /\ DayPlace \in 1..Len(DayFound)
         /\ Found[Place] = IF Selected(programs[p]) THEN programs[p].matches ELSE <<>>
         /\ DayFound[DayPlace] = IF Selected(programs[p]) THEN programs[p].matches ELSE <<>>
         /\ programs[p] \in Program /\ Len(programs[p].matches) \in Nat
<1>1. /\ read.range \in Seq(Program) /\ programs \in Seq(Program) /\ read.day = programs
      /\ Len(programs) <= Len(read.range) /\ p \in Nat \ {0}
      /\ \A k \in 1..Len(programs) : read.range[Len(read.range) - Len(programs) + k] = programs[k]
  BY DEF Reading, Inv, TypeInv
<1>2. /\ AreLists(Found) /\ Len(Found) = Len(read.range) /\ Len(read.range) \in Nat
      /\ \A k \in 1..Len(read.range) :
           Found[k] = IF Selected(read.range[k]) THEN read.range[k].matches ELSE <<>>
  BY <1>1, FoundFacts DEF Found
<1>3. /\ AreLists(DayFound) /\ Len(DayFound) = Len(programs) /\ Len(programs) \in Nat
      /\ \A k \in 1..Len(programs) :
           /\ programs[k] \in Program /\ programs[k].matches \in Seq(Matches)
           /\ DayFound[k] = IF Selected(programs[k]) THEN programs[k].matches ELSE <<>>
  BY <1>1, FoundFacts DEF DayFound
<1>4. Place = Len(read.range) - Len(programs) + p /\ DayPlace = p
  BY DEF Place, DayPlace
<1>5. p \in 1..Len(programs) /\ Place \in 1..Len(read.range)
  BY <1>1, <1>2, <1>3, <1>4
<1>6. read.range[Place] = programs[p]
  BY <1>1, <1>4, <1>5
<1>7. Len(programs[p].matches) \in Nat
  BY <1>3, <1>5, LenProperties
<1> HIDE DEF Program
<1> QED  BY <1>2, <1>3, <1>4, <1>5, <1>6, <1>7

LEMMA InitRead == Init => ReadInv
<1> SUFFICES ASSUME Init PROVE ReadInv
  OBVIOUS
<1>1. /\ read = [range |-> <<>>, day |-> <<>>] /\ pc = "filter" /\ search_results = <<>>
      /\ cnt = Zero /\ sum = Zero /\ day = NoHashes /\ total = NoHashes
  BY Zenon DEF Init
<1>2. <<>> \in Seq(Program) /\ Len(<<>>) = 0 /\ ~FileIsOpen /\ Len(<<>>) + 1 = 1
  BY <1>1, EmptySeq DEF FileIsOpen
<1>3. AreLists(FoundIn(<<>>))
  BY <1>2, FoundFacts
<1>4. Holds(NoHashes, FoundIn(<<>>), 1, 1) /\ CountedTo(FoundIn(<<>>), 1, 1) = 0
  BY <1>3, NothingBefore
<1>5. Found = FoundIn(<<>>) /\ DayFound = FoundIn(<<>>) /\ Place = 1 /\ DayPlace = 1 /\ At = 1
  BY <1>1, <1>2 DEF Found, DayFound, Place, DayPlace, At
<1>6. Reading
  BY <1>1, <1>2 DEF Reading
<1>7. RangeCounted /\ DayCounted
  BY <1>1, <1>4, <1>5 DEF RangeCounted, DayCounted, Zero
<1> QED  BY <1>1, <1>6, <1>7 DEF ReadInv, LastRow

\* The steps of Reading.
LEMMA ReadingStep ==
  ASSUME Inv, Reading, [Next]_vars
  PROVE  Reading'
<1>0. /\ Len(programs) \in Nat /\ p \in Nat \ {0} /\ m \in Nat \ {0}
  BY DEF Inv, TypeInv
<1>1. ASSUME pc' \in {"files", "output", "done", "crashed"}, read' = read PROVE Reading'
  BY <1>1 DEF Reading, FileIsOpen
<1>2. CASE MissingFile \/ CorruptFile
  BY <1>1, <1>2 DEF MissingFile, CorruptFile, NextFile
<1>3. CASE EndOfFile \/ Finish \/ Output
  BY <1>1, <1>3 DEF EndOfFile, Finish, Output, files
<1>4. CASE FilterStep
  BY <1>4 DEF FilterStep, files, Reading, FileIsOpen
<1>5. ASSUME NEW content \in Files, OpenFile(content) PROVE Reading'
  <2> DEFINE r == read.range
             q == r \o content
  <2>1. content \in Seq(Program) /\ r \in Seq(Program)
    BY FilesAssumption DEF Reading, Program
  <2>2. /\ read' = [range |-> q, day |-> content] /\ programs' = content /\ p' = 1 /\ pc' = "programs"
    BY <1>5 DEF OpenFile
  <2>3. /\ q \in Seq(Program) /\ Len(q) = Len(r) + Len(content)
        /\ \A k \in 1..(Len(r) + Len(content)) : q[k] = IF k <= Len(r) THEN r[k] ELSE content[k - Len(r)]
        /\ Len(r) \in Nat /\ Len(content) \in Nat
    BY <2>1, ConcatProperties, LenProperties
  <2> HIDE DEF r, q
  <2>4. ASSUME NEW k \in 1..Len(content) PROVE q[Len(q) - Len(content) + k] = content[k]
    <3>1. /\ Len(q) - Len(content) + k = Len(r) + k /\ Len(r) + k \in 1..(Len(r) + Len(content))
          /\ ~(Len(r) + k <= Len(r)) /\ Len(r) + k - Len(r) = k
      BY <2>3
    <3> QED  BY <2>3, <3>1
  <2>5. Len(content) <= Len(q) /\ 1 <= Len(content) + 1
    BY <2>3
  <2> QED  BY <2>1, <2>2, <2>3, <2>4, <2>5 DEF Reading
<1>6. ASSUME UNCHANGED <<read, programs>>, FileIsOpen, pc' = "programs", p' \in Nat, p' <= Len(programs) + 1
      PROVE  Reading'
  BY <1>6 DEF Reading
<1>7. CASE SkipProgram \/ ProgramWithoutMatch
  BY <1>0, <1>6, <1>7 DEF SkipProgram, ProgramWithoutMatch, NextProgram, files, FileIsOpen
<1>8. CASE EndOfProgram
  <2>1. p <= Len(programs)
    BY <1>8 DEF EndOfProgram, Inv, TypeInv
  <2> QED  BY <1>0, <1>6, <1>8, <2>1 DEF EndOfProgram, files, FileIsOpen
<1>9. ASSUME FileIsOpen, p <= Len(programs), Selected(programs[p]), m' \in Nat, m' <= Len(programs[p].matches) + 1,
             UNCHANGED <<read, programs, p>>, UNCHANGED query, UNCHANGED filtered_program_list, pc' = "matches"
      PROVE  Reading'
  <2>1. Selected(programs[p])'
    BY <1>9 DEF Selected, Filter!is_program_selected
  <2> QED  BY <1>9, <2>1 DEF Reading, FileIsOpen
<1>10. CASE ProgramWithMatches
  <2>1. FileIsOpen /\ p <= Len(programs)
    BY <1>10 DEF ProgramWithMatches, NextProgram, FileIsOpen
  <2>2. 1 \in Nat /\ 1 <= Len(programs[p].matches) + 1
    BY <2>1, HereFound
  <2> QED  BY <1>9, <1>10, <2>1, <2>2 DEF ProgramWithMatches, filter, files
<1>11. CASE Examine
  <2>1. FileIsOpen /\ p <= Len(programs) /\ Selected(programs[p])
    BY <1>11 DEF Examine, FileIsOpen, Inv, TypeInv, Reading
  <2>2. m + 1 \in Nat /\ m + 1 <= Len(programs[p].matches) + 1
    BY <1>0, <1>11, <2>1, HereFound, SMTT(30) DEF Examine
  <2> QED  BY <1>9, <1>11, <2>1, <2>2 DEF Examine, filter, files
<1>12. CASE UNCHANGED vars
  <2>1. UNCHANGED query /\ UNCHANGED filtered_program_list /\ UNCHANGED <<read, programs, p, m, pc>>
    BY <1>12 DEF vars, filter, files
  <2>2. Selected(programs[p])' <=> Selected(programs[p])
    BY <2>1 DEF Selected, Filter!is_program_selected
  <2> QED  BY <2>1, <2>2 DEF Reading, FileIsOpen
<1> QED  BY <1>2, <1>3, <1>4, <1>5, <1>7, <1>8, <1>10, <1>11, <1>12 DEF Next

\* A reader who does not move has counted the same.
LEMMA SameCounted ==
  ASSUME UNCHANGED <<Found, DayFound, Place, DayPlace, At>>, UNCHANGED <<day, total>>,
         cnt'.contexts = cnt.contexts, sum'.contexts = sum.contexts, pc' # "matches",
         RangeCounted, DayCounted
  PROVE  RangeCounted' /\ DayCounted'
  BY DEF RangeCounted, DayCounted

LEMMA OneFurther == \A a, n \in Int : a + (n + 1) = (a + n) + 1 /\ a - n + (n + 1) = a + 1
  OBVIOUS

\* A reader who moves on past a program without a match, or past its last one.
LEMMA NextCounted ==
  ASSUME Inv, Reading, RangeCounted, DayCounted, FileIsOpen, p <= Len(programs),
         At = (IF Selected(programs[p]) THEN Len(programs[p].matches) ELSE 0) + 1,
         UNCHANGED query, UNCHANGED filtered_program_list, UNCHANGED <<programs, read, day, total>>,
         p' = p + 1, pc' = "programs", cnt'.contexts = cnt.contexts, sum'.contexts = sum.contexts
  PROVE  RangeCounted' /\ DayCounted'
<1>1. /\ AreLists(Found) /\ AreLists(DayFound)
      /\ Place \in 1..Len(Found) /\ DayPlace \in 1..Len(DayFound)
      /\ Len(Found[Place]) + 1 = At /\ Len(DayFound[DayPlace]) + 1 = At
  <2>1. Len(<<>>) = 0
    OBVIOUS
  <2>2. CASE Selected(programs[p])
    BY <2>2, HereFound
  <2>3. CASE ~Selected(programs[p])
    BY <2>1, <2>3, HereFound
  <2> QED  BY <2>2, <2>3
<1>2. Found' = Found /\ DayFound' = DayFound
  BY SameFound
<1>3. Len(read.range) \in Nat /\ Len(programs) \in Nat /\ p \in Nat
  BY LenProperties DEF Reading, Inv, TypeInv
<1>4. Place' = Place + 1 /\ DayPlace' = DayPlace + 1 /\ At' = 1
  <2>1. PICK a \in Int : a = Len(read.range) - Len(programs)
    BY <1>3, SMTT(30)
  <2>2. PICK n \in Nat : n = p
    BY <1>3
  <2>3. Place = a + n /\ DayPlace = n
    BY <2>1, <2>2 DEF Place, DayPlace
  <2>4. Place' = a + (n + 1) /\ DayPlace' = n + 1 /\ At' = 1
    BY <2>1, <2>2 DEF Place, DayPlace, At, FileIsOpen
  <2>5. a + (n + 1) = (a + n) + 1
    <3>1. n \in Int
      OBVIOUS
    <3> QED  BY <3>1, OneFurther
  <2> QED  BY <2>3, <2>4, <2>5
<1>5. PICK F, D, k, d : F = Found /\ D = DayFound /\ k = Place /\ d = DayPlace
  OBVIOUS
<1>6. /\ AreLists(F) /\ k \in 1..Len(F) /\ AreLists(D) /\ d \in 1..Len(D)
  BY <1>1, <1>5
<1>7. /\ \A t : Holds(t, F, k, Len(F[k]) + 1) => Holds(t, F, k + 1, 1)
      /\ CountedTo(F, k + 1, 1) = CountedTo(F, k, Len(F[k]) + 1)
  BY <1>6, ProgramSeen
<1>8. /\ \A t : Holds(t, D, d, Len(D[d]) + 1) => Holds(t, D, d + 1, 1)
      /\ CountedTo(D, d + 1, 1) = CountedTo(D, d, Len(D[d]) + 1)
  BY <1>6, ProgramSeen
<1>9. Holds(total, F, k + 1, 1) /\ sum.contexts = CountedTo(F, k + 1, 1)
  BY <1>1, <1>5, <1>7 DEF RangeCounted
<1>10. Holds(day, D, d + 1, 1) /\ cnt.contexts = CountedTo(D, d + 1, 1)
  BY <1>1, <1>5, <1>8 DEF DayCounted
<1> QED  BY <1>2, <1>4, <1>5, <1>9, <1>10 DEF RangeCounted, DayCounted

LEMMA ExamineCounted ==
  ASSUME Inv, RangeInv, ReadInv, Examine
  PROVE  RangeCounted' /\ DayCounted'
<1>1. Reading /\ RangeCounted /\ DayCounted /\ SumTypes /\ ContextsAddUp
  BY DEF ReadInv, RangeInv
<1>2. /\ FileIsOpen /\ p <= Len(programs) /\ pc = "matches" /\ Selected(programs[p])
      /\ m \in Nat \ {0} /\ m <= Len(programs[p].matches)
  BY <1>1 DEF Examine, FileIsOpen, Inv, TypeInv, Reading
<1>3. PICK isNew, isTotallyNew \in BOOLEAN : \E match \in Matches :
        /\ match = programs[p].matches[m]
        /\ isNew <=> IsNew(match, day)
        /\ isTotallyNew <=> isNew /\ IsNew(match, total)
        /\ day' = Enter(match, day) /\ total' = Enter(match, total)
        /\ context_added' = (context_added \/ isNew)
        /\ total_context_added' = (total_context_added \/ isTotallyNew)
        /\ cnt'.contexts = cnt.contexts + IF isNew /\ ~context_added THEN 1 ELSE 0
        /\ sum'.contexts = sum.contexts + IF isTotallyNew /\ ~total_context_added THEN 1 ELSE 0
  BY <1>1, MatchCounted DEF Inv
<1>4. PICK match : /\ match = programs[p].matches[m]
                   /\ isNew <=> IsNew(match, day)
                   /\ isTotallyNew <=> isNew /\ IsNew(match, total)
                   /\ day' = Enter(match, day) /\ total' = Enter(match, total)
  BY <1>3
<1>5. isTotallyNew <=> IsNew(match, total)
  BY <1>1, <1>4 DEF IsNew, ContextsAddUp
<1>6. /\ Found' = Found /\ DayFound' = DayFound
      /\ Place' = Place /\ DayPlace' = DayPlace /\ At = m /\ At' = m + 1 /\ pc' = "matches"
  <2>1. UNCHANGED query /\ UNCHANGED filtered_program_list /\ UNCHANGED <<read, programs, p, pc>>
        /\ m' = m + 1
    BY DEF Examine, filter, files
  <2> QED  BY <1>2, <2>1, SameFound DEF Place, DayPlace, At, FileIsOpen
<1>7. PICK F, D, k, d, j : F = Found /\ D = DayFound /\ k = Place /\ d = DayPlace /\ j = m
  OBVIOUS
<1>8. /\ AreLists(F) /\ k \in 1..Len(F) /\ j \in 1..Len(F[k]) /\ F[k][j] = match
      /\ AreLists(D) /\ d \in 1..Len(D) /\ j \in 1..Len(D[d]) /\ D[d][j] = match
  BY <1>1, <1>2, <1>4, <1>7, HereFound
<1>9. /\ Holds(total, F, k, j) /\ sum.contexts = CountedTo(F, k, j)
      /\ total_context_added <=> HasContext(F, k, j)
      /\ Holds(day, D, d, j) /\ cnt.contexts = CountedTo(D, d, j)
      /\ context_added <=> HasContext(D, d, j)
  BY <1>1, <1>2, <1>6, <1>7 DEF RangeCounted, DayCounted
<1>10. /\ IsNew(F[k][j], total) <=> NewAt(F, k, j)
       /\ Holds(Enter(F[k][j], total), F, k, j + 1)
       /\ HasContext(F, k, j + 1) <=> HasContext(F, k, j) \/ NewAt(F, k, j)
       /\ CountedTo(F, k, j + 1) =
            CountedTo(F, k, j) + IF NewAt(F, k, j) /\ ~HasContext(F, k, j) THEN 1 ELSE 0
  BY <1>8, <1>9, MatchSeen
<1>11. /\ IsNew(D[d][j], day) <=> NewAt(D, d, j)
       /\ Holds(Enter(D[d][j], day), D, d, j + 1)
       /\ HasContext(D, d, j + 1) <=> HasContext(D, d, j) \/ NewAt(D, d, j)
       /\ CountedTo(D, d, j + 1) =
            CountedTo(D, d, j) + IF NewAt(D, d, j) /\ ~HasContext(D, d, j) THEN 1 ELSE 0
  BY <1>8, <1>9, MatchSeen
<1>12. /\ Holds(total', F, k, j + 1) /\ sum'.contexts = CountedTo(F, k, j + 1)
       /\ total_context_added' <=> HasContext(F, k, j + 1)
  <2>1. sum'.contexts = CountedTo(F, k, j + 1)
    BY <1>3, <1>5, <1>8, <1>9, <1>10
  <2>2. total_context_added' <=> HasContext(F, k, j + 1)
    BY <1>3, <1>5, <1>8, <1>9, <1>10
  <2> QED  BY <1>4, <1>8, <1>10, <2>1, <2>2
<1>13. /\ Holds(day', D, d, j + 1) /\ cnt'.contexts = CountedTo(D, d, j + 1)
       /\ context_added' <=> HasContext(D, d, j + 1)
  <2>1. cnt'.contexts = CountedTo(D, d, j + 1)
    BY <1>3, <1>4, <1>8, <1>9, <1>11
  <2>2. context_added' <=> HasContext(D, d, j + 1)
    BY <1>3, <1>4, <1>8, <1>9, <1>11
  <2> QED  BY <1>4, <1>8, <1>11, <2>1, <2>2
<1> QED  BY <1>6, <1>7, <1>12, <1>13 DEF RangeCounted, DayCounted

LEMMA OpenFileCounted ==
  ASSUME Inv, Reading, RangeCounted, NEW content \in Files, OpenFile(content)
  PROVE  RangeCounted' /\ DayCounted'
<1> DEFINE r == read.range
           q == r \o content
           k == Len(r) + 1
<1>1. content \in Seq(Program) /\ r \in Seq(Program)
  BY FilesAssumption DEF Reading, Program
<1>2. /\ q \in Seq(Program) /\ Len(q) = Len(r) + Len(content)
      /\ \A i_ \in 1..Len(r) : q[i_] = r[i_]
      /\ Len(r) \in Nat /\ Len(content) \in Nat
  BY <1>1, ConcatProperties, LenProperties
<1>3. /\ read' = [range |-> q, day |-> content] /\ programs' = content /\ p' = 1 /\ pc' = "programs"
      /\ total' = total /\ sum' = sum /\ day' = NoHashes /\ cnt'.contexts = 0 /\ pc = "files"
      /\ UNCHANGED query /\ UNCHANGED filtered_program_list
  BY DEF OpenFile, NextFile, filter, Zero
<1>4. PICK F, G, D : F = FoundIn(r) /\ G = FoundIn(q) /\ D = FoundIn(content)
  OBVIOUS
<1> HIDE DEF r, q
<1>5. Found = F /\ Found' = G /\ DayFound' = D
  <2>1. FoundIn(q)' = FoundIn(q') /\ FoundIn(content)' = FoundIn(content)
    BY <1>3, SameSelection
  <2> QED  BY <1>3, <1>4, SameSelection DEF Found, DayFound, r
<1>6. /\ AreLists(F) /\ Len(F) = Len(r) /\ AreLists(G) /\ Len(G) = Len(q) /\ AreLists(D)
      /\ \A l \in 1..Len(F) : G[l] = F[l]
  <2>1. /\ AreLists(F) /\ Len(F) = Len(r)
        /\ \A l \in 1..Len(r) : F[l] = IF Selected(r[l]) THEN r[l].matches ELSE <<>>
    BY <1>1, <1>4, FoundFacts
  <2>2. /\ AreLists(G) /\ Len(G) = Len(q)
        /\ \A l \in 1..Len(q) : G[l] = IF Selected(q[l]) THEN q[l].matches ELSE <<>>
    BY <1>2, <1>4, FoundFacts
  <2>3. AreLists(D)
    BY <1>1, <1>4, FoundFacts
  <2>4. 1..Len(r) \subseteq 1..Len(q)
    BY <1>2
  <2> QED  BY <1>2, <2>1, <2>2, <2>3, <2>4
<1>7. Len(F) <= Len(G)
  BY <1>2, <1>6
<1>8. /\ \A t : Holds(t, F, Len(F) + 1, 1) => Holds(t, G, Len(F) + 1, 1)
      /\ CountedTo(G, Len(F) + 1, 1) = CountedTo(F, Len(F) + 1, 1)
  BY <1>6, <1>7, MoreFound
<1>9. Place = k /\ At = 1
  BY <1>3 DEF Place, At, FileIsOpen, r
<1>10. Place' = k /\ DayPlace' = 1 /\ At' = 1
  <2>1. Place' = Len(q) - Len(content) + 1 /\ DayPlace' = 1 /\ At' = 1
    BY <1>3 DEF Place, DayPlace, At, FileIsOpen
  <2> QED  BY <1>2, <2>1
<1>11. Holds(total, G, k, 1) /\ sum.contexts = CountedTo(G, k, 1)
  BY <1>5, <1>6, <1>8, <1>9 DEF RangeCounted
<1>12. Holds(NoHashes, D, 1, 1) /\ CountedTo(D, 1, 1) = 0
  BY <1>6, NothingBefore
<1> QED  BY <1>3, <1>5, <1>10, <1>11, <1>12 DEF RangeCounted, DayCounted

LEMMA CountedStep ==
  ASSUME Inv, RangeInv, ReadInv, [Next]_vars
  PROVE  RangeCounted' /\ DayCounted'
<1>0. Reading /\ RangeCounted /\ DayCounted /\ SumTypes
  BY DEF ReadInv, RangeInv
<1>1. ASSUME UNCHANGED query, UNCHANGED filtered_program_list, UNCHANGED read, UNCHANGED <<cnt, day, total>>,
             sum'.contexts = sum.contexts, pc' # "matches", ~FileIsOpen, ~FileIsOpen'
      PROVE  RangeCounted' /\ DayCounted'
  <2>1. UNCHANGED <<Found, DayFound>>
    BY <1>1, SameFound
  <2>2. UNCHANGED <<Place, DayPlace, At>>
    BY <1>1 DEF Place, DayPlace, At, FileIsOpen
  <2> QED  BY <1>0, <1>1, <2>1, <2>2, SameCounted
<1>2. CASE MissingFile \/ CorruptFile
  BY <1>1, <1>2 DEF MissingFile, CorruptFile, NextFile, filter, tables, FileIsOpen
<1>3. CASE Finish \/ Output
  BY <1>1, <1>3 DEF Finish, Output, filter, files, tables, FileIsOpen
<1>4. CASE FilterStep
  <2>1. /\ read.range = <<>> /\ read.day = <<>> /\ UNCHANGED <<read, cnt, sum, day, total>>
        /\ pc = "filter" /\ pc' \in {"filter", "files"}
    BY <1>0, <1>4 DEF FilterStep, files, tables, Reading
  <2>2. UNCHANGED <<Found, DayFound>>
    <3>1. FoundIn(<<>>)' = FoundIn(<<>>)
      BY DEF FoundIn
    <3> QED  BY <2>1, <3>1 DEF Found, DayFound
  <2>3. UNCHANGED <<Place, DayPlace, At>>
    BY <2>1 DEF Place, DayPlace, At, FileIsOpen
  <2> QED  BY <1>0, <2>1, <2>2, <2>3, SameCounted
<1>5. CASE \E content \in Files : OpenFile(content)
  BY <1>0, <1>5, OpenFileCounted
<1>6. CASE SkipProgram
  <2>1. FileIsOpen /\ p <= Len(programs) /\ ~Selected(programs[p]) /\ At = 0 + 1
    BY <1>6 DEF SkipProgram, NextProgram, FileIsOpen, At
  <2> QED  BY <1>0, <1>6, <2>1, NextCounted DEF SkipProgram, NextProgram, filter, files, tables
<1>7. CASE ProgramWithoutMatch
  <2>1. FileIsOpen /\ p <= Len(programs) /\ At = Len(programs[p].matches) + 1
    <3>1. Len(<<>>) + 1 = 1
      OBVIOUS
    <3> QED  BY <1>7, <3>1 DEF ProgramWithoutMatch, NextProgram, FileIsOpen, At
  <2>2. cnt'.contexts = cnt.contexts
    BY <1>0, <1>7, ProgramCounted DEF SumTypes
  <2> QED  BY <1>0, <1>7, <2>1, <2>2, NextCounted DEF ProgramWithoutMatch, NextProgram, filter, files, tables
<1>8. CASE EndOfProgram
  <2>1. /\ FileIsOpen /\ p <= Len(programs) /\ Selected(programs[p]) /\ At = m
        /\ m <= Len(programs[p].matches) + 1 /\ m > Len(programs[p].matches) /\ m \in Nat
    BY <1>0, <1>8 DEF EndOfProgram, FileIsOpen, Inv, TypeInv, Reading, At
  <2>2. At = Len(programs[p].matches) + 1
    <3>1. Len(programs[p].matches) \in Nat
      BY <1>0, <2>1, HereFound
    <3> QED  BY <2>1, <3>1
  <2> QED  BY <1>0, <1>8, <2>1, <2>2, NextCounted DEF EndOfProgram, filter, files, tables
<1>9. CASE ProgramWithMatches
  <2>1. /\ FileIsOpen /\ FileIsOpen' /\ At = 1 /\ At' = 1 /\ ~context_added' /\ ~total_context_added'
        /\ UNCHANGED query /\ UNCHANGED filtered_program_list
        /\ UNCHANGED <<read, programs, p, day, total, sum>>
    BY <1>9 DEF ProgramWithMatches, NextProgram, FileIsOpen, At, filter, files
  <2>2. UNCHANGED <<Found, DayFound>>
    BY <2>1, SameFound
  <2>3. UNCHANGED <<Place, DayPlace>>
    BY <2>1 DEF Place, DayPlace
  <2>4. cnt'.contexts = cnt.contexts
    BY <1>0, <1>9, ProgramCounted DEF SumTypes
  <2>5. \A F, k : ~HasContext(F, k, 1)
    <3>1. 1..(1 - 1) = {}
      OBVIOUS
    <3> QED  BY <3>1 DEF HasContext
  <2> QED  BY <1>0, <2>1, <2>2, <2>3, <2>4, <2>5 DEF RangeCounted, DayCounted
<1>10. CASE Examine
  BY <1>10, ExamineCounted
<1>11. CASE EndOfFile
  <2>1. /\ FileIsOpen /\ ~FileIsOpen' /\ pc = "programs" /\ pc' = "files" /\ p > Len(programs)
        /\ UNCHANGED query /\ UNCHANGED filtered_program_list /\ UNCHANGED read
        /\ UNCHANGED <<day, total, cnt>>
    BY <1>11 DEF EndOfFile, FileIsOpen, filter, files, tables
  <2>2. UNCHANGED <<Found, DayFound>>
    BY <2>1, SameFound
  <2>3. /\ p = Len(programs) + 1 /\ read.day = programs
        /\ Len(read.range) \in Nat /\ Len(programs) \in Nat
    BY <1>0, <2>1, LenProperties DEF Reading, Inv, TypeInv
  <2>4. Place = Len(read.range) + 1 /\ DayPlace = Len(read.day) + 1 /\ At = 1
    <3>1. Place = Len(read.range) - Len(programs) + p /\ DayPlace = p /\ At = 1
      BY <2>1 DEF Place, DayPlace, At
    <3>2. PICK r \in Nat, n \in Nat : r = Len(read.range) /\ n = Len(programs)
      BY <2>3
    <3>3. r - n + (n + 1) = r + 1
      BY OneFurther
    <3> QED  BY <2>3, <3>1, <3>2, <3>3
  <2>5. Place' = Len(read.range) + 1 /\ DayPlace' = Len(read.day) + 1 /\ At' = 1
    BY <2>1 DEF Place, DayPlace, At
  <2>6. sum'.contexts = sum.contexts
    BY <1>0, <1>11, DayAdded
  <2> QED  BY <1>0, <2>1, <2>2, <2>4, <2>5, <2>6, SameCounted
<1>12. CASE UNCHANGED vars
  <2>1. /\ UNCHANGED query /\ UNCHANGED filtered_program_list
        /\ UNCHANGED <<read, programs, p, m, day, total, sum, cnt, pc>>
        /\ UNCHANGED context_added /\ UNCHANGED total_context_added
    BY <1>12 DEF vars, filter, files, tables
  <2>2. UNCHANGED <<Found, DayFound, Place, DayPlace, At>>
    BY <2>1, SameFound DEF Place, DayPlace, At, FileIsOpen
  <2> QED  BY <1>0, <2>1, <2>2 DEF RangeCounted, DayCounted
<1> QED  BY <1>2, <1>3, <1>4, <1>5, <1>6, <1>7, <1>8, <1>9, <1>10, <1>11, <1>12 DEF Next

\* The row appended last.
LEMMA RowStep ==
  ASSUME Inv, RangeInv, LastRow, [Next]_vars
  PROVE  LastRow'
<1>0. SumTypes
  BY DEF RangeInv
<1>1. CASE MissingFile \/ CorruptFile \/ UNCHANGED vars
  BY <1>1 DEF MissingFile, CorruptFile, NextFile, vars, LastRow
<1>2. CASE FilterStep
  BY <1>2 DEF FilterStep, LastRow
<1>3. CASE EndOfFile
  <2>1. search_results' = Append(search_results, [dt |-> file_list[it], cnt |-> cnt]) /\ cnt' = cnt
    BY <1>3 DEF EndOfFile
  <2>2. search_results'[Len(search_results')].cnt = cnt
    BY <1>0, <2>1 DEF SumTypes
  <2> QED  BY <2>1, <2>2 DEF LastRow
<1>4. CASE \/ \E content \in Files : OpenFile(content)
           \/ SkipProgram \/ ProgramWithoutMatch \/ ProgramWithMatches
           \/ Examine \/ EndOfProgram \/ Finish \/ Output
  BY <1>4 DEF OpenFile, SkipProgram, ProgramWithoutMatch, ProgramWithMatches, NextProgram,
              Examine, EndOfProgram, Finish, Output, LastRow
<1> QED  BY <1>1, <1>2, <1>3, <1>4 DEF Next

\* At the end of every file, the row of its day counts the contexts that the
\* programs of the file have by themselves, and the grand total those of all
\* programs in the order they were read, selected programs alone, whatever was
\* kept as an excerpt.
THEOREM CountsAreOfContexts == Spec => []ContextsAreDistinct
<1>1. Inv /\ RangeInv /\ ReadInv /\ [Next]_vars => (RangeInv /\ ReadInv)'
  <2> SUFFICES ASSUME Inv, RangeInv, ReadInv, [Next]_vars PROVE RangeInv' /\ ReadInv'
    OBVIOUS
  <2>1. RangeInv'
    BY RangeTypes, RangeFiles, RangeLists, RangeCounts, RangeContexts DEF RangeInv
  <2>2. ReadInv'
    BY ReadingStep, CountedStep, RowStep DEF ReadInv
  <2> QED  BY <2>1, <2>2
<1>2. ASSUME ReadInv PROVE ContextsAreDistinct
  <2> SUFFICES ASSUME pc = "files"
               PROVE  /\ sum.contexts = Cardinality(ContextsOf(FoundIn(read.range)))
                      /\ search_results # <<>> =>
                           search_results[Len(search_results)].cnt.contexts =
                             Cardinality(ContextsOf(FoundIn(read.day)))
    BY DEF ContextsAreDistinct
  <2>1. /\ Place = Len(read.range) + 1 /\ DayPlace = Len(read.day) + 1 /\ At = 1
    BY DEF Place, DayPlace, At, FileIsOpen
  <2>2. /\ AreLists(Found) /\ Len(Found) = Len(read.range)
        /\ AreLists(DayFound) /\ Len(DayFound) = Len(read.day)
    BY <1>2, FoundFacts DEF ReadInv, Reading, Found, DayFound
  <2>3. /\ sum.contexts = CountedTo(Found, Len(Found) + 1, 1)
        /\ cnt.contexts = CountedTo(DayFound, Len(DayFound) + 1, 1)
    BY <1>2, <2>1, <2>2 DEF ReadInv, RangeCounted, DayCounted
  <2>4. /\ sum.contexts = Cardinality(ContextsOf(Found))
        /\ cnt.contexts = Cardinality(ContextsOf(DayFound))
    BY <2>2, <2>3, AllCounted
  <2> QED  BY <1>2, <2>4 DEF Found, DayFound, ReadInv, LastRow
<1>3. Spec => []Inv
  BY InvCorrect
<1> QED  BY <1>1, <1>2, <1>3, InitRange, InitRead, PTL DEF Spec
=============================================================================
