---------------------------- MODULE StringHasher ----------------------------
(***************************************************************************)
(* StringHasher: the hash of any stretch of a text from cumulative sums,   *)
(*   H[i] = c0 + A*c1 + ... + A^i*ci  mod M,                               *)
(* divided by the power of A at which the stretch begins.  One hasher is   *)
(* used for all texts of a search: load_text overwrites the sums of the    *)
(* text before, and the table of sums only grows.                          *)
(*                                                                         *)
(* This is the branch the programs take, M <= sqrt(UINT_MAX), in unsigned  *)
(* arithmetic of Width values, with the inverses computed in advance.      *)
(***************************************************************************)
EXTENDS Integers, Sequences

CONSTANTS
  M, A,
  Width,      (* UINT_MAX + 1                                             *)
  Texts,      (* The texts: sequences of (signed) char.                   *)
  MaxLoads    (* Bound on the number of texts loaded.                     *)

ASSUME ModulusAssumption ==
  /\ M \in Nat \ {0, 1} /\ A \in 1..(M - 1)
  /\ Width \in Nat /\ M * M <= Width

\* A char is at most 127; the programs hash mod 65071.
ASSUME TextsAssumption ==
  Texts \subseteq Seq(Int) /\ \A t \in Texts : \A k \in DOMAIN t : t[k] < M

VARIABLES
  text,       (* The text being loaded, or loaded last. *)
  N,
  H,          (* Indexed from 0.                        *)
  i,          (* The next index of load_text.           *)
  ALL,        (* A^i mod M                              *)
  loads,      (* The number of texts loaded.            *)
  pc          (* "ready" or "load".                     *)

vars == <<text, N, H, i, ALL, loads, pc>>

Unsigned(x) == x % Width

\* modular_inverses[k], the powers of A from A^1 at M - 2 down to A^(M-1) at 0.
modular_inverses ==
  LET inverse[k \in 0..(M - 2)] ==
        IF k = M - 2 THEN A ELSE Unsigned(inverse[k + 1] * A) % M
  IN  inverse

\* "By Fermat's little theorem, A^(M-1) = 1": M is a prime.
ASSUME FermatAssumption == modular_inverses[0] = 1

Init ==
  /\ text = <<>>
  /\ N = 0
  /\ H = [k \in {} |-> 0]
  /\ i = 0
  /\ ALL = A
  /\ loads = 0
  /\ pc = "ready"

\* The indices of H after H.resize(n), or of a longer text before.
Resized(n) == DOMAIN H \cup 0..(n - 1)

\* load_text is called: H.resize(N) keeps what it holds and adds zeros.
LoadText(t) ==
  /\ pc = "ready"
  /\ loads < MaxLoads
  /\ loads' = loads + 1
  /\ text' = t
  /\ N' = Len(t)
  /\ IF t = <<>>
     THEN UNCHANGED <<H, i, ALL, pc>>
     ELSE /\ H' = [k \in Resized(N') |->
                     IF k = 0 THEN Unsigned(t[1]) ELSE IF k \in DOMAIN H THEN H[k] ELSE 0]
          /\ i' = 1
          /\ ALL' = A
          /\ pc' = "load"

AddCharacter ==
  /\ pc = "load"
  /\ i < N
  /\ H' = [H EXCEPT ![i] = Unsigned(H[i - 1] + ALL * Unsigned(text[i + 1])) % M]
  /\ ALL' = Unsigned(ALL * A) % M
  /\ i' = i + 1
  /\ UNCHANGED <<text, N, loads, pc>>

Loaded ==
  /\ pc = "load"
  /\ i = N
  /\ pc' = "ready"
  /\ UNCHANGED <<text, N, H, i, ALL, loads>>

Next == \E t \in Texts : LoadText(t) \/ AddCharacter \/ Loaded

Spec == Init /\ [][Next]_vars

\* The bounds of a stretch are cut down to those of the text.
From(j) == IF j < 0 THEN 0 ELSE j
To(k) == IF k > N - 1 THEN N - 1 ELSE k

\* Mutant: the difference of two sums is not brought back above 0 by M.
hashWithoutCarry(j, k) ==
  LET from == From(j)
      subHash == Unsigned(H[To(k)] - (IF from > 0 THEN H[from - 1] ELSE 0))
  IN  Unsigned(subHash * modular_inverses[from % (M - 1)]) % M

hash(j, k) ==
  LET from == From(j)
      carried == IF from > 0 /\ H[To(k)] < H[from - 1] THEN M ELSE 0
      subHash == Unsigned(H[To(k)] + carried - (IF from > 0 THEN H[from - 1] ELSE 0))
  IN  Unsigned(subHash * modular_inverses[from % (M - 1)]) % M
------------------------------------------------------------------------------
(* c0 + A*c1 + A^2*c2 + ... + A^n*cn mod M, by Horner's rule *)
Formula(s) ==
  LET horner[n \in 0..Len(s)] ==
        IF n = 0 THEN 0 ELSE (s[Len(s) - n + 1] + A * horner[n - 1]) % M
  IN  horner[Len(s)]

Stretch(j, k) == SubSeq(text, From(j) + 1, To(k) + 1)

\* The stretches around a match in a text that is loaded; a match is inside.
Stretches == {s \in (-1..(N - 1)) \X (0..N) : From(s[1]) <= To(s[2])}

\* The hash of a stretch is the formula over its characters alone, wherever in
\* the text it stands and whatever texts were loaded before, as long as no
\* character is above 127, where the unsigned sums wrap.
HashIsTheFormula ==
  pc = "ready" /\ (\A k \in DOMAIN text : text[k] >= 0) =>
    \A s \in Stretches : hash(s[1], s[2]) = Formula(Stretch(s[1], s[2]))
=============================================================================
