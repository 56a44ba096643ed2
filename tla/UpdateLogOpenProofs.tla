------------------------- MODULE UpdateLogOpenProofs -------------------------
(***************************************************************************)
(* The backend selector, and the update log's dispatcher that walks it.    *)
(*                                                                         *)
(* candidate_beats_best() orders the rows of a class: the order is strict  *)
(* and ties are an equivalence, so the selector's one pass is meaningful   *)
(* and the ranked walk below a row already tried neither loops nor depends *)
(* on the link order.  What the pass computes is shown by induction on the *)
(* section, as a least counterexample, which LeastNatural provides.        *)
(*                                                                         *)
(* The invariants of the dispatcher hold for any number of threads and any *)
(* image.  IInv says who is where: active_ops counts the threads between   *)
(* their add and their sub; one thread owns OPENING, one owns CLOSING; an  *)
(* op past its check keeps close() from dropping the ops; and a walk       *)
(* stands at the best row below all that declined, every other fitting row *)
(* having had its chance.                                                  *)
(***************************************************************************)
EXTENDS UpdateLogOpen, CountingFacts

-----------------------------------------------------------------------------
(* The selector.                                                           *)

\* Every row a backend can register.
AnyRow(r) == r.priority \in Int /\ r.vendor \in Int

\* Neither row beats the other.
Tied(a, b) == ~candidate_beats_best(a, b) /\ ~candidate_beats_best(b, a)

\* The order is irreflexive and transitive, so a walk that only goes to rows
\* ranked below the last one (alp_backend_select_next) tries no row twice.
THEOREM StrictOrder ==
  ASSUME NEW a, NEW b, NEW c, AnyRow(a), AnyRow(b), AnyRow(c)
  PROVE  /\ ~candidate_beats_best(a, a)
         /\ candidate_beats_best(a, b) => ~candidate_beats_best(b, a)
         /\ candidate_beats_best(a, b) /\ candidate_beats_best(b, c) => candidate_beats_best(a, c)
BY DEF candidate_beats_best, is_wildcard, AnyRow

\* Tied rows agree on all three tiers, the only case in which the walk skips
\* a row that it has not tried ("a full tie", select_in_range).
THEOREM TiesAreFullTies ==
  ASSUME NEW a, NEW b, AnyRow(a), AnyRow(b)
  PROVE  Tied(a, b) <=> /\ a.priority = b.priority
                        /\ is_wildcard(a) <=> is_wildcard(b)
                        /\ a.vendor = b.vendor
BY VendorAssumption DEF Tied, candidate_beats_best, is_wildcard, AnyRow

\* Replacing the best row so far by a better one never makes a row acceptable
\* that was passed over: what the best row beat stays beaten, in any order of
\* the section.
THEOREM PassedOverStaysBeaten ==
  ASSUME NEW best, NEW cand, NEW r, AnyRow(best), AnyRow(cand), AnyRow(r),
         ~candidate_beats_best(r, best), candidate_beats_best(cand, best)
  PROVE  candidate_beats_best(cand, r)
BY VendorAssumption DEF candidate_beats_best, is_wildcard, AnyRow

-----------------------------------------------------------------------------
\* The scan of a section: its n-th value is the best of the first n rows.
IsScan(best, n, sec, ref, prev) ==
  best = [k \in 0..n |-> IF k = 0 THEN NoRow ELSE Better(sec, ref, prev, best[k - 1], k)]

\* The recursive definition of the scan has a solution, so select_in_range is
\* the value its equation gives.
LEMMA ScanExists ==
  ASSUME NEW sec, NEW ref, NEW prev, NEW N \in Nat
  PROVE  \E best : IsScan(best, N, sec, ref, prev)
<1> DEFINE Bad == {n \in Nat : ~\E best : IsScan(best, n, sec, ref, prev)}
<1> SUFFICES ASSUME Bad # {} PROVE FALSE
  OBVIOUS
<1>1. PICK n \in Bad : \A m \in Bad : n <= m
  BY LeastNatural
<1>2. CASE n = 0
  <2>1. IsScan([k \in 0..0 |-> NoRow], 0, sec, ref, prev)
    BY DEF IsScan
  <2> QED
    BY <1>2, <2>1
<1>3. CASE n # 0
  <2>1. n - 1 \in Nat /\ n - 1 \notin Bad /\ n \in Nat
    BY <1>1, <1>3
  <2>2. PICK g : IsScan(g, n - 1, sec, ref, prev)
    BY <2>1
  <2> DEFINE f == [k \in 0..n |-> IF k = n THEN Better(sec, ref, prev, g[n - 1], n) ELSE g[k]]
  <2>3. ASSUME NEW k \in 0..n
        PROVE  f[k] = IF k = 0 THEN NoRow ELSE Better(sec, ref, prev, f[k - 1], k)
    <3>1. CASE k = n
      <4>1. f[n - 1] = g[n - 1]
        BY <2>1
      <4> QED
        BY <3>1, <4>1, <1>3
    <3>2. CASE k # n /\ k = 0
      BY <2>1, <2>2, <3>2 DEF IsScan
    <3>3. CASE k # n /\ k # 0
      <4>1. k \in 0..(n - 1) /\ k - 1 \in 0..n /\ k - 1 # n
        BY <2>1, <3>3
      <4>2. g[k] = Better(sec, ref, prev, g[k - 1], k)
        BY <2>2, <3>3, <4>1 DEF IsScan
      <4> QED
        BY <3>3, <4>1, <4>2
    <3> QED
      BY <3>1, <3>2, <3>3
  <2>4. IsScan(f, n, sec, ref, prev)
    <3> DEFINE e(k) == IF k = 0 THEN NoRow ELSE Better(sec, ref, prev, f[k - 1], k)
    <3>1. f = [k \in 0..n |-> e(k)]
      <4>1. f = [k \in 0..n |-> f[k]]
        OBVIOUS
      <4>2. \A k \in 0..n : f[k] = e(k)
        BY <2>3
      <4> HIDE DEF f, e
      <4> QED
        BY <4>1, <4>2
    <3> QED
      BY <3>1 DEF IsScan
  <2> QED
    BY <2>4
<1> QED
  BY <1>2, <1>3

\* r is the best of the first n rows that are eligible, or there is none.
BestOf(r, n, sec, ref, prev) ==
  LET eligible == {i \in 1..n : Eligible(sec, ref, prev, i)} IN
  IF eligible = {} THEN r = NoRow
  ELSE r \in eligible /\ \A i \in eligible : ~candidate_beats_best(sec[i], sec[r])

\* One row more keeps the best row the best.
LEMMA BetterIsBest ==
  ASSUME NEW sec, NEW ref, NEW prev, NEW r, NEW n \in Nat, n > 0,
         \A i \in 1..n : AnyRow(sec[i]),
         BestOf(r, n - 1, sec, ref, prev)
  PROVE  BestOf(Better(sec, ref, prev, r, n), n, sec, ref, prev)
<1> DEFINE old == {i \in 1..(n - 1) : Eligible(sec, ref, prev, i)}
           new == {i \in 1..n : Eligible(sec, ref, prev, i)}
<1>1. CASE ~Eligible(sec, ref, prev, n)
  <2>1. new = old
    BY <1>1
  <2> QED
    BY <1>1, <2>1 DEF Better, BestOf
<1>2. CASE Eligible(sec, ref, prev, n) /\ old = {}
  <2>1. new = {n} /\ r = NoRow
    BY <1>2 DEF BestOf
  <2>2. ~candidate_beats_best(sec[n], sec[n])
    BY StrictOrder
  <2>3. Better(sec, ref, prev, r, n) = n
    BY <1>2, <2>1 DEF Better
  <2> HIDE DEF new
  <2>4. n \in new /\ \A i \in new : ~candidate_beats_best(sec[i], sec[n])
    BY <2>1, <2>2
  <2> QED
    BY <2>3, <2>4 DEF BestOf, new
<1>3. CASE Eligible(sec, ref, prev, n) /\ old # {}
  <2>1. new = old \cup {n} /\ r \in old /\ r # NoRow
        /\ \A i \in old : ~candidate_beats_best(sec[i], sec[r])
    BY <1>3 DEF BestOf, NoRow
  <2>2. AnyRow(sec[n]) /\ \A i \in old : AnyRow(sec[i])
    OBVIOUS
  <2>3. Better(sec, ref, prev, r, n) \in new
    BY <2>1 DEF Better
  <2> HIDE DEF old
  <2>4. ASSUME NEW i \in new
        PROVE  ~candidate_beats_best(sec[i], sec[Better(sec, ref, prev, r, n)])
    <3>1. CASE candidate_beats_best(sec[n], sec[r])
      <4>1. Better(sec, ref, prev, r, n) = n
        BY <1>3, <2>1, <3>1 DEF Better
      <4>2. CASE i = n
        BY <4>1, <4>2, <2>2, StrictOrder
      <4>3. CASE i \in old
        <5>1. candidate_beats_best(sec[n], sec[i])
          BY <2>1, <2>2, <3>1, <4>3, PassedOverStaysBeaten
        <5> QED
          BY <2>2, <4>1, <4>3, <5>1, StrictOrder
      <4> QED
        BY <2>1, <4>2, <4>3
    <3>2. CASE ~candidate_beats_best(sec[n], sec[r])
      <4>1. Better(sec, ref, prev, r, n) = r
        BY <2>1, <3>2 DEF Better
      <4> QED
        BY <2>1, <3>2, <4>1
    <3> QED
      BY <3>1, <3>2
  <2> QED
    BY <2>3, <2>4 DEF BestOf
<1> QED
  BY <1>1, <1>2, <1>3

\* alp_backend_select and select_next return the best eligible row of the
\* section, whatever its length, and none only if there is none.
THEOREM SelectsTheBest ==
  ASSUME NEW sec, Len(sec) \in Nat, NEW ref, NEW prev,
         \A i \in 1..Len(sec) : AnyRow(sec[i])
  PROVE  BestOf(select_in_range(sec, ref, prev), Len(sec), sec, ref, prev)
<1> DEFINE N == Len(sec)
           best == CHOOSE f : IsScan(f, N, sec, ref, prev)
<1>1. IsScan(best, N, sec, ref, prev)
  BY ScanExists
<1>2. select_in_range(sec, ref, prev) = best[N]
  BY DEF select_in_range, IsScan
<1> HIDE DEF best
<1>3. best[0] = NoRow
      /\ \A k \in 1..N : best[k] = Better(sec, ref, prev, best[k - 1], k)
  BY <1>1 DEF IsScan
<1> DEFINE Bad == {k \in 0..N : ~BestOf(best[k], k, sec, ref, prev)}
<1>4. Bad = {}
  <2> SUFFICES ASSUME Bad # {} PROVE FALSE
    OBVIOUS
  <2>1. PICK k \in Bad : \A m \in Bad : k <= m
    <3>1. Bad \subseteq Nat
      OBVIOUS
    <3> HIDE DEF Bad
    <3> QED
      BY <3>1, LeastNatural
  <2>2. k # 0
    BY <1>3, <2>1 DEF BestOf
  <2>3. k - 1 \in 0..N /\ k - 1 \notin Bad /\ k \in 1..N /\ k \in Nat
    BY <2>1, <2>2
  <2>4. BestOf(best[k - 1], k - 1, sec, ref, prev)
    BY <2>3
  <2>5. BestOf(Better(sec, ref, prev, best[k - 1], k), k, sec, ref, prev)
    BY <2>3, <2>4, BetterIsBest
  <2> QED
    BY <1>3, <2>3, <2>5
<1> QED
  BY <1>2, <1>4

-----------------------------------------------------------------------------
(* The dispatcher.                                                         *)

\* Where the initializer and the closer are, and who is counted.
InitPc == {"walk", "open_done", "open_failed"}
TearPc == {"drain", "drop", "unopen"}
Inside == {t \in Threads : pc[t] \in {"op_chk", "op_back", "body", "leave"}}

\* active_ops counts the threads between their add and their sub.
CountInv == active_ops = Cardinality(Inside)

\* OPENING and CLOSING each belong to one thread, as long as it is at work.
OwnerInv ==
  /\ \A t, u \in Threads : (pc[t] \in InitPc /\ pc[u] \in InitPc) => t = u
  /\ \A t, u \in Threads : (pc[t] \in TearPc /\ pc[u] \in TearPc) => t = u
  /\ (lifecycle = "OPENING") <=> (\E t \in Threads : pc[t] \in InitPc)
  /\ (lifecycle = "CLOSING") <=> (\E t \in Threads : pc[t] \in TearPc)

\* While an op is past its check, close() is at most draining.
UseInv ==
  \A t \in Threads : pc[t] \in {"body", "leave"} =>
    /\ lifecycle \in {"OPEN", "CLOSING"}
    /\ \A u \in Threads : pc[u] \notin {"drop", "unopen"}

\* The ops pointer and the tier that goes with it.
OpsInv ==
  /\ ops # NoRow => assurance = section[ops].tier
  /\ (lifecycle = "OPEN" \/ \E t \in Threads : pc[t] \in {"open_done", "drain"}) => ops # NoRow

\* The rows that fit, those of them that rank below all that declined, and
\* those that had their chance.
Fitting == {i \in Rows : Fits(i)}
Lower == {i \in Rows : Below(i)}
Tried == {i \in Rows : HadItsChance(i)}

\* row is a row of R that no row of R beats, or R is empty.
BestIn(row, R) ==
  IF R = {} THEN row = NoRow
  ELSE row \in R /\ \A i \in R : ~candidate_beats_best(section[i], section[row])

\* The walk stands at the best row left, and has left no fitting row out.
WalkInv ==
  \A t \in Threads : pc[t] = "walk" =>
    BestIn(be[t], Lower) /\ Fitting \subseteq Lower \cup Tried

\* The elected row satisfies BestReadyTier.
Chosen ==
  /\ RequireHw => assurance = "HW_ENFORCED"
  /\ \A i \in Rows :
       (Fits(i) /\ candidate_beats_best(section[i], section[ops])) => HadItsChance(i)

\* It does from its election until close() starts; so does a walk that failed.
ChosenInv ==
  /\ (lifecycle = "OPEN" \/ \E t \in Threads : pc[t] = "open_done") => Chosen
  /\ \A t \in Threads : (pc[t] = "open_failed" /\ be[t] = NoRow) =>
       \A i \in Rows : Fits(i) => HadItsChance(i)

IInv == TypeOK /\ CountInv /\ OwnerInv /\ UseInv /\ OpsInv /\ WalkInv /\ ChosenInv

USE ThreadsAssumption, VendorAssumption

-----------------------------------------------------------------------------
\* What an image's section looks like.
LEMMA SectionShape ==
  ASSUME section \in Sections
  PROVE  /\ Len(section) \in Nat /\ Rows = 1..Len(section)
         /\ \A i \in Rows : AnyRow(section[i]) /\ section[i].tier \in Tiers
         /\ NoRow \notin Rows
<1>1. section \in Seq({section[i] : i \in DOMAIN section})
  BY SectionsAssumption
<1>2. \A i \in DOMAIN section :
        section[i].priority \in Int /\ section[i].vendor \in Int /\ section[i].tier \in Tiers
  BY SectionsAssumption
<1>3. Len(section) \in Nat /\ DOMAIN section = 1..Len(section)
  BY <1>1
<1> QED
  BY <1>2, <1>3 DEF Rows, AnyRow, NoRow

\* A step of one thread adds it to, or removes it from, those inside.
LEMMA Counting ==
  ASSUME TypeOK, NEW t \in Threads, NEW l, pc' = [pc EXCEPT ![t] = l]
  PROVE  /\ IsFiniteSet(Inside) /\ Cardinality(Inside) \in Nat
         /\ IsFiniteSet(Inside') /\ Cardinality(Inside') \in 0..Cardinality(Threads)
         /\ (t \in Inside <=> t \in Inside') => Inside' = Inside
         /\ (t \notin Inside /\ t \in Inside') => Cardinality(Inside') = Cardinality(Inside) + 1
         /\ (t \in Inside /\ t \notin Inside') => Cardinality(Inside') = Cardinality(Inside) - 1
<1>1. Inside \in SUBSET Threads /\ Inside' \in SUBSET Threads
  BY DEF Inside
<1>2. /\ IsFiniteSet(Inside) /\ Cardinality(Inside) \in Nat
      /\ IsFiniteSet(Inside') /\ Cardinality(Inside') \in 0..Cardinality(Threads)
  BY <1>1, FS_Subset, FS_CardinalityType
<1>3. \A u \in Threads : u # t => (u \in Inside <=> u \in Inside')
  BY DEF Inside, TypeOK
<1>4. (t \in Inside <=> t \in Inside') => Inside' = Inside
  BY <1>1, <1>3
<1>5. (t \notin Inside /\ t \in Inside') => Inside' = Inside \cup {t}
  BY <1>1, <1>3
<1>6. (t \in Inside /\ t \notin Inside') => Inside' = Inside \ {t}
  BY <1>1, <1>3
<1> QED
  BY <1>2, <1>4, <1>5, <1>6, FS_AddElement, FS_RemoveElement

\* A step that starts no walk and moves none leaves the walks as they were.
LEMMA WalkKept ==
  ASSUME IInv, UNCHANGED <<section, declined>>,
         \A u \in Threads : pc'[u] = "walk" => (pc[u] = "walk" /\ be'[u] = be[u])
  PROVE  WalkInv'
BY DEF IInv, WalkInv, BestIn, Fitting, Lower, Tried, Below, HadItsChance, Fits, Rows

\* A step that elects no row and ends no walk leaves the outcome as it was.
LEMMA ChosenKept ==
  ASSUME IInv, UNCHANGED <<section, RequireHw, declined, ops, assurance>>,
         lifecycle' = "OPEN" => (lifecycle = "OPEN" \/ \E u \in Threads : pc[u] = "open_done"),
         \A u \in Threads :
           /\ pc'[u] = "open_done" => pc[u] = "open_done"
           /\ (pc'[u] = "open_failed" /\ be'[u] = NoRow) => (pc[u] = "open_failed" /\ be[u] = NoRow)
  PROVE  ChosenInv'
BY DEF IInv, ChosenInv, Chosen, HadItsChance, Fits, Rows

\* The steps that only move a thread: the calls, the failed check, the body.
LEMMA Move ==
  ASSUME IInv, NEW t \in Threads, NEW l,
         pc' = [pc EXCEPT ![t] = l], UNCHANGED <<guard, ops, assurance, declined, be>>,
         <<pc[t], l>> \in {<<"idle", "open">>, <<"idle", "op_add">>, <<"idle", "elect">>,
                           <<"op_chk", "op_back">>, <<"body", "leave">>}
  PROVE  IInv'
<1>1. TypeOK'
  BY DEF IInv, TypeOK, guard, image, Pc, OpPc, ClosePc, Rows
<1>2. CountInv'
  BY Counting DEF IInv, CountInv, guard, Inside, TypeOK
<1>3. OwnerInv' /\ UseInv' /\ OpsInv'
  BY DEF IInv, TypeOK, OwnerInv, UseInv, OpsInv, InitPc, TearPc, guard, image
<1>4. WalkInv' /\ ChosenInv'
  BY WalkKept, ChosenKept DEF IInv, TypeOK, guard, image
<1> QED
  BY <1>1, <1>2, <1>3, <1>4 DEF IInv

\* The row selected is the best of those left, once the eligible rows are those.
LEMMA WalkGoesOn ==
  ASSUME TypeOK, UNCHANGED section, NEW prev,
         \A i \in Rows : Eligible(section, SocRef, prev, i) <=> i \in Lower'
  PROVE  /\ select_in_range(section, SocRef, prev) \in Rows \cup {NoRow}
         /\ BestIn(select_in_range(section, SocRef, prev), Lower')
<1> DEFINE row == select_in_range(section, SocRef, prev)
           E == {i \in Rows : Eligible(section, SocRef, prev, i)}
<1>1. /\ Len(section) \in Nat /\ Rows = 1..Len(section)
      /\ \A i \in Rows : AnyRow(section[i])
  BY SectionShape DEF TypeOK
<1>2. BestOf(row, Len(section), section, SocRef, prev)
  BY <1>1, SelectsTheBest
<1>3. BestIn(row, E)
  BY <1>1, <1>2 DEF BestOf, BestIn
<1>4. E = Lower'
  BY DEF Lower, Rows
<1> HIDE DEF row
<1>5. BestIn(row, Lower')
  BY <1>3, <1>4
<1>6. row \in Rows \cup {NoRow}
  BY <1>3 DEF BestIn
<1> QED
  BY <1>5, <1>6 DEF row

\* At the start of a walk every fitting row is left.
LEMMA WalkStarts ==
  ASSUME TypeOK, UNCHANGED section, declined' = {}
  PROVE  /\ \A i \in Rows : Eligible(section, SocRef, NoRow, i) <=> i \in Lower'
         /\ Fitting' \subseteq Lower'
BY DEF Eligible, Lower, Below, Fitting, Fits, Rows

\* When the best row left declines, the rows that stay are those ranking below
\* it; those that go tie with it, and so had their chance.
LEMMA RowDeclines ==
  ASSUME IInv, UNCHANGED section, NEW t \in Threads, pc[t] = "walk", be[t] # NoRow,
         declined' = declined \cup {be[t]}
  PROVE  /\ \A i \in Rows : Eligible(section, SocRef, be[t], i) <=> i \in Lower'
         /\ Fitting' \subseteq Lower' \cup Tried'
<1> DEFINE row == be[t]
<1>1. /\ row \in Rows /\ declined \subseteq Rows /\ row \in Lower
      /\ \A i \in Lower : ~candidate_beats_best(section[i], section[row])
      /\ Fitting \subseteq Lower \cup Tried
  BY DEF IInv, TypeOK, WalkInv, BestIn
<1>2. \A i \in Rows : AnyRow(section[i])
  BY SectionShape DEF IInv, TypeOK
<1>3. Fitting' = Fitting
  BY DEF Fitting, Fits, Rows
<1>4. \A i : i \in Lower' <=> /\ i \in Fitting /\ candidate_beats_best(section[row], section[i])
                              /\ \A d \in declined : candidate_beats_best(section[d], section[i])
  BY DEF Lower, Below, Fitting, Fits, Rows
<1>5. \A i : i \in Lower <=> /\ i \in Fitting
                             /\ \A d \in declined : candidate_beats_best(section[d], section[i])
  BY DEF Lower, Below, Fitting
<1>6. \A i \in Rows : Eligible(section, SocRef, row, i) <=>
        i \in Fitting /\ i # row /\ candidate_beats_best(section[row], section[i])
  BY DEF Eligible, Fitting, Fits
<1>7. Tried \subseteq Tried'
  BY DEF Tried, HadItsChance, Rows
<1>8. \A i \in Rows : (/\ ~candidate_beats_best(section[row], section[i])
                       /\ ~candidate_beats_best(section[i], section[row])) => i \in Tried'
  BY DEF Tried, HadItsChance, Rows
<1> HIDE DEF row
<1>9. ASSUME NEW i \in Rows PROVE Eligible(section, SocRef, row, i) <=> i \in Lower'
  <2>1. ASSUME Eligible(section, SocRef, row, i) PROVE i \in Lower'
    <3>1. ASSUME NEW d \in declined PROVE candidate_beats_best(section[d], section[i])
      <4>1. candidate_beats_best(section[d], section[row])
        BY <1>1, <1>5
      <4> QED
        BY <1>1, <1>2, <1>6, <2>1, <4>1, StrictOrder
    <3> QED
      BY <1>4, <1>6, <2>1, <3>1
  <2>2. ASSUME i \in Lower' PROVE Eligible(section, SocRef, row, i)
    <3>1. i # row
      BY <1>1, <1>2, <1>4, <2>2, StrictOrder
    <3> QED
      BY <1>4, <1>6, <2>2, <3>1
  <2> QED
    BY <2>1, <2>2
<1>10. ASSUME NEW i \in Fitting' PROVE i \in Lower' \cup Tried'
  <2>1. CASE i \in Tried
    BY <1>7, <2>1
  <2>2. CASE i \in Lower /\ candidate_beats_best(section[row], section[i])
    BY <1>4, <1>5, <2>2
  <2>3. CASE i \in Lower /\ ~candidate_beats_best(section[row], section[i])
    BY <1>1, <1>8, <2>3 DEF Lower
  <2> QED
    BY <1>1, <1>3, <2>1, <2>2, <2>3
<1> QED
  BY <1>9, <1>10 DEF row

\* An opener returns, or is elected and starts a walk.
LEMMA ObserveStep ==
  ASSUME IInv, NEW t \in Threads, Observe(t)
  PROVE  IInv'
<1>1. CASE lifecycle = "OPEN"
  <2> USE <1>1 DEF Observe, Goto, image
  <2>1. TypeOK'
    BY DEF IInv, TypeOK, Pc, OpPc, ClosePc, Rows
  <2>2. CountInv'
    BY Counting DEF IInv, CountInv, Inside, TypeOK
  <2>3. OwnerInv' /\ UseInv' /\ OpsInv'
    BY DEF IInv, TypeOK, OwnerInv, UseInv, OpsInv, InitPc, TearPc
  <2>4. WalkInv' /\ ChosenInv'
    BY WalkKept, ChosenKept DEF IInv, TypeOK
  <2> QED
    BY <2>1, <2>2, <2>3, <2>4 DEF IInv
<1>2. CASE lifecycle # "OPEN"
  <2> DEFINE row == select_in_range(section, SocRef, NoRow)
  <2>1. /\ pc[t] = "open" /\ lifecycle = "UNOPENED" /\ lifecycle' = "OPENING" /\ declined' = {}
        /\ be' = [be EXCEPT ![t] = row] /\ pc' = [pc EXCEPT ![t] = "walk"]
        /\ UNCHANGED <<section, RequireHw, active_ops, ops, assurance>>
    BY <1>2 DEF Observe, Goto, Becomes, image
  <2>2. TypeOK
    BY DEF IInv
  <2>3. row \in Rows \cup {NoRow} /\ BestIn(row, Lower')
    BY <2>1, <2>2, WalkStarts, WalkGoesOn
  <2> HIDE DEF row
  <2>4. TypeOK'
    BY <2>1, <2>2, <2>3 DEF TypeOK, Pc, OpPc, ClosePc, Rows
  <2>5. CountInv'
    BY <2>1, Counting DEF IInv, CountInv, Inside, TypeOK
  <2>6. OwnerInv' /\ UseInv' /\ OpsInv'
    BY <2>1 DEF IInv, TypeOK, OwnerInv, UseInv, OpsInv, InitPc, TearPc
  <2>7. WalkInv'
    <3>1. \A u \in Threads : pc'[u] = "walk" => u = t
      BY <2>1, <2>2 DEF IInv, OwnerInv, InitPc, TypeOK
    <3>2. be'[t] = row /\ Rows' = Rows
      BY <2>1, <2>2 DEF TypeOK, Rows
    <3> QED
      BY <2>1, <2>2, <2>3, <3>1, <3>2, WalkStarts DEF WalkInv, BestIn
  <2>8. ChosenInv'
    <3>1. ~\E u \in Threads : pc'[u] \in {"open_done", "open_failed"}
      BY <2>1, <2>2 DEF IInv, OwnerInv, InitPc, TypeOK
    <3> QED
      BY <2>1, <3>1 DEF ChosenInv
  <2> QED
    BY <2>4, <2>5, <2>6, <2>7, <2>8 DEF IInv
<1> QED
  BY <1>1, <1>2

\* The row at hand is ready, faults, or declines.
LEMMA TryRowStep ==
  ASSUME IInv, NEW t \in Threads, NEW rc, TryRow(t, rc)
  PROVE  IInv'
<1> DEFINE row == be[t]
           weak == RequireHw /\ section[row].tier # "HW_ENFORCED"
<1>1. TypeOK /\ pc[t] = "walk" /\ row # NoRow /\ row \in Rows
      /\ lifecycle = "OPENING"
      /\ UNCHANGED <<section, RequireHw, lifecycle, active_ops>>
      /\ \A u \in Threads : pc[u] \in InitPc => u = t
  BY DEF IInv, TypeOK, TryRow, guard, image, OwnerInv, InitPc
<1>2. section[row].tier \in Tiers
  BY <1>1, SectionShape DEF TypeOK
<1>3. CASE rc = "OK" /\ ~weak
  <2>1. /\ ops' = row /\ assurance' = section[row].tier /\ pc' = [pc EXCEPT ![t] = "open_done"]
        /\ UNCHANGED <<declined, be>>
    BY <1>3 DEF TryRow, Goto
  <2>2. TypeOK'
    BY <1>1, <1>2, <2>1 DEF TypeOK, Pc, Rows
  <2>3. CountInv'
    BY <1>1, <2>1, Counting DEF IInv, CountInv, Inside, TypeOK
  <2>4. OwnerInv' /\ UseInv'
    BY <1>1, <2>1 DEF IInv, TypeOK, OwnerInv, UseInv, InitPc, TearPc
  <2>5. OpsInv'
    BY <1>1, <2>1 DEF OpsInv
  <2>6. WalkInv'
    BY <1>1, <2>1, WalkKept DEF TypeOK
  <2>7. Chosen'
    <3>1. RequireHw => assurance' = "HW_ENFORCED"
      BY <1>3, <2>1
    <3>2. ASSUME NEW i \in Rows, Fits(i), candidate_beats_best(section[i], section[row])
          PROVE  HadItsChance(i)
      BY <1>1, <3>2 DEF IInv, WalkInv, BestIn, Fitting, Lower, Tried
    <3> HIDE DEF row
    <3> QED
      BY <1>1, <2>1, <3>1, <3>2 DEF Chosen, HadItsChance, Fits, Rows
  <2>8. ChosenInv'
    <3>1. \A u \in Threads : pc'[u] # "open_failed"
      BY <1>1, <2>1 DEF TypeOK, InitPc
    <3> QED
      BY <2>7, <3>1 DEF ChosenInv
  <2> QED
    BY <2>2, <2>3, <2>4, <2>5, <2>6, <2>8 DEF IInv
<1>4. CASE ~(rc = "OK" /\ ~weak) /\ rc = "FAULT"
  <2>1. pc' = [pc EXCEPT ![t] = "open_failed"] /\ UNCHANGED <<ops, assurance, declined, be>>
    BY <1>4 DEF TryRow, Goto
  <2>2. TypeOK'
    BY <1>1, <2>1 DEF TypeOK, Pc, Rows
  <2>3. CountInv'
    BY <1>1, <2>1, Counting DEF IInv, CountInv, Inside, TypeOK
  <2>4. OwnerInv' /\ UseInv' /\ OpsInv'
    BY <1>1, <2>1 DEF IInv, TypeOK, OwnerInv, UseInv, OpsInv, InitPc, TearPc
  <2>5. WalkInv' /\ ChosenInv'
    BY <1>1, <2>1, WalkKept, ChosenKept DEF TypeOK
  <2> QED
    BY <2>2, <2>3, <2>4, <2>5 DEF IInv
<1>5. CASE ~(rc = "OK" /\ ~weak) /\ rc # "FAULT"
  <2> DEFINE next == select_in_range(section, SocRef, row)
  <2>1. /\ declined' = declined \cup {row} /\ be' = [be EXCEPT ![t] = next]
        /\ UNCHANGED <<ops, assurance, pc>>
    BY <1>5 DEF TryRow, Becomes
  <2>2. Fitting' \subseteq Lower' \cup Tried'
    BY <1>1, <2>1, RowDeclines
  <2>3. next \in Rows \cup {NoRow} /\ BestIn(next, Lower')
    BY <1>1, <2>1, RowDeclines, WalkGoesOn
  <2> HIDE DEF next
  <2>4. TypeOK'
    BY <1>1, <2>1, <2>3 DEF TypeOK, Rows
  <2>5. CountInv' /\ OwnerInv' /\ UseInv' /\ OpsInv'
    BY <1>1, <2>1 DEF IInv, CountInv, Inside, OwnerInv, UseInv, OpsInv
  <2>6. WalkInv'
    <3>1. \A u \in Threads : pc'[u] = "walk" => u = t
      BY <1>1, <2>1 DEF InitPc
    <3>2. be'[t] = next /\ Rows' = Rows
      BY <1>1, <2>1 DEF TypeOK, Rows
    <3> QED
      BY <1>1, <2>2, <2>3, <3>1, <3>2 DEF WalkInv, BestIn
  <2>7. ChosenInv'
    <3>1. \A u \in Threads : pc'[u] \notin {"open_done", "open_failed"}
      BY <1>1, <2>1 DEF InitPc
    <3> QED
      BY <1>1, <3>1 DEF ChosenInv
  <2> QED
    BY <2>4, <2>5, <2>6, <2>7 DEF IInv
<1> QED
  BY <1>3, <1>4, <1>5

\* A walk that is exhausted gave every fitting row its chance.
LEMMA NoMoreRowsStep ==
  ASSUME IInv, NEW t \in Threads, NoMoreRows(t)
  PROVE  IInv'
<1> USE DEF NoMoreRows, Goto, guard, image
<1>1. TypeOK'
  BY DEF IInv, TypeOK, Pc, Rows
<1>2. CountInv'
  BY Counting DEF IInv, CountInv, Inside, TypeOK
<1>3. OwnerInv' /\ UseInv' /\ OpsInv'
  BY DEF IInv, TypeOK, OwnerInv, UseInv, OpsInv, InitPc, TearPc
<1>4. WalkInv'
  BY WalkKept DEF IInv, TypeOK
<1>5. ChosenInv'
  <2>1. \A i \in Rows : Fits(i) => HadItsChance(i)
    BY SectionShape DEF IInv, TypeOK, WalkInv, BestIn, Fitting, Lower, Tried
  <2>2. \A i \in Rows' : Fits(i)' => HadItsChance(i)'
    BY <2>1 DEF Fits, HadItsChance, Rows
  <2>3. lifecycle' # "OPEN" /\ \A u \in Threads : pc'[u] # "open_done"
    BY DEF IInv, TypeOK, OwnerInv, InitPc
  <2> QED
    BY <2>2, <2>3 DEF ChosenInv
<1> QED
  BY <1>1, <1>2, <1>3, <1>4, <1>5 DEF IInv

\* The initializer publishes its outcome.
LEMMA OpenDoneStep ==
  ASSUME IInv, NEW t \in Threads, OpenDone(t)
  PROVE  IInv'
<1> USE DEF OpenDone, Goto, Becomes, image
<1>0. lifecycle = "OPENING" /\ TypeOK
  BY DEF IInv, OwnerInv, InitPc
<1>1. TypeOK'
  BY DEF IInv, TypeOK, Pc, Rows
<1>2. CountInv'
  BY Counting DEF IInv, CountInv, Inside, TypeOK
<1>3. OwnerInv' /\ UseInv' /\ OpsInv'
  BY <1>0 DEF IInv, TypeOK, OwnerInv, UseInv, OpsInv, InitPc, TearPc
<1>4. WalkInv' /\ ChosenInv'
  <2>1. \A u \in Threads : pc'[u] \notin InitPc
    BY <1>0 DEF IInv, OwnerInv, InitPc, TypeOK
  <2> QED
    BY <2>1, WalkKept, ChosenKept DEF InitPc
<1> QED
  BY <1>1, <1>2, <1>3, <1>4 DEF IInv

\* The two steps that change the count.
LEMMA CountStep ==
  ASSUME IInv, NEW t \in Threads, OpAdd(t) \/ OpLeave(t)
  PROVE  IInv'
<1> USE DEF OpAdd, OpLeave, Goto, image
<1>1. CountInv' /\ active_ops' \in 0..Cardinality(Threads)
  BY Counting DEF IInv, CountInv, Inside, TypeOK
<1>2. TypeOK'
  BY <1>1 DEF IInv, TypeOK, Pc, OpPc, Rows
<1>3. OwnerInv' /\ UseInv' /\ OpsInv'
  BY DEF IInv, TypeOK, OwnerInv, UseInv, OpsInv, InitPc, TearPc
<1>4. WalkInv' /\ ChosenInv'
  BY WalkKept, ChosenKept DEF IInv, TypeOK
<1> QED
  BY <1>1, <1>2, <1>3, <1>4 DEF IInv

\* An op that finds the handle OPEN has its backend.
LEMMA OpCheckStep ==
  ASSUME IInv, NEW t \in Threads, OpCheck(t)
  PROVE  IInv'
<1>1. CASE lifecycle # "OPEN"
  BY <1>1, Move DEF OpCheck, Goto
<1>2. CASE lifecycle = "OPEN"
  <2> USE <1>2 DEF OpCheck, Goto, guard, image
  <2>1. TypeOK'
    BY DEF IInv, TypeOK, Pc, OpPc, Rows
  <2>2. CountInv'
    BY Counting DEF IInv, CountInv, Inside, TypeOK
  <2>3. OwnerInv' /\ UseInv' /\ OpsInv'
    BY DEF IInv, TypeOK, OwnerInv, UseInv, OpsInv, InitPc, TearPc
  <2>4. WalkInv' /\ ChosenInv'
    BY WalkKept, ChosenKept DEF IInv, TypeOK
  <2> QED
    BY <2>1, <2>2, <2>3, <2>4 DEF IInv
<1> QED
  BY <1>1, <1>2

\* The first and the last step of close().
LEMMA CloseStep ==
  ASSUME IInv, NEW t \in Threads, Elect(t) \/ Unopen(t)
  PROVE  IInv'
<1> USE DEF Elect, Unopen, Goto, image
<1>1. TypeOK'
  BY DEF IInv, TypeOK, Pc, ClosePc, Rows
<1>2. CountInv'
  BY Counting DEF IInv, CountInv, Inside, TypeOK
<1>3. OwnerInv'
  BY DEF IInv, TypeOK, OwnerInv, InitPc, TearPc
<1>4. UseInv'
  BY DEF IInv, TypeOK, OwnerInv, UseInv, TearPc
<1>5. OpsInv'
  BY DEF IInv, TypeOK, OwnerInv, OpsInv, InitPc, TearPc
<1>6. WalkInv' /\ ChosenInv'
  BY WalkKept, ChosenKept DEF IInv, TypeOK
<1> QED
  BY <1>1, <1>2, <1>3, <1>4, <1>5, <1>6 DEF IInv

\* close() goes on only when no op is inside.
LEMMA DrainStep ==
  ASSUME IInv, NEW t \in Threads, Drain(t)
  PROVE  IInv'
<1> USE DEF Drain, Goto, guard, image
<1>1. TypeOK'
  BY DEF IInv, TypeOK, Pc, ClosePc, Rows
<1>2. CountInv'
  BY Counting DEF IInv, CountInv, Inside, TypeOK
<1>3. OwnerInv' /\ OpsInv'
  BY DEF IInv, TypeOK, OwnerInv, OpsInv, InitPc, TearPc
<1>4. UseInv'
  <2>1. Inside = {}
    BY Counting, FS_EmptySet DEF IInv, CountInv
  <2>2. \A u \in Threads : pc[u] \notin {"body", "leave"}
    BY <2>1 DEF Inside
  <2> QED
    BY <2>2 DEF IInv, TypeOK, UseInv
<1>5. WalkInv' /\ ChosenInv'
  BY WalkKept, ChosenKept DEF IInv, TypeOK
<1> QED
  BY <1>1, <1>2, <1>3, <1>4, <1>5 DEF IInv

\* The ops are dropped with no op inside and no initializer at work.
LEMMA DropOpsStep ==
  ASSUME IInv, NEW t \in Threads, DropOps(t)
  PROVE  IInv'
<1> USE DEF DropOps, Goto, guard, image
<1>0. lifecycle = "CLOSING" /\ \A u \in Threads : pc[u] \in TearPc \/ pc[u] \in InitPc => u = t
  BY DEF IInv, OwnerInv, TearPc, InitPc
<1>1. TypeOK'
  BY DEF IInv, TypeOK, Pc, ClosePc, Rows
<1>2. CountInv'
  BY Counting DEF IInv, CountInv, Inside, TypeOK
<1>3. OwnerInv' /\ UseInv'
  BY DEF IInv, TypeOK, OwnerInv, UseInv, InitPc, TearPc
<1>4. OpsInv'
  BY <1>0 DEF IInv, TypeOK, OpsInv, TearPc, InitPc
<1>5. WalkInv'
  BY WalkKept DEF IInv, TypeOK
<1>6. ChosenInv'
  BY <1>0 DEF IInv, ChosenInv, TypeOK, TearPc, InitPc
<1> QED
  BY <1>1, <1>2, <1>3, <1>4, <1>5, <1>6 DEF IInv

\* The initial states satisfy the inductive invariant.
LEMMA InitHolds == Init => IInv
<1> SUFFICES ASSUME Init PROVE IInv
  OBVIOUS
<1>1. Inside = {}
  BY DEF Init, Inside
<1>2. CountInv /\ Cardinality(Threads) \in Nat
  BY <1>1, FS_EmptySet, FS_CardinalityType DEF Init, CountInv
<1>3. TypeOK
  BY <1>2 DEF Init, TypeOK, Pc, Tiers
<1>4. OwnerInv /\ UseInv /\ OpsInv /\ WalkInv /\ ChosenInv
  BY DEF Init, OwnerInv, UseInv, OpsInv, WalkInv, ChosenInv, InitPc, TearPc
<1> QED
  BY <1>2, <1>3, <1>4 DEF IInv

\* Every step preserves it.
LEMMA Inductive == IInv /\ [Next]_vars => IInv'
<1> SUFFICES ASSUME IInv, [Next]_vars PROVE IInv'
  OBVIOUS
<1>1. CASE UNCHANGED vars
  BY <1>1 DEF vars, guard, image, IInv, TypeOK, CountInv, Inside, OwnerInv, UseInv, OpsInv,
              WalkInv, BestIn, Fitting, Lower, Tried, ChosenInv, Chosen, Below, HadItsChance,
              Fits, Rows
<1>2. ASSUME NEW t \in Threads, Call(t) PROVE IInv'
  BY <1>2, Move DEF Call, StartOpen, StartOp, StartClose, Goto
<1>3. ASSUME NEW t \in Threads, Step(t) PROVE IInv'
  <2>1. CASE Body(t)
    BY <2>1, Move DEF Body, Goto
  <2> QED
    BY <1>3, <2>1, ObserveStep, TryRowStep, NoMoreRowsStep, OpenDoneStep, CountStep, OpCheckStep,
       CloseStep, DrainStep, DropOpsStep DEF Step
<1> QED
  BY <1>1, <1>2, <1>3 DEF Next

\* So it always holds.
LEMMA Invariance == Spec => []IInv
BY InitHolds, Inductive, PTL DEF Spec

-----------------------------------------------------------------------------
\* The state of the singleton handle stays well-typed: the op count of
\* alp_update_log_*() is never negative and never above the number of threads.
THEOREM TypeCorrect == Spec => []TypeOK
<1>1. IInv => TypeOK
  BY DEF IInv
<1> QED
  BY <1>1, Invariance, PTL

\* For any number of threads, no op of update_log_dispatch.c dereferences
\* g_log.ops while close() or an initializer changes it.
THEOREM OpsAreStable == Spec => []OpsStable
<1>1. IInv => OpsStable
  BY DEF IInv, UseInv, OpsInv, OwnerInv, TearPc, OpsStable
<1> QED
  BY <1>1, Invariance, PTL

\* The compare-and-swaps of alp_update_log_open() and close() elect exactly one
\* initializer while the handle is OPENING and one closer while it is CLOSING.
THEOREM OneInitializerAtATime == Spec => []OneInitializer
<1>1. ASSUME IInv PROVE OneInitializer
  <2> DEFINE inits == {t \in Threads : pc[t] \in InitPc}
             closers == {t \in Threads : pc[t] \in TearPc}
  <2>1. Cardinality(inits) = IF inits = {} THEN 0 ELSE 1
    BY <1>1, AtMostOne DEF IInv, OwnerInv
  <2>2. Cardinality(closers) = IF closers = {} THEN 0 ELSE 1
    BY <1>1, AtMostOne DEF IInv, OwnerInv
  <2>3. (inits = {} <=> lifecycle # "OPENING") /\ (closers = {} <=> lifecycle # "CLOSING")
    BY <1>1 DEF IInv, OwnerInv
  <2> QED
    BY <2>1, <2>2, <2>3 DEF OneInitializer, InitPc, TearPc
<1> QED
  BY <1>1, Invariance, PTL

\* Rows that fit and tie are equal, as no class registers duplicates.
LEMMA TiesAreOneRow ==
  ASSUME TypeOK, NEW i \in Fitting, NEW j \in Fitting, Tied(section[i], section[j])
  PROVE  section[i] = section[j]
<1>1. i \in Rows /\ j \in Rows /\ AnyRow(section[i]) /\ AnyRow(section[j])
  BY SectionShape DEF TypeOK, Fitting
<1>2. /\ section[i].priority = section[j].priority /\ section[i].vendor = section[j].vendor
      /\ is_wildcard(section[i]) <=> is_wildcard(section[j])
  BY <1>1, TiesAreFullTies
<1>3. section[i].silicon_ref \in {Wildcard, SocRef} /\ section[i].silicon_ref = section[j].silicon_ref
  BY <1>2 DEF Fitting, Fits, is_wildcard
<1> QED
  BY <1>1, <1>2, <1>3, NoDuplicatesAssumption DEF TypeOK, Rows

\* _elect_backend() visits the rows of any image in rank order: the row it tries
\* next is a function of the set of rows, not of the order they were linked in.
THEOREM WalkIsLinkOrderIndependent == Spec => []LinkOrderIndependent
<1>1. ASSUME IInv, NEW t \in Threads, pc[t] = "walk"
      PROVE  LET R == {section[i] : i \in {j \in Rows : Below(j)}} IN
             IF R = {} THEN be[t] = NoRow ELSE be[t] # NoRow /\ section[be[t]] = Best(R)
  <2> DEFINE R == {section[i] : i \in Lower}
             IsBest(b) == b \in R /\ \A r \in R : ~candidate_beats_best(r, b)
  <2>1. BestIn(be[t], Lower) /\ TypeOK
    BY <1>1 DEF IInv, WalkInv
  <2>2. CASE Lower = {}
    BY <2>1, <2>2 DEF BestIn, Lower
  <2>3. CASE Lower # {}
    <3>1. be[t] \in Lower /\ \A i \in Lower : ~candidate_beats_best(section[i], section[be[t]])
      BY <2>1, <2>3 DEF BestIn
    <3>2. be[t] # NoRow
      BY <2>1, <3>1, SectionShape DEF TypeOK, Lower
    <3>3. IsBest(section[be[t]])
      BY <3>1
    <3>4. ASSUME NEW b, IsBest(b) PROVE b = section[be[t]]
      <4>1. PICK i \in Lower : b = section[i]
        BY <3>4
      <4>2. Tied(section[i], section[be[t]])
        BY <3>1, <3>4, <4>1 DEF Tied
      <4>3. i \in Fitting /\ be[t] \in Fitting
        BY <3>1, <4>1 DEF Lower, Fitting, Below
      <4> QED
        BY <2>1, <4>1, <4>2, <4>3, TiesAreOneRow
    <3>5. Best(R) = CHOOSE b : IsBest(b)
      BY DEF Best
    <3> HIDE DEF IsBest
    <3>6. Best(R) = section[be[t]]
      BY <3>3, <3>4, <3>5
    <3> QED
      BY <2>3, <3>2, <3>6 DEF Lower
  <2> QED
    BY <2>2, <2>3
<1>2. IInv => LinkOrderIndependent
  BY <1>1 DEF LinkOrderIndependent
<1> QED
  BY <1>2, Invariance, PTL

\* _elect_backend() never settles for a weaker tier than an image offers, nor
\* than the build demands: what outranks the elected row has declined.
THEOREM BestReadyTierServes == Spec => []BestReadyTier
<1>1. IInv => BestReadyTier
  BY DEF IInv, ChosenInv, Chosen, BestReadyTier
<1> QED
  BY <1>1, Invariance, PTL
=============================================================================
