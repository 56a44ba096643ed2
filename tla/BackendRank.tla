----------------------------- MODULE BackendRank -----------------------------
(***************************************************************************)
(* The backend selector of src/backend.c.  Every class of the SDK has a    *)
(* linker section of backend rows; the selector picks the best row that    *)
(* fits the silicon, or the best one ranking below a row already tried.    *)
(* A row is known by its place in the section, as by its address in C.     *)
(***************************************************************************)
EXTENDS Integers, Sequences, SequencesExt

CONSTANTS
  Wildcard,    \* the silicon_ref "*"
  NullVendor   \* a NULL vendor pointer; vendors are numbered in strcmp order

ASSUME VendorAssumption == NullVendor \in Int

NoRow == 0

is_wildcard(be) == be.silicon_ref = Wildcard

\* Mutant: no vendor tie-break, so link order decides.
beats_without_vendor(cand, best) ==
  IF cand.priority # best.priority THEN cand.priority > best.priority
  ELSE ~is_wildcard(cand) /\ is_wildcard(best)

\* Priority, then an exact silicon_ref before "*", then the lower vendor.
candidate_beats_best(cand, best) ==
  IF cand.priority # best.priority THEN cand.priority > best.priority
  ELSE IF is_wildcard(cand) # is_wildcard(best) THEN ~is_wildcard(cand)
  ELSE /\ cand.vendor # NullVendor
       /\ best.vendor = NullVendor \/ cand.vendor < best.vendor

\* Row i fits silicon ref and ranks below row prev.
Eligible(section, ref, prev, i) ==
  /\ is_wildcard(section[i]) \/ section[i].silicon_ref = ref
  /\ prev # NoRow => (i # prev /\ candidate_beats_best(section[prev], section[i]))

\* Row i of the scan: it replaces the best row so far, or it does not.
Better(section, ref, prev, best, i) ==
  IF /\ Eligible(section, ref, prev, i)
     /\ best = NoRow \/ candidate_beats_best(section[i], section[best])
    THEN i ELSE best

\* One pass over the section, keeping the best row so far.
select_in_range(section, ref, prev) ==
  LET best[n \in 0..Len(section)] ==
        IF n = 0 THEN NoRow ELSE Better(section, ref, prev, best[n - 1], n)
  IN  best[Len(section)]
=============================================================================
