--------------------------- MODULE MCUpdateLogOpen ---------------------------
(* TLC instances of UpdateLogOpen: every section of up to two rows that      *)
(* differ in priority, silicon_ref and vendor, every section of three rows   *)
(* of one priority, and the rows the repository registers for class          *)
(* "update_log", linked in every order.                                      *)
EXTENDS UpdateLogOpen, TLC
ThreadSymmetry == Permutations(Threads)

Row(p, ref, v, tier) == [priority |-> p, silicon_ref |-> ref, vendor |-> v, tier |-> tier]
sw_tier == Row(10, "*", 2, "SW_TAMPER_EVIDENT")
tfm_psa == Row(20, "*", 3, "HW_ENFORCED")
aen_m55_owner(ref) == Row(30, ref, 1, "HW_ENFORCED")

AnyRow(priorities) ==
  {Row(p, ref, v, IF v = 1 THEN "HW_ENFORCED" ELSE "SW_TAMPER_EVIDENT") :
     p \in priorities, ref \in {Wildcard, SocRef}, v \in {1, 2, NullVendor}}

LinkedSections ==
  UNION {[1..n -> AnyRow({10, 30})] : n \in 0..2}
    \cup [1..3 -> AnyRow({30})]
    \cup SetToAllKPermutations({sw_tier, tfm_psa, aen_m55_owner("e4"), aen_m55_owner(SocRef)})
=============================================================================
