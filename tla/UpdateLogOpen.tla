---------------------------- MODULE UpdateLogOpen ----------------------------
(***************************************************************************)
(* The dispatcher of <alp/update_log.h> (src/update_log_dispatch.c): one   *)
(* static handle, opened by electing an initializer that walks the ranked  *)
(* backends of whatever was linked into the image, used through the        *)
(* count-then-check guard of alp_slot_claim.h, and closed by draining.     *)
(* Every opener shares the one handle, so a close by one of them closes it *)
(* for all.                                                                *)
(***************************************************************************)
EXTENDS BackendRank, FiniteSets

CONSTANTS
  Threads,
  Sections,   \* what may be linked: the rows of class "update_log" in link order
  SocRef      \* ALP_SOC_REF_STR

ASSUME ThreadsAssumption == IsFiniteSet(Threads)

Tiers == {"HW_ENFORCED", "SW_TAMPER_EVIDENT"}

\* A section holds rows of alp_backend_t, each with the tier its backend offers.
ASSUME SectionsAssumption ==
  \A sec \in Sections :
    /\ sec \in Seq({sec[i] : i \in DOMAIN sec})
    /\ \A i \in DOMAIN sec :
         sec[i].priority \in Int /\ sec[i].vendor \in Int /\ sec[i].tier \in Tiers

\* "the docs forbid registering duplicate {class, priority, match-type, vendor}
\* rows" (backend.c): rows that fit the silicon and tie are the same row.
ASSUME NoDuplicatesAssumption ==
  \A sec \in Sections : \A i, j \in DOMAIN sec :
    /\ sec[i].silicon_ref \in {Wildcard, SocRef} /\ sec[i].silicon_ref = sec[j].silicon_ref
    /\ sec[i].priority = sec[j].priority /\ sec[i].vendor = sec[j].vendor
    => sec[i] = sec[j]

VARIABLES
  section,                \* the rows of this image, in link order
  RequireHw,              \* CONFIG_ALP_SDK_UPDATE_LOG_REQUIRE_HW_ENFORCED of the build
  lifecycle, active_ops,  \* of g_log
  ops,                    \* g_log.ops: the row chosen, or NoRow
  assurance,              \* g_log.assurance
  declined,               \* history: rows that declined during the last walk
  pc,                     \* per thread: its next step
  be                      \* per thread: the row its walk is at

image == <<section, RequireHw>>
guard == <<image, lifecycle, active_ops>>
vars == <<guard, ops, assurance, declined, pc, be>>

OpPc == {"op_add", "op_chk", "op_back", "body", "leave"}
ClosePc == {"elect", "drain", "drop", "unopen"}
Pc == {"idle", "open", "walk", "open_done", "open_failed"} \cup OpPc \cup ClosePc

Rows == DOMAIN section

Init ==
  /\ section \in Sections
  /\ RequireHw \in BOOLEAN
  /\ lifecycle = "UNOPENED"
  /\ active_ops = 0
  /\ ops = NoRow
  /\ assurance = "SW_TAMPER_EVIDENT"
  /\ declined = {}
  /\ pc = [t \in Threads |-> "idle"]
  /\ be = [t \in Threads |-> NoRow]

Goto(t, l) == pc' = [pc EXCEPT ![t] = l]
Becomes(t, row) == be' = [be EXCEPT ![t] = row]

-----------------------------------------------------------------------------
(* alp_update_log_open()                                                   *)

StartOpen(t) ==
  /\ pc[t] = "idle"
  /\ Goto(t, "open")
  /\ UNCHANGED <<guard, ops, assurance, declined, be>>

\* Mutant: an opener does not wait for the initializer it lost to.
ObserveBlind(t) ==
  /\ pc[t] = "open"
  /\ \/ lifecycle = "OPEN" /\ Goto(t, "idle") /\ UNCHANGED <<lifecycle, declined, be>>
     \/ /\ lifecycle \in {"UNOPENED", "OPENING"}
        /\ lifecycle' = "OPENING"
        /\ declined' = {}
        /\ Becomes(t, select_in_range(section, SocRef, NoRow))
        /\ Goto(t, "walk")
  /\ UNCHANGED <<image, active_ops, ops, assurance>>

\* One pass of the loop: already OPEN, or elected; else sleep and look again.
Observe(t) ==
  /\ pc[t] = "open"
  /\ \/ lifecycle = "OPEN" /\ Goto(t, "idle") /\ UNCHANGED <<lifecycle, declined, be>>
     \/ /\ lifecycle = "UNOPENED"
        /\ lifecycle' = "OPENING"
        /\ declined' = {}
        /\ Becomes(t, select_in_range(section, SocRef, NoRow))
        /\ Goto(t, "walk")
  /\ UNCHANGED <<image, active_ops, ops, assurance>>

\* Mutant: a backend that faults is passed over like an absent one.
TryRowFaultFallsThrough(t, rc) ==
  LET row == be[t]
      weak == RequireHw /\ section[row].tier # "HW_ENFORCED"
  IN
  /\ pc[t] = "walk" /\ row # NoRow
  /\ IF rc = "OK" /\ ~weak
       THEN /\ ops' = row /\ assurance' = section[row].tier
            /\ Goto(t, "open_done") /\ UNCHANGED <<declined, be>>
     ELSE /\ declined' = IF rc = "FAULT" THEN declined ELSE declined \cup {row}
          /\ Becomes(t, select_in_range(section, SocRef, row))
          /\ UNCHANGED <<ops, assurance, pc>>
  /\ UNCHANGED guard

\* One row of _elect_backend(): rc is what its ready() answers.
TryRow(t, rc) ==
  LET row == be[t]
      weak == RequireHw /\ section[row].tier # "HW_ENFORCED"
  IN
  /\ pc[t] = "walk" /\ row # NoRow
  /\ IF rc = "OK" /\ ~weak
       THEN /\ ops' = row /\ assurance' = section[row].tier
            /\ Goto(t, "open_done") /\ UNCHANGED <<declined, be>>
     ELSE IF rc = "FAULT"
       THEN Goto(t, "open_failed") /\ UNCHANGED <<ops, assurance, declined, be>>
     ELSE /\ declined' = declined \cup {row}
          /\ Becomes(t, select_in_range(section, SocRef, row))
          /\ UNCHANGED <<ops, assurance, pc>>
  /\ UNCHANGED guard

\* The walk is exhausted.
NoMoreRows(t) ==
  /\ pc[t] = "walk" /\ be[t] = NoRow
  /\ Goto(t, "open_failed")
  /\ UNCHANGED <<guard, ops, assurance, declined, be>>

OpenDone(t) ==
  /\ pc[t] \in {"open_done", "open_failed"}
  /\ lifecycle' = IF pc[t] = "open_done" THEN "OPEN" ELSE "UNOPENED"
  /\ Becomes(t, NoRow)
  /\ Goto(t, "idle")
  /\ UNCHANGED <<image, active_ops, ops, assurance, declined>>

-----------------------------------------------------------------------------
(* append, append_boot, verify, count and get, all behind the same guard.  *)

StartOp(t) ==
  /\ pc[t] = "idle"
  /\ Goto(t, "op_add")
  /\ UNCHANGED <<guard, ops, assurance, declined, be>>

OpAdd(t) ==
  /\ pc[t] = "op_add"
  /\ active_ops' = active_ops + 1
  /\ Goto(t, "op_chk")
  /\ UNCHANGED <<image, lifecycle, ops, assurance, declined, be>>

\* Mutant: an op on a handle that is not OPEN returns without leaving.
OpCheckLeaks(t) ==
  /\ pc[t] = "op_chk"
  /\ Goto(t, IF lifecycle = "OPEN" THEN "body" ELSE "idle")
  /\ UNCHANGED <<guard, ops, assurance, declined, be>>

OpCheck(t) ==
  /\ pc[t] = "op_chk"
  /\ Goto(t, IF lifecycle = "OPEN" THEN "body" ELSE "op_back")
  /\ UNCHANGED <<guard, ops, assurance, declined, be>>

\* log->ops is dereferenced and the backend's function runs.
Body(t) ==
  /\ pc[t] = "body"
  /\ Goto(t, "leave")
  /\ UNCHANGED <<guard, ops, assurance, declined, be>>

\* The op leaves, or backs out of a handle that is not OPEN.
OpLeave(t) ==
  /\ pc[t] \in {"leave", "op_back"}
  /\ active_ops' = active_ops - 1
  /\ Goto(t, "idle")
  /\ UNCHANGED <<image, lifecycle, ops, assurance, declined, be>>

-----------------------------------------------------------------------------
(* alp_update_log_close()                                                  *)

StartClose(t) ==
  /\ pc[t] = "idle"
  /\ Goto(t, "elect")
  /\ UNCHANGED <<guard, ops, assurance, declined, be>>

Elect(t) ==
  /\ pc[t] = "elect"
  /\ IF lifecycle = "OPEN"
       THEN lifecycle' = "CLOSING" /\ Goto(t, "drain")
       ELSE Goto(t, "idle") /\ UNCHANGED lifecycle
  /\ UNCHANGED <<image, active_ops, ops, assurance, declined, be>>

\* Mutant: close() does not wait for the ops in flight.
DrainSkipped(t) ==
  /\ pc[t] = "drain"
  /\ Goto(t, "drop")
  /\ UNCHANGED <<guard, ops, assurance, declined, be>>

Drain(t) ==
  /\ pc[t] = "drain" /\ active_ops = 0
  /\ Goto(t, "drop")
  /\ UNCHANGED <<guard, ops, assurance, declined, be>>

DropOps(t) ==
  /\ pc[t] = "drop"
  /\ ops' = NoRow
  /\ Goto(t, "unopen")
  /\ UNCHANGED <<guard, assurance, declined, be>>

Unopen(t) ==
  /\ pc[t] = "unopen"
  /\ lifecycle' = "UNOPENED"
  /\ Goto(t, "idle")
  /\ UNCHANGED <<image, active_ops, ops, assurance, declined, be>>

-----------------------------------------------------------------------------
Call(t) == StartOpen(t) \/ StartOp(t) \/ StartClose(t)

Step(t) ==
  \/ Observe(t) \/ NoMoreRows(t) \/ OpenDone(t)
  \/ \E rc \in {"OK", "NOSUPPORT", "FAULT"} : TryRow(t, rc)
  \/ OpAdd(t) \/ OpCheck(t) \/ Body(t) \/ OpLeave(t)
  \/ Elect(t) \/ Drain(t) \/ DropOps(t) \/ Unopen(t)

Next == \E t \in Threads : Call(t) \/ Step(t)

Spec == Init /\ [][Next]_vars

-----------------------------------------------------------------------------
Fits(row) == is_wildcard(section[row]) \/ section[row].silicon_ref = SocRef

TypeOK ==
  /\ section \in Sections
  /\ RequireHw \in BOOLEAN
  /\ lifecycle \in {"UNOPENED", "OPENING", "OPEN", "CLOSING"}
  /\ active_ops \in 0..Cardinality(Threads)
  /\ ops \in Rows \cup {NoRow}
  /\ assurance \in Tiers
  /\ declined \subseteq Rows
  /\ pc \in [Threads -> Pc]
  /\ be \in [Threads -> Rows \cup {NoRow}]

\* No op dereferences the ops pointer while close() or the initializer changes
\* it: inside an op the handle has its backend, and the one last elected.
OpsStable ==
  \A t \in Threads : pc[t] \in {"body", "leave"} =>
    ops # NoRow /\ assurance = section[ops].tier

\* One thread at a time initializes or tears down the singleton, and only in
\* the lifecycle state that announces it.
OneInitializer ==
  LET inits == {t \in Threads : pc[t] \in {"walk", "open_done", "open_failed"}}
      closers == {t \in Threads : pc[t] \in {"drain", "drop", "unopen"}}
  IN  /\ Cardinality(inits) = (IF lifecycle = "OPENING" THEN 1 ELSE 0)
      /\ Cardinality(closers) = (IF lifecycle = "CLOSING" THEN 1 ELSE 0)

\* The reference: a row of the set R that no other row of R beats.
Best(R) == CHOOSE b \in R : \A r \in R : ~candidate_beats_best(r, b)

\* A row i that fits, once the rows in declined are out: it ranks below them all.
Below(i) == Fits(i) /\ \A d \in declined : candidate_beats_best(section[d], section[i])

\* The walk tries the best row that ranks below everything that declined.  It
\* depends on the set of rows only, never on the link order, comes back to no
\* row, and ends when nothing ranks lower.
LinkOrderIndependent ==
  \A t \in Threads : pc[t] = "walk" =>
    LET R == {section[i] : i \in {j \in Rows : Below(j)}} IN
    IF R = {} THEN be[t] = NoRow ELSE be[t] # NoRow /\ section[be[t]] = Best(R)

\* Row i had its chance: it declined, or it ties with one that did.
HadItsChance(i) ==
  \E d \in declined : /\ ~candidate_beats_best(section[d], section[i])
                      /\ ~candidate_beats_best(section[i], section[d])

\* The log is never served by a weaker tier than it could be, nor than the
\* build demands: every fitting row that outranks the one chosen has said
\* NOSUPPORT in this very walk (or was refused for its assurance), and so has
\* every fitting row when the walk ends without one; a fault ends the walk.
BestReadyTier ==
  /\ lifecycle = "OPEN" =>
       /\ RequireHw => assurance = "HW_ENFORCED"
       /\ \A i \in Rows :
            (Fits(i) /\ candidate_beats_best(section[i], section[ops])) => HadItsChance(i)
  /\ \A t \in Threads : (pc[t] = "open_failed" /\ be[t] = NoRow) =>
       \A i \in Rows : Fits(i) => HadItsChance(i)
=============================================================================
