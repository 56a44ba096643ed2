------------------------------ MODULE AuditLog ------------------------------
(***************************************************************************)
(* What the secure update log promises its callers: a list that only grows *)
(* at its end, one entry at a time.  At most one entry is in doubt, stored *)
(* but not yet counted; it is settled before the log answers a question    *)
(* about its length or its integrity, and before it takes another entry.   *)
(* get() reads a place as it is stored, the one in doubt included.         *)
(***************************************************************************)
EXTENDS Naturals

CONSTANTS
  Payloads, \* contents of an entry
  None,     \* an empty place
  MaxSeq    \* the last place

VARIABLES
  log,      \* the entry at each place
  settled,  \* how many entries count
  answer    \* what the call that has just returned was told

vars == <<log, settled, answer>>

Places == 0..MaxSeq
Silent == [op |-> "none", rc |-> "OK", val |-> 0]

Init ==
  /\ log = [i \in Places |-> None]
  /\ settled = 0
  /\ answer = Silent

InDoubt == settled \in Places /\ log[settled] # None

\* A call gives up: the storage underneath reported an error.
Failed(a) == a.rc = "FAULT"

\* An append returned: it did what it promises, or there is no place left.
Appended(a) == a.op = "append" /\ (a.rc = "OK" \/ (a.rc = "NOMEM" /\ settled = MaxSeq + 1))

\* The answers of the calls that only look; verify() answers its verdict.
Looked(a) ==
  \/ a.op = "count" /\ a.rc = "OK" /\ a.val = settled /\ ~InDoubt
  \/ a.op = "verify" /\ a.rc = "OK" /\ ~InDoubt
  \/ a.op = "get" /\ a.rc = "OK" /\ a.val \in Places /\ log[a.val] # None
  \/ a.op = "get" /\ a.rc = "NOT_FOUND" /\ (a.val \in Places => log[a.val] = None)

\* One entry becomes durable at the end of the log.
Commit(d) ==
  /\ settled \in Places /\ ~InDoubt
  /\ log' = [log EXCEPT ![settled] = d]
  /\ answer' = Silent \/ Failed(answer')
  /\ UNCHANGED settled

\* The entry in doubt counts from now on.
Settle ==
  /\ InDoubt
  /\ settled' = settled + 1
  /\ answer' = Silent \/ Failed(answer') \/ (answer'.op = "append" /\ answer'.rc = "OK")
  /\ UNCHANGED log

\* A call returns, or the log is busy.
Answer ==
  /\ answer' = Silent \/ Failed(answer') \/ Looked(answer') \/ (Appended(answer') /\ ~InDoubt)
  /\ UNCHANGED <<log, settled>>

Next == (\E d \in Payloads : Commit(d)) \/ Settle \/ Answer

Spec == Init /\ [][Next]_vars
=============================================================================
